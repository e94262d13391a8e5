---------------------------- MODULE MCPresentation ----------------------------
EXTENDS DiscordPresentation

CONSTANTS MaxHead, MaxTail

Run(c, n) == [i \in 1..n |-> c]

\* Code blocks with one line of MaxHead characters at most, one or two
\* newlines, and a line of MaxTail characters at most.
CodeBlocks ==
    {Reopened \o Run("x", a) \o Run(Newline, b) \o Run("x", c) \o <<Newline>> \o Fence :
        a \in 1..MaxHead, b \in 1..2, c \in 0..MaxTail}
=============================================================================
