-------------------------- MODULE DiscordPresentation --------------------------
(***************************************************************************)
(* SplitMessage (internal/discord/presentation.go): an answer that is too  *)
(* long for one message is cut at natural boundaries, and a code block     *)
(* that is cut is closed in one message and opened again in the next.      *)
(*                                                                         *)
(* A text is a sequence over fence marks, newlines, spaces and any other   *)
(* character.  One step is one iteration of the loop.                      *)
(***************************************************************************)
EXTENDS Integers, Sequences, FiniteSetsExt

CONSTANTS Texts,  \* texts to split
          Limit   \* runes of a message, more than a fence takes

VARIABLES remaining, \* what is not yet sent
          chunk,     \* the message produced last
          odd,       \* the number of chunks is odd
          split      \* SplitMessage has returned

splitVars == <<remaining, chunk, odd, split>>

Tick == "tick"
Newline == "newline"
Space == "space"
Fence == <<Tick, Tick, Tick>>
Reopened == Fence \o <<Newline>>

SplitInit == remaining \in Texts /\ chunk = <<>> /\ odd = FALSE /\ split = FALSE

At(text, part, i) == i + Len(part) - 1 <= Len(text) /\ SubSeq(text, i, i + Len(part) - 1) = part

\* strings.LastIndex, from 0; 0 also when there is no separator, for the loop
\* of splitPoint skips both.
LastIndex(window, separator) == Max({0} \cup {i - 1 : i \in {j \in 1..Len(window) : At(window, separator, j)}})

\* splitPoint: the last paragraph, else the last line, else the last word.
SplitPoint(text, limit) ==
    LET window == SubSeq(text, 1, limit)
        cuts == [k \in 1..3 |-> LastIndex(window, <<<<Newline, Newline>>, <<Newline>>, <<Space>>>>[k])]
        found == {k \in 1..3 : cuts[k] > 0} IN
    IF found = {} THEN limit ELSE cuts[Min(found)]

\* startsWithPlainFence
StartsWithPlainFence(text) == At(text, Reopened, 1)

\* endsInsideCodeBlock: fences opened so far, the rest of a fence's line skipped.
EndsInsideCodeBlock(text) ==
    LET fences[i \in 1..Len(text) + 3] ==
          IF i > Len(text) - 2 THEN 0
          ELSE IF At(text, Fence, i)
               THEN 1 + fences[Min({Len(text) + 1} \cup {j \in i + 3..Len(text) : text[j] = Newline})]
               ELSE fences[i + 1]
    IN  fences[1] % 2 = 1

\* Where the loop cuts: past a reopened fence, and with room for the closing
\* one.
Forced(cut) == IF StartsWithPlainFence(remaining) /\ cut <= 3 THEN Limit - 4 ELSE cut
Cut ==
    LET first == Forced(SplitPoint(remaining, Limit))
        inside == EndsInsideCodeBlock(SubSeq(remaining, 1, first)) IN
    IF inside /\ first + 4 > Limit THEN Forced(SplitPoint(remaining, Limit - 4)) ELSE first

Inside == EndsInsideCodeBlock(SubSeq(remaining, 1, Forced(SplitPoint(remaining, Limit))))
Rest(cut) == SubSeq(remaining, cut + 1, Len(remaining))

\* One iteration: a block that was cut is closed and opened again.
SplitStep ==
    /\ ~split /\ Len(remaining) > Limit
    /\ chunk' = SubSeq(remaining, 1, Cut) \o (IF Inside THEN <<Newline>> \o Fence ELSE <<>>)
    /\ remaining' = (IF Inside THEN Reopened ELSE <<>>) \o Rest(Cut)
    /\ odd' = ~odd
    /\ UNCHANGED split

\* The last chunk, and the return.
SplitReturn ==
    /\ ~split /\ Len(remaining) <= Limit
    /\ chunk' = remaining /\ remaining' = <<>> /\ odd' = ~odd /\ split' = TRUE

SplitNext == SplitStep \/ SplitReturn
SplitSpec == SplitInit /\ [][SplitNext]_splitVars /\ WF_splitVars(SplitNext)

\* Every chunk fits into a message and leaves no code block open, as
\* TestSplitMessagePreservesNaturalBoundariesAndCodeFences asks of one text.
ChunksFit == Len(chunk) <= Limit /\ ~EndsInsideCodeBlock(chunk)

\* SplitMessage returns: the test expects chunks of a code block longer than
\* the limit.
SplitReturns == <>split
=============================================================================
