--------------------------- MODULE AnswerAlgorithms ---------------------------
(***************************************************************************)
(* The pure algorithms behind an answer: how the prompt is fitted into the *)
(* context of the model (internal/agents/guardrails.go), how hits of       *)
(* several wikis are merged (retrieval.go) and how the result of a tool is *)
(* truncated (internal/modelbudget).  A text is its length in bytes.       *)
(***************************************************************************)
EXTENDS Integers, Sequences

CONSTANT MaxSample  \* bound: size of the inputs that are tried

ASSUME SampleAssumption == MaxSample \in Nat \ {0}

\* What a loop that runs n times has computed before its first iteration, and
\* after each: step[i] maps what it has to what it has after iteration i.
Loop(step, start, n) ==
    LET after[i \in 0..n] == IF i = 0 THEN start ELSE step[i][after[i - 1]]
    IN  after

\* Mutant: rounds down.
EstimateTokens_Floor(bytes) == bytes \div 4

\* modelbudget.EstimateTokens
EstimateTokens(bytes) == (bytes + 3) \div 4

-----------------------------------------------------------------------------
\* A message of the transcript is its role and the bytes of its content.
Roles == {"SYSTEM", "USER", "ASSISTANT"}
Message == [role : Roles, bytes : Nat]

RoleBytes(message) == CASE message.role = "USER" -> 4 [] message.role = "ASSISTANT" -> 9 [] OTHER -> 6

\* estimateTokens: at least one token.
Cost(bytes) == IF EstimateTokens(bytes) < 1 THEN 1 ELSE EstimateTokens(bytes)

\* The messages (oldest first) and the evidence (best first) are the items p of
\* one sequence.
ItemCost(messages, evidence, p) ==
    IF p <= Len(messages) THEN Cost(RoleBytes(messages[p])) + Cost(messages[p].bytes)
    ELSE Cost(evidence[p - Len(messages)])

ItemBytes(messages, evidence, p) ==
    IF p <= Len(messages) THEN RoleBytes(messages[p]) + messages[p].bytes
    ELSE evidence[p - Len(messages)]

IsLastUser(messages, u) ==
    /\ u \in 1..Len(messages) /\ messages[u].role = "USER"
    /\ \A i \in u + 1..Len(messages) : messages[i].role # "USER"

\* The item considered i-th: the last message of the user (u of n messages),
\* the other messages from the newest to the oldest, then the evidence.
Considered(u, n, i) ==
    CASE i = 1 -> u
      [] i # 1 /\ i <= n - u + 1 -> n + 2 - i
      [] i # 1 /\ i > n - u + 1 /\ i <= n -> n + 1 - i
      [] OTHER -> i

NothingFits == [used |-> 0, selected |-> {}]

\* budgetInitial: the system prompt and the user's message must fit, then each
\* item is kept that fits with what is kept already.
BudgetInitial(available, system, messages, evidence) ==
    LET n == Len(messages)
        count == n + Len(evidence)
        u == CHOOSE p \in 1..n : IsLastUser(messages, p)
        cost(i) == ItemCost(messages, evidence, Considered(u, n, i))
        take == [i \in 1..count |-> [used \in Nat |-> IF used + cost(i) > available THEN used ELSE used + cost(i)]]
        used == Loop(take, Cost(system), count)
    IN  IF \/ Cost(system) >= available
           \/ ~ \E p \in 1..n : IsLastUser(messages, p)
           \/ Cost(system) + cost(1) > available
        THEN NothingFits
        ELSE [used |-> used[count],
              selected |-> {Considered(u, n, i) : i \in {j \in 1..count : used[j] # used[j - 1]}}]

\* f[1] + ... + f[n]
Total(f, n) == Loop([i \in 1..n |-> [sum \in Nat |-> sum + f[i]]], 0, n)[n]

\* The prompt is what it is reported to cost, which is within the context, at
\* four bytes a token too.  It keeps the user's message, and drops nothing
\* that would still fit.  There is none only if that message does not fit.
BudgetSound(available, system, messages, evidence) ==
    LET b == BudgetInitial(available, system, messages, evidence)
        items == 1..(Len(messages) + Len(evidence))
        costs == [p \in items |-> IF p \in b.selected THEN ItemCost(messages, evidence, p) ELSE 0]
        bytes == [p \in items |-> IF p \in b.selected THEN ItemBytes(messages, evidence, p) ELSE 0]
    IN  IF b = NothingFits
        THEN \A u \in items : IsLastUser(messages, u) => Cost(system) + ItemCost(messages, evidence, u) > available
        ELSE /\ b.selected \subseteq items
             /\ b.used = Cost(system) + Total(costs, Len(messages) + Len(evidence))
             /\ b.used <= available
             /\ system + Total(bytes, Len(messages) + Len(evidence)) <= 4 * available
             /\ \A u \in items : IsLastUser(messages, u) => u \in b.selected
             /\ \A p \in items \ b.selected : b.used + ItemCost(messages, evidence, p) > available

-----------------------------------------------------------------------------
\* A hit is <<group, rank>>: a wiki and the place of the hit among its hits.
Exists(sizes, hit) == hit[1] \in 1..Len(sizes) /\ hit[2] \in 1..sizes[hit[1]]

Precedes(one, other) == one[2] < other[2] \/ (one[2] = other[2] /\ one[1] < other[1])

\* FairMerge of groups of given sizes: rounds over the groups, a hit of each
\* group in each round, until the limit is reached or nothing was added.
FairMerge(sizes, limit) ==
    LET Hits == Nat \X Nat
        add(rank) == [g \in 1..Len(sizes) |-> [merged \in Seq(Hits) |->
            IF rank <= sizes[g] /\ Len(merged) < limit THEN Append(merged, <<g, rank>>) ELSE merged]]
        round == [rank \in 1..limit |-> [merged \in Seq(Hits) |-> Loop(add(rank), merged, Len(sizes))[Len(sizes)]]]
    IN  Loop(round, <<>>, limit)[limit]

\* Hits are in the order of rounds, none is left out that precedes one merged,
\* and none at all is left out below the limit: no wiki has two hits more than
\* another that has hits left.
MergeSound(sizes, limit) ==
    LET m == FairMerge(sizes, limit) IN
    /\ Len(m) <= limit
    /\ \A i \in 1..Len(m) : Exists(sizes, m[i])
    /\ \A i, j \in 1..Len(m) : i < j => Precedes(m[i], m[j])
    /\ \A g \in 1..Len(sizes) : \A rank \in 1..sizes[g] :
         \/ \E i \in 1..Len(m) : m[i] = <<g, rank>>
         \/ Len(m) = limit /\ \A i \in 1..Len(m) : Precedes(m[i], <<g, rank>>)

-----------------------------------------------------------------------------
\* TruncateResult: the binary search for the last boundary of a character up
\* to which the caller can carry the text, 0 if there is none.  fits says it
\* of each boundary, the first being the start of the text.
TruncateResult(fits) ==
    LET n == Len(fits)
        narrow == [i \in 1..n |-> [between \in (1..n) \X (1..n) |->
            LET low == between[1]
                high == between[2]
                middle == low + ((high - low + 1) \div 2)
            IN  CASE low >= high -> between
                  [] low < high /\ fits[middle] -> <<middle, high>>
                  [] OTHER -> <<low, middle - 1>>]]
    IN  IF fits[1] THEN Loop(narrow, <<1, n>>, n)[n][1] ELSE 0

\* What is cut off at the boundary fits, and at the next one it does not.  When
\* a longer text never fits better than a shorter one, nothing longer fits.
TruncationSound(fits) ==
    LET best == TruncateResult(fits) IN
    IF best = 0 THEN ~fits[1]
    ELSE /\ best \in 1..Len(fits) /\ fits[best]
         /\ best < Len(fits) => ~fits[best + 1]
         /\ (\A i, j \in 1..Len(fits) : i < j /\ fits[j] => fits[i]) => \A i \in best + 1..Len(fits) : ~fits[i]

-----------------------------------------------------------------------------
\* The inputs that are tried.
SampleSequences(S, n) == UNION {[1..k -> S] : k \in 0..n}
SampleBytes == {0, 4, MaxSample}
SampleMessages == [role : Roles, bytes : {4, MaxSample}]

\* budgetInitial, FairMerge and TruncateResult against what they promise.
AlgorithmsMeetReference ==
    /\ \A available \in 0..3 * MaxSample, system \in SampleBytes, messages \in SampleSequences(SampleMessages, 3),
          evidence \in SampleSequences(SampleBytes, 2) : BudgetSound(available, system, messages, evidence)
    /\ \A sizes \in SampleSequences(0..3, 3), limit \in 0..MaxSample : MergeSound(sizes, limit)
    /\ \A n \in 1..MaxSample : \A fits \in [1..n -> BOOLEAN] : TruncationSound(fits)
=============================================================================
