------------------------------ MODULE MCProgress ------------------------------
(***************************************************************************)
(* Small instances of five components that share no state and in which     *)
(* something must come to an end, checked in one run.  A behaviour is      *)
(* about one of them, named by "part": it moves by that component's        *)
(* next-state relation, under that component's fairness, and the others    *)
(* stay as they began; the crawl of a behaviour about another part has no  *)
(* site.  The modules are extended, so that the run checks the properties  *)
(* they state.                                                             *)
(***************************************************************************)
EXTENDS Sequences, KnowledgePurge, WebsiteCrawl, CommandEvents, OperatorAuth, Capsule

CONSTANTS w1, w2, s1, base, k1, q1, q2, key1, key2, p1, p2, r1, r2, r3

VARIABLE part

allVars == <<part, vars, crawlVars, capsuleVars, eventVars, authVars>>

(* A website of four documents: links, canonical names and redirects that    *)
(* lead out of the origin or in circles, a robots.txt, a sitemap, and what   *)
(* the revision before the first capture had of one document: a text the     *)
(* site no longer shows, or the one it has, which may be too long to be read *)
(* again with its header.                                                    *)
Text(to, links) == [answer |-> "page", to |-> to, links |-> links, size |-> 1, tagged |-> TRUE]
Redirect(to) == [answer |-> "redirect", to |-> to, links |-> <<>>, size |-> 0, tagged |-> FALSE]
Gone == [answer |-> "gone", to |-> 0, links |-> <<>>, size |-> 0, tagged |-> FALSE]
OldText == 9
Disallow(path) ==
    [agents |-> {"*"}, rules |-> {[path |-> path, allow |-> FALSE], [path |-> path \o <<"b">>, allow |-> TRUE]}]
Own == [agents |-> {"self"}, rules |-> {[path |-> <<"c">>, allow |-> FALSE]}]
LinkedSites ==
    {[start |-> 1, robots |-> r, path |-> <<<<>>, <<"a">>, <<"a", "b">>, <<"c">>>>,
      maps |-> IF Own \in r THEN {} ELSE {0, 3, 4},
      known |-> IF old \in {d3.to, OldText} THEN [u \in {3} |-> Page(3, old, d3.size, <<2>>)] ELSE <<>>,
      docs |-> <<[Text(1, <<2, 3>>) EXCEPT !.tagged = FALSE], d2, d3, d4>>] :
        r \in {{}, {Disallow(<<"a">>)}, {Disallow(<<"a">>), Own}},
        old \in {0, 3, OldText},
        d2 \in {Text(2, <<1, 4>>), Text(3, <<>>), Text(0, <<>>), Redirect(3)},
        d3 \in {Text(3, <<0, 2>>), [Text(3, <<0, 2>>) EXCEPT !.size = 2], Redirect(4)},
        d4 \in {Text(3, <<>>), Redirect(2), Gone}}
\* And sites whose start is no page, or leads to one.
Websites ==
    LinkedSites \cup
    {[start |-> 1, robots |-> {}, path |-> <<<<>>, <<"a">>>>, maps |-> {}, known |-> <<>>,
      docs |-> <<d1, Text(2, <<1>>)>>] : d1 \in {Gone, Redirect(2), Redirect(1)}}

(* Two replicas whose configuration disagrees on the token. *)
ConfiguredToken(p) == IF p = p1 THEN "t1" ELSE "t2"

ASSUME ProgressAssumption ==
    PurgeAssumption /\ CrawlAssumption /\ CapsuleAssumption /\ EventsAssumption /\ AuthAssumption

-----------------------------------------------------------------------------
MCInit ==
    /\ part \in {"purge", "crawler", "capsules", "events", "auth"}
    /\ Init /\ CapsuleInit /\ EventsInit /\ AuthInit
    /\ IF part = "crawler" THEN CrawlInit
       ELSE /\ site = "none" /\ known = "none" /\ mode = "none"
            /\ crawl = FreshCrawl /\ captured = {}

\* The step is of one part and leaves the others alone.
In(p) ==
    /\ part = p /\ UNCHANGED part
    /\ p # "purge" => UNCHANGED vars
    /\ p # "crawler" => UNCHANGED crawlVars
    /\ p # "capsules" => UNCHANGED capsuleVars
    /\ p # "events" => UNCHANGED eventVars
    /\ p # "auth" => UNCHANGED authVars

MCNext ==
    \/ In("purge") /\ Next
    \/ In("crawler") /\ CrawlNext
    \/ In("capsules") /\ CapsuleNext
    \/ In("events") /\ EventsNext
    \/ In("auth") /\ AuthNext

\* The fairness of each component, while the behaviour is about it.
MCFairness ==
    /\ WF_vars(part = "purge" /\ Tick)
    /\ \A w \in Workers : WF_vars(part = "purge" /\ WorkerStep(w))
    /\ \A j \in JobIds :
         /\ WF_vars(part = "purge" /\ Reap(j))
         /\ WF_vars(part = "purge" /\ \E w \in Workers : Lease(w, j))
    /\ WF_crawlVars(part = "crawler" /\ Crawl_)
    /\ \A s \in Sessions :
         /\ WF_capsuleVars(part = "capsules" /\ GoesOn(s))
         /\ WF_capsuleVars(part = "capsules" /\ CancelSession(s))
    /\ \A k \in Slots : WF_capsuleVars(part = "capsules" /\ CleanUp(k))
    /\ \A s \in Streams :
         /\ WF_eventVars(part = "events" /\ StreamLoop(s))
         /\ WF_eventVars(part = "events" /\ Reauthenticate(s))
    /\ \A r \in Callers :
         WF_authVars(part = "auth" /\ CallerStep(r)) /\ WF_authVars(part = "auth" /\ GiveUp(r))
    /\ \A p \in Replicas :
         /\ SF_authVars(part = "auth" /\ BeginInitialize(p))
         /\ SF_authVars(part = "auth" /\ InstallToken(p))

MCSpec == MCInit /\ [][MCNext]_allVars /\ MCFairness

\* Of the purge: which of two free workers leases a job does not matter.  Of
\* the commands: the second request alone uses the second key, and then
\* without faults and rotations.  Of the requests: the first does everything,
\* the second bootstraps and the third logs in.
SecondKeyUsed == tx'[q2].key = key2 \/ records'[key2] # NoRecord
Focus ==
    /\ handler[w2].at = "idle" /\ handler'[w2].at # "idle" => handler[w1].at # "idle"
    /\ tx'[q1].key # key2
    /\ SecondKeyUsed => troubles' = 0 /\ tx'[q1].command # "rotate" /\ tx'[q2].command # "rotate"
    /\ caller'[r2].op \in {"none", "bootstrap"} /\ caller'[r2].digest # "t2"
    /\ caller'[r3].op \in {"none", "login"}

-----------------------------------------------------------------------------
\* Something was begun that must end: a knowledge base is pending deletion, a
\* capture runs, a pool is closing, a stream is open whose session has ended,
\* or a replica has not started.
Begun ==
    \/ part = "purge" /\ kb.lifecycle = "PENDING_DELETE"
    \/ part = "crawler" /\ crawl.at \notin {"published", "failed", "validated"}
    \/ part = "capsules" /\ pool.state = "CLOSING"
    \/ part = "events" /\ login = "ended" /\ \E s \in Streams : stream[s].at # "closed"
    \/ part = "auth" /\ \E p \in Replicas : starting[p] # "ready"

\* What is begun ends: a purge, however many attempts and recovery jobs it
\* takes; a capture, although links, canonical names and redirects form
\* circles; SlotPool.Close, which waits for every lease; a stream, although
\* events keep arriving (streamEvents); and InitializeBootstrap, although
\* requests wait for each other's connections and password slots.
WhatBeginsEnds == Begun ~> ~Begun
=============================================================================
