------------------------------- MODULE MCWebsite -------------------------------
(***************************************************************************)
(* A website whose start redirects to a page that names the start as its   *)
(* canonical URL, as a site does that serves /docs from /docs/.            *)
(***************************************************************************)
EXTENDS WebsiteCrawl

RenamedSites ==
    {[start |-> 1, robots |-> {}, path |-> <<<<"d">>, <<"d", "/">>>>, maps |-> {}, known |-> <<>>,
      docs |-> <<[answer |-> "redirect", to |-> 2, links |-> <<>>, size |-> 0, tagged |-> FALSE],
                 [answer |-> "page", to |-> 1, links |-> <<>>, size |-> 1, tagged |-> TRUE]>>]}
=============================================================================
