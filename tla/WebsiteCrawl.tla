---------------------------- MODULE WebsiteCrawl ----------------------------
(***************************************************************************)
(* Acquisition of a website by the worker: internal/sources/website.go and *)
(* tinyfish.go.  A capture reads robots.txt and the sitemaps, then crawls  *)
(* breadth first: it draws a batch from the frontier, fetches the batch    *)
(* concurrently (one goroutine per URL, redirects followed by hand) or in  *)
(* one call of the TinyFish service, and merges the results in the batch's *)
(* order.  A failed capture, or one whose worker was lost, is repeated by  *)
(* the job queue, and a source is synchronized again and again: several    *)
(* captures of one site follow each other here, each conditional on the    *)
(* pages of the previous revision.                                         *)
(*                                                                         *)
(* A URL is a number, in the order of its text; Outside stands for any URL *)
(* out of the configured origin.  A site is a record with the fields       *)
(*   start   the configured URL after canonicalization                     *)
(*   robots  the groups of robots.txt, each with its agents and rules      *)
(*   path    the escaped path of a URL, a sequence of letters              *)
(*   maps    the locations its sitemaps list                               *)
(*   docs    what the site answers for a URL; a "tagged" document has      *)
(*           validators (ETag, Last-Modified), which identify its text     *)
(*   known   the pages of the revision before the first capture            *)
(* The text of a document is named by its URL; a known page may have a text *)
(* that the site no longer has.                                            *)
(***************************************************************************)
EXTENDS Naturals, Integers, Sequences, FiniteSets, SequencesExt

CONSTANTS Sites, Crawlers,
          MaxPages, MaxDepth, Concurrency, MaxRedirects,
          MaxTotalBytes, MaxPageBytes, HeaderBytes, DiscoveredCap, MaxLinks,
          MaxCaptures_  \* bound: captures published on different previous revisions or with different results

VARIABLES
  site,     \* the site, which does not change between the captures
  known,    \* pages of the revision this capture is conditional on, by URL
  mode,     \* [crawler, validate]: the acquisition mode and the operation
  crawl,    \* the capture under way
  captured  \* history: the snapshots published, and what each was conditional on

crawlVars == <<site, known, mode, crawl, captured>>

Outside == 0
InOrigin(u) == u # Outside

\* The members of a set of numbers in order (each has as many members up to it
\* as its rank), and the elements of a sequence at some positions.
Ascending(S) == [k \in 1..Cardinality(S) |-> CHOOSE x \in S : Cardinality({y \in S : y <= x}) = k]
ElementsAt(s, positions) == [k \in 1..Cardinality(positions) |-> s[Ascending(positions)[k]]]

\* Links that leave the origin are not kept.
Links(doc) == ElementsAt(doc.links, {k \in DOMAIN doc.links : InOrigin(doc.links[k])})

\* The page kept under the name url, of the document with that text.
Page(url, text, size, links) ==
  [is |-> "page", url |-> url, text |-> text, size |-> size, links |-> links]

\* A canonical name leads to a document that is served under that very name.
NamesAreServed(s) ==
  \A u \in DOMAIN s.docs : LET to == s.docs[u].to IN
    s.docs[u].answer = "page" /\ InOrigin(to) => s.docs[to].answer # "redirect"

\* A page of a revision whose text the site still has was read from there.
Faithful(s, pages) ==
  \A u \in DOMAIN pages : LET text == pages[u].text IN
    text \in DOMAIN s.docs =>
      s.docs[text].to = u /\ pages[u] = Page(u, text, s.docs[text].size, Links(s.docs[text]))

\* A site answers for its URLs; what it lists, links and redirects to is one
\* of them or outside.  A previous revision has links inside the origin only.
CrawlAssumption ==
  /\ MaxLinks \in Nat /\ DiscoveredCap \in Nat /\ MaxPageBytes \in Nat /\ HeaderBytes \in Nat
  /\ \A s \in Sites : LET URLs == DOMAIN s.docs IN
       /\ URLs \subseteq Nat \ {Outside} /\ s.start \in URLs
       /\ IsFiniteSet(s.maps) /\ s.maps \subseteq URLs \cup {Outside}
       /\ \A u \in URLs : /\ s.docs[u].links \in Seq(URLs \cup {Outside})
                          /\ s.docs[u].to \in URLs \cup {Outside} /\ s.docs[u].size \in Nat
       /\ \A u \in DOMAIN s.known : s.known[u].links \in Seq(URLs) /\ s.known[u].size \in Nat
       /\ NamesAreServed(s) => Faithful(s, s.known)

-----------------------------------------------------------------------------
(* robots.txt: the groups that name this agent, or those of every agent     *)
(* when the former have no rule; the longest matching rule decides and      *)
(* "allow" wins a tie.                                                      *)

RulesOf(agent) == UNION {g.rules : g \in {h \in site.robots : agent \in h.agents}}
OwnRules == RulesOf("self")
StarRules == UNION {g.rules : g \in {h \in site.robots : "*" \in h.agents /\ "self" \notin h.agents}}
Policy == IF OwnRules = {} THEN StarRules ELSE OwnRules

CanFetch(u) ==
  LET matching == {r \in Policy : IsPrefix(r.path, site.path[u])}
      longest == {r \in matching : \A s \in matching : Len(s.path) <= Len(r.path)}
  IN matching = {} \/ \E r \in longest : r.allow

-----------------------------------------------------------------------------

FreshCrawl == [at |-> "start", queue |-> <<>>, enqueued |-> {}, seen |-> {},
               batch |-> <<>>, pages |-> <<>>, loaded |-> 0, kept |-> 0, asked |-> {}]

CrawlInit ==
  /\ site \in Sites /\ known = site.known
  /\ mode \in [crawler : Crawlers, validate : BOOLEAN]
  /\ crawl = FreshCrawl
  /\ captured = {}

Failed == [FreshCrawl EXCEPT !.at = "failed", !.asked = crawl.asked]

\* A download counts against the crawl's byte budget when it has arrived.
Load(bytes) == crawl.loaded + bytes
Overdrawn(bytes) == Load(bytes) > MaxTotalBytes

Frontier(c, seeds) ==
  [c EXCEPT !.at = "frontier", !.enqueued = seeds,
     !.queue = [k \in 1..Cardinality(seeds) |-> [url |-> Ascending(seeds)[k], depth |-> 0]]]

\* robots.txt cannot be read: every capture and validation fails.
RobotsUnavailable ==
  /\ crawl.at = "start" /\ mode.crawler # "json"
  /\ crawl' = Failed
  /\ UNCHANGED <<site, known, mode, captured>>

ReadRobots ==
  /\ crawl.at = "start" /\ mode.crawler # "json"
  /\ crawl' = IF mode.crawler = "builtin" /\ ~mode.validate THEN [crawl EXCEPT !.at = "sitemaps"]
              ELSE IF CanFetch(site.start) THEN Frontier(crawl, {site.start}) ELSE Failed
  /\ UNCHANGED <<site, known, mode, captured>>

\* The sitemaps are not subject to robots.txt; at most MaxPages of their
\* locations in the origin, in the order of their text, join the start.
Seeds ==
  LET locations == {u \in site.maps : InOrigin(u)}
  IN {site.start} \cup {u \in locations : Cardinality({v \in locations : v <= u}) <= MaxPages}

ReadSitemaps ==
  /\ crawl.at = "sitemaps"
  /\ crawl' = Frontier(crawl, Seeds)
  /\ UNCHANGED <<site, known, mode, captured>>

-----------------------------------------------------------------------------
(* The frontier: one loop of materializeCrawl or tinyFishCrawl. *)

Min2(a, b) == IF a < b THEN a ELSE b
BatchSize(c) == Min2(Concurrency, MaxPages - Cardinality(DOMAIN c.pages))

\* The result of an item: not yet known, nothing to keep, a failure or a page.
Asking == [is |-> "asking"]
Nil == [is |-> "nil"]
Broken == [is |-> "failure"]

\* A URL joins the batch unless it is too deep or drawn before.  Robots are
\* asked now by tinyFishCrawl, and by the goroutine of a URL for the crawler.
Admitted(c, item) ==
  /\ item.depth <= MaxDepth
  /\ IF mode.crawler = "tinyfish" THEN CanFetch(item.url) ELSE item.url \notin c.seen

MayDraw(c) == c.at = "frontier" /\ c.queue # <<>> /\ Len(c.batch) < BatchSize(c)
MaySend(c) == c.at = "frontier" /\ c.batch # <<>> /\ (c.queue = <<>> \/ Len(c.batch) = BatchSize(c))
MayEnd(c) == c.at = "frontier" /\ c.batch = <<>> /\ (c.queue = <<>> \/ BatchSize(c) = 0)

Draw ==
  LET item == Head(crawl.queue)
      drawn == [url |-> item.url, depth |-> item.depth, at |-> item.url, hops |-> 0,
                result |-> IF CanFetch(item.url) THEN Asking ELSE Nil]
  IN /\ MayDraw(crawl)
     /\ crawl' = [crawl EXCEPT !.queue = Tail(@),
                    !.seen = IF Admitted(crawl, item) THEN @ \cup {item.url} ELSE @,
                    !.batch = IF Admitted(crawl, item) THEN Append(@, drawn) ELSE @]
     /\ UNCHANGED <<site, known, mode, captured>>

SendBatch ==
  /\ MaySend(crawl)
  /\ crawl' = [crawl EXCEPT !.at = "fetching"]
  /\ UNCHANGED <<site, known, mode, captured>>

-----------------------------------------------------------------------------
(* One request of a goroutine of the crawler (getWithHeaders and page).     *)

Doc(u) == site.docs[u]

\* The request is conditional if the previous revision has a page of its very
\* URL, and the document it is led to has not been modified since.
NotModified(previous, url, u) ==
  /\ ~mode.validate /\ url \in DOMAIN previous
  /\ Doc(u).answer = "page" /\ Doc(u).tagged /\ previous[url].text = u

\* A page that was not modified is read back from the previous snapshot,
\* where its file starts with a header naming its URL and evidence.  It is
\* kept under the URL that answered: its canonical name is not read again.
Reused(u, old) ==
  IF old.size + HeaderBytes <= MaxPageBytes THEN Page(u, old.text, old.size, old.links)
  ELSE Broken

\* The answer for an item that asked for url and was led to u.
Response(previous, url, u) ==
  LET doc == Doc(u)
  IN IF doc.answer # "page" THEN Nil
     ELSE IF NotModified(previous, url, u) THEN Reused(u, previous[url])
     ELSE IF mode.validate THEN Page(u, u, doc.size, <<>>)
     ELSE IF ~InOrigin(doc.to) THEN Broken
     ELSE IF CanFetch(doc.to) THEN Page(doc.to, u, doc.size, Links(doc))
     ELSE Nil

\* Bytes of the body: only a page that is sent has one.
Body(item) ==
  IF Doc(item.at).answer = "page" /\ ~NotModified(known, item.url, item.at) THEN Doc(item.at).size ELSE 0

NextHop_Uncounted(hops) == hops
NextHop(hops) == hops + 1

\* A redirect is followed inside the origin, MaxRedirects times, and where
\* robots.txt allows; anything else of it fails the capture.
Followed(item) ==
  LET to == Doc(item.at).to IN
  IF ~InOrigin(to) \/ item.hops = MaxRedirects
  THEN [item EXCEPT !.result = Broken]
  ELSE [item EXCEPT !.at = to, !.hops = NextHop(@)]

MayAsk_FirstOnly(u) == InOrigin(u)
MayAsk(u) == CanFetch(u)

Get(i) ==
  LET item == crawl.batch[i]
      size == Body(item)
      answered == IF Overdrawn(size) \/ size > MaxPageBytes THEN [item EXCEPT !.result = Broken]
                  ELSE IF Doc(item.at).answer = "redirect" THEN Followed(item)
                  ELSE [item EXCEPT !.result = Response(known, item.url, item.at)]
  IN /\ mode.crawler = "builtin" /\ crawl.at = "fetching"
     /\ i \in DOMAIN crawl.batch /\ item.result = Asking
     /\ crawl' = IF MayAsk(item.at)
                 THEN [crawl EXCEPT !.batch[i] = answered, !.loaded = Load(size),
                                    !.asked = @ \cup {item.at}]
                 ELSE [crawl EXCEPT !.batch[i].result = Broken]
     /\ UNCHANGED <<site, known, mode, captured>>

\* The request fails: refused address, TLS, timeout, encoding or size.
GetFails(i) ==
  /\ mode.crawler = "builtin" /\ crawl.at = "fetching"
  /\ i \in DOMAIN crawl.batch /\ crawl.batch[i].result = Asking
  /\ crawl' = [crawl EXCEPT !.batch[i].result = Broken]
  /\ UNCHANGED <<site, known, mode, captured>>

-----------------------------------------------------------------------------
(* The TinyFish service fetches the whole batch and follows redirects on    *)
(* its own; an error for one URL, or a URL it does not answer, fails all.   *)

FinalUrl(u) == IF Doc(u).answer = "redirect" THEN Doc(u).to ELSE u

FishResult(u) ==
  LET final == FinalUrl(u) IN
  IF ~InOrigin(final) \/ Doc(final).answer # "page" \/ ~CanFetch(final)
     \/ Doc(final).size > MaxPageBytes
  THEN Broken
  ELSE Page(final, final, Doc(final).size,
            SubSeq(Links(Doc(final)), 1, Min2(MaxLinks, Len(Links(Doc(final))))))

FishFetch ==
  /\ mode.crawler = "tinyfish" /\ crawl.at = "fetching"
  /\ \E i \in DOMAIN crawl.batch : crawl.batch[i].result = Asking
  /\ crawl' = [crawl EXCEPT
       !.asked = @ \cup {crawl.batch[i].url : i \in DOMAIN crawl.batch},
       !.batch = [i \in DOMAIN crawl.batch |->
                    [crawl.batch[i] EXCEPT !.result = FishResult(crawl.batch[i].url)]]]
  /\ UNCHANGED <<site, known, mode, captured>>

FishFails ==
  /\ mode.crawler = "tinyfish" /\ crawl.at = "fetching"
  /\ \E i \in DOMAIN crawl.batch : crawl.batch[i].result = Asking
  /\ crawl' = Failed
  /\ UNCHANGED <<site, known, mode, captured>>

-----------------------------------------------------------------------------
(* The results are merged in the order of the batch, after all arrived.     *)

Takes_Arrived(i) == i \in DOMAIN crawl.batch /\ crawl.batch[i].result # Asking
Takes(i) == i = 1 /\ \A j \in DOMAIN crawl.batch : crawl.batch[j].result # Asking

\* The crawler follows the links of a page above the deepest level; TinyFish
\* queues them and drops the ones that are too deep when it draws them.
NewLinks(c, page, depth) ==
  LET links == SubSeq(page.links, 1, Min2(MaxLinks, Len(page.links)))
      unseen == ElementsAt(links, {k \in DOMAIN links : links[k] \notin c.enqueued})
      room == IF DiscoveredCap > Cardinality(c.enqueued) THEN DiscoveredCap - Cardinality(c.enqueued) ELSE 0
  IN IF mode.crawler = "tinyfish" \/ depth < MaxDepth
     THEN SubSeq(unseen, 1, Min2(room, Len(unseen))) ELSE <<>>

\* A second page under one name is dropped; TinyFish has counted its bytes
\* already when it was asked for under that very name.
Kept(c, url, page) ==
  c.kept + (IF page.url \notin DOMAIN c.pages \/ (mode.crawler = "tinyfish" /\ page.url = url)
            THEN page.size ELSE 0)

Merge(c, url, depth, page) ==
  LET links == NewLinks(c, page, depth)
  IN IF page.url \in DOMAIN c.pages THEN [c EXCEPT !.kept = Kept(c, url, page)]
     ELSE [c EXCEPT !.kept = Kept(c, url, page),
             !.pages = [u \in DOMAIN c.pages \cup {page.url} |-> IF u = page.url THEN page ELSE c.pages[u]],
             !.enqueued = @ \cup ToSet(links),
             !.queue = @ \o [k \in DOMAIN links |-> [url |-> links[k], depth |-> depth + 1]]]

AfterTake(i) ==
  LET item == crawl.batch[i]
      rest == [crawl EXCEPT !.batch = RemoveAt(@, i)]
  IN IF item.result = Broken THEN Failed
     ELSE IF item.result = Nil THEN rest
     ELSE IF Kept(rest, item.url, item.result) > MaxTotalBytes THEN Failed
     ELSE Merge(rest, item.url, item.depth, item.result)

\* When the batch is merged, the next one is drawn.
NextBatch(c) == IF c.at = "fetching" /\ c.batch = <<>> THEN [c EXCEPT !.at = "frontier"] ELSE c

Take(i) ==
  /\ crawl.at = "fetching" /\ ~mode.validate
  /\ i \in DOMAIN crawl.batch /\ Takes(i)
  /\ crawl' = NextBatch(AfterTake(i))
  /\ UNCHANGED <<site, known, mode, captured>>

\* A validation asks for the start only and stores nothing.
EndValidation ==
  /\ crawl.at = "fetching" /\ mode.validate /\ Takes(1)
  /\ crawl' = IF crawl.batch[1].result.is = "page"
              THEN [FreshCrawl EXCEPT !.at = "validated", !.asked = crawl.asked] ELSE Failed
  /\ UNCHANGED <<site, known, mode, captured>>

-----------------------------------------------------------------------------

\* The native version of a snapshot: its URLs and the digests of their texts.
Fingerprint(pages) == [u \in DOMAIN pages |-> pages[u].text]

Snapshot(pages) == [previous |-> known, pages |-> pages]

\* No page is left to fetch, or the capture has all it may have.
Publish ==
  /\ MayEnd(crawl)
  /\ IF crawl.pages = <<>>
     THEN crawl' = Failed /\ UNCHANGED captured
     ELSE /\ crawl' = [crawl EXCEPT !.at = "published"]
          /\ captured' = captured \cup {Snapshot(crawl.pages)}
  /\ UNCHANGED <<site, known, mode>>

\* A JSON document is one request: no robots.txt, no redirect, no links.
GetJSON ==
  LET doc == Doc(site.start)
      pages == [u \in {site.start} |-> Page(u, u, doc.size, <<>>)]
  IN /\ crawl.at = "start" /\ mode.crawler = "json"
     /\ \/ /\ doc.answer # "page" \/ doc.size > MaxPageBytes
           /\ crawl' = Failed /\ UNCHANGED captured
        \/ /\ doc.answer = "page" /\ doc.size <= MaxPageBytes /\ mode.validate
           /\ crawl' = [crawl EXCEPT !.at = "validated"] /\ UNCHANGED captured
        \/ /\ doc.answer = "page" /\ doc.size <= MaxPageBytes /\ ~mode.validate
           /\ crawl' = [crawl EXCEPT !.at = "published", !.pages = pages]
           /\ captured' = captured \cup {Snapshot(pages)}
     /\ UNCHANGED <<site, known, mode>>

\* The job is retried, or the source is synchronized again: then its current
\* revision is the one just published, if the job completed.  Of a revision
\* whose files retention has deleted no page is known.
CaptureAgain ==
  /\ crawl.at \in {"published", "failed"}
  /\ Cardinality(captured) < MaxCaptures_ /\ ~mode.validate
  /\ known' \in {known, <<>>} \cup (IF crawl.at = "published" THEN {crawl.pages} ELSE {})
  /\ crawl' = FreshCrawl
  /\ UNCHANGED <<site, mode, captured>>

Crawl_ ==
  \/ RobotsUnavailable \/ ReadRobots \/ ReadSitemaps \/ Draw \/ SendBatch
  \/ \E i \in 1..Concurrency : Get(i)
  \/ \E i \in 1..Concurrency : GetFails(i)
  \/ FishFetch \/ FishFails
  \/ \E i \in 1..Concurrency : Take(i)
  \/ EndValidation \/ Publish \/ GetJSON

CrawlNext == Crawl_ \/ CaptureAgain

CrawlSpec == CrawlInit /\ [][CrawlNext]_crawlVars /\ WF_crawlVars(Crawl_)

-----------------------------------------------------------------------------

\* Two captures that are conditional on the same revision publish the same
\* pages, however the goroutines of a batch raced and although pages share
\* canonical names: a retry stores its snapshot under the identifier the attempt
\* before it used, and is refused unless the files are the same.  Captures of an
\* unchanged site that are conditional on one another do too, if no canonical
\* name is itself redirected.
CaptureIsDeterministic ==
  \A x, y \in captured : x.previous = y.previous \/ NamesAreServed(site) => x.pages = y.pages

\* An incremental capture of an unchanged site has the version of the capture
\* before it, whatever names the site gives its pages (materializeCrawl, page,
\* previousPages).
UnchangedSiteKeepsVersion ==
  \A x, y \in captured : Fingerprint(x.pages) = Fingerprint(y.pages)

\* Robots.txt is obeyed at every hop: no URL the crawler asks for, after a
\* redirect either, and no name a page is published under, is disallowed.  The
\* one request for a JSON document does not ask.
RobotsObeyed ==
  \A u \in crawl.asked \cup DOMAIN crawl.pages : InOrigin(u) /\ (mode.crawler = "json" \/ CanFetch(u))

\* What the synchronization and the site may rely on: both of these.
CaptureIsSound == CaptureIsDeterministic /\ RobotsObeyed

\* A capture ends, published or failed, although links, canonical names and
\* redirects may form cycles.
CrawlEnds == crawl.at = "start" ~> crawl.at \in {"published", "failed", "validated"}
=============================================================================
