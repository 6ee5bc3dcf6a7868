------------------------------- MODULE WebCrawl -------------------------------
(* NativeWebCrawler.run (web/crawl.py): a bounded breadth-first walk over pages, *)
(* the results it keeps and what it says of the coverage it lost.                *)
(*                                                                               *)
(* A crawl runs alone; what it meets is chosen when it begins: the links of the  *)
(* pages, the pages its patterns exclude or robots refuse, and the pages that    *)
(* cannot be fetched.                                                            *)
EXTENDS Naturals, Sequences, FiniteSets

CONSTANTS
  Pages,      \* pages within the allowed origins
  Root,       \* the first of them
  Graphs,     \* the links the pages may have: functions from pages to sets of pages
  PageLimits, \* values of max_pages
  MaxDepth, StopAfterErrors \* bounds of the request

ASSUME CrawlAssumption ==
  /\ Root \in Pages /\ PageLimits \subseteq Nat \ {0} /\ MaxDepth \in Nat /\ StopAfterErrors \in Nat \ {0}
  /\ \A g \in Graphs : g \in [Pages -> SUBSET Pages] /\ \A p \in Pages : IsFiniteSet(g[p])

VARIABLES
  links, excluded, refused, broken, \* the site
  maxPages,   \* the request's bound
  toVisit,    \* pages with their depth, in order
  visited,
  kept,       \* results: a page, its depth and whether it is an error
  lost,       \* reasons of lost coverage
  truncated, stopReason
crawlVars == <<links, excluded, refused, broken, maxPages, toVisit, visited, kept, lost, truncated,
               stopReason>>

Reasons == {"scope_pattern", "robots", "page_limit", "depth_limit"}
StopReasons == {"", "scope_exhausted", "error_limit", "page_limit", "scope_refused"}
Queued == {toVisit[i].page : i \in DOMAIN toVisit}
Errors == {i \in DOMAIN kept : kept[i].failed}

CrawlTypeOK ==
  /\ Len(kept) <= maxPages /\ \A i \in DOMAIN kept : kept[i].page \in visited
  /\ lost \subseteq Reasons /\ stopReason \in StopReasons
  /\ \A i, j \in DOMAIN toVisit : i # j => toVisit[i].page # toVisit[j].page
  /\ Queued \cap visited = {} /\ Cardinality(visited) + Len(toVisit) <= maxPages

CrawlInit ==
  /\ links \in Graphs /\ excluded \in SUBSET Pages /\ refused \in SUBSET (Pages \ excluded)
  /\ broken \in SUBSET (Pages \ (excluded \cup refused))
  /\ maxPages \in PageLimits
  /\ toVisit = <<[page |-> Root, depth |-> 0]>> /\ visited = {} /\ kept = <<>> /\ lost = {}
  /\ truncated = FALSE /\ stopReason = ""

\* The links of a page that are neither visited nor queued, in an order the page may have
\* them in.
Fresh(found, queue, known) == found \ (known \cup {queue[i].page : i \in DOMAIN queue})
Orders(S) == {s \in [1..Cardinality(S) -> S] : \A i, j \in DOMAIN s : i # j => s[i] # s[j]}

\* They are taken while there is room.
Enqueue(order, depth, queue, known) ==
  LET room == IF maxPages > Cardinality(known) + Len(queue)
              THEN maxPages - Cardinality(known) - Len(queue) ELSE 0
      taken == IF Len(order) <= room THEN Len(order) ELSE room
  IN [queue |-> queue \o [i \in 1..taken |-> [page |-> order[i], depth |-> depth + 1]],
      full |-> Len(order) > room]

\* The error limit overwrites what was truncated before.
Ends(rest, keeps) ==
  LET failures == Cardinality({i \in DOMAIN keeps : keeps[i].failed})
  IN IF failures >= StopAfterErrors THEN "error_limit"
     ELSE CASE rest # <<>> -> IF Len(keeps) >= maxPages THEN "page_limit" ELSE ""
            [] rest = <<>> -> IF keeps = <<>> THEN "scope_refused" ELSE "scope_exhausted"

\* Mutant: the page queued last is taken.
PopLast(queue) == [next |-> queue[Len(queue)], rest |-> SubSeq(queue, 1, Len(queue) - 1)]

Pop(queue) == [next |-> Head(queue), rest |-> Tail(queue)]

\* One page: the pattern, robots, the fetch (_visit), the links.
Visit(page, depth, rest) ==
  LET known == visited \cup {page}
      skipped == page \in excluded \cup visited
      failed == page \in refused \cup broken
      found == IF skipped \/ failed THEN {} ELSE links[page]
      keeps == IF skipped THEN kept
               ELSE Append(kept, [page |-> page, depth |-> depth, failed |-> failed])
  IN /\ visited' = known /\ kept' = keeps
     /\ \E order \in Orders(IF depth < MaxDepth THEN Fresh(found, rest, known) ELSE {}) :
          LET new == Enqueue(order, depth, rest, known)
              deep == depth >= MaxDepth /\ found # {}
              end == Ends(new.queue, keeps)
          IN /\ toVisit' = new.queue /\ stopReason' = end
             /\ lost' = lost \cup (IF page \in excluded THEN {"scope_pattern"} ELSE {})
                             \cup (IF page \in refused THEN {"robots"} ELSE {})
                             \cup (IF deep THEN {"depth_limit"} ELSE {})
                             \cup (IF new.full THEN {"page_limit"} ELSE {})
             /\ truncated' = IF end = "error_limit" THEN new.queue # <<>>
                             ELSE truncated \/ deep \/ new.full \/ end = "page_limit"
  /\ UNCHANGED <<links, excluded, refused, broken, maxPages>>

VisitPage ==
  /\ stopReason = "" /\ toVisit # <<>>
  /\ LET taken == Pop(toVisit) IN Visit(taken.next.page, taken.next.depth, taken.rest)

-----------------------------------------------------------------------------
(* Properties.                                                                *)

\* The pages at a distance from the root, over pages that were followed.
Follows(p) == p \notin excluded \cup refused \cup broken
Reach[n \in 0..MaxDepth] ==
  IF n = 0 THEN {Root}
  ELSE Reach[n - 1] \cup UNION {links[p] : p \in {q \in Reach[n - 1] : Follows(q)}}

\* A crawl that says it lost nothing and met no error retrieved every page within its
\* depth, each once and at its distance from the root.
CompleteWhenNothingLost ==
  stopReason # "" /\ lost = {} /\ Errors = {} =>
    /\ {kept[i].page : i \in DOMAIN kept} = Reach[MaxDepth]
    /\ \A i \in DOMAIN kept : kept[i].depth = 0 \/ kept[i].page \notin Reach[kept[i].depth - 1]
    /\ \A i, j \in DOMAIN kept : i < j => kept[i].depth <= kept[j].depth
=============================================================================
