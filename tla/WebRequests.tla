------------------------------ MODULE WebRequests ------------------------------
(* WebService.search and _request (web/service.py) with the cache (web/cache.py) *)
(* and the slots of a network profile: which sources a search asks, which        *)
(* origins a request and its redirects reach, where its credential goes and what *)
(* the cache keeps.                                                              *)
(*                                                                               *)
(* Requests run in threads of their own and share the cache and the slots; one   *)
(* thread waits for a slot, exchanges and gives the slot back for every hop.     *)
EXTENDS WebCrawl

CONSTANTS
  Origins,      \* origins the network profile allows
  Widened,      \* allowed_redirect_origins of the requests
  Secured,      \* their credential_origin
  Routes,       \* search sources in the order selected
  Upstreams,    \* the upstreams a source reports
  Fetches,      \* requests that are made
  Fetchers,     \* threads
  Slots,        \* max_concurrency of the profile
  MaxRedirects, TimeToLive, MaxAgeing \* bounds: redirects, ttl of an entry, clock

ASSUME WebAssumption ==
  /\ Widened \subseteq Origins /\ Secured \in Origins
  /\ {Slots, MaxRedirects, TimeToLive, MaxAgeing} \subseteq Nat /\ Slots > 0 /\ MaxAgeing > 0
  /\ Routes \in Seq(DOMAIN Upstreams)
  /\ Fetches \subseteq [start : Origins, credential : BOOLEAN, method : {"safe", "stateful"},
                        policy : {"none", "safe_get_head", "same_method"}]

VARIABLES
  clock,
  web,      \* what each thread does
  free,     \* free slots
  cached,   \* the entry of each cacheable request: when it was stored and with what body
  exposed   \* origins a credential was sent to
webVars == <<clock, web, free, cached, exposed>>

Strategies == {"automatic", "direct", "verification"}
Off == [phase |-> "none"]
NoEntry == [at |-> 0, body |-> "none"]

\* The cache key of a fetch covers all of it but the cache bounds.
Keyed(t) == web[t].request
Bodies == {"none", "plain", "credentialed"}

WebTypeOK ==
  /\ clock \in 0..MaxAgeing /\ free \in 0..Slots
  /\ cached \in [Fetches -> [at : 0..MaxAgeing, body : Bodies]]
  /\ exposed \subseteq Origins
  /\ \A t \in Fetchers : web[t].phase \in {"asked", "holds", "returned"} =>
       web[t].hops <= MaxRedirects /\ (web[t].hops > 0 => web[t].request.policy # "none")

WebInit ==
  /\ clock = 1 /\ web = [t \in Fetchers |-> Off] /\ free = Slots
  /\ cached = [r \in Fetches |-> NoEntry] /\ exposed = {}

Ageing == clock < MaxAgeing /\ clock' = clock + 1 /\ UNCHANGED <<web, free, cached, exposed>>

-----------------------------------------------------------------------------
(* _request: fetch and request.                                               *)

\* A request with a credential is neither looked up nor stored.
Cacheable(wanted, request) == wanted /\ ~request.credential

\* Fresh for its time to live, and after it for as long as the request allows.
Hit(entry, allowStale) == entry # NoEntry /\ clock <= entry.at + TimeToLive + allowStale

\* The cache answers, unless the artifact it names is gone and the entry is deleted.
StartFetch(t, request, wanted, allowStale, artifactThere) ==
  /\ web[t].phase = "none"
  /\ LET entry == cached[request]
         hit == Cacheable(wanted, request) /\ Hit(entry, allowStale)
     IN IF hit /\ artifactThere
        THEN /\ web' = [web EXCEPT ![t] = [phase |-> "answered", entry |-> entry, limit |-> allowStale]]
             /\ UNCHANGED <<cached>>
        ELSE /\ web' = [web EXCEPT ![t] =
                  [phase |-> "asked", request |-> request, wanted |-> wanted, at |-> request.start, hops |-> 0]]
             /\ cached' = IF hit THEN [cached EXCEPT ![request] = NoEntry] ELSE cached
  /\ UNCHANGED <<clock, free, exposed>>

\* _network_slot: a slot, or a timeout.
TakeSlot(t) ==
  /\ web[t].phase = "asked" /\ free > 0
  /\ free' = free - 1 /\ web' = [web EXCEPT ![t].phase = "holds"]
  /\ UNCHANGED <<clock, cached, exposed>>

SlotTimesOut(t) ==
  /\ web[t].phase = "asked" /\ free = 0 /\ web' = [web EXCEPT ![t] = Off]
  /\ UNCHANGED <<clock, free, cached, exposed>>

\* The credential goes to its own origin only, decided anew at each hop.
Sends(t) == web[t].request.credential /\ web[t].at = Secured

\* A redirect stays with the initial origin or the origins the request allows.
Scope(t, target) == target = web[t].request.start \/ target \in Widened

\* The slot is given back whatever became of the exchange.
Exchanged(t) ==
  /\ exposed' = IF Sends(t) THEN exposed \cup {web[t].at} ELSE exposed
  /\ free' = free + 1

\* The exchange fails, or what it brings is refused: its size, its peer, its media type.
FailExchange(t) ==
  /\ web[t].phase = "holds" /\ Exchanged(t)
  /\ web' = [web EXCEPT ![t] = Off] /\ UNCHANGED <<clock, cached>>

Refused(t, target) ==
  \/ web[t].request.policy = "safe_get_head" /\ web[t].request.method = "stateful"
  \/ web[t].hops >= MaxRedirects \/ ~Scope(t, target)

\* A redirect: not followed, refused, or followed to an origin in scope.
Redirect(t, target) ==
  LET r == web[t].request
  IN /\ web[t].phase = "holds" /\ Exchanged(t)
     /\ \/ r.policy = "none" /\ web' = [web EXCEPT ![t].phase = "returned"]
        \/ r.policy # "none" /\ Refused(t, target) /\ web' = [web EXCEPT ![t] = Off]
        \/ /\ r.policy # "none" /\ ~Refused(t, target)
           /\ web' = [web EXCEPT ![t] = [web[t] EXCEPT !.phase = "asked", !.at = target, !.hops = @ + 1]]
     /\ UNCHANGED <<clock, cached>>

Respond(t) ==
  /\ web[t].phase = "holds" /\ Exchanged(t) /\ web' = [web EXCEPT ![t].phase = "returned"]
  /\ UNCHANGED <<clock, cached>>

\* _cache_put of the result, whatever was put meanwhile; its body may depend on the
\* credential that was sent on the way.
StoreResult(t) ==
  /\ web[t].phase = "returned" /\ web' = [web EXCEPT ![t] = Off]
  /\ cached' = IF Cacheable(web[t].wanted, Keyed(t))
               THEN [cached EXCEPT ![Keyed(t)] =
                       [at |-> clock, body |-> IF Keyed(t).credential THEN "credentialed" ELSE "plain"]]
               ELSE cached
  /\ UNCHANGED <<clock, free, exposed>>

Answered(t) ==
  /\ web[t].phase = "answered" /\ web' = [web EXCEPT ![t] = Off]
  /\ UNCHANGED <<clock, free, cached, exposed>>

\* prune: entries whose time to live is over.
Prune(before) ==
  /\ cached' = [r \in Fetches |-> IF cached[r] # NoEntry /\ cached[r].at + TimeToLive < before
                                   THEN NoEntry ELSE cached[r]]
  /\ UNCHANGED <<clock, web, free, exposed>>

-----------------------------------------------------------------------------
(* search.                                                                    *)

\* The next route completes, fails or is unavailable; an automatic search stops at the
\* first that completes, a direct one at the first.
StartSearch(t, strategy, routes) ==
  /\ web[t].phase = "none" /\ (strategy = "direct" => Len(routes) = 1)
  /\ web' = [web EXCEPT ![t] = [phase |-> "search", strategy |-> strategy, left |-> routes,
                                completed |-> {}, lost |-> {}]]
  /\ UNCHANGED <<clock, free, cached, exposed>>

Route(t, completes) ==
  /\ web[t].phase = "search" /\ web[t].left # <<>>
  /\ LET s == Head(web[t].left)
         stops == web[t].strategy = "direct" \/ (web[t].strategy = "automatic" /\ completes)
     IN web' = [web EXCEPT ![t].left = IF stops THEN <<>> ELSE Tail(@),
                           ![t].completed = IF completes THEN @ \cup {s} ELSE @,
                           ![t].lost = IF completes THEN @ ELSE @ \cup {s}]
  /\ UNCHANGED <<clock, free, cached, exposed>>

\* Verification needs two origins: upstreams, or a route that reports none.
Enough(t) ==
  /\ web[t].completed # {}
  /\ web[t].strategy = "verification" =>
       Cardinality(UNION {IF Upstreams[s] = {} THEN {s} ELSE Upstreams[s] : s \in web[t].completed}) >= 2

EndSearch(t) ==
  /\ web[t].phase = "search" /\ web[t].left = <<>>
  /\ web' = [web EXCEPT ![t] = IF Enough(t) THEN [@ EXCEPT !.phase = "found"] ELSE Off]
  /\ UNCHANGED <<clock, free, cached, exposed>>

SearchNext == \E t \in Fetchers :
  \/ EndSearch(t)
  \/ \E s \in Strategies, n \in DOMAIN Routes : StartSearch(t, s, SubSeq(Routes, 1, n))
  \/ \E completes \in BOOLEAN : Route(t, completes)

FetchNext ==
  \/ Ageing \/ \E before \in 1..MaxAgeing : Prune(before)
  \/ \E t \in Fetchers :
       \/ TakeSlot(t) \/ SlotTimesOut(t) \/ FailExchange(t) \/ Respond(t) \/ StoreResult(t) \/ Answered(t)
       \/ \E o \in Origins : Redirect(t, o)
       \/ \E r \in Fetches, wanted \in BOOLEAN, stale \in {0, 1}, there \in BOOLEAN :
            StartFetch(t, r, wanted, stale, there)

-----------------------------------------------------------------------------
(* Properties.                                                                *)

\* Every slot of a profile is free or held by one exchange, however exchanges end.
SlotsBalance == free + Cardinality({t \in Fetchers : web[t].phase = "holds"}) = Slots

\* A credential reaches its own origin only, over every chain of redirects.
CredentialConfined == exposed \subseteq {Secured}

\* A request reaches its own origin and those it allows for redirects, over any number of
\* hops.
RedirectsInScope ==
  \A t \in Fetchers : web[t].phase \in {"asked", "holds", "returned"} =>
    web[t].at \in {web[t].request.start} \cup Widened

\* What was received with a credential is never cached.
CredentialedUncached == \A r \in Fetches : cached[r].body # "credentialed"

\* A verification that succeeds does not rest on one upstream alone; automatic and direct
\* search return what a single route found.
VerifiedTwice ==
  \A t \in Fetchers : web[t].phase = "found" =>
    IF web[t].strategy = "verification"
    THEN \A u \in UNION {Upstreams[s] : s \in web[t].completed} :
           \E s \in web[t].completed : Upstreams[s] # {u}
    ELSE Cardinality(web[t].completed) = 1

\* The web: a crawl is complete when it says so, and requests stay within their slots,
\* origins and credentials through redirects, caches and fall-backs.
WebGoverned ==
  /\ CrawlTypeOK /\ CompleteWhenNothingLost
  /\ WebTypeOK /\ SlotsBalance /\ CredentialConfined /\ RedirectsInScope
  /\ CredentialedUncached /\ VerifiedTwice
=============================================================================
