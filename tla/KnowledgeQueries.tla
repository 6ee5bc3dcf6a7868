---------------------------- MODULE KnowledgeQueries ----------------------------
(* KnowledgeService.query (knowledge/service.py) and the query records of        *)
(* knowledge/repository.py: the sources of a class are asked in order, literal   *)
(* sources when nothing acceptable was found, and one bundle settles the query.  *)
(*                                                                               *)
(* The query command and the query tool reach the service without a common lock; *)
(* a query left running by a daemon that died runs again from its first source.  *)
EXTENDS KnowledgeMutations

CONSTANTS
  Classed,     \* the sources of the query's class in selection order
  Literal,     \* the literal sources in order; empty without literal fallback
  MaxResults,  \* its result bound
  Callers      \* threads that run the query

\* No bundle settles the query yet.
NobodyYet == "nobody"

ASSUME QueryAssumption == MaxResults \in Nat \ {0} /\ NobodyYet \notin Callers

VARIABLES
  query,   \* KnowledgeQueryRow: its state, whether it is required, the thread of its bundle
  asking   \* what each thread has gathered
queryVars == <<query, asking>>

QueryStates == {"absent", "running", "completed", "degraded", "failed"}
Waiting == [phase |-> "none"]

\* What one source does to the bundle: items that are acceptable, items that are stale or of
\* unknown revision, and whether it was unavailable or left a limitation.
Gathered == [fresh : 0..MaxResults, stale : 0..MaxResults, unavailable : BOOLEAN, limited : BOOLEAN]
Empty == [fresh |-> 0, stale |-> 0, unavailable |-> FALSE, limited |-> FALSE]
Replies ==
  {r \in Gathered : r.fresh + r.stale <= MaxResults /\ (r.unavailable => r.fresh + r.stale = 0)}

Add(a, b) == [fresh |-> a.fresh + b.fresh, stale |-> a.stale + b.stale,
              unavailable |-> a.unavailable \/ b.unavailable, limited |-> a.limited \/ b.limited]
Size(a) == a.fresh + a.stale

QueryTypeOK ==
  /\ query.state \in QueryStates /\ query.by \in Callers \cup {NobodyYet}
  /\ query.by # NobodyYet <=> query.state \in {"completed", "degraded"}
  /\ \A t \in Callers : asking[t] # Waiting =>
       asking[t].all.fresh + asking[t].all.stale <= 2 * MaxResults

QueryInit ==
  /\ \E required \in BOOLEAN : query = [state |-> "absent", required |-> required, by |-> NobodyYet]
  /\ asking = [t \in Callers |-> Waiting]

\* start_query: the record is found running, or settled; the answer to a repeat is the
\* bundle of the record.
StartQuery(t) ==
  /\ asking[t] = Waiting /\ query.state \in {"absent", "running"}
  /\ query' = [query EXCEPT !.state = "running"]
  /\ asking' = [asking EXCEPT ![t] =
       [phase |-> "classed", left |-> Classed, all |-> Empty, part |-> 0, literal |-> FALSE]]

\* The next source replies, with no more items than the bound leaves room for.  The
\* fallback counts its own items only.
AskSource(t) ==
  /\ asking[t].phase \in {"classed", "literal"} /\ asking[t].left # <<>>
  /\ asking[t].part < MaxResults
  /\ \E r \in Replies :
       /\ Size(r) <= MaxResults - asking[t].part
       /\ asking' = [asking EXCEPT ![t].left = Tail(@), ![t].all = Add(@, r),
                                   ![t].part = @ + Size(r)]
  /\ UNCHANGED query

\* The deadline passes, which is a limitation, or the bound is reached, which is one only
\* for the fallback.
StopAsking(t) ==
  /\ asking[t].phase \in {"classed", "literal"}
  /\ LET full == asking[t].part >= MaxResults
         limits == asking[t].left # <<>> /\ (asking[t].phase = "literal" \/ ~full)
     IN asking' = [asking EXCEPT ![t].left = <<>>, ![t].all.limited = @ \/ limits,
          ![t].phase = IF @ = "classed" THEN "searched" ELSE "settling"]
  /\ UNCHANGED query

\* The fallback's own limitation is recorded once it ran.
FallBack(t) ==
  /\ asking[t].phase = "searched"
  /\ IF asking[t].all.fresh = 0 /\ Literal # <<>>
     THEN asking' = [asking EXCEPT ![t].phase = "literal", ![t].left = Literal, ![t].part = 0,
                                   ![t].literal = TRUE, ![t].all.limited = TRUE]
     ELSE asking' = [asking EXCEPT ![t].phase = "settling"]
  /\ UNCHANGED query

\* A source is denied, or a record of the class holds a secret: fail_query and raise.
Deny(t) ==
  /\ asking[t].phase \in {"classed", "literal"} /\ asking[t].left # <<>>
  /\ query' = IF query.state = "running" THEN [query EXCEPT !.state = "failed"] ELSE query
  /\ asking' = [asking EXCEPT ![t] = Waiting]

\* Stale items are a limitation of the bundle.
Degraded(all) == all.unavailable \/ all.limited \/ all.stale > 0

\* fail_query leaves a settled query alone; complete_query refuses it to the thread that
\* comes second, whose bundle is never returned.
SettleQuery(t) ==
  /\ asking[t].phase = "settling"
  /\ IF query.required /\ asking[t].all.fresh = 0
     THEN /\ query' = IF query.state = "running" THEN [query EXCEPT !.state = "failed"] ELSE query
          /\ asking' = [asking EXCEPT ![t] = Waiting]
     ELSE IF query.state = "running"
     THEN /\ query' = [query EXCEPT !.by = t,
                        !.state = IF Degraded(asking[t].all) THEN "degraded" ELSE "completed"]
          /\ asking' = [asking EXCEPT ![t].phase = "returned"]
     ELSE asking' = [asking EXCEPT ![t] = Waiting] /\ UNCHANGED query

\* The thread is lost with its daemon before its query is settled.
LoseThread(t) ==
  /\ asking[t].phase \notin {"none", "returned"}
  /\ asking' = [asking EXCEPT ![t] = Waiting] /\ UNCHANGED query

QueryNext == \E t \in Callers :
  StartQuery(t) \/ AskSource(t) \/ StopAsking(t) \/ FallBack(t) \/ Deny(t) \/ SettleQuery(t) \/ LoseThread(t)

-----------------------------------------------------------------------------
(* Properties.                                                                *)

\* A bundle that was returned to a caller is the one the record names, whichever other
\* thread ran the same query, failed it or settled it first.
ReturnedIsDurable ==
  \A t \in Callers : asking[t].phase = "returned" =>
    query.by = t /\ query.state \in {"completed", "degraded"}

\* A query that completed without degradation was answered by the sources of its class,
\* every one it asked, with nothing stale; a required query settles with a bundle only if
\* that holds acceptable evidence.
CompletedIsWhole ==
  query.by # NobodyYet =>
    LET a == asking[query.by]
    IN /\ query.required => a.all.fresh > 0
       /\ query.state = "completed" => a.all.stale = 0 /\ ~a.literal /\ ~a.all.unavailable

\* Knowledge: what an operation or a query reports of its provider happened, once, and
\* the corpus it left ready or the bundle it returned is the one the record names.
KnowledgeAccounted ==
  /\ KnowledgeTypeOK /\ DispatchedOnce /\ SucceededHappened /\ CancelledUnpublished /\ ReadyFollowsIndexer
  /\ QueryTypeOK /\ ReturnedIsDurable /\ CompletedIsWhole
=============================================================================
