--------------------------- MODULE KnowledgeMutations ---------------------------
(* Ingest, refresh and memory capture of KnowledgeMutationService               *)
(* (knowledge/operations.py), over the operations, corpora and promotions of    *)
(* knowledge/repository.py, against providers that keep what they were sent.    *)
(*                                                                              *)
(* A command locks the operation it names, never the corpus: two operations on  *)
(* one corpus meet in its revision.  The lock is lost when the daemon dies; the *)
(* provider and the graph job keep what was done.                               *)
EXTENDS Naturals, Sequences

CONSTANTS
  Mutations,  \* knowledge operations
  MutationKind, \* their kinds: "ingest" and "refresh" of a semantic corpus, "graph", "capture"
  CorpusOf,   \* the corpus of an operation that has one
  Corpora,
  Loaded,     \* corpora that were ingested before
  Advisors,   \* identities that propose promotions
  Approvers,  \* promotion_approver_identities
  MaxCorpusRevision, MaxDeaths \* bounds

\* What a corpus may hold besides what an operation brought.
Before == "earlier content"
Nothing == "nothing"

\* A corpus belongs to one source, whose class is semantic or structural.
ASSUME KnowledgeAssumption ==
  /\ MutationKind \in [Mutations -> {"ingest", "refresh", "graph", "capture"}]
  /\ \A o \in Mutations : MutationKind[o] # "capture" => CorpusOf[o] \in Corpora
  /\ Loaded \subseteq Corpora /\ {MaxCorpusRevision, MaxDeaths} \subseteq Nat
  /\ Before \notin Mutations /\ Nothing \notin Mutations
  /\ \A o, p \in Mutations :
       MutationKind[o] = "graph" /\ MutationKind[p] \in {"ingest", "refresh"} => CorpusOf[o] # CorpusOf[p]

VARIABLES
  mutation,  \* KnowledgeOperationRow
  corpus,    \* KnowledgeCorpusRow: its snapshot is the operation that brought the content
  working,   \* the command on each operation
  sent,      \* how often each step of an operation was dispatched
  done,      \* the steps that took effect
  current,   \* the "current-graph" reference and the published file of a corpus
  indexer,   \* the operation that put a corpus into indexing last
  promoted,  \* the promotion of one item
  deaths     \* how often the daemon died

knowledgeVars == <<mutation, corpus, working, sent, done, current, indexer, promoted, deaths>>

MutationStates == {"absent", "queued", "running", "succeeded", "failed", "cancel_requested",
                   "cancelled", "uncertain"}
CorpusStates == {"empty", "indexing", "ready"}
Resting == [phase |-> "none"]
Provides == {"add", "cognify", "build", "write"}

\* The provider calls of an operation, in order.
StepsOf(o) ==
  CASE MutationKind[o] = "ingest" -> <<"add", "cognify">>
    [] MutationKind[o] = "refresh" -> <<"cognify">>
    [] MutationKind[o] = "graph" -> <<"build">>
    [] OTHER -> <<"write">>
HasCorpus(o) == MutationKind[o] # "capture"

KnowledgeTypeOK ==
  /\ mutation \in [Mutations -> [state : MutationStates, revision : Nat]]
  /\ \A c \in Corpora : corpus[c].state \in CorpusStates
                        /\ (corpus[c].state = "ready" => corpus[c].snapshot # Nothing)
  /\ \A o \in Mutations : working[o] # Resting => mutation[o].state \notin {"succeeded", "cancelled"}
  /\ promoted.proposer \in Advisors \cup {Nothing}
  /\ promoted.state \in {"approved", "rejected", "revoked"} =>
       promoted.decider \in Approvers \ {promoted.proposer}

KnowledgeInit ==
  /\ mutation = [o \in Mutations |-> [state |-> "absent", revision |-> 0]]
  /\ corpus = [c \in Corpora |-> IF c \in Loaded
                                 THEN [state |-> "ready", snapshot |-> Before, revision |-> 1]
                                 ELSE [state |-> "empty", snapshot |-> Nothing, revision |-> 1]]
  /\ working = [o \in Mutations |-> Resting]
  /\ sent = [o \in Mutations |-> [s \in Provides |-> 0]] /\ done = [o \in Mutations |-> {}]
  /\ current = [c \in Corpora |-> [reference |-> Before, file |-> Before]]
  /\ indexer = [c \in Corpora |-> Nothing]
  /\ promoted = [state |-> "absent", proposer |-> Nothing, decider |-> Nothing] /\ deaths = 0

MRow(state, o) == [mutation EXCEPT ![o] = [state |-> state, revision |-> @.revision + 1]]
Rests(o) == [working EXCEPT ![o] = Resting]
Goes(o, phase) == [working EXCEPT ![o].phase = phase]

-----------------------------------------------------------------------------
(* ingest, refresh and capture_memory.                                        *)

\* The corpus is read before the operation is looked for.  A refresh of a semantic corpus
\* needs a snapshot.
Request(o) ==
  /\ working[o] = Resting /\ mutation[o].state \in {"absent", "queued", "running"}
  /\ MutationKind[o] = "refresh" => corpus[CorpusOf[o]].snapshot # Nothing
  /\ HasCorpus(o) => corpus[CorpusOf[o]].revision < MaxCorpusRevision
  /\ working' = [working EXCEPT ![o] =
       IF HasCorpus(o) THEN [phase |-> "requested", at |-> corpus[CorpusOf[o]]]
       ELSE [phase |-> "requested"]]
  /\ UNCHANGED <<mutation, corpus, sent, done, current, indexer, promoted, deaths>>

\* Mutant: an operation found running is carried on.
ClaimRunning(o) ==
  /\ working[o].phase = "requested"
  /\ CASE mutation[o].state = "absent" -> mutation' = MRow("queued", o) /\ UNCHANGED working
       [] mutation[o].state = "queued" -> mutation' = MRow("running", o) /\ working' = Goes(o, "claimed")
       [] OTHER -> UNCHANGED mutation /\ working' = Goes(o, "claimed")
  /\ UNCHANGED <<corpus, sent, done, current, indexer, promoted, deaths>>

\* _resume_existing and _begin, each of whose transactions is a step: an operation found
\* running was dispatched by a command that left no settlement.
Claim(o) ==
  /\ working[o].phase = "requested"
  /\ CASE mutation[o].state = "absent" -> mutation' = MRow("queued", o) /\ UNCHANGED working
       [] mutation[o].state = "queued" -> mutation' = MRow("running", o) /\ working' = Goes(o, "claimed")
       [] OTHER -> mutation' = MRow("uncertain", o) /\ working' = Rests(o)
  /\ UNCHANGED <<corpus, sent, done, current, indexer, promoted, deaths>>

\* _set_corpus_state: another revision refuses the command and leaves the operation running.
MarkIndexing(o) ==
  /\ working[o].phase = "claimed"
  /\ IF ~HasCorpus(o) THEN working' = [working EXCEPT ![o] = [phase |-> "calling", next |-> 1]]
                           /\ UNCHANGED <<corpus, indexer>>
     ELSE LET c == CorpusOf[o]
              row == [working[o].at EXCEPT !.state = "indexing", !.revision = @ + 1]
          IN IF corpus[c].revision = working[o].at.revision
             THEN /\ corpus' = [corpus EXCEPT ![c] = row] /\ indexer' = [indexer EXCEPT ![c] = o]
                  /\ working' = [working EXCEPT ![o] = [phase |-> "calling", at |-> row, next |-> 1]]
             ELSE working' = Rests(o) /\ UNCHANGED <<corpus, indexer>>
  /\ UNCHANGED <<mutation, sent, done, current, promoted, deaths>>

\* A provider call or the graph job: the effect may come about without an answer.
Dispatch(o, takesEffect) ==
  /\ working[o].phase = "calling"
  /\ LET step == StepsOf(o)[working[o].next]
     IN /\ sent' = [sent EXCEPT ![o][step] = @ + 1]
        /\ done' = IF takesEffect THEN [done EXCEPT ![o] = @ \cup {step}] ELSE done
  /\ working' = Goes(o, "sent")
  /\ UNCHANGED <<mutation, corpus, current, indexer, promoted, deaths>>

Answer(o) ==
  /\ working[o].phase = "sent" /\ StepsOf(o)[working[o].next] \in done[o]
  /\ working' = IF working[o].next < Len(StepsOf(o))
                THEN [working EXCEPT ![o].phase = "calling", ![o].next = @ + 1]
                ELSE CASE MutationKind[o] = "graph" -> Goes(o, "built")
                       [] MutationKind[o] = "capture" -> Goes(o, "ready")
                       [] OTHER -> Goes(o, "answered")
  /\ UNCHANGED <<mutation, corpus, sent, done, current, indexer, promoted, deaths>>

\* What an ingest or a graph brings; a semantic refresh keeps the snapshot it read.
Content(o) == IF MutationKind[o] = "refresh" THEN working[o].at.snapshot ELSE o

\* put_corpus of ingest and refresh.
Publish(o) ==
  /\ working[o].phase = "answered" /\ corpus[CorpusOf[o]].revision = working[o].at.revision
  /\ corpus' = [corpus EXCEPT ![CorpusOf[o]] =
                  [state |-> "ready", snapshot |-> Content(o), revision |-> @.revision + 1]]
  /\ working' = Goes(o, "ready")
  /\ UNCHANGED <<mutation, sent, done, current, indexer, promoted, deaths>>

\* _complete_graph_refresh, of a refresh or of its reconciliation: the reference, the file
\* and the corpus, which stays as it is when the row read was ready with this graph.
PublishGraph(o) ==
  LET c == CorpusOf[o]
  IN /\ \/ /\ working[o].phase = "built" /\ working' = Goes(o, "referenced")
           /\ current' = [current EXCEPT ![c].reference = o] /\ UNCHANGED corpus
        \/ /\ working[o].phase = "referenced" /\ working' = Goes(o, "published")
           /\ current' = [current EXCEPT ![c].file = o] /\ UNCHANGED corpus
        \/ /\ working[o].phase = "published" /\ working' = Goes(o, "ready") /\ UNCHANGED current
           /\ IF working[o].at.state = "ready" /\ working[o].at.snapshot = o THEN UNCHANGED corpus
              ELSE /\ corpus[c].revision = working[o].at.revision
                   /\ corpus' = [corpus EXCEPT ![c] =
                        [state |-> "ready", snapshot |-> o, revision |-> @.revision + 1]]
     /\ UNCHANGED <<mutation, sent, done, indexer, promoted, deaths>>

Succeed(o) ==
  /\ working[o].phase = "ready" /\ mutation' = MRow("succeeded", o) /\ working' = Rests(o)
  /\ UNCHANGED <<corpus, sent, done, current, indexer, promoted, deaths>>

\* Anything from the first call on raises: _mark_uncertain.  An operation under
\* reconciliation is uncertain already.
Fail(o) ==
  /\ working[o].phase \in {"calling", "sent", "answered", "built", "referenced", "published", "ready"}
  /\ mutation' = IF mutation[o].state = "running" THEN MRow("uncertain", o) ELSE mutation
  /\ working' = Rests(o)
  /\ UNCHANGED <<corpus, sent, done, current, indexer, promoted, deaths>>

DaemonDies ==
  /\ deaths < MaxDeaths /\ deaths' = deaths + 1 /\ working' = [o \in Mutations |-> Resting]
  /\ UNCHANGED <<mutation, corpus, sent, done, current, indexer, promoted>>

-----------------------------------------------------------------------------
(* cancel, reconcile and promotions.                                          *)

Cancel(o) ==
  /\ working[o] = Resting
  /\ \/ mutation[o].state = "queued" /\ mutation' = MRow("cancelled", o) /\ UNCHANGED working
     \/ /\ mutation[o].state = "running" /\ mutation' = MRow("cancel_requested", o)
        /\ working' = [working EXCEPT ![o] = [phase |-> "cancelling"]]
  /\ UNCHANGED <<corpus, sent, done, current, indexer, promoted, deaths>>

\* The graph job was stopped before it completed; the other providers cannot tell, and the
\* operation stays as it is.  An exception makes it uncertain.
SettleCancel(o) ==
  /\ working[o].phase = "cancelling" /\ working' = Rests(o)
  /\ \/ /\ MutationKind[o] = "graph" /\ sent[o]["build"] > 0 /\ "build" \notin done[o]
        /\ mutation' = MRow("cancelled", o)
     \/ mutation' = MRow("uncertain", o)
     \/ UNCHANGED mutation
  /\ UNCHANGED <<corpus, sent, done, current, indexer, promoted, deaths>>

\* A memory is found by its marker, a graph by its job; for a semantic corpus nothing is
\* known, and reconcile returns the operation as it is.
Reconcile(o) ==
  /\ working[o] = Resting /\ mutation[o].state = "uncertain"
  /\ \/ /\ MutationKind[o] = "capture" /\ "write" \in done[o]
        /\ mutation' = MRow("succeeded", o) /\ UNCHANGED working
     \/ /\ MutationKind[o] = "graph" /\ "build" \in done[o] /\ UNCHANGED mutation
        /\ corpus[CorpusOf[o]].revision < MaxCorpusRevision
        /\ working' = [working EXCEPT ![o] = [phase |-> "built", at |-> corpus[CorpusOf[o]]]]
  /\ UNCHANGED <<corpus, sent, done, current, indexer, promoted, deaths>>

Propose(a) ==
  /\ promoted.state = "absent"
  /\ promoted' = [state |-> "proposed", proposer |-> a, decider |-> Nothing]
  /\ UNCHANGED <<mutation, corpus, working, sent, done, current, indexer, deaths>>

\* decide_promotion of the service and the repository.
Decide(a, disposition) ==
  /\ a \in Approvers /\ a # promoted.proposer
  /\ \/ promoted.state = "proposed" /\ disposition \in {"approved", "rejected"}
     \/ promoted.state = "approved" /\ disposition = "revoked"
  /\ promoted' = [promoted EXCEPT !.state = disposition, !.decider = a]
  /\ UNCHANGED <<mutation, corpus, working, sent, done, current, indexer, deaths>>

MutateNext ==
  \/ DaemonDies
  \/ \E o \in Mutations :
       \/ Request(o) \/ Claim(o) \/ MarkIndexing(o) \/ Answer(o) \/ Publish(o) \/ PublishGraph(o)
       \/ Succeed(o) \/ Fail(o) \/ Cancel(o) \/ SettleCancel(o) \/ Reconcile(o)
       \/ \E takesEffect \in BOOLEAN : Dispatch(o, takesEffect)

PromoteNext == \E a \in Advisors \cup Approvers :
  \/ a \in Advisors /\ Propose(a)
  \/ \E d \in {"approved", "rejected", "revoked"} : Decide(a, d)

-----------------------------------------------------------------------------
(* Properties.                                                                *)

\* No provider is sent the same step of an operation twice, whatever is repeated, crashes
\* or stays unanswered (_resume_existing, reconcile "without replaying the memory write").
DispatchedOnce == \A o \in Mutations, s \in Provides : sent[o][s] <= 1

\* An operation reported as succeeded took effect, every step of it, also when that was
\* found out by reconciliation.
SucceededHappened ==
  \A o \in Mutations : mutation[o].state = "succeeded" =>
    {StepsOf(o)[i] : i \in DOMAIN StepsOf(o)} \subseteq done[o]

\* A graph whose operation was cancelled is published nowhere.
CancelledUnpublished ==
  \A o \in Mutations : mutation[o].state = "cancelled" =>
    \A c \in Corpora : o \notin {corpus[c].snapshot, current[c].reference, current[c].file}

\* A semantic corpus that is ready holds what the operation brought that began to index it
\* last, and the provider has indexed it: of two operations that overlap, the one whose
\* image of the corpus is older cannot put it.
ReadyFollowsIndexer ==
  \A c \in Corpora :
    LET o == indexer[c]
    IN corpus[c].state = "ready" /\ o # Nothing /\ MutationKind[o] \in {"ingest", "refresh"} =>
         /\ "cognify" \in done[o]
         /\ MutationKind[o] = "ingest" => corpus[c].snapshot = o /\ "add" \in done[o]
=============================================================================
