--------------------------- MODULE BrowserSessions ---------------------------
(* BrowserSupervisor (browser/service.py) over the Playwright driver           *)
(* (browser/playwright.py): durable sessions, actions bound to an observation  *)
(* of the current session revision and journaled under an idempotency key, and *)
(* the state of a persistent profile, kept as an artifact between sessions.    *)
(* observe, act and close hold the session's lock; open does not need it.      *)
(* Driver calls run on one engine thread.                                      *)
EXTENDS Naturals, FiniteSets

CONSTANTS
  Browsers,         \* browser session identifiers, all of one persistent profile
  Keys,             \* idempotency keys of action requests
  MaxBrowserFaults, \* bound: daemon deaths and failing artifact or profile writes
  MaxRevisions      \* bound: session revisions at which actions are still requested

ASSUME BrowserAssumption == MaxBrowserFaults \in Nat /\ MaxRevisions \in Nat \ {0}

VARIABLES
  browser,   \* BrowserSessionRow
  observed,  \* session revisions with an observation that has not expired
  action,    \* BrowserActionRow: request, state and completion
  performed, \* how often the page saw each action
  driving,   \* per session, the open or act in progress
  closer,    \* per session, the close in progress
  handles,   \* sessions with a live driver handle in this daemon
  profileDir,\* the working directory of the profile
  saved,     \* the profile artifact holds what the directory holds
  browserFaults

browserVars == <<browser, observed, action, performed, driving, closer, handles, profileDir, saved,
                 browserFaults>>

LifecycleStates == {"none", "opening", "active", "closing", "closed", "lost", "failed", "uncertain"}
ActionStates == {"none", "failed", "completed", "cancelled", "uncertain"}
Quiet == [pc |-> "free", key |-> "none"]

BrowserTypeOK ==
  /\ browser \in [Browsers -> [state : LifecycleStates, revision : 0..MaxRevisions + 3,
                               effect : BOOLEAN]]
  /\ \A s \in Browsers : \A r \in observed[s] : r <= browser[s].revision
  /\ action \in [Keys -> [state : ActionStates, session : Browsers \cup {"none"},
                          revision : 0..MaxRevisions, complete : BOOLEAN]]
  /\ performed \in [Keys -> 0..2]
  /\ \A s \in Browsers : /\ driving[s].pc \in {"free", "restored", "journaled", "performed",
                                               "settled"}
                         /\ driving[s].key \in Keys \cup {"none"}
  /\ closer \in [Browsers -> {"no", "closing", "snapshot"}]
  /\ handles \subseteq Browsers
  /\ profileDir \in {"absent", "present"} /\ saved \in BOOLEAN
  /\ browserFaults \in 0..MaxBrowserFaults

BrowserInit ==
  /\ browser = [s \in Browsers |-> [state |-> "none", revision |-> 0, effect |-> FALSE]]
  /\ observed = [s \in Browsers |-> {}]
  /\ action = [k \in Keys |-> [state |-> "none", session |-> "none", revision |-> 0,
                               complete |-> FALSE]]
  /\ performed = [k \in Keys |-> 0]
  /\ driving = [s \in Browsers |-> Quiet]
  /\ closer = [s \in Browsers |-> "no"] /\ handles = {}
  /\ profileDir = "absent" /\ saved = TRUE
  /\ browserFaults = 0

\* Nobody holds the session's lock.
Free(s) == driving[s].pc = "free" /\ closer[s] = "no"
Drive(s, pc, k) == driving' = [driving EXCEPT ![s] = [pc |-> pc, key |-> k]]
Release(s) == driving' = [driving EXCEPT ![s] = Quiet]
BrowserFault == browserFaults < MaxBrowserFaults /\ browserFaults' = browserFaults + 1

\* _replace_session: a new state, the next revision, maybe an uncertain effect.
Replace(s, state, effect) ==
  browser' = [browser EXCEPT ![s] = [state |-> state, revision |-> @.revision + 1,
                                     effect |-> effect]]

-----------------------------------------------------------------------------
(* open: restore the profile, insert the row, start the driver.               *)

\* _restore_profile_state: a working directory nobody settled is refused, an
\* earlier state is unpacked; then the row is inserted as opening.
OpenBegins(s) ==
  /\ browser[s].state = "none" /\ Free(s)
  /\ profileDir = "absent"
  /\ profileDir' = "present"
  /\ browser' = [browser EXCEPT ![s].state = "opening"]
  /\ Drive(s, "restored", "none")
  /\ UNCHANGED <<observed, action, performed, closer, handles, saved, browserFaults>>

\* The engine starts, or fails: with a persistent profile nobody knows what it
\* wrote, and the directory stays.
OpenEnds(s) ==
  /\ driving[s].pc = "restored"
  /\ \/ Replace(s, "active", FALSE) /\ handles' = handles \cup {s}
     \/ Replace(s, "uncertain", TRUE) /\ UNCHANGED handles
  /\ Release(s)
  /\ UNCHANGED <<observed, action, performed, closer, profileDir, saved, browserFaults>>

-----------------------------------------------------------------------------
(* observe and act.                                                           *)

ObservePage(s) ==
  /\ Free(s) /\ browser[s].state = "active" /\ s \in handles
  /\ browser[s].revision <= MaxRevisions
  /\ observed' = [observed EXCEPT ![s] = @ \cup {browser[s].revision}]
  /\ UNCHANGED <<browser, action, performed, driving, closer, handles, profileDir, saved, browserFaults>>

ObservationExpires(s) ==
  /\ \E r \in observed[s] : observed' = [observed EXCEPT ![s] = @ \ {r}]
  /\ UNCHANGED <<browser, action, performed, driving, closer, handles, profileDir, saved, browserFaults>>

\* _action_by_key: a known key is answered from its row, or refused while the
\* row is incomplete; in both cases nothing is dispatched.
Known(k) == action[k].state # "none"

\* The checks of _act and the journal entry, which says "failed" until the end.
\* The observation must be of the current revision and not expired.
ActBegins(s, k, revision) ==
  /\ Free(s) /\ ~Known(k)
  /\ browser[s].state = "active" /\ s \in handles
  /\ browser[s].revision = revision /\ revision \in observed[s]
  /\ action' = [action EXCEPT ![k] = [state |-> "failed", session |-> s, revision |-> revision,
                                      complete |-> FALSE]]
  /\ Drive(s, "journaled", k)
  /\ UNCHANGED <<browser, observed, performed, closer, handles, profileDir, saved, browserFaults>>

Settle(s, state) ==
  /\ action' = [action EXCEPT ![driving[s].key].state = state, ![driving[s].key].complete = TRUE]
  /\ Release(s)

\* The driver refuses before it touches the page: the request was cancelled, or
\* the target changed since the observation.
ActRefused(s) ==
  /\ driving[s].pc = "journaled"
  /\ Settle(s, "cancelled") \/ Settle(s, "failed")
  /\ UNCHANGED <<browser, observed, performed, closer, handles, profileDir, saved, browserFaults>>

\* The interaction reaches the page, which may change the profile's state.
ActPerforms(s) ==
  /\ driving[s].pc = "journaled"
  /\ performed' = [performed EXCEPT ![driving[s].key] = @ + 1]
  /\ saved' = FALSE
  /\ Drive(s, "performed", driving[s].key)
  /\ UNCHANGED <<browser, observed, action, closer, handles, profileDir, browserFaults>>

\* The session moves to the next revision, which ends the use of observations of
\* this one; a driver that lost certainty makes the session uncertain.
ActSettles(s) ==
  /\ driving[s].pc = "performed"
  /\ Replace(s, "active", FALSE) \/ Replace(s, "uncertain", TRUE)
  /\ Drive(s, "settled", driving[s].key)
  /\ UNCHANGED <<observed, action, performed, closer, handles, profileDir, saved, browserFaults>>

\* _complete_action.
ActCompletes(s) ==
  /\ driving[s].pc = "settled"
  /\ Settle(s, IF browser[s].state = "uncertain" THEN "uncertain" ELSE "completed")
  /\ UNCHANGED <<browser, observed, performed, closer, handles, profileDir, saved, browserFaults>>

\* The downloaded body cannot be stored: act raises, the row stays incomplete and
\* the session keeps its revision.
ArtifactFails(s) ==
  /\ driving[s].pc = "performed" /\ BrowserFault
  /\ Release(s)
  /\ UNCHANGED <<browser, observed, action, performed, closer, handles, profileDir, saved>>

-----------------------------------------------------------------------------
(* close: end the engine, save the profile, remove the directory.             *)

\* close takes the session lock.
MayClose(s) == Free(s)

CloseTo(s, pc) == closer' = [closer EXCEPT ![s] = pc]

CloseBegins(s) ==
  /\ MayClose(s) /\ browser[s].state = "active" /\ s \in handles
  /\ Replace(s, "closing", FALSE)
  /\ CloseTo(s, "closing")
  /\ UNCHANGED <<observed, action, performed, driving, handles, profileDir, saved, browserFaults>>

\* _snapshot_profile_state: archive, artifact, reference.
SaveProfile(s) ==
  /\ closer[s] = "closing"
  /\ saved' = TRUE
  /\ CloseTo(s, "snapshot")
  /\ UNCHANGED <<browser, observed, action, performed, driving, handles, profileDir, browserFaults>>

CloseEnds(s) ==
  /\ closer[s] = "snapshot"
  /\ profileDir' = "absent"
  /\ Replace(s, "closed", FALSE)
  /\ handles' = handles \ {s}
  /\ CloseTo(s, "no")
  /\ UNCHANGED <<observed, action, performed, driving, saved, browserFaults>>

\* The engine, the snapshot or the removal fails.
CloseFails(s) ==
  /\ closer[s] # "no" /\ BrowserFault
  /\ Replace(s, "uncertain", TRUE)
  /\ handles' = handles \ {s}
  /\ CloseTo(s, "no")
  /\ UNCHANGED <<observed, action, performed, driving, profileDir, saved>>

-----------------------------------------------------------------------------
(* The daemon dies; the next one reconciles before it serves requests.        *)

\* Mutant: only the session's own state decides.
LostUnlessLifecycle(s) ==
  IF browser[s].state \in {"opening", "closing"} THEN "uncertain" ELSE "lost"

\* A session with an incomplete action, or in the middle of open or close, is
\* uncertain, any other is lost.
ReconciledState(s) ==
  IF \/ browser[s].state \in {"opening", "closing"}
     \/ \E k \in Keys : action[k].session = s /\ ~action[k].complete
  THEN "uncertain" ELSE "lost"

RestartReconciles ==
  /\ BrowserFault
  /\ browser' = [s \in Browsers |->
       IF browser[s].state \in {"opening", "active", "closing"}
       THEN [state |-> ReconciledState(s), revision |-> browser[s].revision + 1,
             effect |-> ReconciledState(s) = "uncertain"]
       ELSE browser[s]]
  /\ driving' = [s \in Browsers |-> Quiet] /\ closer' = [s \in Browsers |-> "no"]
  /\ handles' = {}
  /\ UNCHANGED <<observed, action, performed, profileDir, saved>>

\* A person settles a leftover working directory.
OperatorSettles ==
  /\ profileDir = "present" /\ handles = {} /\ \A s \in Browsers : Free(s)
  /\ profileDir' = "absent" /\ saved' = TRUE
  /\ UNCHANGED <<browser, observed, action, performed, driving, closer, handles, browserFaults>>

BrowserStep(s) ==
  \/ OpenBegins(s) \/ OpenEnds(s) \/ ObservePage(s) \/ ObservationExpires(s)
  \/ \E k \in Keys, revision \in 0..MaxRevisions : ActBegins(s, k, revision)
  \/ ActRefused(s) \/ ActPerforms(s) \/ ActSettles(s) \/ ActCompletes(s) \/ ArtifactFails(s)
  \/ CloseBegins(s) \/ SaveProfile(s) \/ CloseEnds(s) \/ CloseFails(s)

BrowserNext == (\E s \in Browsers : BrowserStep(s)) \/ RestartReconciles \/ OperatorSettles

BrowserSpec == BrowserInit /\ [][BrowserNext]_browserVars

-----------------------------------------------------------------------------
(* Properties.                                                                *)

\* Across replays of the request, restarts and failing artifact writes, the page sees
\* an action under one idempotency key at most once.
ActedOnce == \A k \in Keys : performed[k] <= 1

\* An observation authorizes at most one action that is recorded as completed or
\* uncertain: its revision is over by then.
ObservationOnce ==
  \A k, l \in Keys :
    /\ k # l /\ action[k].session = action[l].session /\ action[k].revision = action[l].revision
    /\ action[k].state \in {"completed", "uncertain"}
    => action[l].state \notin {"completed", "uncertain"}

\* Whatever crash interrupted it, a session is called lost, where nothing remains to be
\* found out, only if each of its actions that reached the page has a recorded result.
LostMeansSettled ==
  \A s \in Browsers, k \in Keys :
    browser[s].state = "lost" /\ action[k].session = s /\ performed[k] > 0 => action[k].complete

\* The page is driven only while its session is active: no close overtakes an action.
DrivenWhileActive ==
  [][\A k \in Keys : performed'[k] # performed[k] => browser[action[k].session].state = "active"]_browserVars

\* The working directory of the profile goes only when its state is in the artifact.
ProfileKept == [][profileDir = "present" /\ profileDir' = "absent" => saved']_browserVars

\* The page is acted on at most once per key and observation, while its session is
\* active, and neither a crash nor a close loses what has to be found out or kept.
BrowserGoverned ==
  /\ [](BrowserTypeOK /\ ActedOnce /\ ObservationOnce /\ LostMeansSettled)
  /\ DrivenWhileActive
  /\ ProfileKept
=============================================================================
