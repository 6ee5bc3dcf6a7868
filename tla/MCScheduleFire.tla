--------------------------- MODULE MCScheduleFire ---------------------------
(* Scheduling followed in two ways (`focus`): a one-shot schedule whose        *)
(* occurrences are dispatched at the first instant, through crashes, and a     *)
(* cron schedule whose slots are fired over several instants.                  *)
EXTENDS MCScheduling

VARIABLE focus
fireVars == <<focus, vars>>

FireInit == Init /\ focus \in {"dispatch", "slots"}

\* The one-shot schedule fires at the first instant; the cron never starts.
Dispatching ==
  /\ Next
  /\ now' <= 1 /\ schedule'[s1].next <= 1 /\ schedule'[s2].state = "absent"

\* What happens to an occurrence once it is made does not change which slots have one.
Firing ==
  /\ Operator \/ Tick \/ ClockTick \/ Crash \/ Start \/ Reconcile
  /\ schedule'[s1].state = "absent"

FireNext ==
  /\ UNCHANGED focus
  /\ (focus = "dispatch" /\ Dispatching) \/ (focus = "slots" /\ Firing)

\* The occurrences there can be where dispatch is followed.
Dispatched == {<<s1, 1>>, <<s1, m1>>}

\* The fairness of FairSpec; only operators and the clock are narrowed above.
FireSpec ==
  /\ FireInit /\ [][FireNext]_fireVars
  /\ WF_vars(focus = "dispatch" /\ Tick) /\ WF_vars(focus = "dispatch" /\ Start)
  /\ WF_vars(focus = "dispatch" /\ Reconcile)
  /\ \A o \in Dispatched :
       /\ SF_vars(focus = "dispatch" /\ DispatchCheck(o))
       /\ WF_vars(focus = "dispatch" /\ DispatchClaim(o))
       /\ WF_vars(focus = "dispatch" /\ Command(o))

\* Where dispatch is followed, an occurrence that waits for its first dispatch, or was
\* claimed, is settled or scheduled for a retry, also when the daemon crashes on the way.
OccurrenceSettles ==
  \A o \in Dispatched :
    (focus = "dispatch" /\ state[o] \in {"pending", "dispatching"})
      ~> state[o] \in Settled \cup {"retry_waiting"}

\* An occurrence settles, and stays settled.
OccurrencesSettle ==
  /\ OccurrencesFinal
  /\ OccurrenceSettles
=============================================================================
