-------------------------- MODULE DashboardContract --------------------------
(***************************************************************************)
(* What GET /dashboard promises, whatever the order in which the providers *)
(* are asked: the widgets are fixed when they are listed, each of them     *)
(* gets exactly one outcome that depends on nothing but its own call, and  *)
(* only a complete set of outcomes is answered with 200.  The documentation*)
(* announces a concurrent fetch; it will have to keep this contract too.   *)
(***************************************************************************)
EXTENDS Integers, Sequences

CONSTANTS WidgetType, Configured, MaxWidgets

VARIABLES
  list,      \* the types of the listed widgets, by position
  outcome,   \* position -> outcome, for the widgets that have one
  present,   \* the client is still there
  phase,     \* "listing", "fetching", "answered" or "over"
  status     \* HTTP status of the response, or 0

vars == <<list, outcome, present, phase, status>>

Init ==
  /\ list = <<>> /\ outcome = <<>> /\ present = TRUE
  /\ phase = "listing" /\ status = 0

List ==
  /\ phase = "listing" /\ present
  /\ \E n \in 0 .. MaxWidgets : list' \in [1 .. n -> WidgetType]
  /\ phase' = "fetching"
  /\ UNCHANGED <<outcome, present, status>>

\* A provider without a key is never asked, one with a key always is, and
\* fetching stops only for a client that is gone.
PossibleOutcomes(type) ==
  IF type \notin Configured
    THEN {"not_configured"}
    ELSE {"none", "provider", "timeout"} \cup (IF present THEN {} ELSE {"canceled"})

Settle ==
  /\ phase = "fetching"
  /\ \E k \in DOMAIN list \ DOMAIN outcome :
       \E error \in PossibleOutcomes(list[k]) :
         outcome' = [j \in DOMAIN outcome \cup {k} |-> IF j = k THEN error ELSE outcome[j]]
  /\ UNCHANGED <<list, present, phase, status>>

Answer ==
  /\ \/ phase = "listing" /\ status' = 500
     \/ phase = "fetching" /\ DOMAIN outcome = DOMAIN list /\ status' = 200
  /\ phase' = "answered"
  /\ UNCHANGED <<list, outcome, present>>

Leave ==
  /\ present /\ phase # "over"
  /\ present' = FALSE
  /\ UNCHANGED <<list, outcome, phase, status>>

Finish ==
  /\ phase = "answered"
  /\ phase' = "over"
  /\ UNCHANGED <<list, outcome, present, status>>

Next == List \/ Settle \/ Answer \/ Leave \/ Finish

Spec == Init /\ [][Next]_vars /\ WF_vars(List \/ Answer \/ Settle) /\ WF_vars(Finish)
=============================================================================
