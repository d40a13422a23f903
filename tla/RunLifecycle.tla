---------------------------- MODULE RunLifecycle ----------------------------
(***************************************************************************)
(* What the executor promises the launch loop about occurrences, whatever  *)
(* commands, events, pauses and restarts come between: one of them at a    *)
(* time has the controller, it gives the controller up only once it is a   *)
(* finished one, and a finished one never gets it again                    *)
(* (executor.py: async_start_run, _finish_run).                            *)
(***************************************************************************)
CONSTANTS Occurrences, Nobody

VARIABLES
  active,    \* the occurrence that has the controller
  finished   \* the occurrences that will not run again

Init == active = Nobody /\ finished = {}

Claim(o) ==
  /\ active = Nobody /\ o \notin finished
  /\ active' = o
  /\ UNCHANGED finished

Finish ==
  /\ active # Nobody
  /\ finished' = finished \cup {active}
  /\ UNCHANGED active

Release ==
  /\ active \in finished
  /\ active' = Nobody
  /\ UNCHANGED finished

Next == (\E o \in Occurrences : Claim(o)) \/ Finish \/ Release

Spec == Init /\ [][Next]_<<active, finished>>
=============================================================================
