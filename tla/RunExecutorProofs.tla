------------------------ MODULE RunExecutorProofs ------------------------
(* Proofs about the executor, for every plan, policy, fault and bound.      *)
EXTENDS RunExecutor, TLAPS

\* A journal of a claimed occurrence that has a current step.
Run(j)   == IsJournal(j) /\ j.state # "idle" /\ StepIndexes(j.occ) # {}
\* The same with no stop requested.
Going(j) == Run(j) /\ ~j.stopReq

-----------------------------------------------------------------------------
(* Facts about journals *)

\* A claimed journal names a plan, and its current step is one of the plan's.
LEMMA StepFacts ==
  ASSUME NEW j, Run(j)
  PROVE  /\ j.occ \in Occurrences
         /\ StepsOf(j) \in Seq(StepRec)
         /\ StepIndexes(j.occ) = DOMAIN StepsOf(j)
         /\ DOMAIN j.res = DOMAIN StepsOf(j)
         /\ j.idx \in DOMAIN j.res
         /\ Zone(j) \in Zones
         /\ StepsOf(j)[j.idx].dur \in Nat
  <1>1. j.occ \in Occurrences
    BY DEF Run, IsJournal
  <1>2. StepIndexes(j.occ) = DOMAIN StepsOf(j)
    BY <1>1, PlanAssumption DEF StepIndexes, StepsOf
  <1>3. StepsOf(j) \in Seq(StepRec)
    BY <1>1, PlanAssumption DEF StepsOf
  <1>4. DOMAIN j.res = DOMAIN StepsOf(j) /\ j.idx \in DOMAIN StepsOf(j)
    BY <1>2 DEF Run, IsJournal
  <1>5. StepsOf(j)[j.idx] \in StepRec
    BY <1>3, <1>4
  <1> QED
    BY <1>1, <1>2, <1>3, <1>4, <1>5 DEF StepRec, Zone

\* The delays, one by one.
LEMMA DelayFacts ==
  /\ Len(StopDelays) \in Nat /\ Len(RetryDelays) \in Nat /\ Len(RetryDelays) > 0
  /\ \A n \in 1 .. Len(StopDelays) : StopDelays[n] \in Nat
  /\ \A n \in 1 .. Len(RetryDelays) : RetryDelays[n] \in Nat
  <1>1. ASSUME NEW s \in Seq(Nat)
        PROVE  Len(s) \in Nat /\ \A n \in 1 .. Len(s) : s[n] \in Nat
    BY <1>1
  <1>2. RetryDelays \in Seq(Nat) /\ Len(RetryDelays) > 0 /\ StopDelays \in Seq(Nat)
    BY DelayAssumption
  <1> QED
    BY <1>1, <1>2

\* Replacing one result by another.
LEMMA ResultFacts ==
  ASSUME NEW j, Run(j), NEW k \in DOMAIN j.res, NEW r \in Results
  PROVE  LET n == [j EXCEPT !.res[k] = r] IN
         /\ Run(n)
         /\ n.state = j.state /\ n.stopReq = j.stopReq /\ n.occ = j.occ
  <1>1. [j.res EXCEPT ![k] = r] \in [StepIndexes(j.occ) -> Results]
    BY DEF Run, IsJournal
  <1>2. [j EXCEPT !.res[k] = r] = [j EXCEPT !.res = [j.res EXCEPT ![k] = r]]
    OBVIOUS
  <1> QED
    BY <1>1, <1>2 DEF Run, IsJournal

\* Ending a step changes that step's result only.
LEMMA EndStepFacts ==
  ASSUME NEW j, Run(j), NEW k \in DOMAIN j.res, NEW s \in Statuses, now \in Int
  PROVE  /\ Run(EndStep(j, k, s))
         /\ EndStep(j, k, s).state = j.state
         /\ EndStep(j, k, s).stopReq = j.stopReq
         /\ EndStep(j, k, s).occ = j.occ
  <1>1. j.res[k] \in Results
    BY DEF Run, IsJournal
  <1>2. [j.res[k] EXCEPT !.status = s, !.end = IF @ = NoTime /\ s # "skipped"
                                               THEN now ELSE @] \in Results
    BY <1>1 DEF Results
  <1> QED
    BY <1>2, ResultFacts DEF EndStep

\* The same for the current step of a run nobody asked to stop.
LEMMA EndCurrentFacts ==
  ASSUME NEW j, Going(j), NEW s \in Statuses, now \in Int
  PROVE  Going(EndStep(j, j.idx, s))
  <1>1. j.idx \in DOMAIN j.res
    BY StepFacts DEF Going
  <1> QED
    BY <1>1, EndStepFacts DEF Going

\* Skipping what is left changes results only.
LEMMA SkipRemainingFacts ==
  ASSUME NEW j, Run(j), now \in Int
  PROVE  /\ Run(SkipRemaining(j))
         /\ SkipRemaining(j).state = j.state
         /\ SkipRemaining(j).stopReq = j.stopReq
         /\ SkipRemaining(j).occ = j.occ
  <1> DEFINE r(k) == CASE j.res[k].status = "pending" -> [j.res[k] EXCEPT !.status = "skipped"]
                       [] j.res[k].status = "running" ->
                            [j.res[k] EXCEPT !.status = "external_stop", !.end = now]
                       [] OTHER -> j.res[k]
             f == [k \in DOMAIN j.res |-> r(k)]
  <1>1. j.res \in [StepIndexes(j.occ) -> Results] /\ DOMAIN j.res = StepIndexes(j.occ)
    BY DEF Run, IsJournal
  <1>2. ASSUME NEW k \in StepIndexes(j.occ) PROVE r(k) \in Results
    <2>1. j.res[k] \in Results
      BY <1>1
    <2>2. [j.res[k] EXCEPT !.status = "skipped"] \in Results
      BY <2>1 DEF Results, Statuses
    <2>3. [j.res[k] EXCEPT !.status = "external_stop", !.end = now] \in Results
      BY <2>1 DEF Results, Statuses
    <2> QED
      BY <2>1, <2>2, <2>3
  <1>3. f \in [StepIndexes(j.occ) -> Results]
    BY <1>1, <1>2
  <1>4. SkipRemaining(j) = [j EXCEPT !.res = f]
    BY DEF SkipRemaining
  <1> HIDE DEF f
  <1> QED
    BY <1>3, <1>4 DEF Run, IsJournal

\* The step that waters has a commanded end.
LEMMA WateringFacts ==
  ASSUME NEW j, Run(j), NEW t \in Int
  PROVE  /\ Run(Watering(j, t))
         /\ Watering(j, t).state = "watering"
         /\ Watering(j, t).end = t + StepsOf(j)[j.idx].dur
         /\ Watering(j, t).stopReq = j.stopReq
  <1> DEFINE r == [j.res[j.idx] EXCEPT !.status = "running"]
             n == [j EXCEPT !.res[j.idx] = r]
             e == t + StepsOf(j)[j.idx].dur
  <1>1. StepsOf(j)[j.idx].dur \in Nat /\ j.idx \in DOMAIN j.res
    BY StepFacts
  <1>2. r \in Results
    BY <1>1 DEF Run, IsJournal, Results, Statuses
  <1>3. Run(n) /\ n.stopReq = j.stopReq /\ n.state = j.state
    BY <1>1, <1>2, ResultFacts
  <1>4. e \in Int
    BY <1>1
  <1>5. Watering(j, t) = [n EXCEPT !.state = "watering", !.end = e]
    BY DEF Watering, Run, IsJournal
  <1> HIDE DEF n, e
  <1> QED
    BY <1>3, <1>4, <1>5 DEF Run, IsJournal, States, e

\* A pause changes the state and its time only.
LEMMA PausedFacts ==
  ASSUME NEW j, Run(j), now \in Int
  PROVE  /\ Run(PausedExternally(j))
         /\ PausedExternally(j).state = "paused_external"
         /\ PausedExternally(j).stopReq = j.stopReq
  BY DEF Run, IsJournal, PausedExternally, States

-----------------------------------------------------------------------------
(* The inductive invariant.                                                *)
(*                                                                         *)
(* TimerMatchesState speaks of the moments when the lock is free.  To be   *)
(* inductive it needs what holds while the lock is taken: which timers may *)
(* still be armed, that whoever holds the lock has an active run to work   *)
(* on, and that only the stop method holds it while a stop is requested.   *)

ExecTypeOK ==
  IsJournal(jrn) /\ timer \in TimerRec /\ hold \in HoldRec /\ mem \in MemRec

LockInv ==
  /\ hold.at = "free" => hold = Free
  /\ hold.at \in {"advance", "start", "startcall", "complete", "finishing"} => Active
  /\ hold.at \in {"stopcall", "stopped"} /\ hold.op # "stop" => Active
  /\ hold.at \in {"stopcall", "stopped"} /\ hold.op = "retry_stop" => jrn.state \in Paused
  /\ Active /\ hold.at \notin {"advance", "finishing", "down"}
       => StepIndexes(jrn.occ) # {}

TimerInv ==
  /\ hold.at \in {"stopcall", "finishing", "down"} => timer.kind = "none"
  /\ hold.at \in {"advance", "start", "stopped"} => timer.kind \in {"none", "retry_stop"}
  /\ hold.at = "stopped" /\ ~Active => timer.kind = "none"

StopInv ==
  jrn.stopReq /\ Active =>
    /\ jrn.state = "stopping"
    /\ hold.at \in {"stopcall", "stopped", "finishing", "down"}
    /\ hold.at \in {"stopcall", "stopped"} => hold.op = "stop"

AttemptInv ==
  hold.at = "startcall" \/ (hold.at = "free" /\ timer.kind \in {"classify", "retry_step"})
    => jrn.res[jrn.idx].att > 0

ExecInv ==
  ExecTypeOK /\ LockInv /\ TimerInv /\ StopInv /\ AttemptInv /\ TimerMatchesState

EnvTypeOK ==
  /\ now \in Time
  /\ src \in [Zones -> [st : {"on", "off", "unusable"}, at : Time]]
  /\ left \in 0 .. MaxDisturbances
  /\ wx \in Weathers
  /\ lastObs \in Observations
  /\ inbox \in Seq(Waiting) /\ Len(inbox) <= MaxInbox

IInv == EnvTypeOK /\ ExecInv

-----------------------------------------------------------------------------
(* What the parts of the handlers establish.  Each lemma takes a journal   *)
(* the handler works on and concludes the invariant of the next state.     *)

\* The first half of _finish_run.
LEMMA FinishEstablishes ==
  ASSUME NEW j, IsJournal(j), j.state # "idle", j.stopReq => j.state = "stopping",
         NEW outcome \in Outcomes, mem \in MemRec, Finish(j, outcome)
  PROVE  ExecInv'
  <1>1. IsJournal(jrn') /\ jrn'.state = j.state /\ jrn'.stopReq = j.stopReq
        /\ jrn'.occ = j.occ
    BY DEF Finish, IsJournal
  <1>2. hold' \in HoldRec /\ hold'.at = "finishing"
    BY DEF Finish, HoldRec
  <1>3. timer' \in TimerRec /\ timer'.kind = "none"
    BY DEF Finish, Disarm, NoTimer, TimerRec, NoTime
  <1>4. mem' \in MemRec
    BY DEF Finish, NotReconciling, MemRec
  <1>5. Active'
    BY <1>1 DEF Active, ActiveStates, IsJournal
  <1>6. hold' # Free
    BY <1>2 DEF Free, At
  <1> QED
    BY <1>1, <1>2, <1>3, <1>4, <1>5, <1>6
    DEF ExecInv, ExecTypeOK, LockInv, TimerInv, StopInv, AttemptInv, TimerMatchesState

\* Ending a run with the steps that are left recorded as skipped.
LEMMA FinishSkippingEstablishes ==
  ASSUME NEW j, Run(j), j.stopReq => j.state = "stopping", now \in Int,
         NEW outcome \in Outcomes, mem \in MemRec, Finish(SkipRemaining(j), outcome)
  PROVE  ExecInv'
  <1>1. /\ IsJournal(SkipRemaining(j)) /\ SkipRemaining(j).state = j.state
        /\ SkipRemaining(j).stopReq = j.stopReq
    BY SkipRemainingFacts DEF Run
  <1>2. j.state # "idle"
    BY DEF Run
  <1> QED
    BY <1>1, <1>2, FinishEstablishes

\* The same after the current step was given an outcome.
LEMMA FinishEndingEstablishes ==
  ASSUME NEW j, Run(j), j.stopReq => j.state = "stopping", now \in Int,
         NEW s \in Statuses, NEW outcome \in Outcomes, mem \in MemRec,
         Finish(SkipRemaining(EndStep(j, j.idx, s)), outcome)
  PROVE  ExecInv'
  <1>1. j.idx \in DOMAIN j.res
    BY StepFacts
  <1>2. /\ Run(EndStep(j, j.idx, s)) /\ EndStep(j, j.idx, s).state = j.state
        /\ EndStep(j, j.idx, s).stopReq = j.stopReq
    BY <1>1, EndStepFacts
  <1> QED
    BY <1>2, FinishSkippingEstablishes

\* Sending a stop: by the stop method, or for a run that is active.
LEMMA SendStopEstablishes ==
  ASSUME NEW j, IsJournal(j), now \in Int, mem \in MemRec,
         NEW op \in {"stop", "pause", "skip", "freeze", "overrun", "retry_stop"},
         j.stopReq /\ j.state # "idle" => op = "stop" /\ j.state = "stopping",
         op = "stop" \/ j.state # "idle",
         op = "retry_stop" => j.state \in Paused,
         j.state # "idle" => StepIndexes(j.occ) # {},
         SendStop(j, op)
  PROVE  ExecInv'
  <1>1. IsJournal(jrn') /\ jrn'.state = j.state /\ jrn'.stopReq = j.stopReq
        /\ jrn'.occ = j.occ
    BY DEF SendStop, IsJournal, Commands
  <1>2. hold' = At("stopcall", op) /\ hold' \in HoldRec /\ hold' # Free
    BY DEF SendStop, HoldRec, At, Free
  <1>3. timer' \in TimerRec /\ timer'.kind = "none" /\ mem' \in MemRec
    BY DEF SendStop, Disarm, NoTimer, TimerRec, NoTime
  <1>4. Active' <=> j.state # "idle"
    BY <1>1 DEF Active, ActiveStates, IsJournal
  <1> QED
    BY <1>1, <1>2, <1>3, <1>4
    DEF ExecInv, ExecTypeOK, LockInv, TimerInv, StopInv, AttemptInv, TimerMatchesState,
        At

\* A step that leaves the lock free and the run in a state its timer matches.
LEMMA ReleaseEstablishes ==
  ASSUME Going(jrn'), hold' = Free, timer' \in TimerRec, mem' \in MemRec, TimerMatchesState',
         timer'.kind \in {"classify", "retry_step"} => jrn'.res[jrn'.idx].att > 0
  PROVE  ExecInv'
  <1>1. hold' \in HoldRec /\ hold'.at = "free"
    BY DEF HoldRec, Free, At
  <1> QED
    BY <1>1
    DEF Going, Run, ExecInv, ExecTypeOK, LockInv, TimerInv, StopInv, AttemptInv, Free, At

\* Arming a timer.
LEMMA ArmFacts ==
  ASSUME NEW kind \in TimerKinds, NEW when \in Int, Arm(kind, when)
  PROVE  timer' \in TimerRec /\ timer'.kind = kind /\ timer'.at = when
  BY DEF Arm, TimerRec

\* An external pause leaves at most a stop retry armed.
LEMMA PauseEstablishes ==
  ASSUME NEW j, Going(j), now \in Int, jrn' = PausedExternally(j), hold' = Free,
         timer' \in TimerRec, timer'.kind \in {"none", "retry_stop"}, mem' \in MemRec
  PROVE  ExecInv'
  <1>1. Going(jrn') /\ jrn'.state = "paused_external"
    BY PausedFacts DEF Going
  <1>2. TimerMatchesState'
    BY <1>1 DEF TimerMatchesState, Paused
  <1> QED
    BY <1>1, <1>2, ReleaseEstablishes

\* _start_step ends the run, pauses it, or sends the start.
LEMMA StartStepEstablishes ==
  ASSUME NEW j, Going(j), now \in Int, mem \in MemRec, NEW o,
         NEW t \in TimerRec, t.kind \in {"none", "retry_stop"},
         StartStep(j, o, t)
  PROVE  ExecInv'
  <1>1. j.idx \in DOMAIN j.res /\ j.res[j.idx] \in Results
    BY StepFacts DEF Going, Run, IsJournal
  <1>2. ASSUME NEW out \in Outcomes, EndEarly(j, out) PROVE ExecInv'
    BY <1>2, FinishSkippingEstablishes DEF EndEarly, Going, Outcomes
  <1>3. CASE EndEarly(j, "completed_with_skips") \/ EndEarly(j, "aborted_sensor")
    BY <1>2, <1>3 DEF Outcomes
  <1>4. CASE jrn' = PausedExternally(j) /\ timer' = t /\ Release /\ UNCHANGED mem
    BY <1>4, PauseEstablishes DEF Release
  <1>5. CASE Finish(SkipRemaining(EndStep(j, j.idx, "failed")), "failed")
    BY <1>5, FinishEndingEstablishes DEF Going, Outcomes, Statuses
  <1>6. CASE /\ jrn' = [j EXCEPT !.state = "starting",
                                 !.cmd = [type |-> "start", disp |-> "intended", at |-> now],
                                 !.res[j.idx] = [j.res[j.idx] EXCEPT !.att = @ + 1]]
             /\ timer' = t
             /\ hold' = At("startcall", "none")
             /\ UNCHANGED mem
    <2> DEFINE r == [j.res[j.idx] EXCEPT !.att = @ + 1]
               n == [j EXCEPT !.res[j.idx] = r]
               c == [type |-> "start", disp |-> "intended", at |-> now]
    <2>1. r \in Results /\ r.att > 0
      BY <1>1 DEF Results
    <2>2. Going(n) /\ n.idx = j.idx /\ n.res[j.idx] = r
      BY <1>1, <2>1, ResultFacts DEF Going, Run, IsJournal
    <2>3. jrn' = [n EXCEPT !.state = "starting", !.cmd = c]
      BY <1>6 DEF Going, Run, IsJournal
    <2>4. c \in Commands
      BY DEF Commands
    <2> HIDE DEF n, r, c
    <2>5. Going(jrn') /\ jrn'.state = "starting" /\ jrn'.res[jrn'.idx].att > 0
      BY <2>1, <2>2, <2>3, <2>4 DEF Going, Run, IsJournal, States
    <2>6. hold' \in HoldRec /\ hold'.at = "startcall" /\ hold' # Free
      BY <1>6 DEF HoldRec, At, Free
    <2>7. Active'
      BY <2>5 DEF Active, ActiveStates, States
    <2> QED
      BY <1>6, <2>5, <2>6, <2>7
      DEF Going, Run, ExecInv, ExecTypeOK, LockInv, TimerInv, StopInv, AttemptInv,
          TimerMatchesState
  <1> QED
    BY <1>3, <1>4, <1>5, <1>6 DEF StartStep

\* _advance goes on with a pending step or finishes the run.
LEMMA AdvanceEstablishes ==
  ASSUME NEW j, Going(j), now \in Int, mem \in MemRec, NEW o,
         NEW t \in TimerRec, t.kind \in {"none", "retry_stop"},
         AdvanceFrom(j, o, t)
  PROVE  ExecInv'
  <1>1. CASE PendingSteps(j) = {}
    BY <1>1, FinishEstablishes DEF AdvanceFrom, Going, Run, Outcomes
  <1>2. CASE PendingSteps(j) # {}
    <2>1. PICK k \in FirstPending(j) : StartStep([j EXCEPT !.idx = k], o, t)
      BY <1>2 DEF AdvanceFrom
    <2>2. k \in DOMAIN j.res
      BY <2>1 DEF FirstPending, PendingSteps
    <2>3. k \in StepIndexes(j.occ) /\ StepIndexes(j.occ) \subseteq Nat
      BY <2>2, StepFacts DEF Going
    <2>4. Going([j EXCEPT !.idx = k])
      BY <2>3 DEF Going, Run, IsJournal
    <2> QED
      BY <2>1, <2>4, StartStepEstablishes
  <1> QED
    BY <1>1, <1>2

\* The gap timer is armed for a time, whatever step comes next.
LEMMA ArmGapFacts ==
  ASSUME NEW j, Run(j), now \in Int, ArmGap(j)
  PROVE  timer' \in TimerRec /\ timer'.kind = "gap"
  <1>1. now + Gap \in Int
    BY DelayAssumption
  <1>2. ASSUME NEW k \in FirstPending(j) PROVE StepsOf(j)[k].planned \in Int
    <2>1. k \in DOMAIN StepsOf(j) /\ StepsOf(j) \in Seq(StepRec)
      BY <1>2, StepFacts DEF FirstPending, PendingSteps
    <2>2. StepsOf(j)[k] \in StepRec
      BY <2>1
    <2> QED
      BY <2>2 DEF StepRec
  <1> QED
    BY <1>1, <1>2 DEF ArmGap, Arm, TimerRec, TimerKinds

\* _complete_step
LEMMA CompleteEstablishes ==
  ASSUME NEW j, Going(j), now \in Int, mem \in MemRec, NEW at \in Int, Complete(j, at)
  PROVE  ExecInv'
  <1> DEFINE r == [j.res[j.idx] EXCEPT !.status = "completed", !.end = at]
             n == [j EXCEPT !.res[j.idx] = r]
  <1>1. j.idx \in DOMAIN j.res /\ j.res[j.idx] \in Results
    BY StepFacts DEF Going, Run, IsJournal
  <1>2. r \in Results
    BY <1>1 DEF Results, Statuses
  <1>3. Going(n)
    BY <1>1, <1>2, ResultFacts DEF Going
  <1>4. Completed(j, at) = [n EXCEPT !.state = "inter_zone_gap", !.cmd = NoCmd,
                                     !.end = NoTime]
    BY DEF Completed, Going, Run, IsJournal
  <1>5. NoCmd \in Commands /\ NoTime \in Int
    BY DEF NoCmd, Commands, NoTime
  <1> HIDE DEF n
  <1>6. Going(Completed(j, at)) /\ Completed(j, at).state = "inter_zone_gap"
    BY <1>3, <1>4, <1>5 DEF Going, Run, IsJournal, States
  <1>7. timer' \in TimerRec /\ timer'.kind = "gap"
    BY <1>6, ArmGapFacts DEF Complete, Going
  <1>8. mem' \in MemRec
    BY DEF Complete, NotReconciling, MemRec
  <1>9. TimerMatchesState'
    BY <1>6, <1>7 DEF Complete, TimerMatchesState, Paused
  <1> QED
    BY <1>6, <1>7, <1>8, <1>9, ReleaseEstablishes DEF Complete, Release

\* _enter_overrun
LEMMA EnterOverrunEstablishes ==
  ASSUME NEW j, Going(j), now \in Int, mem \in MemRec, EnterOverrun(j)
  PROVE  ExecInv'
  <1>1. Going(jrn') /\ jrn'.state = "reconciling"
    BY DEF EnterOverrun, Going, Run, IsJournal, States
  <1>2. mem' \in MemRec /\ mem'.ctx = "overrun"
    <2>1. 0 \in 0 .. 1
      OBVIOUS
    <2> QED
      BY <2>1 DEF EnterOverrun, MemRec
  <1>3. timer' \in TimerRec /\ timer'.kind = "overrun"
    BY DelayAssumption, ArmFacts DEF EnterOverrun, TimerKinds
  <1>4. TimerMatchesState'
    BY <1>1, <1>2, <1>3 DEF TimerMatchesState, Paused
  <1> QED
    BY <1>1, <1>2, <1>3, <1>4, ReleaseEstablishes DEF EnterOverrun, Release

\* _enter_early_end
LEMMA EnterEarlyEndEstablishes ==
  ASSUME NEW j, Going(j), now \in Int, mem \in MemRec, EnterEarlyEnd(j)
  PROVE  ExecInv'
  <1>1. Going(jrn') /\ jrn'.state = "reconciling"
    BY DEF EnterEarlyEnd, Going, Run, IsJournal, States
  <1>2. mem' \in MemRec /\ mem'.ctx = "early_end"
    BY DEF EnterEarlyEnd, MemRec
  <1>3. timer' \in TimerRec /\ timer'.kind = "early_end"
    BY DelayAssumption, ArmFacts DEF EnterEarlyEnd, TimerKinds
  <1>4. TimerMatchesState'
    BY <1>1, <1>2, <1>3 DEF TimerMatchesState, Paused
  <1> QED
    BY <1>1, <1>2, <1>3, <1>4, ReleaseEstablishes DEF EnterEarlyEnd, Release

\* Marking the command as accepted changes nothing else.
LEMMA AcceptFacts ==
  ASSUME NEW j, Going(j)
  PROVE  /\ Going(Accept(j))
         /\ Accept(j).state = j.state /\ Accept(j).end = j.end
         /\ Accept(j).idx = j.idx /\ Accept(j).res = j.res /\ Accept(j).cmd.at = j.cmd.at
  BY DEF Accept, Going, Run, IsJournal, Commands

\* A step that waters again until its commanded end.
LEMMA ResumeWateringEstablishes ==
  ASSUME NEW j, Going(j), now \in Int, mem \in MemRec, ResumeWatering(j)
  PROVE  ExecInv'
  <1> DEFINE n == IF j.cmd.disp = "sent" THEN Accept(j) ELSE j
  <1>1. Going(n) /\ n.end = j.end
    BY AcceptFacts
  <1>2. jrn' = [n EXCEPT !.state = "watering"]
    BY DEF ResumeWatering
  <1> HIDE DEF n
  <1>3. Going(jrn') /\ jrn'.state = "watering" /\ jrn'.end = j.end /\ j.end \in Int
    BY <1>1, <1>2 DEF Going, Run, IsJournal, States
  <1>4. mem' \in MemRec
    BY DEF ResumeWatering, NotReconciling, MemRec
  <1>5. timer' \in TimerRec /\ timer'.kind = "expected_end" /\ timer'.at = j.end
    BY <1>3, ArmFacts DEF ResumeWatering, TimerKinds
  <1>6. TimerMatchesState'
    BY <1>3, <1>5 DEF TimerMatchesState, Paused
  <1> QED
    BY <1>3, <1>4, <1>5, <1>6, ReleaseEstablishes DEF ResumeWatering, Release

\* A step that starts to water, its end armed.
LEMMA WateringEstablishes ==
  ASSUME NEW j, Going(j), NEW t \in Int, mem' \in MemRec,
         jrn' = Watering(j, t) \/ jrn' = [Watering(j, t) EXCEPT !.cmd.disp = "sent"],
         hold' = Free, Arm("expected_end", Watering(j, t).end)
  PROVE  ExecInv'
  <1>1. Going(Watering(j, t)) /\ Watering(j, t).state = "watering"
    BY WateringFacts DEF Going
  <1>2. Watering(j, t).end \in Int
    BY <1>1 DEF Going, Run, IsJournal
  <1>3. Going(jrn') /\ jrn'.state = "watering" /\ jrn'.end = Watering(j, t).end
    BY <1>1 DEF Going, Run, IsJournal, Commands
  <1>4. timer' \in TimerRec /\ timer'.kind = "expected_end" /\ timer'.at = jrn'.end
    BY <1>2, <1>3, ArmFacts DEF TimerKinds
  <1>5. TimerMatchesState'
    BY <1>3, <1>4 DEF TimerMatchesState, Paused
  <1> QED
    BY <1>3, <1>4, <1>5, ReleaseEstablishes

\* An uncertain start that turns out to have been accepted.
LEMMA AcceptStartEstablishes ==
  ASSUME NEW j, Going(j), now \in Int, mem \in MemRec, AcceptStart(j)
  PROVE  ExecInv'
  <1> DEFINE i == IF j.cmd = NoCmd THEN j ELSE Accept(j)
             t == IF j.cmd = NoCmd THEN now ELSE j.cmd.at
  <1>1. Going(i)
    BY AcceptFacts
  <1>2. t \in Int
    BY DEF Going, Run, IsJournal, Commands
  <1>3. /\ jrn' = Watering(i, t)
        /\ mem' = mem
        /\ IF Watering(i, t).end <= now
           THEN hold' = At("complete", "none") /\ Disarm
           ELSE Release /\ Arm("expected_end", Watering(i, t).end)
    BY DEF AcceptStart
  <1> HIDE DEF i, t
  <1>4. CASE hold' = At("complete", "none") /\ Disarm
    <2>1. Going(jrn') /\ jrn'.state = "watering"
      BY <1>1, <1>2, <1>3, WateringFacts DEF Going
    <2>2. hold' \in HoldRec /\ hold'.at = "complete" /\ hold' # Free
      BY <1>4 DEF At, HoldRec, Free
    <2>3. timer' \in TimerRec
      BY <1>4 DEF Disarm, NoTimer, TimerRec, NoTime
    <2>4. Active'
      BY <2>1 DEF Active, ActiveStates, States
    <2> QED
      BY <1>3, <2>1, <2>2, <2>3, <2>4
      DEF Going, Run, ExecInv, ExecTypeOK, LockInv, TimerInv, StopInv, AttemptInv,
          TimerMatchesState
  <1>5. CASE Release /\ Arm("expected_end", Watering(i, t).end)
    BY <1>1, <1>2, <1>3, <1>5, WateringEstablishes DEF Release
  <1> QED
    BY <1>3, <1>4, <1>5

\* _external_conflict ends the run or pauses it.
LEMMA ConflictEstablishes ==
  ASSUME NEW j, Going(j), now \in Int, mem \in MemRec, Conflict(j)
  PROVE  ExecInv'
  <1> DEFINE cut == IF Current(j) = "running" THEN EndStep(j, j.idx, "external_stop")
                                              ELSE j
  <1>1. Going(cut)
    BY EndCurrentFacts DEF Statuses
  <1>2. \/ Finish(SkipRemaining(cut), "aborted_external")
        \/ jrn' = PausedExternally(cut) /\ Disarm /\ Release /\ UNCHANGED mem
    BY DEF Conflict
  <1> HIDE DEF cut
  <1>3. CASE Finish(SkipRemaining(cut), "aborted_external")
    BY <1>1, <1>3, FinishSkippingEstablishes DEF Going, Outcomes
  <1>4. CASE jrn' = PausedExternally(cut) /\ Disarm /\ Release /\ UNCHANGED mem
    BY <1>1, <1>4, PauseEstablishes DEF Disarm, Release, NoTimer, TimerRec, NoTime
  <1> QED
    BY <1>2, <1>3, <1>4

\* A sensor pause leaves at most a stop retry armed.
LEMMA SensorPauseEstablishes ==
  ASSUME Going(jrn'), jrn'.state = "paused_sensor", hold' = Free,
         timer' \in TimerRec, timer'.kind \in {"none", "retry_stop"}, mem' \in MemRec
  PROVE  ExecInv'
  <1>1. TimerMatchesState'
    BY DEF TimerMatchesState, Paused
  <1> QED
    BY <1>1, ReleaseEstablishes

\* _classify_early_end
LEMMA ClassifyEarlyEndEstablishes ==
  ASSUME NEW j, Going(j), now \in Int, mem \in MemRec, NEW o, NEW m \in MemRec,
         ClassifyEarlyEnd(j, o, m)
  PROVE  ExecInv'
  <1>1. CASE o.rain = "wet" /\ RainCutPauses
    <2> DEFINE cut == EndStep(j, j.idx, "sensor_cut")
    <2>1. Going(cut)
      BY EndCurrentFacts DEF Statuses
    <2>2. jrn' = [cut EXCEPT !.state = "paused_sensor", !.pausedAt = now]
      BY <1>1 DEF ClassifyEarlyEnd
    <2> HIDE DEF cut
    <2>3. Going(jrn') /\ jrn'.state = "paused_sensor"
      BY <2>1, <2>2 DEF Going, Run, IsJournal, States
    <2>4. timer' = NoTimer /\ hold' = Free /\ mem' = m
      BY <1>1 DEF ClassifyEarlyEnd, Disarm, Release
    <2> QED
      BY <2>3, <2>4, SensorPauseEstablishes DEF NoTimer, TimerRec, NoTime
  <1>2. CASE o.rain = "wet" /\ ~RainCutPauses
    <2>1. Finish(SkipRemaining(EndStep(j, j.idx, "sensor_cut")), "aborted_sensor")
      BY <1>2 DEF ClassifyEarlyEnd
    <2> QED
      BY <2>1, FinishEndingEstablishes DEF Going, Statuses, Outcomes
  <1>3. CASE o.rain # "wet"
    <2>1. PICK out \in {"aborted_external", "aborted_power_loss"} :
            Finish(SkipRemaining(EndStep(j, j.idx, "external_stop")), out)
      BY <1>3 DEF ClassifyEarlyEnd
    <2> QED
      BY <2>1, FinishEndingEstablishes DEF Going, Statuses, Outcomes
  <1> QED
    BY <1>1, <1>2, <1>3

\* Clearing what a journal says about a pause.
LEMMA UnpausedFacts ==
  ASSUME NEW j, Going(j)
  PROVE  Going([j EXCEPT !.reason = "none", !.pausedAt = NoTime])
  <1>1. NoTime \in Int
    BY DEF NoTime
  <1> QED
    BY <1>1 DEF Going, Run, IsJournal

\* A step that puts the run into WAITING and keeps the lock to go on.
LEMMA ResumeEstablishes ==
  ASSUME Going(jrn), ResumeOrExpire("user") \/ ResumeOrExpire("event"),
         now \in Int, mem \in MemRec, timer \in TimerRec,
         timer.kind \in {"none", "retry_stop"}
  PROVE  ExecInv'
  <1> DEFINE cleared == [jrn EXCEPT !.reason = "none", !.pausedAt = NoTime]
  <1>1. Going(cleared)
    BY UnpausedFacts
  <1>2. PICK by \in {"user", "event"} :
          \/ EndEarly(cleared, "completed_with_skips")
          \/ /\ jrn' = [cleared EXCEPT !.state = "waiting"]
             /\ hold' = At("advance", by)
             /\ UNCHANGED <<timer, mem>>
    BY DEF ResumeOrExpire
  <1> HIDE DEF cleared
  <1>3. CASE EndEarly(cleared, "completed_with_skips")
    BY <1>1, <1>3, FinishSkippingEstablishes DEF EndEarly, Going, Outcomes
  <1>4. CASE /\ jrn' = [cleared EXCEPT !.state = "waiting"]
             /\ hold' = At("advance", by)
             /\ UNCHANGED <<timer, mem>>
    <2>1. Going(jrn') /\ jrn'.state = "waiting"
      BY <1>1, <1>4 DEF Going, Run, IsJournal, States
    <2>2. hold' \in HoldRec /\ hold'.at = "advance" /\ hold' # Free
      BY <1>4 DEF At, HoldRec, Free
    <2>3. Active'
      BY <2>1 DEF Active, ActiveStates, States
    <2> QED
      BY <1>4, <2>1, <2>2, <2>3
      DEF Going, Run, ExecInv, ExecTypeOK, LockInv, TimerInv, StopInv, AttemptInv,
          TimerMatchesState
  <1> QED
    BY <1>2, <1>3, <1>4

-----------------------------------------------------------------------------
(* The environment's part of the invariant *)

\* A snapshot is an observation.
LEMMA SnapshotFacts ==
  ASSUME NEW s \in [Zones -> [st : {"on", "off", "unusable"}, at : Time]],
         NEW w \in Weathers
  PROVE  Snapshot(s, w) \in Observations
  <1>1. [z \in Zones |-> s[z].at] \in [Zones -> Time]
    OBVIOUS
  <1>2. w \in [rain : {"wet", "dry", "unknown"},
               temp : {"cold", "cool", "warm", "unknown"}, delay : BOOLEAN]
    BY SourceAssumption
  <1> QED
    BY <1>1, <1>2 DEF Snapshot, Observations

\* The snapshot of the source as it is.
LEMMA ObservationFacts ==
  ASSUME EnvTypeOK
  PROVE  Observation \in Observations
  BY SnapshotFacts DEF EnvTypeOK, Observation

\* A step of the executor leaves the world and the inbox alone, uses at most
\* a disturbance, and reads at most a new snapshot.
LEMMA EnvKept ==
  ASSUME EnvTypeOK, UNCHANGED <<world, inbox>>, left' = left \/ Disturbs,
         lastObs' = lastObs \/ lastObs' = Observation
  PROVE  EnvTypeOK'
  <1>1. left' \in 0 .. MaxDisturbances
    BY DelayAssumption DEF EnvTypeOK, Disturbs
  <1> QED
    BY <1>1, ObservationFacts DEF EnvTypeOK, world

\* Taking an event out of the inbox.
LEMMA ServeFacts ==
  ASSUME EnvTypeOK, NEW kind \in {"zone", "sensor", "weather"}, Serve(kind)
  PROVE  EnvTypeOK' /\ Head(inbox) \in SourceEvents /\ Head(inbox).kind = kind
  <1>1. /\ inbox \in Seq(Waiting) /\ inbox # <<>>
        /\ inbox' = Tail(inbox) /\ Len(inbox) <= MaxInbox
    BY DEF Serve, EnvTypeOK
  <1>2. /\ Head(inbox) \in SourceEvents /\ inbox' \in Seq(Waiting)
        /\ Len(inbox') <= MaxInbox
    <2>1. Head(inbox) \in Waiting /\ inbox' \in Seq(Waiting) /\ Len(inbox') <= MaxInbox
      BY <1>1, DelayAssumption
    <2>2. Head(inbox).kind = kind
      BY DEF Serve
    <2> QED
      BY <2>1, <2>2 DEF Waiting
  <1>3. Head(inbox).obs \in Observations
    BY <1>2 DEF SourceEvents
  <1> QED
    BY <1>2, <1>3 DEF Serve, EnvTypeOK, env

\* Putting an event into the inbox.
LEMMA EnqueueFacts ==
  ASSUME inbox \in Seq(Waiting), Len(inbox) <= MaxInbox,
         NEW e \in Waiting, Enqueue(e)
  PROVE  inbox' \in Seq(Waiting) /\ Len(inbox') <= MaxInbox
  <1>1. CASE UNCHANGED inbox
    BY <1>1
  <1>2. CASE Len(inbox) < MaxInbox /\ inbox' = Append(inbox, e)
    <2>1. inbox' \in Seq(Waiting) /\ Len(inbox') = Len(inbox) + 1
      BY <1>2
    <2> QED
      BY <1>2, <2>1, DelayAssumption
  <1> QED
    BY <1>1, <1>2 DEF Enqueue

\* The source and the clock.
LEMMA SourcePreserves ==
  ASSUME EnvTypeOK, Source \/ Tick
  PROVE  EnvTypeOK'
  <1>1. Disturbs => left' \in 0 .. MaxDisturbances
    BY DelayAssumption DEF EnvTypeOK, Disturbs
  <1>2. ASSUME NEW z \in Zones, NEW s \in SourceStates, ZoneReports(z, s)
        PROVE  EnvTypeOK'
    <2> DEFINE e == [kind |-> "zone", zone |-> z, on |-> (s = "on"), at |-> now,
                     obs |-> Snapshot(src', wx)]
    <2>1. 0 \in Time /\ s \in {"on", "off", "unusable"}
      BY DelayAssumption, SourceAssumption DEF Time
    <2>2. src' \in [Zones -> [st : {"on", "off", "unusable"}, at : Time]]
      BY <1>2, <2>1 DEF EnvTypeOK, ZoneReports
    <2>3. Snapshot(src', wx) \in Observations
      BY <2>2, SnapshotFacts DEF EnvTypeOK
    <2>4. e \in SourceEvents
      BY <2>3 DEF SourceEvents, EnvTypeOK
    <2>5. inbox' \in Seq(Waiting) /\ Len(inbox') <= MaxInbox
      <3>1. Enqueue(e)
        BY <1>2 DEF ZoneReports
      <3> HIDE DEF e
      <3> QED
        BY <2>4, <3>1, EnqueueFacts DEF EnvTypeOK, Waiting
    <2> QED
      BY <1>1, <1>2, <2>2, <2>5 DEF EnvTypeOK, ZoneReports
  <1>3. ASSUME NEW z \in Zones, ZoneReconfirmed(z) PROVE EnvTypeOK'
    <2>1. src' \in [Zones -> [st : {"on", "off", "unusable"}, at : Time]]
      BY <1>3 DEF EnvTypeOK, ZoneReconfirmed
    <2> QED
      BY <1>1, <1>3, <2>1 DEF EnvTypeOK, ZoneReconfirmed
  <1>4. ASSUME NEW w \in Weathers, WeatherChanges(w) PROVE EnvTypeOK'
    <2>1. Snapshot(src, w) \in Observations
      BY SnapshotFacts DEF EnvTypeOK
    <2>2. ASSUME NEW k \in {"sensor", "weather"}
          PROVE  [kind |-> k, obs |-> Snapshot(src, w)] \in SourceEvents
      BY <2>1 DEF SourceEvents
    <2>3. inbox' \in Seq(Waiting) /\ Len(inbox') <= MaxInbox
      <3>1. CASE UNCHANGED inbox
        BY <3>1 DEF EnvTypeOK
      <3>2. ASSUME NEW k \in {"sensor", "weather"},
                   Enqueue([kind |-> k, obs |-> Snapshot(src, w)])
            PROVE  inbox' \in Seq(Waiting) /\ Len(inbox') <= MaxInbox
        BY <2>2, <3>2, EnqueueFacts DEF EnvTypeOK, Waiting
      <3> QED
        BY <1>4, <3>1, <3>2 DEF WeatherChanges
    <2> QED
      BY <1>1, <1>4, <2>3 DEF EnvTypeOK, WeatherChanges
  <1>5. ASSUME Tick PROVE EnvTypeOK'
    BY <1>5, DelayAssumption DEF EnvTypeOK, Tick, Time
  <1> QED
    BY <1>2, <1>3, <1>4, <1>5 DEF Source

-----------------------------------------------------------------------------
(* The executor's part: one lemma per group of actions, one step per action *)

\* With the lock free, an active run has a current step and no stop request.
LEMMA FreeFacts ==
  ASSUME ExecInv, hold = Free
  PROVE  /\ Active => Going(jrn)
         /\ ~Active => timer.kind = "none" /\ jrn.state = "idle"
         /\ jrn.state \in Paused => timer.kind \in {"none", "retry_stop"}
         /\ mem \in MemRec /\ timer \in TimerRec /\ IsJournal(jrn)
  <1>1. hold.at = "free"
    BY DEF Free, At
  <1>2. IsJournal(jrn) /\ mem \in MemRec /\ timer \in TimerRec
    BY DEF ExecInv, ExecTypeOK
  <1>3. Active => Going(jrn)
    BY <1>1, <1>2 DEF ExecInv, LockInv, StopInv, Going, Run, Active, ActiveStates
  <1>4. ~Active => jrn.state = "idle"
    BY <1>2 DEF Active, ActiveStates, IsJournal
  <1>5. jrn.state = "idle" => timer.kind = "none"
    BY DEF ExecInv, TimerMatchesState, Paused
  <1>6. jrn.state \in Paused => timer.kind \in {"none", "retry_stop"}
    BY DEF ExecInv, TimerMatchesState, Paused
  <1> QED
    BY <1>2, <1>3, <1>4, <1>5, <1>6

\* A step that leaves the executor alone.
LEMMA ExecKept ==
  ASSUME ExecInv, UNCHANGED <<jrn, timer, hold, mem>>
  PROVE  ExecInv'
  BY DEF ExecInv, ExecTypeOK, LockInv, TimerInv, StopInv, AttemptInv, TimerMatchesState,
         Active

\* A skipped step leaves the gap timer armed.
LEMMA SkippedEstablishes ==
  ASSUME Going(jrn), now \in Int, jrn' = Skipped(jrn), Arm("gap", now + Gap),
         hold' = Free, mem' \in MemRec
  PROVE  ExecInv'
  <1>1. Going(EndStep(jrn, jrn.idx, "skipped"))
    BY EndCurrentFacts DEF Statuses
  <1>2. Going(jrn') /\ jrn'.state = "inter_zone_gap"
    BY <1>1 DEF Skipped, Going, Run, IsJournal, States
  <1>3. timer' \in TimerRec /\ timer'.kind = "gap"
    BY DelayAssumption, ArmFacts DEF TimerKinds
  <1>4. TimerMatchesState'
    BY <1>2, <1>3 DEF TimerMatchesState, Paused
  <1> QED
    BY <1>2, <1>3, <1>4, ReleaseEstablishes

\* A start claims an occurrence.
LEMMA StartEstablishes ==
  ASSUME IInv, NEW o \in Occurrences, hold = Free, ~Active, Start(o)
  PROVE  ExecInv'
  <1> DEFINE res == NotStarted(Len(Plans[o].steps))
  <1>2. timer.kind = "none" /\ timer \in TimerRec /\ mem \in MemRec /\ IsJournal(jrn)
    BY FreeFacts DEF IInv
  <1>3. Plans[o].steps \in Seq(StepRec) /\ o # NoOcc
    BY PlanAssumption
  <1>4. DOMAIN Plans[o].steps = 1 .. Len(Plans[o].steps) /\ Len(Plans[o].steps) \in Nat
    BY <1>3
  <1>5. StepIndexes(o) = 1 .. Len(Plans[o].steps)
    BY <1>3, <1>4 DEF StepIndexes
  <1>6. res \in [StepIndexes(o) -> Results]
    BY <1>5 DEF NotStarted, Results, Statuses, NoTime
  <1>7. 1 \in StepIndexes(o) \/ StepIndexes(o) = {}
    BY <1>4, <1>5
  <1>8. jrn.done \subseteq Occurrences
    BY <1>2 DEF IsJournal
  <1>9. Claimed(o) = Journal("waiting", o, res, jrn.done)
    BY DEF Claimed
  <1> HIDE DEF res
  <1>10. IsJournal(Claimed(o)) /\ Claimed(o).state = "waiting" /\ ~Claimed(o).stopReq
    BY <1>3, <1>6, <1>7, <1>8, <1>9 DEF Journal, IsJournal, States, Commands, NoCmd, NoTime
  <1>11. jrn' = Claimed(o) /\ hold' = At("advance", "none") /\ UNCHANGED <<timer, mem>>
    BY DEF Start
  <1>12. Active' /\ IsJournal(jrn') /\ ~jrn'.stopReq
    BY <1>10, <1>11 DEF Active, ActiveStates, States
  <1>13. hold' \in HoldRec /\ hold'.at = "advance" /\ hold' # Free
    BY <1>11 DEF At, HoldRec, Free
  <1> QED
    BY <1>2, <1>11, <1>12, <1>13
    DEF ExecInv, ExecTypeOK, LockInv, TimerInv, StopInv, AttemptInv, TimerMatchesState

\* The methods of the running executor.
LEMMA MethodsPreserve ==
  ASSUME IInv, Methods
  PROVE  ExecInv'
  <1> now \in Int
    BY DelayAssumption DEF IInv, EnvTypeOK, Time
  <1> ExecInv
    BY DEF IInv
  <1>1. ASSUME RefusedRequest PROVE ExecInv'
    BY <1>1, ExecKept DEF RefusedRequest
  <1>2. ASSUME Stop PROVE ExecInv'
    <2> DEFINE j == [jrn EXCEPT !.stopReq = TRUE,
                                !.state = IF Active THEN "stopping" ELSE @]
    <2>1. hold = Free /\ SendStop(j, "stop")
      BY <1>2 DEF Stop
    <2>2. mem \in MemRec /\ IsJournal(jrn) /\ (Active => Going(jrn))
      BY <2>1, FreeFacts
    <2>3. IsJournal(j) /\ (j.state # "idle" => j.state = "stopping" /\ Active)
      BY <2>2 DEF IsJournal, Active, ActiveStates, States
    <2>4. j.occ = jrn.occ
      BY <2>2 DEF IsJournal
    <2> HIDE DEF j
    <2>5. j.state # "idle" => StepIndexes(j.occ) # {}
      BY <2>2, <2>3, <2>4 DEF Going, Run
    <2> QED
      BY <2>1, <2>2, <2>3, <2>5, SendStopEstablishes
  <1>3. ASSUME Pause PROVE ExecInv'
    <2>1. hold = Free /\ Going(jrn) /\ mem \in MemRec
      BY <1>3, FreeFacts DEF Pause
    <2>2. CASE SendStop(jrn, "pause")
      BY <2>1, <2>2, SendStopEstablishes DEF Going, Run
    <2>3. CASE /\ jrn' = [PausedExternally(jrn) EXCEPT !.reason = "user"]
               /\ Disarm
               /\ UNCHANGED <<hold, mem>>
      <3>1. Going(PausedExternally(jrn)) /\ PausedExternally(jrn).state = "paused_external"
        BY <2>1, PausedFacts DEF Going
      <3>2. Going(jrn') /\ jrn'.state = "paused_external"
        BY <2>3, <3>1 DEF Going, Run, IsJournal
      <3>3. timer' \in TimerRec /\ timer'.kind = "none"
        BY <2>3 DEF Disarm, NoTimer, TimerRec, NoTime
      <3>4. TimerMatchesState'
        BY <3>2, <3>3 DEF TimerMatchesState, Paused
      <3> QED
        BY <2>1, <2>3, <3>2, <3>3, <3>4, ReleaseEstablishes
    <2> QED
      BY <1>3, <2>2, <2>3 DEF Pause
  <1>4. ASSUME Resume PROVE ExecInv'
    <2>1. hold = Free /\ jrn.state \in Paused /\ ResumeOrExpire("user")
      BY <1>4 DEF Resume
    <2>2. Active
      BY <2>1 DEF Paused, Active, ActiveStates, States
    <2> QED
      BY <2>1, <2>2, FreeFacts, ResumeEstablishes
  <1>5. ASSUME SkipCurrent PROVE ExecInv'
    <2>1. hold = Free /\ Going(jrn) /\ mem \in MemRec
      BY <1>5, FreeFacts DEF SkipCurrent
    <2>2. CASE SendStop(jrn, "skip")
      BY <2>1, <2>2, SendStopEstablishes DEF Going, Run
    <2>3. CASE jrn' = Skipped(jrn) /\ Arm("gap", now + Gap) /\ UNCHANGED <<hold, mem>>
      BY <2>1, <2>3, SkippedEstablishes
    <2> QED
      BY <1>5, <2>2, <2>3 DEF SkipCurrent
  <1> QED
    BY <1>1, <1>2, <1>3, <1>4, <1>5, StartEstablishes DEF Methods, StartRun

\* An idle executor with no timer.
LEMMA IdleEstablishes ==
  ASSUME IsJournal(jrn'), jrn'.state = "idle", hold' = Free,
         timer' \in TimerRec, timer'.kind = "none", mem' \in MemRec
  PROVE  ExecInv'
  <1>1. hold' \in HoldRec /\ hold'.at = "free"
    BY DEF HoldRec, Free, At
  <1>2. ~Active'
    BY DEF Active, ActiveStates
  <1>3. TimerMatchesState'
    BY DEF TimerMatchesState, Paused
  <1> QED
    BY <1>1, <1>2, <1>3
    DEF ExecInv, ExecTypeOK, LockInv, TimerInv, StopInv, AttemptInv, Free, At

\* A driver call returns.
LEMMA ReturnsPreserve ==
  ASSUME IInv, Returns
  PROVE  ExecInv'
  <1> now \in Int
    BY DelayAssumption DEF IInv, EnvTypeOK, Time
  <1> USE DEF IInv
  <1>1. IsJournal(jrn) /\ timer \in TimerRec /\ hold \in HoldRec /\ mem \in MemRec
    BY DEF ExecInv, ExecTypeOK
  <1>2. hold.at = "startcall" => Going(jrn) /\ jrn.res[jrn.idx].att > 0
    BY <1>1 DEF ExecInv, LockInv, StopInv, AttemptInv, Going, Run, Active, ActiveStates
  <1>3. hold.at = "stopcall" => timer.kind = "none"
    BY DEF ExecInv, TimerInv
  <1>4. ASSUME StartAccepted PROVE ExecInv'
    <2>1. Going(jrn) /\ jrn' = [Watering(jrn, now) EXCEPT !.cmd.disp = "sent"]
          /\ hold' = Free /\ mem' \in MemRec
      BY <1>1, <1>2, <1>4 DEF StartAccepted, Release
    <2>2. Arm("expected_end", Watering(jrn, now).end)
      BY <1>4, <2>1, WateringFacts DEF StartAccepted, Going
    <2> QED
      BY <2>1, <2>2, WateringEstablishes
  <1>5. ASSUME StartRejected PROVE ExecInv'
    <2> DEFINE j == [jrn EXCEPT !.cmd.disp = "rejected"]
    <2>1. Going(jrn) /\ Finish(SkipRemaining(EndStep(j, jrn.idx, "failed")), "failed")
      BY <1>2, <1>5 DEF StartRejected
    <2>2. Going(j) /\ j.idx = jrn.idx
      BY <2>1 DEF Going, Run, IsJournal, Commands
    <2> HIDE DEF j
    <2> QED
      BY <1>1, <2>1, <2>2, FinishEndingEstablishes DEF Going, Outcomes, Statuses
  <1>6. ASSUME StartUncertain PROVE ExecInv'
    <2>1. Going(jrn) /\ jrn.res[jrn.idx].att > 0
      BY <1>2, <1>6 DEF StartUncertain
    <2>2. Going(jrn') /\ jrn'.state = "reconciling" /\ jrn'.res[jrn'.idx].att > 0
      BY <1>6, <2>1 DEF StartUncertain, Going, Run, IsJournal, States, Commands
    <2>3. mem' \in MemRec /\ mem'.ctx = "start"
      BY <1>1, <1>6 DEF StartUncertain, MemRec
    <2>4. timer' \in TimerRec /\ timer'.kind = "classify"
      BY <1>6, DelayAssumption, ArmFacts DEF StartUncertain, TimerKinds
    <2>5. TimerMatchesState'
      BY <2>2, <2>3, <2>4 DEF TimerMatchesState, Paused
    <2> QED
      BY <1>6, <2>2, <2>3, <2>4, <2>5, ReleaseEstablishes DEF StartUncertain, Release
  <1>7. ASSUME hold.at = "stopcall", hold' = At("stopped", hold.op),
               NEW d \in {"sent", "uncertain"}, jrn' = [jrn EXCEPT !.cmd.disp = d],
               mem' \in MemRec, timer' \in TimerRec,
               timer'.kind \in {"none", "retry_stop"},
               ~Active => timer'.kind = "none"
        PROVE  ExecInv'
    <2>1. /\ IsJournal(jrn') /\ jrn'.state = jrn.state /\ jrn'.occ = jrn.occ
          /\ jrn'.stopReq = jrn.stopReq
      BY <1>1, <1>7 DEF IsJournal, Commands
    <2>2. hold' \in HoldRec /\ hold'.at = "stopped" /\ hold'.op = hold.op /\ hold' # Free
      BY <1>1, <1>7 DEF At, HoldRec, Free
    <2>3. Active' <=> Active
      BY <2>1 DEF Active
    <2> QED
      BY <1>1, <1>7, <2>1, <2>2, <2>3
      DEF ExecInv, ExecTypeOK, LockInv, TimerInv, StopInv, AttemptInv, TimerMatchesState
  <1>8. ASSUME StopConfirmed PROVE ExecInv'
    <2>1. 0 \in 0 .. Len(StopDelays)
      BY DelayAssumption
    <2>2. mem' \in MemRec
      BY <1>1, <1>8, <2>1 DEF StopConfirmed, MemRec
    <2> QED
      BY <1>1, <1>3, <1>7, <1>8, <2>2 DEF StopConfirmed
  <1>9. ASSUME StopUncertain PROVE ExecInv'
    <2>1. CASE Active /\ mem.stopTries < Len(StopDelays)
      <3>1. Len(StopDelays) \in Nat /\ mem.stopTries \in 0 .. Len(StopDelays)
        BY <1>1, DelayAssumption DEF MemRec
      <3>2. mem.stopTries + 1 \in 0 .. Len(StopDelays)
            /\ mem.stopTries + 1 \in 1 .. Len(StopDelays)
        BY <2>1, <3>1
      <3>3. StopDelays[mem.stopTries + 1] \in Nat
        BY <3>2, DelayFacts
      <3>4. mem' \in MemRec
        BY <1>1, <1>9, <2>1, <3>2 DEF StopUncertain, MemRec
      <3>5. timer' \in TimerRec /\ timer'.kind = "retry_stop"
        BY <1>9, <2>1, <3>3, ArmFacts DEF StopUncertain, TimerKinds
      <3> QED
        BY <1>7, <1>9, <2>1, <3>4, <3>5 DEF StopUncertain
    <2>2. CASE UNCHANGED <<mem, timer>>
      BY <1>1, <1>3, <1>7, <1>9, <2>2 DEF StopUncertain
    <2> QED
      BY <1>9, <2>1, <2>2 DEF StopUncertain
  <1> QED
    BY <1>4, <1>5, <1>6, <1>8, <1>9 DEF Returns

\* The lock holder goes on after a write or a call.
LEMMA GoesPreserve ==
  ASSUME IInv, Goes
  PROVE  ExecInv'
  <1> now \in Int
    BY DelayAssumption DEF IInv, EnvTypeOK, Time
  <1> USE DEF IInv
  <1>1. IsJournal(jrn) /\ timer \in TimerRec /\ hold \in HoldRec /\ mem \in MemRec
    BY DEF ExecInv, ExecTypeOK
  <1>2. ASSUME hold.at \in {"start", "complete"} PROVE Going(jrn)
    BY <1>1, <1>2 DEF ExecInv, LockInv, StopInv, Going, Run, Active, ActiveStates
  <1>3. ASSUME hold.at = "stopped", hold.op # "stop" PROVE Going(jrn)
    BY <1>1, <1>3 DEF ExecInv, LockInv, StopInv, Going, Run, Active, ActiveStates
  <1>4. hold.at \in {"advance", "start", "stopped"} => timer.kind \in {"none", "retry_stop"}
    BY DEF ExecInv, TimerInv
  <1>5. ASSUME Advance PROVE ExecInv'
    <2>1. hold.at = "advance" /\ Active /\ ~jrn.stopReq
      BY <1>5 DEF Advance, ExecInv, LockInv, StopInv
    <2>2. jrn.state # "idle"
      BY <2>1 DEF Active, ActiveStates
    <2>3. CASE StepsOf(jrn) = <<>>
      BY <1>1, <1>5, <2>1, <2>2, <2>3, FinishEstablishes DEF Advance, Outcomes
    <2>4. CASE StepsOf(jrn) # <<>>
      <3>1. jrn.occ \in Occurrences
        BY <1>1, <2>2 DEF IsJournal
      <3>2. StepsOf(jrn) \in Seq(StepRec) /\ StepIndexes(jrn.occ) = DOMAIN StepsOf(jrn)
        BY <3>1, PlanAssumption DEF StepsOf, StepIndexes
      <3>3. 1 \in StepIndexes(jrn.occ)
        BY <2>4, <3>2
      <3>4. Going(jrn)
        BY <1>1, <2>1, <2>2, <3>3 DEF Going, Run
      <3> QED
        BY <1>1, <1>4, <1>5, <2>1, <2>4, <3>4, AdvanceEstablishes DEF Advance
    <2> QED
      BY <2>3, <2>4
  <1>6. ASSUME RestartStep PROVE ExecInv'
    BY <1>1, <1>2, <1>4, <1>6, StartStepEstablishes DEF RestartStep
  <1>7. ASSUME StopDone PROVE ExecInv'
    <2>1. hold.at = "stopped" /\ hold.op = "stop"
      BY <1>7 DEF StopDone
    <2>2. CASE Active
      <3> DEFINE cut == CASE Current(jrn) = "running" -> EndStep(jrn, jrn.idx, "external_stop")
                          [] Current(jrn) = "pending" -> EndStep(jrn, jrn.idx, "skipped")
                          [] OTHER -> jrn
      <3>1. Run(jrn) /\ (jrn.stopReq => jrn.state = "stopping")
        BY <1>1, <2>1, <2>2 DEF ExecInv, LockInv, StopInv, Run, Active, ActiveStates
      <3>2. /\ Run(cut) /\ cut.state = jrn.state /\ cut.stopReq = jrn.stopReq
        <4>1. ASSUME NEW s \in {"external_stop", "skipped"}
              PROVE  LET c == EndStep(jrn, jrn.idx, s)
                     IN  Run(c) /\ c.state = jrn.state /\ c.stopReq = jrn.stopReq
          <5>1. jrn.idx \in DOMAIN jrn.res /\ s \in Statuses
            BY <3>1, StepFacts DEF Statuses
          <5>2. now \in Int
            BY <1>1
          <5> QED
            BY <3>1, <5>1, <5>2, EndStepFacts
        <4> QED
          BY <3>1, <4>1
      <3>3. Finish(SkipRemaining(cut), "aborted_user")
        BY <1>7, <2>2 DEF StopDone
      <3> HIDE DEF cut
      <3> QED
        BY <1>1, <3>1, <3>2, <3>3, FinishSkippingEstablishes DEF Outcomes
    <2>3. CASE ~Active
      <3>1. jrn' = [jrn EXCEPT !.stopReq = FALSE] /\ hold' = Free /\ UNCHANGED <<timer, mem>>
        BY <1>7, <2>3 DEF StopDone, Release
      <3>2. jrn.state = "idle" /\ timer.kind = "none"
        BY <1>1, <2>1, <2>3 DEF ExecInv, TimerInv, Active, ActiveStates, IsJournal
      <3>3. IsJournal(jrn') /\ jrn'.state = "idle" /\ ~Active'
        BY <1>1, <3>1, <3>2 DEF IsJournal, Active, ActiveStates
      <3> QED
        BY <1>1, <3>1, <3>2, <3>3, IdleEstablishes
    <2> QED
      BY <2>2, <2>3
  <1>8. ASSUME PauseDone PROVE ExecInv'
    <2> DEFINE cut == IF Current(jrn) = "running" THEN EndStep(jrn, jrn.idx, "external_stop")
                                                  ELSE jrn
    <2>1. Going(jrn) /\ timer.kind \in {"none", "retry_stop"}
      BY <1>3, <1>4, <1>8 DEF PauseDone
    <2>2. Going(cut)
      BY <2>1, EndCurrentFacts DEF Statuses
    <2>3. jrn' = [PausedExternally(cut) EXCEPT !.reason = "user"] /\ hold' = Free
          /\ UNCHANGED <<timer, mem>>
      BY <1>8 DEF PauseDone, Release
    <2> HIDE DEF cut
    <2>4. Going(PausedExternally(cut)) /\ PausedExternally(cut).state = "paused_external"
      BY <2>2, PausedFacts DEF Going
    <2>5. Going(jrn') /\ jrn'.state = "paused_external"
      BY <2>3, <2>4 DEF Going, Run, IsJournal
    <2>6. TimerMatchesState'
      BY <2>1, <2>3, <2>5 DEF TimerMatchesState, Paused
    <2> QED
      BY <1>1, <2>1, <2>3, <2>5, <2>6, ReleaseEstablishes
  <1>9. ASSUME SkipDone PROVE ExecInv'
    BY <1>1, <1>3, <1>9, SkippedEstablishes DEF SkipDone, Release
  <1>10. ASSUME FreezeCutDone PROVE ExecInv'
    <2> DEFINE cut == EndStep(jrn, jrn.idx, "sensor_cut")
    <2>1. Going(jrn) /\ timer.kind \in {"none", "retry_stop"}
      BY <1>3, <1>4, <1>10 DEF FreezeCutDone
    <2>2. Going(cut)
      BY <2>1, EndCurrentFacts DEF Statuses
    <2>3. \/ /\ jrn' = [cut EXCEPT !.state = "paused_sensor", !.pausedAt = now,
                                   !.reason = "low_temperature"]
             /\ hold' = Free /\ UNCHANGED <<timer, mem>>
          \/ Finish(SkipRemaining(cut), "aborted_sensor")
      BY <1>10 DEF FreezeCutDone, Release
    <2> HIDE DEF cut
    <2>4. CASE Finish(SkipRemaining(cut), "aborted_sensor")
      BY <1>1, <2>2, <2>4, FinishSkippingEstablishes DEF Going, Outcomes
    <2>5. CASE /\ jrn' = [cut EXCEPT !.state = "paused_sensor", !.pausedAt = now,
                                     !.reason = "low_temperature"]
               /\ hold' = Free /\ UNCHANGED <<timer, mem>>
      <3>1. Going(jrn') /\ jrn'.state = "paused_sensor"
        BY <2>2, <2>5 DEF Going, Run, IsJournal, States
      <3> QED
        BY <1>1, <2>1, <2>5, <3>1, SensorPauseEstablishes
    <2> QED
      BY <2>3, <2>4, <2>5
  <1>11. ASSUME OverrunStopped PROVE ExecInv'
    BY <1>1, <1>3, <1>11, FinishEndingEstablishes
    DEF OverrunStopped, Going, Outcomes, Statuses
  <1>12. ASSUME RetryStopDone PROVE ExecInv'
    <2>1. Going(jrn) /\ timer.kind \in {"none", "retry_stop"} /\ jrn.state \in Paused
      BY <1>3, <1>4, <1>12 DEF RetryStopDone, ExecInv, LockInv
    <2>2. hold' = Free /\ UNCHANGED <<jrn, timer, mem>>
      BY <1>12 DEF RetryStopDone, Release
    <2>3. Going(jrn')
      BY <2>1, <2>2
    <2>4. TimerMatchesState'
      BY <2>1, <2>2 DEF TimerMatchesState, Paused
    <2> QED
      BY <1>1, <2>1, <2>2, <2>3, <2>4, ReleaseEstablishes
  <1>13. ASSUME CompleteLate PROVE ExecInv'
    <2>1. Going(jrn)
      BY <1>2, <1>13 DEF CompleteLate
    <2>2. jrn.end \in Int
      BY <1>1 DEF IsJournal
    <2> QED
      BY <1>1, <1>13, <2>1, <2>2, CompleteEstablishes DEF CompleteLate
  <1>14. ASSUME FinishReset PROVE ExecInv'
    <2>1. /\ jrn' = IdleJournal(jrn.done) /\ hold' = Free /\ UNCHANGED <<timer, mem>>
          /\ timer.kind = "none"
      BY <1>14 DEF FinishReset, Release, ExecInv, TimerInv
    <2>2. jrn.done \subseteq Occurrences
      BY <1>1 DEF IsJournal
    <2>3. StepIndexes(NoOcc) = {} /\ <<>> \in [{} -> Results]
      BY DEF StepIndexes
    <2>4. IsJournal(jrn') /\ jrn'.state = "idle"
      BY <2>1, <2>2, <2>3
      DEF IdleJournal, Journal, IsJournal, States, Commands, NoCmd, NoTime
    <2> QED
      BY <1>1, <2>1, <2>4, IdleEstablishes
  <1> QED
    BY <1>5, <1>6, <1>7, <1>8, <1>9, <1>10, <1>11, <1>12, <1>13, <1>14 DEF Goes

\* A timer callback.
LEMMA TimersPreserve ==
  ASSUME IInv, Timers
  PROVE  ExecInv'
  <1> now \in Int
    BY DelayAssumption DEF IInv, EnvTypeOK, Time
  <1> USE DEF IInv
  <1>1. ASSUME hold = Free, jrn.state \in {"watering", "inter_zone_gap", "reconciling"} \cup Paused
        PROVE  Going(jrn) /\ mem \in MemRec /\ timer \in TimerRec /\ jrn.end \in Int
    BY <1>1, FreeFacts DEF Active, ActiveStates, States, Paused, IsJournal
  <1>2. NoTimer \in TimerRec /\ NoTimer.kind = "none"
    BY DEF NoTimer, TimerRec, NoTime
  <1>3. ASSUME OnExpectedEnd PROVE ExecInv'
    BY <1>1, <1>3, EnterOverrunEstablishes, CompleteEstablishes DEF OnExpectedEnd, Fires
  <1>4. ASSUME OnGap PROVE ExecInv'
    BY <1>1, <1>2, <1>4, AdvanceEstablishes DEF OnGap, Fires
  <1>5. ASSUME ConfirmOverrun PROVE ExecInv'
    <2>1. Going(jrn) /\ mem \in MemRec /\ jrn.end \in Int /\ hold = Free
          /\ jrn.state = "reconciling" /\ mem.ctx = "overrun"
      BY <1>1, <1>5 DEF ConfirmOverrun, Fires
    <2>2. CASE Complete(jrn, jrn.end)
      BY <2>1, <2>2, CompleteEstablishes
    <2>3. CASE /\ mem' = [mem EXCEPT !.confirms = 1]
               /\ Arm("overrun", now + Confirm)
               /\ UNCHANGED <<jrn, hold>>
      <3>1. 1 \in 0 .. 1
        OBVIOUS
      <3>2. mem' \in MemRec /\ mem'.ctx = "overrun"
        BY <2>1, <2>3, <3>1 DEF MemRec
      <3>3. timer' \in TimerRec /\ timer'.kind = "overrun"
        BY <2>3, DelayAssumption, ArmFacts DEF TimerKinds
      <3>4. Going(jrn') /\ jrn'.state = "reconciling"
        BY <2>1, <2>3
      <3>5. TimerMatchesState'
        BY <3>2, <3>3, <3>4 DEF TimerMatchesState, Paused
      <3> QED
        BY <2>1, <2>3, <3>2, <3>3, <3>4, <3>5, ReleaseEstablishes
    <2>4. CASE SendStop(jrn, "overrun")
      BY <2>1, <2>4, SendStopEstablishes DEF Going, Run
    <2> QED
      BY <1>5, <2>2, <2>3, <2>4 DEF ConfirmOverrun
  <1>6. ASSUME ConfirmEarlyEnd PROVE ExecInv'
    <2>1. Going(jrn) /\ mem \in MemRec
      BY <1>1, <1>6 DEF ConfirmEarlyEnd, Fires
    <2>2. NotReconciling \in MemRec
      BY <2>1 DEF NotReconciling, MemRec
    <2>3. \/ ResumeWatering(jrn)
          \/ ClassifyEarlyEnd(jrn, lastObs', NotReconciling)
      BY <1>6 DEF ConfirmEarlyEnd
    <2>4. CASE ResumeWatering(jrn)
      BY <2>1, <2>4, ResumeWateringEstablishes
    <2>5. ASSUME NEW o, ClassifyEarlyEnd(jrn, o, NotReconciling) PROVE ExecInv'
      BY <2>1, <2>2, <2>5, ClassifyEarlyEndEstablishes
    <2>6. Observation = lastObs'
      BY <1>6 DEF ConfirmEarlyEnd
    <2> QED
      BY <2>3, <2>4, <2>5, <2>6
  <1>7. ASSUME ClassifyUncertain PROVE ExecInv'
    <2> DEFINE rejected == [jrn EXCEPT !.cmd.disp = "rejected"]
               attempts == jrn.res[jrn.idx].att
    <2>1. Going(jrn) /\ mem \in MemRec /\ hold = Free /\ jrn.state = "reconciling"
          /\ timer.kind = "classify"
      BY <1>1, <1>7 DEF ClassifyUncertain, Fires
    <2>2. mem.ctx = "start"
      BY <2>1 DEF ExecInv, TimerMatchesState, Paused
    <2>3. attempts \in Nat /\ attempts > 0
      <3>1. hold.at = "free"
        BY <2>1 DEF Free, At
      <3>2. jrn.res[jrn.idx] \in Results
        BY <2>1, StepFacts DEF Going, Run, IsJournal
      <3> QED
        BY <2>1, <3>1, <3>2 DEF ExecInv, AttemptInv, Results
    <2>4. Going(rejected) /\ rejected.idx = jrn.idx /\ rejected.res = jrn.res
          /\ rejected.state = "reconciling"
      BY <2>1 DEF Going, Run, IsJournal, Commands
    <2>5. \/ AcceptStart(jrn)
          \/ Conflict(jrn)
          \/ /\ jrn' = rejected
             /\ Arm("retry_step", now + RetryDelays[IF attempts < Len(RetryDelays)
                                                    THEN attempts ELSE Len(RetryDelays)])
             /\ UNCHANGED <<hold, mem>>
          \/ Finish(SkipRemaining(EndStep(rejected, jrn.idx, "failed")), "failed")
      BY <1>7 DEF ClassifyUncertain
    <2> HIDE DEF rejected
    <2>6. CASE AcceptStart(jrn)
      BY <2>1, <2>6, AcceptStartEstablishes
    <2>7. CASE Conflict(jrn)
      BY <2>1, <2>7, ConflictEstablishes
    <2>8. CASE /\ jrn' = rejected
               /\ Arm("retry_step", now + RetryDelays[IF attempts < Len(RetryDelays)
                                                      THEN attempts ELSE Len(RetryDelays)])
               /\ UNCHANGED <<hold, mem>>
      <3> DEFINE n == IF attempts < Len(RetryDelays) THEN attempts ELSE Len(RetryDelays)
      <3>1. n \in 1 .. Len(RetryDelays)
        BY <2>3, DelayFacts
      <3> HIDE DEF n
      <3>2. RetryDelays[n] \in Nat
        BY <3>1, DelayFacts
      <3>3. now + RetryDelays[n] \in Int
        BY <3>2
      <3>4. timer' \in TimerRec /\ timer'.kind = "retry_step"
        BY <2>8, <3>3, ArmFacts DEF TimerKinds, n
      <3>5. Going(jrn') /\ jrn'.state = "reconciling" /\ jrn'.res[jrn'.idx].att > 0
            /\ hold' = Free /\ mem' = mem
        BY <2>1, <2>3, <2>4, <2>8
      <3>6. TimerMatchesState'
        BY <2>2, <3>4, <3>5 DEF TimerMatchesState, Paused
      <3> QED
        BY <2>1, <3>4, <3>5, <3>6, ReleaseEstablishes
    <2>9. CASE Finish(SkipRemaining(EndStep(rejected, jrn.idx, "failed")), "failed")
      BY <2>1, <2>4, <2>9, FinishEndingEstablishes DEF Going, Outcomes, Statuses
    <2> QED
      BY <2>5, <2>6, <2>7, <2>8, <2>9
  <1>8. ASSUME RetryStep PROVE ExecInv'
    <2>1. Going(jrn) /\ mem \in MemRec
      BY <1>1, <1>8 DEF RetryStep, Fires
    <2>2. Going([jrn EXCEPT !.state = "waiting"])
      BY <2>1 DEF Going, Run, IsJournal, States
    <2> QED
      BY <1>2, <1>8, <2>1, <2>2, StartStepEstablishes DEF RetryStep
  <1>9. ASSUME RetryUncertainStop PROVE ExecInv'
    <2>1. hold = Free /\ timer.kind = "retry_stop"
      BY <1>9 DEF RetryUncertainStop, Fires
    <2>2. jrn.state \in Paused
      BY <2>1, FreeFacts DEF ExecInv, ExecTypeOK, TimerMatchesState, IsJournal, States, Paused
    <2>3. Going(jrn) /\ mem \in MemRec
      BY <1>1, <2>1, <2>2
    <2>4. CASE SendStop(jrn, "retry_stop")
      BY <2>2, <2>3, <2>4, SendStopEstablishes DEF Going, Run
    <2>5. CASE Disarm /\ UNCHANGED <<jrn, hold, mem>>
      <3>1. Going(jrn') /\ jrn'.state \in Paused /\ timer' = NoTimer /\ hold' = Free
        BY <2>1, <2>2, <2>3, <2>5 DEF Disarm
      <3>2. TimerMatchesState'
        BY <1>2, <3>1 DEF TimerMatchesState, Paused
      <3> QED
        BY <1>2, <2>3, <2>5, <3>1, <3>2, ReleaseEstablishes
    <2> QED
      BY <1>9, <2>4, <2>5 DEF RetryUncertainStop
  <1> QED
    BY <1>3, <1>4, <1>5, <1>6, <1>7, <1>8, <1>9 DEF Timers

\* A source event is served.
LEMMA EventsPreserve ==
  ASSUME IInv, Events
  PROVE  ExecInv'
  <1> now \in Int
    BY DelayAssumption DEF IInv, EnvTypeOK, Time
  <1> USE DEF IInv
  <1> DEFINE e == Head(inbox)
  <1>0. e \in SourceEvents
    BY ServeFacts DEF Events, ServeZone, ServeSensor, ServeWeather
  <1>1. hold = Free
    BY DEF Events, ServeZone, ServeSensor, ServeWeather, Serve
  <1>2. mem \in MemRec /\ timer \in TimerRec /\ IsJournal(jrn)
    BY <1>1, FreeFacts
  <1>3. ASSUME jrn.state \in {"watering", "inter_zone_gap", "reconciling"} \cup Paused
        PROVE  Going(jrn)
    BY <1>1, <1>3, FreeFacts DEF Active, ActiveStates, States, Paused
  <1>4. ASSUME jrn.state \in Paused, ResumeOrExpire("event") PROVE ExecInv'
    BY <1>1, <1>3, <1>4, FreeFacts, ResumeEstablishes
  <1>5. ASSUME HandleSensor(e) PROVE ExecInv'
    BY <1>4, <1>5, ExecKept DEF HandleSensor, Paused
  <1>6. ASSUME HandleWeather(e) PROVE ExecInv'
    <2>1. CASE jrn.state = "watering" /\ SendStop(jrn, "freeze")
      BY <1>2, <1>3, <2>1, SendStopEstablishes DEF Going, Run
    <2>2. CASE HandleSensor(e)
      BY <1>5, <2>2
    <2> QED
      BY <1>6, <2>1, <2>2 DEF HandleWeather
  <1>7. ASSUME jrn.state = "inter_zone_gap", ZoneEventDuringGap(e) PROVE ExecInv'
    <2> DEFINE ended == jrn.res[jrn.idx].end
    <2>1. Going(jrn) /\ ended \in Int
      <3>1. Going(jrn)
        BY <1>3, <1>7
      <3>2. jrn.res[jrn.idx] \in Results
        BY <3>1, StepFacts DEF Going, Run, IsJournal
      <3> QED
        BY <3>1, <3>2 DEF Results
    <2>2. Going([jrn EXCEPT !.end = ended])
      BY <2>1 DEF Going, Run, IsJournal
    <2>3. \/ EnterOverrun([jrn EXCEPT !.end = ended])
          \/ Conflict(jrn)
          \/ UNCHANGED <<jrn, timer, hold, mem>>
      BY <1>7 DEF ZoneEventDuringGap
    <2> HIDE DEF ended
    <2> QED
      BY <1>2, <2>1, <2>2, <2>3, EnterOverrunEstablishes, ConflictEstablishes, ExecKept
  <1>8. ASSUME jrn.state \in {"watering", "reconciling"}, ZoneEventDuringRun(e), e.kind = "zone"
        PROVE  ExecInv'
    <2> DEFINE confirmed == IF jrn.cmd.disp \in {"sent", "uncertain"} THEN Accept(jrn) ELSE jrn
    <2>1. Going(jrn)
      BY <1>3, <1>8
    <2>2. /\ Going(confirmed) /\ confirmed.end = jrn.end /\ confirmed.state = jrn.state
          /\ confirmed.idx = jrn.idx /\ confirmed.res = jrn.res
          /\ confirmed.occ = jrn.occ
      BY <2>1, AcceptFacts DEF Accept, Going, Run, IsJournal
    <2>3. e.at \in Int
      <3>1. e.at \in Time
        BY <1>0, <1>8 DEF SourceEvents
      <3> QED
        BY <3>1, DelayAssumption DEF Time
    <2>4. \/ ResumeWatering(confirmed)
          \/ /\ jrn' = Watering(confirmed, e.at)
             /\ Arm("expected_end", e.at + StepsOf(jrn)[jrn.idx].dur)
             /\ UNCHANGED <<hold, mem>>
          \/ jrn' = confirmed /\ UNCHANGED <<timer, hold, mem>>
          \/ Conflict(jrn)
          \/ UNCHANGED <<jrn, timer, hold, mem>>
          \/ Complete(jrn, e.at)
          \/ ClassifyEarlyEnd(jrn, e.obs, mem)
          \/ EnterEarlyEnd(jrn)
      BY <1>8 DEF ZoneEventDuringRun
    <2> HIDE DEF confirmed
    <2>5. CASE /\ jrn' = Watering(confirmed, e.at)
               /\ Arm("expected_end", e.at + StepsOf(jrn)[jrn.idx].dur)
               /\ UNCHANGED <<hold, mem>>
      <3>1. StepsOf(confirmed) = StepsOf(jrn)
        BY <2>2 DEF StepsOf
      <3>2. Watering(confirmed, e.at).end = e.at + StepsOf(jrn)[jrn.idx].dur
        BY <2>2, <2>3, <3>1, WateringFacts DEF Going
      <3> HIDE DEF e
      <3> QED
        BY <1>1, <1>2, <2>2, <2>3, <2>5, <3>2, WateringEstablishes
    <2>6. CASE jrn' = confirmed /\ UNCHANGED <<timer, hold, mem>>
      <3>1. TimerMatchesState'
        BY <1>1, <2>2, <2>6 DEF ExecInv, TimerMatchesState
      <3>2. timer'.kind \in {"classify", "retry_step"} => jrn'.res[jrn'.idx].att > 0
        BY <1>1, <2>2, <2>6 DEF ExecInv, AttemptInv, Free, At
      <3> QED
        BY <1>1, <1>2, <2>2, <2>6, <3>1, <3>2, ReleaseEstablishes
    <2>7. CASE ResumeWatering(confirmed) \/ Conflict(jrn) \/ EnterEarlyEnd(jrn)
      BY <1>2, <2>1, <2>2, <2>7, ResumeWateringEstablishes, ConflictEstablishes,
         EnterEarlyEndEstablishes
    <2>8. CASE UNCHANGED <<jrn, timer, hold, mem>>
      BY <2>8, ExecKept
    <2>9. CASE Complete(jrn, e.at)
      BY <1>2, <2>1, <2>3, <2>9, CompleteEstablishes
    <2>10. CASE ClassifyEarlyEnd(jrn, e.obs, mem)
      BY <1>2, <2>1, <2>10, ClassifyEarlyEndEstablishes
    <2> QED
      BY <2>4, <2>5, <2>6, <2>7, <2>8, <2>9, <2>10
  <1>9. ASSUME HandleZone(e), e.kind = "zone" PROVE ExecInv'
    <2>1. CASE jrn.state \in {"watering", "reconciling"}
      BY <1>8, <1>9, <2>1 DEF HandleZone
    <2>2. CASE jrn.state = "inter_zone_gap"
      BY <1>7, <1>9, <2>2 DEF HandleZone
    <2>3. CASE jrn.state \in Paused
      BY <1>4, <1>9, <2>3, ExecKept DEF HandleZone, Paused
    <2>4. CASE jrn.state \notin {"watering", "reconciling", "inter_zone_gap"} \cup Paused
      BY <1>9, <2>4, ExecKept DEF HandleZone, Paused
    <2> QED
      BY <2>1, <2>2, <2>3, <2>4
  <1> QED
    BY <1>5, <1>6, <1>9 DEF Events, ServeZone, ServeSensor, ServeWeather, Serve

\* The executor stops, or recovers from the persisted journal.
LEMMA RestartPreserves ==
  ASSUME IInv, Restart
  PROVE  ExecInv'
  <1> now \in Int
    BY DelayAssumption DEF IInv, EnvTypeOK, Time
  <1> USE DEF IInv
  <1>1. IsJournal(jrn) /\ timer \in TimerRec /\ hold \in HoldRec /\ mem \in MemRec
    BY DEF ExecInv, ExecTypeOK
  <1>2. hold.at = "down" => timer.kind = "none"
    BY DEF ExecInv, TimerInv
  <1>3. ASSUME Crash PROVE ExecInv'
    <2>1. hold' \in HoldRec /\ hold'.at = "down" /\ hold' # Free
      BY <1>3 DEF Crash, At, HoldRec, Free
    <2>2. timer' \in TimerRec /\ timer'.kind = "none"
      BY <1>3 DEF Crash, Disarm, NoTimer, TimerRec, NoTime
    <2>3. 0 \in 0 .. 1 /\ 0 \in 0 .. Len(StopDelays)
      BY DelayAssumption
    <2>4. mem' \in MemRec
      BY <1>3, <2>3 DEF Crash, Fresh, MemRec
    <2>5. jrn' = jrn
      BY <1>3 DEF Crash
    <2>6. jrn.stopReq /\ Active => jrn.state = "stopping"
      BY DEF ExecInv, StopInv
    <2> QED
      BY <1>1, <2>1, <2>2, <2>4, <2>5, <2>6
      DEF ExecInv, ExecTypeOK, LockInv, TimerInv, StopInv, AttemptInv, TimerMatchesState, Active
  <1>4. ASSUME RecoverIdle PROVE ExecInv'
    <2>1. hold' = Free /\ ~Active /\ timer.kind = "none" /\ UNCHANGED <<jrn, timer, mem>>
      BY <1>2, <1>4 DEF RecoverIdle, Release
    <2>2. jrn.state = "idle"
      BY <1>1, <2>1 DEF Active, ActiveStates, IsJournal
    <2>3. IsJournal(jrn') /\ jrn'.state = "idle"
      BY <1>1, <2>1, <2>2
    <2> QED
      BY <1>1, <2>1, <2>3, IdleEstablishes
  <1>5. ASSUME Recover PROVE ExecInv'
    <2>1. Active /\ jrn.state # "idle" /\ (jrn.stopReq => jrn.state = "stopping")
          /\ timer.kind = "none"
      BY <1>2, <1>5 DEF Recover, Active, ActiveStates, ExecInv, StopInv
    <2>2. CASE StepsOf(jrn) = <<>>
      BY <1>1, <1>5, <2>1, <2>2, FinishEstablishes DEF Recover, Outcomes
    <2>3. CASE StepsOf(jrn) # <<>>
      <3>1. Run(jrn)
        <4>1. jrn.occ \in Occurrences
          BY <1>1, <2>1 DEF IsJournal
        <4>2. StepsOf(jrn) \in Seq(StepRec) /\ StepIndexes(jrn.occ) = DOMAIN StepsOf(jrn)
          BY <4>1, PlanAssumption DEF StepsOf, StepIndexes
        <4>3. 1 \in StepIndexes(jrn.occ)
          BY <2>3, <4>2
        <4> QED
          BY <1>1, <2>1, <4>3 DEF Run
      <3>2. CASE jrn.stopReq
        BY <1>1, <1>5, <2>1, <2>3, <3>1, <3>2, FinishSkippingEstablishes
        DEF Recover, StopPersisted, Outcomes
      <3>3. CASE ~jrn.stopReq
        <4>1. Going(jrn) /\ jrn.end \in Int
          BY <1>1, <3>1, <3>3 DEF Going, IsJournal
        <4>2. \/ /\ jrn' = [jrn EXCEPT !.state = "paused_external",
                                       !.pausedAt = IF @ = NoTime THEN now ELSE @]
                 /\ Release
                 /\ UNCHANGED <<timer, mem>>
              \/ RecoverWatering
              \/ RecoverEndReconcile
              \/ RecoverStart
              \/ jrn.state = "inter_zone_gap" /\ ArmGap(jrn) /\ Release /\ UNCHANGED <<jrn, mem>>
              \/ jrn.state \in Paused /\ Release /\ UNCHANGED <<jrn, timer, mem>>
          BY <1>5, <2>3, <3>3 DEF Recover, StopPersisted
        <4>3. CASE /\ jrn' = [jrn EXCEPT !.state = "paused_external",
                                         !.pausedAt = IF @ = NoTime THEN now ELSE @]
                   /\ Release
                   /\ UNCHANGED <<timer, mem>>
          <5>1. Going(jrn') /\ jrn'.state = "paused_external"
            BY <4>1, <4>3 DEF Going, Run, IsJournal, States
          <5>2. TimerMatchesState'
            BY <2>1, <4>3, <5>1 DEF TimerMatchesState, Paused
          <5> QED
            BY <1>1, <2>1, <4>3, <5>1, <5>2, ReleaseEstablishes DEF Release
        <4>4. ASSUME CompleteOrExpire(jrn) PROVE ExecInv'
          <5>1. CASE Complete(jrn, jrn.end)
            BY <1>1, <4>1, <5>1, CompleteEstablishes
          <5>2. CASE Finish(SkipRemaining(EndStep(jrn, jrn.idx, "completed")),
                            "completed_with_skips")
            BY <1>1, <4>1, <5>2, FinishEndingEstablishes DEF Going, Outcomes, Statuses
          <5> QED
            BY <4>4, <5>1, <5>2 DEF CompleteOrExpire
        <4>5. CASE RecoverWatering
          <5>1. CASE jrn.state = "watering" /\ Release /\ Arm("expected_end", jrn.end)
                     /\ UNCHANGED <<jrn, mem>>
            <6>1. timer' \in TimerRec /\ timer'.kind = "expected_end" /\ timer'.at = jrn.end
              BY <4>1, <5>1, ArmFacts DEF TimerKinds
            <6>2. Going(jrn')
              BY <4>1, <5>1
            <6>3. TimerMatchesState'
              BY <5>1, <6>1 DEF TimerMatchesState, Paused
            <6> QED
              BY <1>1, <5>1, <6>1, <6>2, <6>3, ReleaseEstablishes DEF Release
          <5>2. CASE Complete(jrn, jrn.end) \/ CompleteOrExpire(jrn)
            BY <1>1, <4>1, <4>4, <5>2, CompleteEstablishes
          <5> QED
            BY <4>5, <5>1, <5>2 DEF RecoverWatering
        <4>6. CASE RecoverEndReconcile
          BY <1>1, <4>1, <4>4, <4>6, EnterOverrunEstablishes, ResumeWateringEstablishes,
             ClassifyEarlyEndEstablishes DEF RecoverEndReconcile
        <4>7. CASE RecoverStart
          <5>1. CASE AcceptStart([jrn EXCEPT !.state = "watering"])
            <6>1. Going([jrn EXCEPT !.state = "watering"])
              BY <4>1 DEF Going, Run, IsJournal, States
            <6> QED
              BY <1>1, <5>1, <6>1, AcceptStartEstablishes
          <5>2. CASE /\ jrn' = [jrn EXCEPT !.state = "waiting"]
                     /\ hold' = At("start", "none")
                     /\ UNCHANGED <<timer, mem>>
            <6>1. Going(jrn') /\ jrn'.state = "waiting"
              BY <4>1, <5>2 DEF Going, Run, IsJournal, States
            <6>2. hold' \in HoldRec /\ hold'.at = "start" /\ hold' # Free
              BY <5>2 DEF At, HoldRec, Free
            <6>3. Active'
              BY <6>1 DEF Active, ActiveStates, States
            <6> QED
              BY <1>1, <2>1, <5>2, <6>1, <6>2, <6>3
              DEF Going, Run, ExecInv, ExecTypeOK, LockInv, TimerInv, StopInv, AttemptInv,
                  TimerMatchesState
          <5>3. CASE EndEarly(jrn, "completed_with_skips")
            BY <1>1, <4>1, <5>3, FinishSkippingEstablishes DEF EndEarly, Going, Outcomes
          <5> QED
            BY <4>7, <5>1, <5>2, <5>3 DEF RecoverStart
        <4>8. CASE jrn.state = "inter_zone_gap" /\ ArmGap(jrn) /\ Release /\ UNCHANGED <<jrn, mem>>
          <5>1. timer' \in TimerRec /\ timer'.kind = "gap"
            BY <4>1, <4>8, ArmGapFacts DEF Going
          <5>2. TimerMatchesState'
            BY <4>8, <5>1 DEF TimerMatchesState, Paused
          <5>3. Going(jrn')
            BY <4>1, <4>8
          <5> QED
            BY <1>1, <4>8, <5>1, <5>2, <5>3, ReleaseEstablishes DEF Release
        <4>9. CASE jrn.state \in Paused /\ Release /\ UNCHANGED <<jrn, timer, mem>>
          <5>1. TimerMatchesState'
            BY <2>1, <4>9 DEF TimerMatchesState, Paused
          <5>2. Going(jrn')
            BY <4>1, <4>9
          <5> QED
            BY <1>1, <2>1, <4>9, <5>1, <5>2, ReleaseEstablishes DEF Release
        <4> QED
          BY <4>2, <4>3, <4>5, <4>6, <4>7, <4>8, <4>9
      <3> QED
        BY <3>2, <3>3
    <2> QED
      BY <2>2, <2>3
  <1> QED
    BY <1>3, <1>4, <1>5 DEF Restart

\* A start that waits, and the lock that comes to it.
LEMMA QueuedPreserves ==
  ASSUME IInv, Queued
  PROVE  EnvTypeOK' /\ ExecInv'
  <1>1. ASSUME NEW o \in Occurrences, StartWaits(o) PROVE EnvTypeOK' /\ ExecInv'
    <2> DEFINE e == [kind |-> "start", occ |-> o]
    <2>1. e \in Waiting
      BY DEF Waiting
    <2>2. Enqueue(e)
      BY <1>1 DEF StartWaits
    <2> HIDE DEF e
    <2>3. inbox' \in Seq(Waiting) /\ Len(inbox') <= MaxInbox
      BY <2>1, <2>2, EnqueueFacts DEF IInv, EnvTypeOK
    <2>4. left' \in 0 .. MaxDisturbances
      BY <1>1, DelayAssumption DEF StartWaits, Disturbs, IInv, EnvTypeOK
    <2>5. lastObs' \in Observations
      BY <1>1, ObservationFacts DEF StartWaits, IInv
    <2>6. EnvTypeOK'
      BY <1>1, <2>3, <2>4, <2>5 DEF StartWaits, IInv, EnvTypeOK, world
    <2> QED
      BY <1>1, <2>6, ExecKept DEF StartWaits, IInv
  <1>2. ASSUME ServeStart PROVE EnvTypeOK' /\ ExecInv'
    <2> DEFINE o == Head(inbox).occ
    <2>1. inbox \in Seq(Waiting) /\ inbox # <<>> /\ Len(inbox) <= MaxInbox /\ inbox' = Tail(inbox)
      BY <1>2 DEF ServeStart, IInv, EnvTypeOK
    <2>2. Head(inbox) \in Waiting /\ inbox' \in Seq(Waiting) /\ Len(inbox') <= MaxInbox
      BY <2>1, DelayAssumption
    <2>3. o \in Occurrences
      BY <1>2, <2>2 DEF ServeStart, Waiting, SourceEvents
    <2>4. EnvTypeOK'
      BY <1>2, <2>2 DEF ServeStart, IInv, EnvTypeOK, env
    <2> HIDE DEF o
    <2>5. CASE UNCHANGED <<jrn, timer, hold, mem>>
      BY <2>4, <2>5, ExecKept DEF IInv
    <2>6. CASE ~Active /\ Start(o)
      BY <1>2, <2>3, <2>4, <2>6, StartEstablishes DEF ServeStart
    <2> QED
      BY <1>2, <2>5, <2>6 DEF ServeStart, o
  <1> QED
    BY <1>1, <1>2 DEF Queued

\* A start that waits or is refused changes nothing of the run; one that is
\* granted claims its occurrence as a start with the lock free does.
LEMMA QueuedSteps ==
  ASSUME EnvTypeOK, Queued
  PROVE  /\ UNCHANGED <<now, src, wx, history>>
         /\ \/ UNCHANGED <<jrn, timer, hold, mem>>
            \/ hold = Free /\ ~Active /\ \E o \in Occurrences : o \notin jrn.done /\ Start(o)
  <1>1. ASSUME NEW o \in Occurrences, StartWaits(o)
        PROVE  UNCHANGED <<now, src, wx, history, jrn, timer, hold, mem>>
    BY <1>1 DEF StartWaits, world
  <1>2. ASSUME ServeStart PROVE Head(inbox).occ \in Occurrences
    <2>1. inbox \in Seq(Waiting) /\ inbox # <<>>
      BY <1>2 DEF ServeStart, EnvTypeOK
    <2>2. Head(inbox) \in Waiting
      BY <2>1
    <2> QED
      BY <1>2, <2>2 DEF ServeStart, Waiting, SourceEvents
  <1>3. ASSUME ServeStart
        PROVE  /\ hold = Free /\ UNCHANGED <<now, src, wx, history>>
               /\ \/ UNCHANGED <<jrn, timer, hold, mem>>
                  \/ ~Active /\ Head(inbox).occ \notin jrn.done /\ Start(Head(inbox).occ)
    BY <1>3 DEF ServeStart, env
  <1> QED
    BY <1>1, <1>2, <1>3 DEF Queued

\* Every step keeps the environment's part.
LEMMA EnvPreserved ==
  ASSUME IInv, Next
  PROVE  EnvTypeOK'
  <1> EnvTypeOK
    BY DEF IInv
  <1>1. CASE Methods
    <2>1. UNCHANGED <<world, inbox>> /\ (left' = left \/ Disturbs)
      BY <1>1 DEF Methods, StartRun, RefusedRequest, Stop, Pause, Resume, SkipCurrent,
         world, env
    <2>2. lastObs' = lastObs \/ lastObs' = Observation
      BY <1>1 DEF Methods, StartRun, RefusedRequest, Stop, Pause, Resume, SkipCurrent
    <2> QED
      BY <2>1, <2>2, EnvKept
  <1>2. CASE Returns
    <2>1. UNCHANGED <<env, lastObs, inbox>>
      BY <1>2 DEF Returns, StartAccepted, StartRejected, StartUncertain, StopConfirmed,
         StopUncertain
    <2> QED
      BY <2>1, EnvKept DEF env, world
  <1>3. CASE Goes
    <2>1. UNCHANGED <<env, lastObs, inbox>>
      BY <1>3 DEF Goes, Advance, RestartStep, StopDone, PauseDone, SkipDone,
         FreezeCutDone, OverrunStopped, RetryStopDone, CompleteLate, FinishReset
    <2> QED
      BY <2>1, EnvKept DEF env, world
  <1>4. CASE Timers
    <2>1. UNCHANGED <<env, inbox>> /\ (lastObs' = lastObs \/ lastObs' = Observation)
      BY <1>4 DEF Timers, OnExpectedEnd, OnGap, ConfirmOverrun, ConfirmEarlyEnd,
         ClassifyUncertain, RetryStep, RetryUncertainStop
    <2> QED
      BY <2>1, EnvKept DEF env, world
  <1>5. CASE Events
    BY <1>5, ServeFacts DEF Events, ServeZone, ServeSensor, ServeWeather
  <1>6. CASE Restart
    <2>1. CASE Crash
      <3>1. left' \in 0 .. MaxDisturbances
        <4>1. left \in 0 .. MaxDisturbances /\ MaxDisturbances \in Nat
          BY DelayAssumption DEF EnvTypeOK
        <4>2. left > 0 /\ left' = left - 1
          BY <2>1 DEF Crash, Disturbs
        <4> QED
          BY <4>1, <4>2
      <3>2. inbox' \in Seq(Waiting) /\ Len(inbox') <= MaxInbox
        <4>1. <<>> \in Seq(Waiting) /\ Len(<<>>) = 0 /\ 0 <= MaxInbox
          BY DelayAssumption
        <4> QED
          BY <2>1, <4>1 DEF Crash
      <3> QED
        BY <2>1, <3>1, <3>2 DEF Crash, EnvTypeOK, world
    <2>2. CASE Recover \/ RecoverIdle
      <3>1. UNCHANGED <<env, inbox>> /\ (lastObs' = lastObs \/ lastObs' = Observation)
        BY <2>2 DEF Recover, RecoverIdle
      <3> QED
        BY <3>1, EnvKept DEF env, world
    <2> QED
      BY <1>6, <2>1, <2>2 DEF Restart
  <1>7. CASE Source \/ Tick
    BY <1>7, SourcePreserves
  <1> QED
    BY <1>1, <1>2, <1>3, <1>4, <1>5, <1>6, <1>7, QueuedPreserves DEF Next

\* Every step keeps the executor's part.
LEMMA ExecPreserved ==
  ASSUME IInv, Next
  PROVE  ExecInv'
  <1>1. CASE Source \/ Tick
    <2>1. UNCHANGED <<jrn, timer, hold, mem>>
      BY <1>1 DEF Source, Tick, ZoneReports, ZoneReconfirmed, WeatherChanges
    <2> QED
      BY <2>1, ExecKept DEF IInv
  <1> QED
    BY <1>1, MethodsPreserve, ReturnsPreserve, GoesPreserve, TimersPreserve,
       EventsPreserve, RestartPreserves, QueuedPreserves DEF Next

-----------------------------------------------------------------------------
(* The theorems *)

\* The initial states satisfy the invariant.
LEMMA InitEstablishes ==
  ASSUME Init
  PROVE  IInv
  <1>1. 0 \in Time /\ 0 \in 0 .. MaxInbox /\ 0 \in 0 .. 1 /\ 0 \in 0 .. Len(StopDelays)
    BY DelayAssumption DEF Time
  <1>2. src \in [Zones -> [st : {"on", "off", "unusable"}, at : Time]]
    BY <1>1 DEF Init
  <1>3. EnvTypeOK
    <2>1. Observation \in Observations
      BY <1>2, SnapshotFacts DEF Init, Observation
    <2>2. inbox \in Seq(Waiting) /\ Len(inbox) <= MaxInbox
      BY <1>1, DelayAssumption DEF Init
    <2> QED
      BY <1>1, <1>2, <2>1, <2>2, DelayAssumption DEF Init, EnvTypeOK
  <1>4. StepIndexes(NoOcc) = {} /\ <<>> \in [{} -> Results]
    BY DEF StepIndexes
  <1>5. IsJournal(jrn) /\ jrn.state = "idle"
    BY <1>4 DEF Init, IdleJournal, Journal, IsJournal, States, Commands, NoCmd, NoTime
  <1>6. /\ timer \in TimerRec /\ timer.kind = "none" /\ mem \in MemRec
        /\ hold = Free /\ hold \in HoldRec /\ hold.at = "free"
    BY <1>1 DEF Init, NoTimer, TimerRec, NoTime, Fresh, MemRec, Free, At, HoldRec
  <1>7. ~Active
    BY <1>5 DEF Active, ActiveStates
  <1>8. ExecInv
    BY <1>5, <1>6, <1>7
    DEF ExecInv, ExecTypeOK, LockInv, TimerInv, StopInv, AttemptInv, TimerMatchesState,
        Paused, Free, At
  <1> QED
    BY <1>3, <1>8 DEF IInv

\* The invariant is inductive: it holds at the start and every step keeps it.
THEOREM ExecutorInvariant == Spec => []IInv
  <1>1. Init => IInv
    BY InitEstablishes
  <1>2. IInv /\ [Next]_vars => IInv'
    <2>1. ASSUME IInv, Next PROVE IInv'
      BY <2>1, EnvPreserved, ExecPreserved DEF IInv
    <2>2. ASSUME IInv, UNCHANGED vars PROVE IInv'
      <3>1. UNCHANGED <<jrn, timer, hold, mem>>
            /\ UNCHANGED <<now, src, left, wx, lastObs, inbox>>
        BY <2>2 DEF vars
      <3>2. ExecInv'
        BY <2>2, <3>1, ExecKept DEF IInv
      <3> QED
        BY <2>2, <3>1, <3>2 DEF IInv, EnvTypeOK
    <2> QED
      BY <2>1, <2>2
  <1> QED
    BY <1>1, <1>2, PTL DEF Spec

\* Every variable keeps its type: in particular a journal always holds one
\* result per planned step and names one of them as the current one.
THEOREM TypeCorrect == Spec => []TypeOK
  <1>1. IInv => TypeOK
    BY DEF IInv, EnvTypeOK, ExecInv, ExecTypeOK, TypeOK
  <1> QED
    BY <1>1, ExecutorInvariant, PTL

\* Whenever the lock is free, what is armed is the timer of the state the run
\* is in: an active run is never left with nothing to wake it.
THEOREM TimerCorrect == Spec => []TimerMatchesState
  <1>1. IInv => TimerMatchesState
    BY DEF IInv, ExecInv
  <1> QED
    BY <1>1, ExecutorInvariant, PTL

\* A requested stop is never undone, by no failing call and by no restart.
THEOREM StopIsFinal == Spec => []StopWins
  <1>1. IInv => StopWins
    BY DEF IInv, ExecInv, StopInv, StopWins
  <1> QED
    BY <1>1, ExecutorInvariant, PTL
=============================================================================
