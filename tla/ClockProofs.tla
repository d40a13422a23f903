------------------------------ MODULE ClockProofs -----------------------------
(* The journal and the clock: a step is recorded as completed once its      *)
(* commanded window is over, and a soak is kept.                            *)
EXTENDS LifecycleProofs

-----------------------------------------------------------------------------
(* What the handlers' parts do to the results.  Each leaves alone what it   *)
(* does not mention.                                                        *)

SameButResults(n, j) ==
  /\ DOMAIN n.res = DOMAIN j.res
  /\ n.idx = j.idx /\ n.end = j.end /\ n.cmd = j.cmd /\ n.state = j.state /\ n.occ = j.occ

LEMMA EndStepResults ==
  ASSUME NEW j, Run(j), NEW k \in DOMAIN j.res, NEW s
  PROVE  /\ SameButResults(EndStep(j, k, s), j)
         /\ \A m \in DOMAIN j.res : EndStep(j, k, s).res[m].status
                                      = IF m = k THEN s ELSE j.res[m].status
  <1>1. \A m \in DOMAIN j.res : j.res[m] \in Results
    BY DEF Run, IsJournal
  <1> QED
    BY <1>1 DEF Run, IsJournal, EndStep, Results, SameButResults

LEMMA SkipRemainingResults ==
  ASSUME NEW j, Run(j)
  PROVE  /\ SameButResults(SkipRemaining(j), j)
         /\ \A m \in DOMAIN j.res : SkipRemaining(j).res[m].status
              = CASE j.res[m].status = "pending" -> "skipped"
                  [] j.res[m].status = "running" -> "external_stop"
                  [] OTHER -> j.res[m].status
  <1> DEFINE r(m) == CASE j.res[m].status = "pending" -> [j.res[m] EXCEPT !.status = "skipped"]
                       [] j.res[m].status = "running" ->
                            [j.res[m] EXCEPT !.status = "external_stop", !.end = now]
                       [] OTHER -> j.res[m]
             f == [m \in DOMAIN j.res |-> r(m)]
  <1>1. SkipRemaining(j) = [j EXCEPT !.res = f]
    BY DEF SkipRemaining
  <1>2. ASSUME NEW m \in DOMAIN j.res
        PROVE  f[m].status = CASE j.res[m].status = "pending" -> "skipped"
                               [] j.res[m].status = "running" -> "external_stop"
                               [] OTHER -> j.res[m].status
    <2>1. j.res[m] \in Results /\ f[m] = r(m)
      BY DEF Run, IsJournal
    <2> HIDE DEF f
    <2> QED
      BY <2>1 DEF Results
  <1>3. DOMAIN f = DOMAIN j.res
    OBVIOUS
  <1> HIDE DEF f
  <1> QED
    BY <1>1, <1>2, <1>3 DEF Run, IsJournal, SameButResults

LEMMA WateringResults ==
  ASSUME NEW j, Run(j), NEW t
  PROVE  LET n == Watering(j, t) IN
         /\ DOMAIN n.res = DOMAIN j.res
         /\ n.idx = j.idx /\ n.cmd = j.cmd /\ n.occ = j.occ
         /\ n.state = "watering" /\ n.end = t + StepsOf(j)[j.idx].dur
         /\ \A m \in DOMAIN j.res : n.res[m].status
                                      = IF m = j.idx THEN "running" ELSE j.res[m].status
  <1>1. /\ \A m \in DOMAIN j.res : j.res[m] \in Results
        /\ j.idx \in DOMAIN j.res
    BY StepFacts DEF Run, IsJournal
  <1> QED
    BY <1>1 DEF Run, IsJournal, Watering, Results

LEMMA CompletedResults ==
  ASSUME NEW j, Run(j), NEW t
  PROVE  LET n == Completed(j, t) IN
         /\ DOMAIN n.res = DOMAIN j.res
         /\ n.idx = j.idx /\ n.cmd = NoCmd /\ n.occ = j.occ
         /\ n.state = "inter_zone_gap" /\ n.end = NoTime
         /\ \A m \in DOMAIN j.res : n.res[m].status
                                      = IF m = j.idx THEN "completed" ELSE j.res[m].status
  <1>1. /\ \A m \in DOMAIN j.res : j.res[m] \in Results
        /\ j.idx \in DOMAIN j.res
    BY StepFacts DEF Run, IsJournal
  <1> QED
    BY <1>1 DEF Run, IsJournal, Completed, Results

-----------------------------------------------------------------------------
(* Steps and the clock *)

\* No report is of the future.
Past(e) ==
  /\ e.kind # "start" => \A z \in Zones : e.obs.rep[z] <= now
  /\ e.kind = "zone" => e.at <= now

ReportsInv ==
  /\ \A z \in Zones : src[z].at <= now
  /\ \A n \in DOMAIN inbox : Past(inbox[n])

\* The journal knows when the step that waters is to end, and when the command
\* it remembers was given.
Timed(j) ==
  /\ j.cmd = NoCmd \/ j.cmd.at \in Nat
  /\ j.idx \in DOMAIN j.res /\ Current(j) = "running" => j.end # NoTime
  /\ j.state = "watering" => j.end # NoTime

\* The gap timer respects the soak of the step that is next.
SoakInv ==
  hold = Free /\ jrn.state = "inter_zone_gap" /\ Current(jrn) = "completed" =>
    \A k \in FirstPending(jrn) :
      StepsOf(jrn)[k].soak => timer.at >= StepsOf(jrn)[k].planned

\* Whoever is about to complete a step, or to ask once more whether it ended,
\* has its commanded end behind him.
ClockInv ==
  /\ Timed(jrn)
  /\ hold.at \in {"startcall", "stopcall"} \/ (hold.at = "free" /\ timer.kind = "classify")
       => jrn.cmd # NoCmd
  /\ jrn.state = "reconciling" /\ mem.ctx = "early_end" => jrn.end # NoTime
  /\ jrn.state = "reconciling" /\ mem.ctx = "overrun" => jrn.end # NoTime /\ jrn.end <= now
  /\ hold.at = "complete" => jrn.end # NoTime /\ jrn.end <= now
  /\ SoakInv

\* A journal of this run that has completed no more steps.
Carries(j) ==
  /\ DOMAIN j.res = DOMAIN jrn.res
  /\ \A k \in DOMAIN j.res : j.res[k].status = "completed" => jrn.res[k].status = "completed"

Timely(j) == Run(j) /\ Timed(j) /\ Carries(j)

\* What CompletesOnTheClock says of a step.
OnTheClock ==
  \A k \in DOMAIN jrn.res \cap DOMAIN jrn'.res :
    jrn.res[k].status # "completed" /\ jrn'.res[k].status = "completed"
    => k = jrn.idx /\ jrn.end # NoTime /\ now >= jrn.end - EarlyTolerance

Clocked == ClockInv' /\ OnTheClock

LEMMA CarriesOnTheClock ==
  ASSUME Carries(jrn')
  PROVE  OnTheClock
  BY DEF Carries, OnTheClock

\* A step that ends otherwise than as completed.
LEMMA PartsTimely ==
  ASSUME NEW j, Timely(j), now \in Time
  PROVE  /\ Timely(SkipRemaining(j))
         /\ \A k \in DOMAIN j.res, s \in Statuses \ {"completed", "running"} :
              Timely(EndStep(j, k, s))
  <1>1. now \in Int
    BY DelayAssumption DEF Time
  <1>2. Timely(SkipRemaining(j))
    <2>1. Run(SkipRemaining(j))
      BY <1>1, SkipRemainingFacts DEF Timely
    <2> QED
      BY <2>1, SkipRemainingResults DEF Timely, Timed, Carries, SameButResults, Current
  <1>3. ASSUME NEW k \in DOMAIN j.res, NEW s \in Statuses \ {"completed", "running"}
        PROVE  Timely(EndStep(j, k, s))
    <2>1. Run(EndStep(j, k, s))
      BY <1>1, EndStepFacts DEF Timely
    <2> QED
      BY <2>1, EndStepResults DEF Timely, Timed, Carries, SameButResults, Current
  <1> QED
    BY <1>2, <1>3

\* The current step is one of the steps.
LEMMA EndingTimely ==
  ASSUME NEW j, Timely(j), now \in Time, NEW s \in Statuses \ {"completed", "running"}
  PROVE  Timely(EndStep(j, j.idx, s)) /\ Timely(SkipRemaining(EndStep(j, j.idx, s)))
  <1>1. j.idx \in DOMAIN j.res
    BY StepFacts DEF Timely
  <1> QED
    BY <1>1, PartsTimely

LEMMA FinishClocks ==
  ASSUME NEW j, IsJournal(j), Timed(j), Carries(j), NEW out, Finish(j, out)
  PROVE  Clocked
  <1>1. /\ jrn'.res = j.res /\ jrn'.idx = j.idx /\ jrn'.end = j.end /\ jrn'.cmd = j.cmd
        /\ jrn'.state = j.state
        /\ hold'.at = "finishing" /\ mem'.ctx \notin {"overrun", "early_end"}
    BY DEF Finish, IsJournal, NotReconciling
  <1>2. Timed(jrn') /\ Carries(jrn')
    BY <1>1 DEF Timed, Carries, Current
  <1> QED
    BY <1>1, <1>2, CarriesOnTheClock DEF Clocked, ClockInv, SoakInv, Free, At

LEMMA EndingClocks ==
  ASSUME NEW j, Timely(j), now \in Time, NEW out, NEW s \in Statuses \ {"completed", "running"},
         \/ EndEarly(j, out)
         \/ Finish(SkipRemaining(j), out)
         \/ Finish(SkipRemaining(EndStep(j, j.idx, s)), out)
  PROVE  Clocked
  <1>1. Timely(SkipRemaining(j)) /\ Timely(SkipRemaining(EndStep(j, j.idx, s)))
    BY PartsTimely, EndingTimely
  <1> QED
    BY <1>1, FinishClocks DEF EndEarly, Timely, Run

\* A handler that leaves the run neither watering, reconciling nor in a gap.
LEMMA StandingClocks ==
  ASSUME Timed(jrn'), Carries(jrn'), hold'.at # "complete",
         jrn'.state \notin {"reconciling", "inter_zone_gap"},
         hold'.at \in {"startcall", "stopcall"} \/ (hold'.at = "free" /\ timer'.kind = "classify")
           => jrn'.cmd # NoCmd
  PROVE  Clocked
  BY CarriesOnTheClock DEF Clocked, ClockInv, SoakInv

LEMMA SendStopClocks ==
  ASSUME NEW j, IsJournal(j), Timed(j), Carries(j), now \in Time, NEW op, SendStop(j, op),
         now' = now, ClockInv,
         j.state = "reconciling" => jrn.state = "reconciling" /\ j.end = jrn.end
  PROVE  Clocked
  <1>1. /\ jrn'.res = j.res /\ jrn'.idx = j.idx /\ jrn'.end = j.end /\ jrn'.state = j.state
        /\ jrn'.cmd = [type |-> "stop", disp |-> "intended", at |-> now]
        /\ hold' = At("stopcall", op) /\ mem' = mem
    BY DEF SendStop, IsJournal
  <1>2. now \in Nat
    BY DelayAssumption DEF Time
  <1>3. Timed(jrn') /\ Carries(jrn')
    BY <1>1, <1>2 DEF Timed, Carries, Current
  <1>4. jrn'.cmd # NoCmd
    BY <1>1 DEF NoCmd
  <1> QED
    BY <1>1, <1>3, <1>4, CarriesOnTheClock DEF Clocked, ClockInv, SoakInv, Free, At

LEMMA PauseClocks ==
  ASSUME NEW j, Timely(j), hold' = Free, timer'.kind # "classify",
         \/ jrn' = PausedExternally(j)
         \/ jrn' = [PausedExternally(j) EXCEPT !.reason = "user"]
         \/ jrn' = [j EXCEPT !.state = "paused_sensor", !.pausedAt = now]
         \/ jrn' = [j EXCEPT !.state = "paused_sensor", !.pausedAt = now,
                             !.reason = "low_temperature"]
         \/ jrn' = [j EXCEPT !.state = "paused_external",
                             !.pausedAt = IF @ = NoTime THEN now ELSE @]
  PROVE  Clocked
  <1>1. /\ jrn'.res = j.res /\ jrn'.idx = j.idx /\ jrn'.end = j.end /\ jrn'.cmd = j.cmd
        /\ jrn'.state \in Paused
    BY DEF Timely, Run, IsJournal, PausedExternally, Paused
  <1>2. Timed(jrn') /\ Carries(jrn')
    BY <1>1 DEF Timely, Timed, Carries, Current, Paused
  <1> QED
    BY <1>1, <1>2, StandingClocks DEF Paused, Free, At

LEMMA StartStepClocks ==
  ASSUME NEW j, Timely(j), now \in Time, NEW o, NEW t, t.kind # "classify", StartStep(j, o, t)
  PROVE  Clocked
  <1>1. CASE EndEarly(j, "completed_with_skips") \/ EndEarly(j, "aborted_sensor")
    BY <1>1, EndingClocks DEF Statuses
  <1>2. CASE jrn' = PausedExternally(j) /\ timer' = t /\ Release
    BY <1>2, PauseClocks DEF Release
  <1>3. CASE Finish(SkipRemaining(EndStep(j, j.idx, "failed")), "failed")
    BY <1>3, EndingClocks DEF Statuses
  <1>4. CASE /\ jrn' = [j EXCEPT !.state = "starting",
                                 !.cmd = [type |-> "start", disp |-> "intended", at |-> now],
                                 !.res[j.idx] = [j.res[j.idx] EXCEPT !.att = @ + 1]]
             /\ hold' = At("startcall", "none")
    <2>1. /\ jrn'.idx = j.idx /\ jrn'.end = j.end /\ jrn'.state = "starting"
          /\ jrn'.cmd = [type |-> "start", disp |-> "intended", at |-> now]
          /\ DOMAIN jrn'.res = DOMAIN j.res
      BY <1>4 DEF Timely, Run, IsJournal
    <2>2. \A m \in DOMAIN j.res : jrn'.res[m].status = j.res[m].status
      BY <1>4 DEF Timely, Run, IsJournal, Results
    <2>3. now \in Nat /\ jrn'.cmd # NoCmd
      BY <2>1, DelayAssumption DEF Time, NoCmd
    <2>4. Timed(jrn') /\ Carries(jrn')
      BY <2>1, <2>2, <2>3 DEF Timely, Timed, Carries, Current
    <2> QED
      BY <1>4, <2>1, <2>3, <2>4, StandingClocks DEF At
  <1> QED
    BY <1>1, <1>2, <1>3, <1>4 DEF StartStep

LEMMA AdvanceClocks ==
  ASSUME NEW j, Timely(j), now \in Time, NEW o, NEW t, t.kind # "classify",
         AdvanceFrom(j, o, t)
  PROVE  Clocked
  <1>1. CASE PendingSteps(j) = {}
    BY <1>1, FinishClocks DEF AdvanceFrom, Timely, Run
  <1>2. CASE PendingSteps(j) # {}
    <2>1. PICK k \in FirstPending(j) : StartStep([j EXCEPT !.idx = k], o, t)
      BY <1>2 DEF AdvanceFrom
    <2>2. k \in DOMAIN j.res /\ j.res[k].status = "pending"
      BY <2>1 DEF FirstPending, PendingSteps
    <2>3. k \in StepIndexes(j.occ) /\ StepIndexes(j.occ) \subseteq Nat
      BY <2>2, StepFacts DEF Timely
    <2>4. Timely([j EXCEPT !.idx = k])
      BY <2>2, <2>3 DEF Timely, Run, IsJournal, Timed, Carries, Current
    <2> QED
      BY <2>1, <2>4, StartStepClocks
  <1> QED
    BY <1>1, <1>2

\* The gap timer, armed for a journal.
LEMMA ArmGapKeepsSoak ==
  ASSUME NEW j, StepsOf(j) \in Seq(StepRec), DOMAIN j.res = DOMAIN StepsOf(j),
         now \in Int, ArmGap(j)
  PROVE  /\ timer'.kind = "gap"
         /\ \A k \in FirstPending(j) :
              StepsOf(j)[k].soak => timer'.at >= StepsOf(j)[k].planned
  <1> DEFINE soaks == {k \in FirstPending(j) : StepsOf(j)[k].soak
                                                /\ StepsOf(j)[k].planned > now + Gap}
  <1>1. now + Gap \in Int
    BY DelayAssumption
  <1>2. \A k \in FirstPending(j) : k \in Nat /\ StepsOf(j)[k].planned \in Int
    <2>1. ASSUME NEW k \in FirstPending(j)
          PROVE  k \in DOMAIN StepsOf(j) /\ k \in Nat /\ StepsOf(j)[k] \in StepRec
      BY <2>1 DEF FirstPending, PendingSteps
    <2> QED
      BY <2>1 DEF StepRec
  <1>3. \A k, m \in FirstPending(j) : k = m
    BY <1>2 DEF FirstPending
  <1>4. CASE soaks = {}
    <2>1. timer' = [kind |-> "gap", at |-> now + Gap]
      BY <1>4 DEF ArmGap, Arm
    <2> QED
      BY <1>1, <1>2, <1>4, <2>1
  <1>5. CASE soaks # {}
    <2>1. PICK k \in soaks : timer' = [kind |-> "gap", at |-> StepsOf(j)[k].planned]
      BY <1>5 DEF ArmGap, Arm
    <2>2. \A m \in FirstPending(j) : m = k
      BY <1>3, <2>1
    <2> QED
      BY <1>2, <2>1, <2>2
  <1> QED
    BY <1>4, <1>5

LEMMA CompleteClocks ==
  ASSUME Run(jrn), now \in Time, NEW at, Complete(jrn, at),
         jrn.end # NoTime, now >= jrn.end - EarlyTolerance
  PROVE  Clocked
  <1>1. jrn' = Completed(jrn, at) /\ hold' = Free
    BY DEF Complete, Release
  <1>2. /\ DOMAIN jrn'.res = DOMAIN jrn.res /\ jrn'.idx = jrn.idx /\ jrn'.occ = jrn.occ
        /\ jrn'.cmd = NoCmd /\ jrn'.state = "inter_zone_gap"
        /\ \A m \in DOMAIN jrn.res : jrn'.res[m].status
                                       = IF m = jrn.idx THEN "completed" ELSE jrn.res[m].status
    BY <1>1, CompletedResults
  <1>3. StepsOf(jrn') = StepsOf(jrn) /\ StepsOf(jrn') \in Seq(StepRec)
        /\ DOMAIN jrn'.res = DOMAIN StepsOf(jrn')
    BY <1>2, StepFacts DEF StepsOf
  <1>4. now \in Int
    BY DelayAssumption DEF Time
  <1>5. ArmGap(jrn')
    BY <1>1 DEF Complete
  <1>6. timer'.kind = "gap" /\ SoakInv'
    BY <1>3, <1>4, <1>5, ArmGapKeepsSoak DEF SoakInv
  <1>7. Timed(jrn')
    BY <1>2 DEF Timed, Current
  <1>8. OnTheClock
    BY <1>2 DEF OnTheClock
  <1> QED
    BY <1>1, <1>2, <1>6, <1>7, <1>8 DEF Clocked, ClockInv, Free, At

\* Asking once more whether a step that is over has ended.
LEMMA OverrunClocks ==
  ASSUME NEW j, Timely(j), j.end # NoTime, j.end <= now, now' = now, EnterOverrun(j)
  PROVE  Clocked
  <1>1. /\ jrn'.res = j.res /\ jrn'.idx = j.idx /\ jrn'.end = j.end /\ jrn'.cmd = j.cmd
        /\ jrn'.state = "reconciling" /\ hold' = Free
        /\ timer'.kind = "overrun"
    BY DEF Timely, Run, IsJournal, EnterOverrun, Release, Arm
  <1>2. Timed(jrn') /\ Carries(jrn')
    BY <1>1 DEF Timely, Timed, Carries, Current
  <1> QED
    BY <1>1, <1>2, CarriesOnTheClock DEF Clocked, ClockInv, SoakInv, Free, At

LEMMA EarlyEndClocks ==
  ASSUME Timely(jrn), jrn.end # NoTime, mem \in MemRec, EnterEarlyEnd(jrn)
  PROVE  Clocked
  <1>1. /\ jrn'.res = jrn.res /\ jrn'.idx = jrn.idx /\ jrn'.end = jrn.end
        /\ jrn'.cmd = jrn.cmd /\ jrn'.state = "reconciling" /\ hold' = Free
        /\ timer'.kind = "early_end" /\ mem'.ctx = "early_end"
    BY DEF Timely, Run, IsJournal, EnterEarlyEnd, Release, Arm, MemRec
  <1>2. Timed(jrn') /\ Carries(jrn')
    BY <1>1 DEF Timely, Timed, Carries, Current
  <1> QED
    BY <1>1, <1>2, CarriesOnTheClock DEF Clocked, ClockInv, SoakInv, Free, At

\* A command that is accepted is one.
LEMMA AcceptTimely ==
  ASSUME NEW j, Timely(j), j.cmd # NoCmd
  PROVE  Timely(Accept(j)) /\ Accept(j).cmd # NoCmd
         /\ Accept(j).end = j.end /\ Accept(j).state = j.state /\ Accept(j).idx = j.idx
         /\ Accept(j).cmd.at = j.cmd.at
  <1>1. /\ Accept(j).res = j.res /\ Accept(j).idx = j.idx /\ Accept(j).end = j.end
        /\ Accept(j).state = j.state
        /\ Accept(j).cmd.at = j.cmd.at /\ Accept(j).cmd.disp = "accepted"
    BY DEF Timely, Run, IsJournal, Commands, Accept
  <1>2. Run(Accept(j))
    BY DEF Timely, Run, IsJournal, Commands, Accept
  <1> QED
    BY <1>1, <1>2 DEF Timely, Timed, Carries, Current, NoCmd

LEMMA WateringClocks ==
  ASSUME NEW j, Run(j), Carries(j), j.cmd = NoCmd \/ j.cmd.at \in Nat,
         NEW t \in Nat, jrn' = Watering(j, t), now' = now,
         \/ hold' = Free /\ timer'.kind = "expected_end"
         \/ hold' = At("complete", "none") /\ jrn'.end <= now
  PROVE  Clocked
  <1>1. StepsOf(j)[j.idx].dur \in Nat
    BY StepFacts
  <1>2. /\ DOMAIN jrn'.res = DOMAIN j.res
        /\ jrn'.idx = j.idx /\ jrn'.cmd = j.cmd /\ jrn'.state = "watering"
        /\ jrn'.end = t + StepsOf(j)[j.idx].dur
        /\ \A m \in DOMAIN j.res : jrn'.res[m].status
                                     = IF m = j.idx THEN "running" ELSE j.res[m].status
    BY WateringResults
  <1>3. jrn'.end # NoTime
    BY <1>1, <1>2 DEF NoTime
  <1>4. Timed(jrn') /\ Carries(jrn')
    BY <1>2, <1>3 DEF Timed, Carries
  <1> QED
    BY <1>2, <1>3, <1>4, CarriesOnTheClock DEF Clocked, ClockInv, SoakInv, Free, At

LEMMA AcceptStartClocks ==
  ASSUME NEW j, Run(j), Carries(j), j.cmd = NoCmd \/ j.cmd.at \in Nat, now \in Time,
         now' = now, AcceptStart(j)
  PROVE  Clocked
  <1> DEFINE n == IF j.cmd = NoCmd THEN j ELSE Accept(j)
             t == IF j.cmd = NoCmd THEN now ELSE j.cmd.at
  <1>1. now \in Nat
    BY DelayAssumption DEF Time
  <1>2. t \in Nat
    BY <1>1
  <1>3. Run(n) /\ Carries(n) /\ (n.cmd = NoCmd \/ n.cmd.at \in Nat)
    <2>1. Run(Accept(j)) /\ Accept(j).res = j.res /\ Accept(j).cmd.at = j.cmd.at
      BY DEF Run, IsJournal, Commands, Accept
    <2> QED
      BY <2>1 DEF Carries
  <1>4. /\ jrn' = Watering(n, t)
        /\ \/ hold' = Free /\ timer'.kind = "expected_end"
           \/ hold' = At("complete", "none") /\ jrn'.end <= now
    BY DEF AcceptStart, Release, Arm
  <1> HIDE DEF n, t
  <1> QED
    BY <1>2, <1>3, <1>4, WateringClocks

LEMMA ResumeWateringClocks ==
  ASSUME NEW j, Timely(j), j.end # NoTime, now' = now, ResumeWatering(j)
  PROVE  Clocked
  <1> DEFINE n == IF j.cmd.disp = "sent" THEN Accept(j) ELSE j
  <1>1. Timely(n) /\ n.end = j.end
    BY AcceptTimely DEF NoCmd
  <1>2. jrn' = [n EXCEPT !.state = "watering"] /\ hold' = Free /\ timer'.kind = "expected_end"
    BY DEF ResumeWatering, Release, Arm
  <1> HIDE DEF n
  <1>3. /\ jrn'.res = n.res /\ jrn'.idx = n.idx /\ jrn'.end = n.end /\ jrn'.cmd = n.cmd
        /\ jrn'.state = "watering"
    BY <1>1, <1>2 DEF Timely, Run, IsJournal
  <1>4. Timed(jrn') /\ Carries(jrn')
    BY <1>1, <1>3 DEF Timely, Timed, Carries, Current
  <1> QED
    BY <1>2, <1>3, <1>4, StandingClocks DEF Free, At

LEMMA ConflictClocks ==
  ASSUME Timely(jrn), now \in Time, Conflict(jrn)
  PROVE  Clocked
  <1> DEFINE cut == IF Current(jrn) = "running" THEN EndStep(jrn, jrn.idx, "external_stop")
                                                ELSE jrn
  <1>1. Timely(cut)
    BY EndingTimely DEF Statuses
  <1>2. CASE Finish(SkipRemaining(cut), "aborted_external")
    BY <1>1, <1>2, EndingClocks DEF Statuses
  <1>3. CASE jrn' = PausedExternally(cut) /\ Disarm /\ Release
    BY <1>1, <1>3, PauseClocks DEF Release, Disarm, NoTimer
  <1> QED
    BY <1>2, <1>3 DEF Conflict

LEMMA ClassifyClocks ==
  ASSUME Timely(jrn), now \in Time, NEW o, NEW m, ClassifyEarlyEnd(jrn, o, m)
  PROVE  Clocked
  <1>1. Timely(EndStep(jrn, jrn.idx, "sensor_cut"))
    BY EndingTimely DEF Statuses
  <1>2. CASE /\ jrn' = [EndStep(jrn, jrn.idx, "sensor_cut") EXCEPT !.state = "paused_sensor",
                                                                 !.pausedAt = now]
             /\ Disarm /\ Release
    BY <1>1, <1>2, PauseClocks DEF Release, Disarm, NoTimer
  <1>3. CASE \E out : \E s \in {"sensor_cut", "external_stop"} :
               Finish(SkipRemaining(EndStep(jrn, jrn.idx, s)), out)
    BY <1>3, EndingClocks DEF Statuses
  <1> QED
    BY <1>2, <1>3 DEF ClassifyEarlyEnd

LEMMA ResumeClocks ==
  ASSUME Timely(jrn), now \in Time, NEW by, ResumeOrExpire(by)
  PROVE  Clocked
  <1> DEFINE cleared == [jrn EXCEPT !.reason = "none", !.pausedAt = NoTime]
  <1>1. Timely(cleared)
    <2>0. NoTime \in Int
      BY DEF NoTime
    <2>1. Run(cleared)
      BY <2>0 DEF Timely, Run, IsJournal
    <2>2. /\ cleared.res = jrn.res /\ cleared.idx = jrn.idx /\ cleared.end = jrn.end
          /\ cleared.cmd = jrn.cmd /\ cleared.state = jrn.state
      BY DEF Timely, Run, IsJournal
    <2> HIDE DEF cleared
    <2> QED
      BY <2>1, <2>2 DEF Timely, Timed, Carries, Current
  <1>2. CASE EndEarly(cleared, "completed_with_skips")
    BY <1>1, <1>2, EndingClocks DEF Statuses
  <1>3. CASE jrn' = [cleared EXCEPT !.state = "waiting"] /\ hold' = At("advance", by)
    <2> HIDE DEF cleared
    <2>1. /\ jrn'.res = cleared.res /\ jrn'.idx = cleared.idx /\ jrn'.end = cleared.end
          /\ jrn'.cmd = cleared.cmd /\ jrn'.state = "waiting"
      BY <1>1, <1>3 DEF Timely, Run, IsJournal
    <2>2. Timed(jrn') /\ Carries(jrn')
      BY <1>1, <2>1 DEF Timely, Timed, Carries, Current
    <2> QED
      BY <1>3, <2>1, <2>2, StandingClocks DEF At
  <1> QED
    BY <1>2, <1>3 DEF ResumeOrExpire

\* _complete_or_expire_step is asked about a step whose window is over.
LEMMA ExpireClocks ==
  ASSUME Timely(jrn), now \in Time, jrn.end # NoTime, jrn.end <= now, CompleteOrExpire(jrn)
  PROVE  Clocked
  <1>0. now >= jrn.end - EarlyTolerance
    BY DelayAssumption DEF Timely, Run, IsJournal, Time
  <1>1. CASE Complete(jrn, jrn.end)
    BY <1>0, <1>1, CompleteClocks DEF Timely
  <1>2. CASE Finish(SkipRemaining(EndStep(jrn, jrn.idx, "completed")), "completed_with_skips")
    <2> DEFINE e == EndStep(jrn, jrn.idx, "completed")
    <2>1. jrn.idx \in DOMAIN jrn.res /\ now \in Int
      BY StepFacts, DelayAssumption DEF Timely, Time
    <2>2. Run(e) /\ SameButResults(e, jrn)
          /\ \A m \in DOMAIN jrn.res : e.res[m].status
                                         = IF m = jrn.idx THEN "completed" ELSE jrn.res[m].status
      BY <2>1, EndStepFacts, EndStepResults DEF Timely, Statuses
    <2> HIDE DEF e
    <2> DEFINE n == SkipRemaining(e)
    <2>3. Run(n) /\ SameButResults(n, e)
          /\ \A m \in DOMAIN e.res : n.res[m].status = "completed" <=> e.res[m].status = "completed"
      <3>1. \A m \in DOMAIN e.res : n.res[m].status
              = CASE e.res[m].status = "pending" -> "skipped"
                  [] e.res[m].status = "running" -> "external_stop"
                  [] OTHER -> e.res[m].status
        BY <2>2, SkipRemainingResults
      <3> QED
        BY <2>1, <2>2, <3>1, SkipRemainingFacts, SkipRemainingResults
    <2> HIDE DEF n
    <2>4. /\ jrn'.res = n.res /\ jrn'.idx = n.idx /\ jrn'.end = n.end /\ jrn'.cmd = n.cmd
          /\ jrn'.state = n.state
          /\ hold'.at = "finishing" /\ mem'.ctx \notin {"overrun", "early_end"}
      BY <1>2, <2>3 DEF Finish, Run, IsJournal, NotReconciling, n, e
    <2>5. Timed(jrn')
      BY <2>1, <2>2, <2>3, <2>4 DEF Timely, Timed, Current, SameButResults
    <2>6. OnTheClock
      BY <1>0, <2>2, <2>3, <2>4 DEF OnTheClock, SameButResults
    <2> QED
      BY <2>4, <2>5, <2>6 DEF Clocked, ClockInv, SoakInv, Free, At
  <1> QED
    BY <1>1, <1>2 DEF CompleteOrExpire

\* A skipped step is not a completed one, so no soak counts from it.
LEMMA SkippedClocks ==
  ASSUME Timely(jrn), now \in Time, jrn' = Skipped(jrn), hold' = Free, timer'.kind = "gap"
  PROVE  Clocked
  <1> DEFINE e == EndStep(jrn, jrn.idx, "skipped")
  <1>1. Timely(e) /\ Current(e) = "skipped" /\ jrn.idx \in DOMAIN jrn.res
    <2>1. jrn.idx \in DOMAIN jrn.res
      BY StepFacts DEF Timely
    <2>2. SameButResults(e, jrn) /\ e.res[jrn.idx].status = "skipped"
      BY <2>1, EndStepResults DEF Timely
    <2>3. Timely(e)
      BY EndingTimely DEF Statuses
    <2> QED
      BY <2>1, <2>2, <2>3 DEF SameButResults, Current
  <1>2. jrn' = [e EXCEPT !.state = "inter_zone_gap"]
    BY DEF Skipped
  <1> HIDE DEF e
  <1>3. /\ jrn'.res = e.res /\ jrn'.idx = e.idx /\ jrn'.end = e.end /\ jrn'.cmd = e.cmd
        /\ jrn'.state = "inter_zone_gap"
    BY <1>1, <1>2 DEF Timely, Run, IsJournal
  <1>4. Timed(jrn') /\ Carries(jrn') /\ Current(jrn') # "completed"
    BY <1>1, <1>3 DEF Timely, Timed, Carries, Current
  <1> QED
    BY <1>3, <1>4, CarriesOnTheClock DEF Clocked, ClockInv, SoakInv, Free, At

\* What the driver answered.
LEMMA AnswerTimely ==
  ASSUME Timely(jrn), NEW d \in {"sent", "accepted", "rejected", "uncertain"},
         jrn.cmd # NoCmd
  PROVE  LET n == [jrn EXCEPT !.cmd.disp = d] IN
         /\ Timely(n) /\ n.cmd # NoCmd
         /\ n.res = jrn.res /\ n.idx = jrn.idx /\ n.end = jrn.end /\ n.state = jrn.state
  <1> DEFINE n == [jrn EXCEPT !.cmd.disp = d]
  <1>1. /\ n.res = jrn.res /\ n.idx = jrn.idx /\ n.end = jrn.end /\ n.state = jrn.state
        /\ n.cmd.at = jrn.cmd.at /\ n.cmd.disp = d
    BY DEF Timely, Run, IsJournal, Commands
  <1>2. Run(n)
    BY DEF Timely, Run, IsJournal, Commands
  <1> HIDE DEF n
  <1>3. n.cmd # NoCmd
    BY <1>1 DEF NoCmd
  <1>4. Timely(n)
    BY <1>1, <1>2 DEF Timely, Timed, Carries, Current
  <1> QED
    BY <1>1, <1>3, <1>4 DEF n

-----------------------------------------------------------------------------
(* No report is of the future *)

LEMMA EnqueuePast ==
  ASSUME inbox \in Seq(Waiting), \A n \in DOMAIN inbox : Past(inbox[n]),
         NEW e, Past(e), Enqueue(e)
  PROVE  \A n \in DOMAIN inbox' : Past(inbox'[n])
  <1>1. CASE UNCHANGED inbox
    BY <1>1
  <1>2. CASE inbox' = Append(inbox, e)
    <2>1. /\ DOMAIN inbox' = 1 .. Len(inbox) + 1 /\ DOMAIN inbox = 1 .. Len(inbox)
          /\ \A n \in 1 .. Len(inbox) + 1 :
               inbox'[n] = IF n = Len(inbox) + 1 THEN e ELSE inbox[n]
      BY <1>2
    <2> QED
      BY <2>1
  <1> QED
    BY <1>1, <1>2 DEF Enqueue

LEMMA SourcePast ==
  ASSUME EnvTypeOK, ReportsInv, Source
  PROVE  ReportsInv'
  <1>1. now' = now /\ now \in Nat
    <2>1. now \in Nat
      BY DelayAssumption DEF EnvTypeOK, Time
    <2> QED
      BY <2>1 DEF Source, ZoneReports, ZoneReconfirmed, WeatherChanges
  <1>2. ASSUME NEW e, Past(e), Enqueue(e), \A z \in Zones : src'[z].at <= now
        PROVE  ReportsInv'
    <2>1. \A n \in DOMAIN inbox' : Past(inbox'[n])
      BY <1>2, EnqueuePast DEF EnvTypeOK, ReportsInv
    <2> QED
      BY <1>1, <1>2, <2>1 DEF ReportsInv, Past
  <1>3. ASSUME NEW z \in Zones, NEW s \in SourceStates, ZoneReports(z, s)
        PROVE  ReportsInv'
    <2>1. src' = [src EXCEPT ![z] = [st |-> s, at |-> IF s = "on" THEN now ELSE 0]]
      BY <1>3 DEF ZoneReports
    <2>2. \A y \in Zones : src'[y].at <= now
      BY <1>1, <2>1 DEF EnvTypeOK, ReportsInv
    <2> DEFINE e == [kind |-> "zone", zone |-> z, on |-> (s = "on"), at |-> now,
                     obs |-> Snapshot(src', wx)]
    <2>3. Past(e)
      BY <1>1, <2>2 DEF Past, Snapshot
    <2>4. Enqueue(e)
      BY <1>3 DEF ZoneReports
    <2> HIDE DEF e
    <2> QED
      BY <1>2, <2>2, <2>3, <2>4
  <1>4. ASSUME NEW z \in Zones, ZoneReconfirmed(z) PROVE ReportsInv'
    <2>1. src' = [src EXCEPT ![z].at = now] /\ inbox' = inbox
      BY <1>4 DEF ZoneReconfirmed
    <2>2. ASSUME NEW y \in Zones PROVE src'[y].at <= now
      <3>1. src'[y].at = IF y = z THEN now ELSE src[y].at
        BY <2>1 DEF EnvTypeOK
      <3> QED
        BY <1>1, <3>1 DEF ReportsInv
    <2> QED
      BY <1>1, <2>1, <2>2 DEF ReportsInv, Past
  <1>5. ASSUME NEW w \in Weathers, WeatherChanges(w) PROVE ReportsInv'
    <2>1. src' = src
      BY <1>5 DEF WeatherChanges
    <2>2. CASE UNCHANGED inbox
      BY <1>1, <2>1, <2>2 DEF ReportsInv, Past
    <2>3. ASSUME NEW k \in {"sensor", "weather"},
                 Enqueue([kind |-> k, obs |-> Snapshot(src, w)])
          PROVE  ReportsInv'
      <3>1. Past([kind |-> k, obs |-> Snapshot(src, w)])
        BY DEF Past, Snapshot, ReportsInv
      <3> QED
        BY <1>2, <2>1, <2>3, <3>1 DEF ReportsInv
    <2> QED
      BY <1>5, <2>2, <2>3 DEF WeatherChanges
  <1> QED
    BY <1>3, <1>4, <1>5 DEF Source

LEMMA ReportsStep ==
  ASSUME EnvTypeOK, ReportsInv, [Next]_vars
  PROVE  ReportsInv'
  <1>1. ASSUME UNCHANGED <<now, src>>, inbox' = inbox \/ inbox' = <<>>
        PROVE  ReportsInv'
    BY <1>1 DEF ReportsInv, Past
  <1>2. CASE Methods
    BY <1>1, <1>2 DEF Methods, StartRun, RefusedRequest, Stop, Pause, Resume, SkipCurrent,
                      env, world
  <1>3. CASE Returns
    BY <1>1, <1>3 DEF Returns, StartAccepted, StartRejected, StartUncertain, StopConfirmed,
                      StopUncertain, env
  <1>4. CASE Goes
    BY <1>1, <1>4 DEF Goes, Advance, RestartStep, StopDone, PauseDone, SkipDone,
                      FreezeCutDone, OverrunStopped, RetryStopDone, CompleteLate, FinishReset,
                      env
  <1>5. CASE Timers
    BY <1>1, <1>5 DEF Timers, OnExpectedEnd, OnGap, ConfirmOverrun, ConfirmEarlyEnd,
                      ClassifyUncertain, RetryStep, RetryUncertainStop, env
  <1>6. CASE Restart
    BY <1>1, <1>6 DEF Restart, Crash, Recover, RecoverIdle, env, world
  <1>7. CASE Events \/ ServeStart
    <2>1. UNCHANGED <<now, src>> /\ inbox # <<>> /\ inbox' = Tail(inbox)
      BY <1>7 DEF Events, ServeZone, ServeSensor, ServeWeather, Serve, ServeStart, env
    <2>2. inbox \in Seq(Waiting)
      BY DEF EnvTypeOK
    <2>3. \A n \in DOMAIN inbox' : n + 1 \in DOMAIN inbox /\ inbox'[n] = inbox[n + 1]
      BY <2>1, <2>2
    <2> QED
      BY <2>1, <2>3 DEF ReportsInv, Past
  <1>8. CASE Source
    BY <1>8, SourcePast
  <1>9. CASE Tick
    <2>1. /\ UNCHANGED <<src, inbox>> /\ now' = now + 1 /\ now \in Nat
          /\ \A t \in Time : t \in Nat
      BY <1>9, DelayAssumption DEF Tick, EnvTypeOK, Time
    <2>2. \A z \in Zones : src[z].at \in Time
      BY DEF EnvTypeOK
    <2>3. \A n \in DOMAIN inbox :
            /\ inbox[n].kind # "start" => \A z \in Zones : inbox[n].obs.rep[z] \in Time
            /\ inbox[n].kind = "zone" => inbox[n].at \in Time
      <3>1. ASSUME NEW n \in DOMAIN inbox
            PROVE  inbox[n] \in Waiting
        BY <3>1 DEF EnvTypeOK
      <3> QED
        BY <3>1 DEF Waiting, SourceEvents, Observations
    <2> QED
      BY <2>1, <2>2, <2>3 DEF ReportsInv, Past
  <1>10. ASSUME NEW o \in Occurrences, StartWaits(o) PROVE ReportsInv'
    <2> DEFINE e == [kind |-> "start", occ |-> o]
    <2>1. Past(e)
      BY DEF Past
    <2>2. Enqueue(e) /\ UNCHANGED <<now, src>>
      BY <1>10 DEF StartWaits, world
    <2> HIDE DEF e
    <2>3. \A n \in DOMAIN inbox' : Past(inbox'[n])
      BY <2>1, <2>2, EnqueuePast DEF EnvTypeOK, ReportsInv
    <2> QED
      BY <2>2, <2>3 DEF ReportsInv, Past
  <1> QED
    BY <1>1, <1>2, <1>3, <1>4, <1>5, <1>6, <1>7, <1>8, <1>9, <1>10 DEF Next, Queued, vars

-----------------------------------------------------------------------------
(* The clock: one lemma per group of actions *)

ClockFound == IInv /\ ReportsInv /\ ClockInv

\* Whoever works on an active run has a current step, unless the plan is empty.
LEMMA ActiveRuns ==
  ASSUME IInv, Active
  PROVE  /\ hold.at \notin {"advance", "finishing", "down"} => Run(jrn)
         /\ StepsOf(jrn) # <<>> => Run(jrn)
  <1>1. IsJournal(jrn) /\ jrn.state # "idle"
    BY DEF IInv, ExecInv, ExecTypeOK, Active, ActiveStates
  <1>2. hold.at \notin {"advance", "finishing", "down"} => StepIndexes(jrn.occ) # {}
    BY DEF IInv, ExecInv, LockInv
  <1>3. ASSUME StepsOf(jrn) # <<>> PROVE StepIndexes(jrn.occ) # {}
    <2>1. jrn.occ \in Occurrences
      BY <1>1 DEF IsJournal
    <2>2. StepsOf(jrn) \in Seq(StepRec)
      BY <2>1, PlanAssumption DEF StepsOf
    <2>3. 1 \in DOMAIN StepsOf(jrn)
      BY <1>3, <2>2
    <2> QED
      BY <2>1, <2>3, PlanAssumption DEF StepIndexes, StepsOf
  <1> QED
    BY <1>1, <1>2, <1>3 DEF Run

LEMMA ClockFacts ==
  ASSUME ClockFound
  PROVE  /\ IsJournal(jrn) /\ Timed(jrn) /\ Carries(jrn)
         /\ now \in Time /\ now \in Nat /\ jrn.end \in Int
         /\ mem \in MemRec /\ timer \in TimerRec
         /\ Active /\ hold.at \notin {"advance", "finishing", "down"} => Timely(jrn)
         /\ Active /\ StepsOf(jrn) # <<>> => Timely(jrn)
  <1>1. /\ IsJournal(jrn) /\ Timed(jrn) /\ now \in Time
        /\ mem \in MemRec /\ timer \in TimerRec
    BY DEF ClockFound, ClockInv, IInv, EnvTypeOK, ExecInv, ExecTypeOK
  <1>2. Carries(jrn)
    BY DEF Carries
  <1>3. now \in Nat
    BY <1>1, DelayAssumption DEF Time
  <1> QED
    BY <1>1, <1>2, <1>3, ActiveRuns DEF ClockFound, Timely, IsJournal

\* The clock may go on as long as the executor stands.
LEMMA IdleClocks ==
  ASSUME ClockFound, UNCHANGED <<jrn, timer, hold, mem>>, now' \in Int, now' >= now
  PROVE  Clocked
  <1>1. jrn.end \in Int /\ now \in Nat
    BY ClockFacts
  <1>2. ClockInv'
    BY <1>1 DEF ClockFound, ClockInv, Timed, SoakInv, Current, FirstPending, PendingSteps,
                StepsOf
  <1> QED
    BY <1>2 DEF Clocked, OnTheClock

\* A start has nothing behind it.
LEMMA StartClocks ==
  ASSUME NEW o \in Occurrences, Start(o)
  PROVE  Clocked
  <1>1. /\ jrn'.res = NotStarted(Len(Plans[o].steps)) /\ jrn'.cmd = NoCmd
        /\ jrn'.state = "waiting" /\ hold' = At("advance", "none")
    BY DEF Start, Claimed, Journal
  <1>2. \A k \in DOMAIN jrn'.res : jrn'.res[k].status = "pending"
    BY <1>1 DEF NotStarted
  <1> QED
    BY <1>1, <1>2 DEF Clocked, ClockInv, SoakInv, OnTheClock, Timed, Current, At, Free

LEMMA MethodsClocks ==
  ASSUME ClockFound, Methods
  PROVE  Clocked
  <1>0. hold = Free => hold.at \notin {"advance", "finishing", "down"}
    BY DEF Free, At
  <1>1. ASSUME NEW o \in Occurrences, StartRun(o) PROVE Clocked
    BY <1>1, StartClocks DEF StartRun
  <1>2. CASE RefusedRequest
    BY <1>2, IdleClocks, ClockFacts DEF RefusedRequest, world
  <1>3. CASE Stop
    <2> DEFINE j == [jrn EXCEPT !.stopReq = TRUE, !.state = IF Active THEN "stopping" ELSE @]
    <2>1. /\ j.res = jrn.res /\ j.idx = jrn.idx /\ j.end = jrn.end /\ j.cmd = jrn.cmd
          /\ j.state \in {"stopping", "idle"}
      BY ClockFacts DEF IsJournal, Active, ActiveStates
    <2>2. IsJournal(j)
      BY ClockFacts DEF IsJournal, Active, ActiveStates, States
    <2>3. Timed(j) /\ Carries(j)
      BY <2>1, ClockFacts DEF Timed, Carries, Current
    <2>4. SendStop(j, "stop") /\ now' = now
      BY <1>3 DEF Stop, world
    <2> HIDE DEF j
    <2> QED
      BY <2>1, <2>2, <2>3, <2>4, ClockFacts, SendStopClocks DEF ClockFound
  <1>4. CASE Pause
    <2>1. Timely(jrn) /\ hold = Free /\ now' = now
      BY <1>0, <1>4, ClockFacts DEF Pause, world
    <2>2. CASE SendStop(jrn, "pause")
      BY <2>1, <2>2, ClockFacts, SendStopClocks DEF ClockFound
    <2>3. CASE /\ jrn' = [PausedExternally(jrn) EXCEPT !.reason = "user"]
               /\ Disarm /\ UNCHANGED hold
      BY <2>1, <2>3, PauseClocks DEF Disarm, NoTimer
    <2> QED
      BY <1>4, <2>2, <2>3 DEF Pause
  <1>5. CASE Resume
    BY <1>0, <1>5, ClockFacts, ResumeClocks DEF Resume, Active, ActiveStates, Paused, States
  <1>6. CASE SkipCurrent
    <2>1. Timely(jrn) /\ hold = Free /\ now' = now
      BY <1>0, <1>6, ClockFacts DEF SkipCurrent, world
    <2>2. CASE SendStop(jrn, "skip")
      BY <2>1, <2>2, ClockFacts, SendStopClocks DEF ClockFound
    <2>3. CASE jrn' = Skipped(jrn) /\ Arm("gap", now + Gap) /\ UNCHANGED hold
      BY <2>1, <2>3, ClockFacts, SkippedClocks DEF Arm
    <2> QED
      BY <1>6, <2>2, <2>3 DEF SkipCurrent
  <1> QED
    BY <1>1, <1>2, <1>3, <1>4, <1>5, <1>6 DEF Methods

LEMMA ReturnsClocks ==
  ASSUME ClockFound, Returns
  PROVE  Clocked
  <1>1. CASE hold.at = "startcall"
    <2>1. Timely(jrn) /\ jrn.cmd # NoCmd /\ jrn.cmd.at \in Nat
      BY <1>1, ClockFacts DEF ClockFound, ClockInv, Timed, IInv, ExecInv, LockInv
    <2>2. CASE StartAccepted
      <3> DEFINE w == Watering(jrn, now)
      <3>1. /\ DOMAIN w.res = DOMAIN jrn.res
            /\ w.idx = jrn.idx /\ w.cmd = jrn.cmd /\ w.state = "watering"
            /\ w.end = now + StepsOf(jrn)[jrn.idx].dur
            /\ \A m \in DOMAIN jrn.res : w.res[m].status
                                           = IF m = jrn.idx THEN "running" ELSE jrn.res[m].status
        BY <2>1, WateringResults DEF Timely
      <3>2. Run(w)
        BY <2>1, ClockFacts, WateringFacts DEF Timely
      <3>3. jrn' = [w EXCEPT !.cmd.disp = "sent"] /\ hold' = Free
            /\ timer'.kind = "expected_end"
        BY <2>2 DEF StartAccepted, Release, Arm
      <3> HIDE DEF w
      <3>4. /\ jrn'.res = w.res /\ jrn'.idx = w.idx /\ jrn'.end = w.end
            /\ jrn'.state = w.state /\ jrn'.cmd.at = w.cmd.at
        BY <3>2, <3>3 DEF Run, IsJournal, Commands
      <3>5. jrn'.end # NoTime
        BY <2>1, <3>1, <3>4, StepFacts, ClockFacts DEF Timely, NoTime
      <3>6. Timed(jrn') /\ Carries(jrn')
        BY <2>1, <3>1, <3>4, <3>5 DEF Timed, Carries
      <3> QED
        BY <3>1, <3>3, <3>4, <3>6, StandingClocks DEF Free, At
    <2>3. CASE StartRejected
      <3> DEFINE j == [jrn EXCEPT !.cmd.disp = "rejected"]
      <3>1. Timely(j) /\ j.idx = jrn.idx
        BY <2>1, AnswerTimely
      <3>2. Finish(SkipRemaining(EndStep(j, jrn.idx, "failed")), "failed")
        BY <2>3 DEF StartRejected
      <3> HIDE DEF j
      <3> QED
        BY <3>1, <3>2, ClockFacts, EndingClocks DEF Statuses
    <2>4. CASE StartUncertain
      <3> DEFINE j == [jrn EXCEPT !.cmd.disp = "uncertain"]
      <3>1. Timely(j) /\ j.cmd # NoCmd
        BY <2>1, AnswerTimely
      <3>2. jrn' = [j EXCEPT !.state = "reconciling"] /\ hold' = Free
            /\ mem'.ctx = "start"
        BY <2>1, <2>4, ClockFacts
        DEF StartUncertain, Release, MemRec, Timely, Run, IsJournal, Commands
      <3> HIDE DEF j
      <3>3. /\ jrn'.res = j.res /\ jrn'.idx = j.idx /\ jrn'.end = j.end /\ jrn'.cmd = j.cmd
            /\ jrn'.state = "reconciling"
        BY <3>1, <3>2 DEF Timely, Run, IsJournal
      <3>4. Timed(jrn') /\ Carries(jrn')
        BY <3>1, <3>3 DEF Timely, Timed, Carries, Current
      <3> QED
        BY <3>1, <3>2, <3>3, <3>4, CarriesOnTheClock DEF Clocked, ClockInv, SoakInv, Free, At
    <2> QED
      BY <1>1, <2>2, <2>3, <2>4 DEF Returns, StopConfirmed, StopUncertain
  <1>2. CASE hold.at = "stopcall"
    <2>1. /\ jrn.cmd # NoCmd /\ jrn.cmd.at \in Nat
          /\ now' = now /\ hold' = At("stopped", hold.op)
      BY <1>2 DEF ClockFound, ClockInv, Timed, Returns, StartAccepted, StartRejected,
                  StartUncertain, StopConfirmed, StopUncertain, env
    <2>2. mem'.ctx = mem.ctx
      BY <1>2, ClockFacts DEF Returns, StartAccepted, StartRejected, StartUncertain,
                              StopConfirmed, StopUncertain, MemRec
    <2>3. /\ jrn'.res = jrn.res /\ jrn'.idx = jrn.idx /\ jrn'.end = jrn.end
          /\ jrn'.state = jrn.state /\ jrn'.cmd.at = jrn.cmd.at
      BY <1>2, ClockFacts DEF Returns, StartAccepted, StartRejected, StartUncertain,
                              StopConfirmed, StopUncertain, IsJournal, Commands
    <2>4. Timed(jrn') /\ Carries(jrn')
      BY <2>1, <2>3, ClockFacts DEF Timed, Carries, Current
    <2> QED
      BY <2>1, <2>2, <2>3, <2>4, CarriesOnTheClock
      DEF ClockFound, Clocked, ClockInv, SoakInv, Free, At
  <1> QED
    BY <1>1, <1>2 DEF Returns, StartAccepted, StartRejected, StartUncertain, StopConfirmed,
                      StopUncertain

LEMMA GoesClocks ==
  ASSUME ClockFound, Goes
  PROVE  Clocked
  <1>0. /\ IInv /\ ClockInv
        /\ hold.at \in {"advance", "start", "stopped"} => timer.kind # "classify"
    BY DEF ClockFound, IInv, ExecInv, TimerInv
  <1>1. ASSUME hold.at = "stopped", hold.op # "stop" PROVE Timely(jrn)
    BY <1>0, <1>1, ClockFacts DEF IInv, ExecInv, LockInv
  <1>2. CASE Advance
    <2>1. CASE StepsOf(jrn) = <<>>
      BY <1>2, <2>1, ClockFacts, FinishClocks DEF Advance
    <2>2. CASE StepsOf(jrn) # <<>>
      <3>1. Timely(jrn)
        BY <1>0, <1>2, <2>2, ClockFacts DEF Advance, IInv, ExecInv, LockInv
      <3> QED
        BY <1>0, <1>2, <2>2, <3>1, ClockFacts, AdvanceClocks DEF Advance
    <2> QED
      BY <2>1, <2>2
  <1>3. CASE RestartStep
    <2>1. Timely(jrn)
      BY <1>0, <1>3, ClockFacts DEF RestartStep, IInv, ExecInv, LockInv
    <2> QED
      BY <1>0, <1>3, <2>1, ClockFacts, StartStepClocks DEF RestartStep
  <1>4. CASE StopDone
    <2>1. CASE Active
      <3>1. Timely(jrn)
        BY <1>4, <2>1, ClockFacts DEF StopDone
      <3>2. \/ Finish(SkipRemaining(jrn), "aborted_user")
            \/ \E s \in {"external_stop", "skipped"} :
                 Finish(SkipRemaining(EndStep(jrn, jrn.idx, s)), "aborted_user")
        BY <1>4, <2>1 DEF StopDone
      <3>3. CASE Finish(SkipRemaining(jrn), "aborted_user")
        BY <3>1, <3>3, ClockFacts, EndingClocks DEF Statuses
      <3> QED
        BY <3>1, <3>2, <3>3, ClockFacts, EndingClocks DEF Statuses
    <2>2. CASE ~Active
      <3>1. /\ jrn' = [jrn EXCEPT !.stopReq = FALSE] /\ hold' = Free /\ UNCHANGED timer
            /\ timer.kind = "none" /\ jrn.state = "idle"
        BY <1>0, <1>4, <2>2, ClockFacts
        DEF StopDone, Release, IInv, ExecInv, TimerInv, Active, ActiveStates, IsJournal
      <3>2. /\ jrn'.res = jrn.res /\ jrn'.idx = jrn.idx /\ jrn'.end = jrn.end
            /\ jrn'.cmd = jrn.cmd /\ jrn'.state = "idle"
        BY <3>1, ClockFacts DEF IsJournal
      <3>3. Timed(jrn') /\ Carries(jrn')
        BY <3>2, ClockFacts DEF Timed, Carries, Current
      <3> QED
        BY <3>1, <3>2, <3>3, StandingClocks DEF Free, At
    <2> QED
      BY <2>1, <2>2
  <1>5. CASE PauseDone
    <2> DEFINE cut == IF Current(jrn) = "running" THEN EndStep(jrn, jrn.idx, "external_stop")
                                                  ELSE jrn
    <2>1. Timely(cut)
      BY <1>1, <1>5, ClockFacts, EndingTimely DEF PauseDone, Statuses
    <2>2. /\ jrn' = [PausedExternally(cut) EXCEPT !.reason = "user"]
          /\ hold' = Free /\ timer' = timer
      BY <1>5 DEF PauseDone, Release
    <2> HIDE DEF cut
    <2> QED
      BY <1>0, <1>5, <2>1, <2>2, PauseClocks DEF PauseDone
  <1>6. CASE SkipDone
    BY <1>1, <1>6, ClockFacts, SkippedClocks DEF SkipDone, Release, Arm
  <1>7. CASE FreezeCutDone
    <2> DEFINE cut == EndStep(jrn, jrn.idx, "sensor_cut")
    <2>1. Timely(jrn) /\ Timely(cut)
      BY <1>1, <1>7, ClockFacts, EndingTimely DEF FreezeCutDone, Statuses
    <2>2. CASE Finish(SkipRemaining(cut), "aborted_sensor")
      BY <2>1, <2>2, ClockFacts, EndingClocks DEF Statuses
    <2>3. CASE /\ jrn' = [cut EXCEPT !.state = "paused_sensor", !.pausedAt = now,
                                     !.reason = "low_temperature"]
               /\ Release /\ UNCHANGED timer
      <3> HIDE DEF cut
      <3> QED
        BY <1>0, <1>7, <2>1, <2>3, PauseClocks DEF FreezeCutDone, Release
    <2> QED
      BY <1>7, <2>2, <2>3 DEF FreezeCutDone
  <1>8. CASE OverrunStopped
    BY <1>1, <1>8, ClockFacts, EndingClocks DEF OverrunStopped, Statuses
  <1>9. CASE RetryStopDone
    <2>1. jrn.state \in Paused /\ UNCHANGED <<jrn, timer>> /\ hold' = Free
      BY <1>0, <1>9 DEF RetryStopDone, Release, IInv, ExecInv, LockInv
    <2> QED
      BY <1>0, <1>9, <2>1, ClockFacts, StandingClocks
      DEF RetryStopDone, Paused, Free, At, Timed, Carries, Current
  <1>10. CASE CompleteLate
    <2>1. Timely(jrn)
      BY <1>0, <1>10, ClockFacts DEF CompleteLate, IInv, ExecInv, LockInv
    <2>2. jrn.end # NoTime /\ jrn.end <= now
      BY <1>0, <1>10 DEF CompleteLate, ClockInv
    <2>3. now >= jrn.end - EarlyTolerance
      BY <2>2, ClockFacts, DelayAssumption
    <2> QED
      BY <1>10, <2>1, <2>2, <2>3, ClockFacts, CompleteClocks DEF CompleteLate, Timely
  <1>11. CASE FinishReset
    <2>1. /\ jrn'.cmd = NoCmd /\ jrn'.state = "idle" /\ jrn'.res = <<>>
          /\ hold' = Free /\ timer' = timer /\ timer.kind = "none"
      BY <1>0, <1>11 DEF FinishReset, IdleJournal, Journal, Release, IInv, ExecInv, TimerInv
    <2>2. Timed(jrn') /\ OnTheClock
      BY <2>1 DEF Timed, OnTheClock
    <2> QED
      BY <2>1, <2>2 DEF Clocked, ClockInv, SoakInv, Free, At
  <1> QED
    BY <1>2, <1>3, <1>4, <1>5, <1>6, <1>7, <1>8, <1>9, <1>10, <1>11 DEF Goes

LEMMA TimersClocks ==
  ASSUME ClockFound, Timers
  PROVE  Clocked
  <1>0. /\ hold = Free /\ hold.at = "free" /\ now' = now
        /\ IInv /\ ClockInv /\ TimerMatchesState
    BY DEF Timers, OnExpectedEnd, OnGap, ConfirmOverrun, ConfirmEarlyEnd, ClassifyUncertain,
           RetryStep, RetryUncertainStop, Fires, Free, At, ClockFound, IInv, ExecInv, env
  <1>1. Active => Timely(jrn)
    BY <1>0, ClockFacts
  <1>2. jrn.end # NoTime /\ jrn.end <= now => now >= jrn.end - EarlyTolerance
    BY ClockFacts, DelayAssumption
  <1>3. CASE OnExpectedEnd
    <2>1. /\ Timely(jrn) /\ jrn.end # NoTime /\ timer.at = jrn.end /\ jrn.end <= now
      BY <1>0, <1>1, <1>3
      DEF OnExpectedEnd, Fires, TimerMatchesState, Active, ActiveStates, States, ClockInv, Timed
    <2> QED
      BY <1>0, <1>2, <1>3, <2>1, ClockFacts, OverrunClocks, CompleteClocks
      DEF OnExpectedEnd, Timely
  <1>4. CASE OnGap
    BY <1>1, <1>4, ClockFacts, AdvanceClocks
    DEF OnGap, Active, ActiveStates, States, NoTimer
  <1>5. CASE ConfirmOverrun
    <2>1. /\ Timely(jrn) /\ jrn.end # NoTime /\ jrn.end <= now
          /\ jrn.state = "reconciling" /\ mem.ctx = "overrun"
      BY <1>0, <1>1, <1>5 DEF ConfirmOverrun, Active, ActiveStates, States, ClockInv
    <2>2. CASE Complete(jrn, jrn.end)
      BY <1>2, <2>1, <2>2, ClockFacts, CompleteClocks DEF Timely
    <2>3. CASE SendStop(jrn, "overrun")
      BY <1>0, <2>1, <2>3, ClockFacts, SendStopClocks
    <2>4. CASE /\ mem' = [mem EXCEPT !.confirms = 1] /\ Arm("overrun", now + Confirm)
               /\ UNCHANGED <<jrn, hold>>
      <3>1. mem'.ctx = "overrun" /\ timer'.kind = "overrun"
        BY <2>1, <2>4, ClockFacts DEF MemRec, Arm
      <3> QED
        BY <1>0, <2>1, <2>4, <3>1, ClockFacts, CarriesOnTheClock
        DEF Clocked, ClockInv, SoakInv, Free, At, Timed, Carries, Current
    <2> QED
      BY <1>5, <2>2, <2>3, <2>4 DEF ConfirmOverrun
  <1>6. CASE ConfirmEarlyEnd
    <2>1. Timely(jrn) /\ jrn.end # NoTime
      BY <1>0, <1>1, <1>6 DEF ConfirmEarlyEnd, Active, ActiveStates, States, ClockInv
    <2> QED
      BY <1>0, <1>6, <2>1, ClockFacts, ResumeWateringClocks, ClassifyClocks
      DEF ConfirmEarlyEnd
  <1>7. CASE ClassifyUncertain
    <2> DEFINE rejected == [jrn EXCEPT !.cmd.disp = "rejected"]
    <2>1. Timely(jrn) /\ jrn.cmd # NoCmd /\ (jrn.cmd = NoCmd \/ jrn.cmd.at \in Nat)
      BY <1>0, <1>1, <1>7
      DEF ClassifyUncertain, Fires, Active, ActiveStates, States, ClockInv, Timed
    <2>2. /\ Timely(rejected) /\ rejected.idx = jrn.idx /\ rejected.res = jrn.res
          /\ rejected.end = jrn.end /\ rejected.cmd # NoCmd
      BY <2>1, AnswerTimely
    <2>3. CASE AcceptStart(jrn)
      BY <1>0, <2>1, <2>3, ClockFacts, AcceptStartClocks DEF Timely
    <2>4. CASE Conflict(jrn)
      BY <2>1, <2>4, ClockFacts, ConflictClocks
    <2>5. CASE jrn' = rejected /\ UNCHANGED <<hold, mem>> /\ timer'.kind = "retry_step"
      <3>1. jrn'.state = "reconciling"
        BY <1>7, <2>5, ClockFacts DEF ClassifyUncertain, IsJournal
      <3> HIDE DEF rejected
      <3> QED
        BY <1>0, <1>7, <2>2, <2>5, <3>1, CarriesOnTheClock
        DEF Clocked, ClockInv, SoakInv, Timely, ClassifyUncertain, Free, At
    <2>6. CASE Finish(SkipRemaining(EndStep(rejected, jrn.idx, "failed")), "failed")
      <3> HIDE DEF rejected
      <3> QED
        BY <2>2, <2>6, ClockFacts, EndingClocks DEF Statuses
    <2> QED
      BY <1>7, <2>3, <2>4, <2>5, <2>6 DEF ClassifyUncertain, Arm
  <1>8. CASE RetryStep
    <2> DEFINE j == [jrn EXCEPT !.state = "waiting"]
    <2>1. Timely(jrn)
      BY <1>1, <1>8 DEF RetryStep, Active, ActiveStates, States
    <2>2. Run(j)
      BY <2>1 DEF Timely, Run, IsJournal, States
    <2>3. /\ j.res = jrn.res /\ j.idx = jrn.idx /\ j.end = jrn.end /\ j.cmd = jrn.cmd
          /\ j.state = "waiting"
      BY <2>1 DEF Timely, Run, IsJournal
    <2>4. StartStep(j, lastObs, NoTimer)
      BY <1>8 DEF RetryStep
    <2> HIDE DEF j
    <2>5. Timely(j)
      BY <2>1, <2>2, <2>3 DEF Timely, Timed, Carries, Current
    <2> QED
      BY <2>4, <2>5, ClockFacts, StartStepClocks DEF NoTimer
  <1>9. CASE RetryUncertainStop
    <2>1. CASE SendStop(jrn, "retry_stop")
      BY <1>0, <2>1, ClockFacts, SendStopClocks
    <2>2. CASE Disarm /\ UNCHANGED <<jrn, hold, mem>>
      <3>1. jrn.state # "inter_zone_gap"
        BY <1>0, <1>9 DEF RetryUncertainStop, Fires, TimerMatchesState, Paused
      <3>2. timer'.kind # "classify"
        BY <2>2 DEF Disarm, NoTimer
      <3> QED
        BY <1>0, <2>2, <3>1, <3>2, ClockFacts, CarriesOnTheClock
        DEF Clocked, ClockInv, SoakInv, Free, At, Timed, Carries, Current
    <2> QED
      BY <1>9, <2>1, <2>2 DEF RetryUncertainStop
  <1> QED
    BY <1>3, <1>4, <1>5, <1>6, <1>7, <1>8, <1>9 DEF Timers

LEMMA ZoneEventsClocks ==
  ASSUME ClockFound, hold = Free, now' = now,
         NEW e \in SourceEvents, Past(e), e.kind = "zone",
         \/ ZoneEventDuringRun(e) /\ jrn.state \in {"watering", "reconciling"}
         \/ ZoneEventDuringGap(e) /\ jrn.state = "inter_zone_gap"
  PROVE  Clocked
  <1> DEFINE confirmed == IF jrn.cmd.disp \in {"sent", "uncertain"} THEN Accept(jrn) ELSE jrn
  <1>1. Timely(jrn) /\ ClockInv
    BY ClockFacts DEF Free, At, Active, ActiveStates, States, ClockFound
  <1>2. /\ Timely(confirmed) /\ confirmed.end = jrn.end /\ confirmed.state = jrn.state
        /\ (jrn.cmd # NoCmd => confirmed.cmd # NoCmd)
    BY <1>1, AcceptTimely DEF NoCmd
  <1>3. e.at \in Nat /\ e.at <= now /\ e.zone \in Zones
        /\ \A z \in Zones : e.obs.rep[z] \in Nat /\ e.obs.rep[z] <= now
    BY DelayAssumption DEF SourceEvents, Past, Observations, Time
  <1>4. CASE UNCHANGED <<jrn, timer, hold, mem>>
    BY <1>4, ClockFacts, IdleClocks
  <1>5. CASE Conflict(jrn)
    BY <1>1, <1>5, ClockFacts, ConflictClocks
  <1>6. CASE ZoneEventDuringRun(e) /\ jrn.state \in {"watering", "reconciling"}
    <2>1. CASE ResumeWatering(confirmed) /\ jrn.state = "reconciling" /\ mem.ctx = "early_end"
      <3>1. confirmed.end # NoTime
        BY <1>1, <1>2, <2>1 DEF ClockInv
      <3> HIDE DEF confirmed
      <3> QED
        BY <1>2, <2>1, <3>1, ResumeWateringClocks
    <2>2. CASE /\ jrn' = Watering(confirmed, e.at)
               /\ Arm("expected_end", e.at + StepsOf(jrn)[jrn.idx].dur)
               /\ UNCHANGED hold
      <3> HIDE DEF confirmed
      <3> QED
        BY <1>2, <1>3, <2>2, WateringClocks DEF Timely, Timed, Arm
    <2>3. CASE jrn' = confirmed /\ UNCHANGED <<timer, hold, mem>>
      <3> HIDE DEF confirmed
      <3> QED
        BY <1>1, <1>2, <1>6, <2>3, CarriesOnTheClock DEF Clocked, ClockInv, SoakInv, Timely, Free, At
    <2>4. CASE /\ jrn.state = "watering"
               /\ \/ e.at >= jrn.end - EarlyTolerance /\ Complete(jrn, e.at)
                  \/ ClassifyEarlyEnd(jrn, e.obs, mem) \/ EnterEarlyEnd(jrn)
      <3>1. jrn.end # NoTime /\ jrn.end \in Int
        BY <1>1, <2>4, ClockFacts DEF ClockInv, Timed
      <3>2. e.at >= jrn.end - EarlyTolerance => now >= jrn.end - EarlyTolerance
        BY <1>3, <3>1, ClockFacts, DelayAssumption
      <3> QED
        BY <1>1, <2>4, <3>1, <3>2, ClockFacts, CompleteClocks, ClassifyClocks, EarlyEndClocks
        DEF Timely
    <2> HIDE DEF confirmed
    <2> QED
      BY <1>4, <1>5, <1>6, <2>1, <2>2, <2>3, <2>4 DEF ZoneEventDuringRun, confirmed
  <1>7. CASE ZoneEventDuringGap(e) /\ jrn.state = "inter_zone_gap"
    <2> DEFINE ended == jrn.res[jrn.idx].end
               j     == [jrn EXCEPT !.end = ended]
    <2>1. CASE EnterOverrun(j) /\ ended # NoTime /\ e.obs.rep[e.zone] > ended
      <3>1. ended \in Int
        BY <1>1, StepFacts DEF Timely, Run, IsJournal, Results
      <3>2. Run(j)
        BY <1>1, <3>1 DEF Timely, Run, IsJournal
      <3>3. /\ j.res = jrn.res /\ j.idx = jrn.idx /\ j.end = ended /\ j.cmd = jrn.cmd
            /\ j.state = jrn.state
        BY <1>1 DEF Timely, Run, IsJournal
      <3>4. ended <= now
        BY <1>3, <2>1, <3>1, ClockFacts
      <3> HIDE DEF j, ended
      <3>5. Timely(j)
        BY <1>1, <2>1, <3>2, <3>3 DEF Timely, Timed, Carries, Current
      <3> QED
        BY <2>1, <3>3, <3>4, <3>5, OverrunClocks
    <2> QED
      BY <1>4, <1>5, <1>7, <2>1 DEF ZoneEventDuringGap
  <1> QED
    BY <1>6, <1>7

LEMMA EventsClocks ==
  ASSUME ClockFound, Events
  PROVE  Clocked
  <1> DEFINE e == Head(inbox)
  <1>0. /\ hold = Free /\ now' = now
        /\ e \in SourceEvents /\ Past(e)
    <2>1. inbox \in Seq(Waiting) /\ inbox # <<>> /\ hold = Free /\ now' = now
      BY DEF Events, ServeZone, ServeSensor, ServeWeather, Serve, env, ClockFound, IInv, EnvTypeOK
    <2>2. 1 \in DOMAIN inbox /\ Head(inbox) = inbox[1]
      BY <2>1
    <2>3. Head(inbox) \in SourceEvents
      BY ServeFacts DEF Events, ServeZone, ServeSensor, ServeWeather, ClockFound, IInv
    <2> QED
      BY <2>1, <2>2, <2>3 DEF ClockFound, ReportsInv
  <1>1. CASE ResumeOrExpire("event") /\ jrn.state \in Paused
    <2>1. Timely(jrn)
      BY <1>0, <1>1, ClockFacts DEF Free, At, Active, ActiveStates, States, Paused
    <2> QED
      BY <1>1, <2>1, ClockFacts, ResumeClocks
  <1>2. CASE UNCHANGED <<jrn, timer, hold, mem>>
    BY <1>0, <1>2, ClockFacts, IdleClocks
  <1>3. CASE ServeZone
    <2>1. e.kind = "zone" /\ HandleZone(e)
      BY <1>3 DEF ServeZone, Serve
    <2> HIDE DEF e
    <2> QED
      BY <1>0, <1>1, <1>2, <2>1, ZoneEventsClocks DEF HandleZone, Paused
  <1>4. ASSUME HandleSensor(e) PROVE Clocked
    BY <1>1, <1>2, <1>4 DEF HandleSensor, Paused
  <1>5. CASE jrn.state = "watering" /\ SendStop(jrn, "freeze")
    BY <1>0, <1>5, ClockFacts, SendStopClocks DEF ClockFound
  <1> QED
    BY <1>3, <1>4, <1>5 DEF Events, ServeSensor, ServeWeather, HandleWeather

LEMMA RestartClocks ==
  ASSUME ClockFound, Restart
  PROVE  Clocked
  <1>1. CASE Crash
    <2>1. /\ jrn' = jrn /\ now' = now /\ hold' = At("down", "none") /\ timer' = NoTimer
          /\ mem' = Fresh
      BY <1>1 DEF Crash, world, Disarm
    <2> QED
      BY <2>1, ClockFacts, CarriesOnTheClock
      DEF Clocked, ClockInv, SoakInv, Free, At, Fresh, Timed, Carries, Current
  <1>2. CASE RecoverIdle
    <2>1. /\ jrn.state = "idle" /\ UNCHANGED <<jrn, timer>> /\ hold' = Free
          /\ timer.kind = "none"
      BY <1>2, ClockFacts
      DEF RecoverIdle, Active, ActiveStates, IsJournal, Release, ClockFound, IInv, ExecInv, TimerInv
    <2> QED
      BY <2>1, ClockFacts, StandingClocks DEF Free, At, Timed, Carries, Current
  <1>3. CASE Recover
    <2>0. /\ hold.at = "down" /\ Active /\ now' = now /\ timer.kind = "none" /\ ClockInv
      BY <1>3 DEF Recover, env, ClockFound, IInv, ExecInv, TimerInv
    <2>1. CASE StepsOf(jrn) = <<>>
      BY <1>3, <2>1, ClockFacts, FinishClocks DEF Recover
    <2>2. ASSUME StepsOf(jrn) # <<>> PROVE Clocked
      <3>1. Timely(jrn)
        BY <2>0, <2>2, ClockFacts
      <3>2. CASE Finish(SkipRemaining(jrn), "aborted_user")
        BY <3>1, <3>2, ClockFacts, EndingClocks DEF Statuses
      <3>3. CASE /\ jrn' = [jrn EXCEPT !.state = "paused_external",
                                       !.pausedAt = IF @ = NoTime THEN now ELSE @]
                 /\ Release /\ UNCHANGED timer
        BY <2>0, <3>1, <3>3, PauseClocks DEF Release
      <3>4. ASSUME jrn.end # NoTime, ~(now < jrn.end) PROVE jrn.end <= now
                     /\ now >= jrn.end - EarlyTolerance
        BY <3>4, ClockFacts, DelayAssumption
      <3>5. CASE RecoverWatering
        <4>1. jrn.end # NoTime
          BY <2>0, <3>5 DEF RecoverWatering, ClockInv, Timed
        <4>2. CASE Release /\ Arm("expected_end", jrn.end) /\ UNCHANGED <<jrn, mem>>
          BY <3>1, <3>5, <4>2, ClockFacts, StandingClocks
          DEF RecoverWatering, Release, Arm, Free, At, Timed, Carries, Current
        <4> QED
          BY <3>1, <3>4, <3>5, <4>1, <4>2, ClockFacts, CompleteClocks, ExpireClocks
          DEF RecoverWatering, Timely
      <3>6. CASE RecoverEndReconcile
        <4>1. jrn.end # NoTime
          BY <3>1, <3>6, StepFacts DEF RecoverEndReconcile, Timely, Timed
        <4> QED
          BY <2>0, <3>1, <3>6, <4>1, ClockFacts, OverrunClocks, ResumeWateringClocks,
             ExpireClocks, ClassifyClocks DEF RecoverEndReconcile
      <3>7. CASE RecoverStart
        <4>1. CASE AcceptStart([jrn EXCEPT !.state = "watering"])
          <5> DEFINE j == [jrn EXCEPT !.state = "watering"]
          <5>1. Run(j) /\ j.res = jrn.res /\ j.cmd = jrn.cmd
            BY <3>1 DEF Timely, Run, IsJournal, States
          <5> HIDE DEF j
          <5>2. Carries(j) /\ (j.cmd = NoCmd \/ j.cmd.at \in Nat)
            BY <3>1, <5>1 DEF Timely, Timed, Carries
          <5> QED
            BY <2>0, <4>1, <5>1, <5>2, ClockFacts, AcceptStartClocks DEF j
        <4>2. CASE jrn' = [jrn EXCEPT !.state = "waiting"] /\ hold' = At("start", "none")
          <5>1. /\ jrn'.res = jrn.res /\ jrn'.idx = jrn.idx /\ jrn'.end = jrn.end
                /\ jrn'.cmd = jrn.cmd /\ jrn'.state = "waiting"
            BY <4>2, ClockFacts DEF IsJournal
          <5>2. Timed(jrn') /\ Carries(jrn')
            BY <5>1, ClockFacts DEF Timed, Carries, Current
          <5> QED
            BY <4>2, <5>1, <5>2, StandingClocks DEF At
        <4> QED
          BY <3>1, <3>7, <4>1, <4>2, ClockFacts, EndingClocks DEF RecoverStart, Statuses
      <3>8. CASE jrn.state = "inter_zone_gap" /\ ArmGap(jrn) /\ Release /\ UNCHANGED <<jrn, mem>>
        <4>1. /\ timer'.kind = "gap"
              /\ \A k \in FirstPending(jrn) :
                   StepsOf(jrn)[k].soak => timer'.at >= StepsOf(jrn)[k].planned
          BY <3>1, <3>8, ClockFacts, StepFacts, ArmGapKeepsSoak DEF Timely
        <4> QED
          BY <3>8, <4>1, ClockFacts, CarriesOnTheClock
          DEF Clocked, ClockInv, SoakInv, Release, Free, At, Timed, Carries, Current,
              FirstPending, PendingSteps, StepsOf
      <3>9. CASE jrn.state \in Paused /\ Release /\ UNCHANGED <<jrn, timer, mem>>
        BY <2>0, <3>9, ClockFacts, StandingClocks
        DEF Release, Paused, Free, At, Timed, Carries, Current
      <3> QED
        BY <1>3, <2>2, <3>2, <3>3, <3>5, <3>6, <3>7, <3>8, <3>9 DEF Recover
    <2> QED
      BY <2>1, <2>2
  <1> QED
    BY <1>1, <1>2, <1>3 DEF Restart

\* Every step keeps the invariant and completes a step on the clock only.
LEMMA ClockStep ==
  ASSUME ClockFound, [Next]_vars
  PROVE  ReportsInv' /\ Clocked
  <1>1. ReportsInv'
    BY ReportsStep DEF ClockFound, IInv
  <1>2. CASE Methods \/ Returns \/ Goes \/ Timers \/ Events \/ Restart
    BY <1>1, <1>2, MethodsClocks, ReturnsClocks, GoesClocks, TimersClocks, EventsClocks,
       RestartClocks
  <1>3. CASE Source \/ Tick \/ UNCHANGED vars
    <2>1. UNCHANGED <<jrn, timer, hold, mem>> /\ (now' = now \/ now' = now + 1)
      BY <1>3 DEF Source, Tick, ZoneReports, ZoneReconfirmed, WeatherChanges, vars
    <2> QED
      BY <1>1, <2>1, ClockFacts, IdleClocks
  <1>4. CASE Queued
    <2>1. /\ now' = now
          /\ UNCHANGED <<jrn, timer, hold, mem>> \/ \E o \in Occurrences : Start(o)
      BY <1>4, QueuedSteps DEF ClockFound, IInv
    <2> QED
      BY <1>1, <2>1, StartClocks, ClockFacts, IdleClocks
  <1> QED
    BY <1>2, <1>3, <1>4 DEF Next

\* From the gap the run goes on by its timer only.
LEMMA OnlyOnGapStarts ==
  ASSUME ClockFound, [Next]_vars, hold = Free, jrn.state = "inter_zone_gap",
         hold'.at = "startcall"
  PROVE  OnGap
  <1>0. hold.at = "free" /\ hold' # hold
    BY DEF Free, At
  <1>1. CASE Methods
    BY <1>0, <1>1 DEF Methods, StartRun, RefusedRequest, Stop, Pause, Resume, SkipCurrent,
                      Active, ActiveStates, States, Paused, SendStop, At, Free
  <1>2. CASE Returns \/ Goes \/ Restart
    BY <1>0, <1>2
    DEF Returns, StartAccepted, StartRejected, StartUncertain, StopConfirmed, StopUncertain,
        Goes, Advance, RestartStep, StopDone, PauseDone, SkipDone, FreezeCutDone,
        OverrunStopped, RetryStopDone, CompleteLate, FinishReset,
        Restart, Crash, Recover, RecoverIdle, At
  <1>3. CASE Timers
    <2>1. CASE RetryUncertainStop
      BY <1>0, <2>1 DEF RetryUncertainStop, SendStop, At
    <2> QED
      BY <1>3, <2>1 DEF Timers, OnExpectedEnd, ConfirmOverrun, ConfirmEarlyEnd,
                        ClassifyUncertain, RetryStep
  <1>4. CASE Events
    <2>1. ASSUME NEW e, ZoneEventDuringGap(e) PROVE FALSE
      <3>1. CASE Conflict(jrn)
        BY <3>1 DEF Conflict, Finish, Release, Free, At
      <3> QED
        BY <1>0, <2>1, <3>1 DEF ZoneEventDuringGap, EnterOverrun, Release, Free, At
    <2> QED
      BY <1>0, <1>4, <2>1 DEF Events, ServeZone, ServeSensor, ServeWeather, HandleZone,
                              HandleSensor, HandleWeather
  <1>5. CASE Source \/ Tick \/ UNCHANGED vars
    BY <1>0, <1>5 DEF Source, ZoneReports, ZoneReconfirmed, WeatherChanges, Tick, vars
  <1>6. CASE Queued
    BY <1>0, <1>6, QueuedSteps DEF ClockFound, IInv, Start, At
  <1> QED
    BY <1>1, <1>2, <1>3, <1>4, <1>5, <1>6 DEF Next

\* The step the gap timer starts is the first that is pending.
LEMMA StartsFirstPending ==
  ASSUME NEW j, Run(j), NEW o, NEW t, AdvanceFrom(j, o, t), hold'.at = "startcall"
  PROVE  jrn'.idx \in FirstPending(j)
  <1>1. PICK k \in FirstPending(j) : StartStep([j EXCEPT !.idx = k], o, t)
    BY DEF AdvanceFrom, Finish
  <1> DEFINE n == [j EXCEPT !.idx = k]
  <1>2. jrn' = [n EXCEPT !.state = "starting",
                         !.cmd = [type |-> "start", disp |-> "intended", at |-> now],
                         !.res[n.idx] = [n.res[n.idx] EXCEPT !.att = @ + 1]]
    BY <1>1 DEF StartStep, EndEarly, Finish, Release, Free, At
  <1>3. n.idx = k /\ "idx" \in DOMAIN n
    BY DEF Run, IsJournal
  <1> HIDE DEF n
  <1> QED
    BY <1>2, <1>3

LEMMA SoakKept ==
  ASSUME ClockFound, [Next]_vars, hold = Free, jrn.state = "inter_zone_gap",
         hold'.at = "startcall", Current(jrn) = "completed", StepsOf(jrn)[jrn'.idx].soak
  PROVE  now >= StepsOf(jrn)[jrn'.idx].planned
  <1>1. OnGap
    BY OnlyOnGapStarts
  <1>2. Run(jrn) /\ now \in Int /\ timer.at \in Int
    BY ClockFacts DEF Timely, Active, ActiveStates, States, Free, At, TimerRec
  <1>3. jrn'.idx \in FirstPending(jrn)
    BY <1>1, <1>2, StartsFirstPending DEF OnGap
  <1>4. timer.at <= now /\ timer.at >= StepsOf(jrn)[jrn'.idx].planned
    BY <1>1, <1>3 DEF OnGap, Fires, ClockFound, ClockInv, SoakInv
  <1>5. StepsOf(jrn)[jrn'.idx].planned \in Int
    <2>1. jrn'.idx \in DOMAIN StepsOf(jrn) /\ StepsOf(jrn) \in Seq(StepRec)
      BY <1>2, <1>3, StepFacts DEF FirstPending, PendingSteps
    <2>2. StepsOf(jrn)[jrn'.idx] \in StepRec
      BY <2>1
    <2> QED
      BY <2>2 DEF StepRec
  <1> QED
    BY <1>2, <1>4, <1>5

\* What the journal knows of the clock is inductive together with the
\* executor's invariant.
THEOREM ClockInvariant == Spec => []ClockFound
  <1>1. Init => ReportsInv /\ ClockInv
    <2> SUFFICES ASSUME Init PROVE ReportsInv /\ ClockInv
      OBVIOUS
    <2>1. now = 0 /\ inbox = <<>> /\ (\A z \in Zones : src[z].at = 0)
      BY DEF Init
    <2>2. /\ jrn.cmd = NoCmd /\ jrn.res = <<>> /\ jrn.state = "idle"
          /\ hold = Free /\ timer.kind = "none"
      BY DEF Init, IdleJournal, Journal, NoTimer
    <2> QED
      BY <2>1, <2>2 DEF ReportsInv, ClockInv, Timed, SoakInv, Free, At
  <1>2. IInv /\ ReportsInv /\ ClockInv /\ [Next]_vars => ReportsInv' /\ ClockInv'
    BY ClockStep DEF ClockFound, Clocked
  <1> QED
    BY <1>1, <1>2, ExecutorInvariant, PTL DEF Spec, ClockFound

\* Through every early, late and missing report, every uncertain command and
\* every restart, a step is completed only once its commanded window is over.
THEOREM CompletesAtItsEnd == Spec => CompletesOnTheClock
  <1>1. ClockFound /\ [Next]_vars => [OnTheClock]_vars
    BY ClockStep DEF Clocked
  <1> QED
    BY <1>1, ClockInvariant, PTL DEF Spec, CompletesOnTheClock, OnTheClock

\* A soak step is not started by the gap timer before its compiled start if
\* the step before it ran to its end, restarts in the gap included.
THEOREM SoaksAreKept == Spec => SoakIsKept
  <1> DEFINE A == jrn.state = "inter_zone_gap" /\ hold = Free /\ hold'.at = "startcall"
                    /\ Current(jrn) = "completed" /\ StepsOf(jrn)[jrn'.idx].soak
                  => now >= StepsOf(jrn)[jrn'.idx].planned
  <1>1. ClockFound /\ [Next]_vars => [A]_vars
    BY SoakKept
  <1> QED
    BY <1>1, ClockInvariant, PTL DEF Spec, SoakIsKept

=============================================================================
