---------------------------- MODULE HistoryProofs ----------------------------
(* What becomes of a run's steps and of the run: which step runs, that what *)
(* became of one is final, and that a finished run is recorded once, by     *)
(* what its steps say.                                                      *)
EXTENDS ClockProofs, FiniteSetTheorems

-----------------------------------------------------------------------------
(* The history: one record per finished occurrence *)

HistoryRec == [occ : Occurrences, out : Outcomes \cup {"none"}, steps : SUBSET Statuses,
               saved : BOOLEAN]

Recorded == {history[n].occ : n \in DOMAIN history}

\* Records are of different occurrences.
DistinctInv ==
  /\ history \in Seq(HistoryRec)
  /\ \A m, n \in DOMAIN history : history[m].occ = history[n].occ => m = n

\* What is recorded is finished and has not got the controller: between the
\* two halves of _finish_run an occurrence is finished, but not recorded.
RecordedInv == Recorded \subseteq jrn.done \ {jrn.occ}

\* Only a crash loses a record of an occurrence that is not being finished.
NoneLostInv == "crash" \notin Faults => jrn.done \subseteq Recorded \cup {jrn.occ}

RecordInv == DistinctInv /\ RecordedInv /\ NoneLostInv

-----------------------------------------------------------------------------
(* Steps that record nothing *)

LEMMA HistoryKept ==
  ASSUME [Next]_vars, ~FinishReset, ~Crash
  PROVE  UNCHANGED history
  <1>1. CASE Methods
    BY <1>1 DEF Methods, StartRun, RefusedRequest, Stop, Pause, Resume, SkipCurrent
  <1>2. CASE Returns
    BY <1>2 DEF Returns, StartAccepted, StartRejected, StartUncertain, StopConfirmed,
                StopUncertain
  <1>3. CASE Goes
    BY <1>3 DEF Goes, Advance, RestartStep, StopDone, PauseDone, SkipDone, FreezeCutDone,
                OverrunStopped, RetryStopDone, CompleteLate
  <1>4. CASE Timers
    BY <1>4 DEF Timers, OnExpectedEnd, OnGap, ConfirmOverrun, ConfirmEarlyEnd,
                ClassifyUncertain, RetryStep, RetryUncertainStop
  <1>5. CASE Events
    BY <1>5 DEF Events, ServeZone, ServeSensor, ServeWeather, Serve
  <1>6. CASE Restart
    BY <1>6 DEF Restart, Recover, RecoverIdle
  <1>7. CASE Source \/ Tick \/ UNCHANGED vars
    BY <1>7 DEF Source, ZoneReports, ZoneReconfirmed, WeatherChanges, Tick, vars
  <1>8. CASE Queued
    BY <1>8 DEF Queued, StartWaits, ServeStart
  <1> QED
    BY <1>1, <1>2, <1>3, <1>4, <1>5, <1>6, <1>7, <1>8 DEF Next

LEMMA ContinuesPreserves ==
  ASSUME RecordInv, Continues, UNCHANGED history
  PROVE  RecordInv'
  BY DEF RecordInv, DistinctInv, RecordedInv, NoneLostInv, Recorded, Continues

LEMMA ClaimPreserves ==
  ASSUME RecordInv, IsJournal(jrn), NEW o \in Occurrences, Lifecycle!Claim(o),
         UNCHANGED history
  PROVE  RecordInv'
  <1>1. NoOcc \notin jrn.done
    BY PlanAssumption DEF IsJournal
  <1> QED
    BY <1>1 DEF RecordInv, DistinctInv, RecordedInv, NoneLostInv, Recorded, Lifecycle!Claim

-----------------------------------------------------------------------------
(* The record of a finished run, and its loss *)

LEMMA FinishResetRecords ==
  ASSUME RecordInv, IsJournal(jrn), hold \in HoldRec, FinishedInv, FinishReset
  PROVE  RecordInv'
  <1> DEFINE record == [occ |-> jrn.occ, out |-> hold.out,
                        steps |-> {jrn.res[k].status : k \in DOMAIN jrn.res},
                        saved |-> FALSE]
  <1>1. jrn.occ \in jrn.done /\ jrn.done \subseteq Occurrences /\ NoOcc \notin Occurrences
    BY PlanAssumption DEF FinishReset, FinishedInv, IsJournal
  <1>2. jrn'.occ = NoOcc /\ jrn'.done = jrn.done
    BY DEF FinishReset, IdleJournal, Journal
  <1>3. record \in HistoryRec
    <2>1. record.steps \subseteq Statuses
      BY DEF IsJournal, Results
    <2> QED
      BY <1>1, <2>1 DEF HistoryRec, HoldRec
  <1>4. /\ history \in Seq(HistoryRec)
        /\ history' = Append(history, record)
    BY DEF RecordInv, DistinctInv, FinishReset
  <1> HIDE DEF record
  <1>5. /\ history' \in Seq(HistoryRec)
        /\ DOMAIN history' = DOMAIN history \cup {Len(history) + 1}
        /\ \A n \in DOMAIN history : history'[n] = history[n] /\ n # Len(history) + 1
        /\ history'[Len(history) + 1] = record
    BY <1>3, <1>4
  <1>6. record.occ = jrn.occ
    BY DEF record
  <1>7. Recorded' = Recorded \cup {jrn.occ}
    BY <1>5, <1>6 DEF Recorded
  <1>8. DistinctInv'
    BY <1>5, <1>6 DEF RecordInv, DistinctInv, RecordedInv, Recorded
  <1> QED
    BY <1>1, <1>2, <1>7, <1>8 DEF RecordInv, RecordedInv, NoneLostInv

LEMMA CrashKeeps ==
  ASSUME RecordInv, IsJournal(jrn), Crash
  PROVE  RecordInv'
  <1>1. PICK n \in 0 .. Len(history) : history' = SavedHistory(n)
    BY DEF Crash
  <1>2. history \in Seq(HistoryRec)
    BY DEF RecordInv, DistinctInv
  <1>3. /\ DOMAIN history' = 1 .. n
        /\ 1 .. n \subseteq DOMAIN history
        /\ \A k \in 1 .. n : history'[k] = [history[k] EXCEPT !.saved = TRUE]
    BY <1>1, <1>2 DEF SavedHistory
  <1>4. \A k \in 1 .. n : history'[k] \in HistoryRec /\ history'[k].occ = history[k].occ
    <2>1. \A r \in HistoryRec : /\ [r EXCEPT !.saved = TRUE] \in HistoryRec
                                /\ [r EXCEPT !.saved = TRUE].occ = r.occ
      BY DEF HistoryRec
    <2>2. \A k \in 1 .. n : history[k] \in HistoryRec
      BY <1>2, <1>3
    <2> QED
      BY <1>3, <2>1, <2>2
  <1>5. history' \in Seq(HistoryRec)
    BY <1>1, <1>2, <1>4 DEF SavedHistory
  <1>6. UNCHANGED jrn /\ "crash" \in Faults
    BY DEF Crash
  <1> QED
    BY <1>3, <1>4, <1>5, <1>6 DEF RecordInv, DistinctInv, RecordedInv, NoneLostInv, Recorded

-----------------------------------------------------------------------------
LEMMA RecordStep ==
  ASSUME SimInv, RecordInv, [Next]_vars, IInv'
  PROVE  RecordInv'
  <1>1. IsJournal(jrn) /\ hold \in HoldRec
    BY DEF SimInv, IInv, ExecInv, ExecTypeOK
  <1>2. CASE FinishReset
    BY <1>1, <1>2, FinishResetRecords DEF SimInv
  <1>3. CASE Crash
    BY <1>1, <1>3, CrashKeeps
  <1>4. CASE ~FinishReset /\ ~Crash
    <2>1. UNCHANGED history
      BY <1>4, HistoryKept
    <2>2. ASSUME NEW o \in Occurrences, ~Active, o \notin jrn.done, Start(o)
          PROVE  RecordInv'
      BY <1>1, <2>1, <2>2, StartClaims, ClaimPreserves DEF SimInv
    <2>3. Kept(jrn)
      BY <1>1, JournalKept
    <2>4. CASE RefusedRequest \/ Stop \/ Pause \/ Resume \/ SkipCurrent
      BY <2>1, <2>3, <2>4, MethodsContinue, ContinuesPreserves DEF SimInv
    <2>5. CASE Returns \/ Goes \/ Timers \/ Events \/ Restart
      BY <1>4, <2>1, <2>3, <2>5, ReturnsContinue, GoesContinue, TimersContinue,
         EventsContinue, RestartContinues, ContinuesPreserves DEF SimInv
    <2>6. CASE Source \/ Tick \/ UNCHANGED vars
      <3>1. UNCHANGED <<jrn, hold>>
        BY <2>6 DEF Source, Tick, ZoneReports, ZoneReconfirmed, WeatherChanges, vars
      <3> QED
        BY <2>1, <3>1, IdleContinues, ContinuesPreserves DEF SimInv
    <2>7. CASE Queued
      <3>1. \/ UNCHANGED <<jrn, hold>>
            \/ ~Active /\ \E o \in Occurrences : o \notin jrn.done /\ Start(o)
        BY <2>7, QueuedSteps DEF SimInv, IInv
      <3> QED
        BY <2>1, <2>2, <3>1, IdleContinues, ContinuesPreserves DEF SimInv
    <2> QED
      BY <2>2, <2>4, <2>5, <2>6, <2>7 DEF Next, Methods, StartRun
  <1> QED
    BY <1>2, <1>3, <1>4

LEMMA IntervalSize ==
  ASSUME NEW n \in Nat
  PROVE  IsFiniteSet(1 .. n) /\ Cardinality(1 .. n) = n
  <1>1. IsFiniteSet(1 .. n) /\ Cardinality(1 .. n) = IF 1 > n THEN 0 ELSE n - 1 + 1
    BY FS_Interval
  <1>2. (IF 1 > n THEN 0 ELSE n - 1 + 1) = n
    OBVIOUS
  <1> QED
    BY <1>1, <1>2

LEMMA RecordsAreOnePerOccurrence ==
  ASSUME RecordInv, IInv
  PROVE  OneRecordPerOccurrence
  <1> DEFINE occOf == [n \in 1 .. Len(history) |-> history[n].occ]
  <1>1. history \in Seq(HistoryRec) /\ DOMAIN history = 1 .. Len(history)
    BY DEF RecordInv, DistinctInv
  <1>2. /\ \A m, n \in 1 .. Len(history) : occOf[m] = occOf[n] => m = n
        /\ occOf \in [1 .. Len(history) -> Recorded]
        /\ \A o \in Recorded : \E n \in 1 .. Len(history) : occOf[n] = o
    BY <1>1 DEF RecordInv, DistinctInv, Recorded
  <1>3. ExistsBijection(1 .. Len(history), Recorded)
    <2>1. occOf \in Bijection(1 .. Len(history), Recorded)
      BY <1>2 DEF Bijection, Injection, Surjection, IsInjective
    <2> QED
      BY <2>1 DEF ExistsBijection
  <1>4. Len(history) \in Nat
    BY <1>1
  <1>5. IsFiniteSet(1 .. Len(history)) /\ Cardinality(1 .. Len(history)) = Len(history)
    BY <1>4, IntervalSize
  <1>6. Cardinality(Recorded) = Len(history)
    BY <1>3, <1>5, FS_Bijection
  <1>7. ~Active => jrn.occ = NoOcc
    BY DEF IInv, ExecInv, ExecTypeOK, IsJournal, Active, ActiveStates
  <1>8. NoOcc \notin jrn.done
    BY PlanAssumption DEF IInv, ExecInv, ExecTypeOK, IsJournal
  <1>9. ~Active /\ "crash" \notin Faults => jrn.done = Recorded
    BY <1>7, <1>8 DEF RecordInv, RecordedInv, NoneLostInv
  <1> QED
    BY <1>6, <1>9 DEF OneRecordPerOccurrence, RecordInv, RecordedInv, Recorded

\* The inductive invariant of the history.
THEOREM RecordsAreFinished == Spec => [](SimInv /\ RecordInv)
  <1>1. Init => FinishedInv /\ RecordInv
    BY Places DEF Init, IdleJournal, Journal, FinishedInv, RecordInv, DistinctInv,
                  RecordedInv, NoneLostInv, Recorded
  <1>2. IInv /\ FinishedInv /\ RecordInv /\ [Next]_vars /\ IInv' => FinishedInv' /\ RecordInv'
    BY StepMaps, RecordStep DEF SimInv
  <1> QED
    BY <1>1, <1>2, ExecutorInvariant, PTL DEF Spec, SimInv

\* No occurrence is recorded twice, whatever crashes between the two halves
\* of _finish_run, and without a crash no finished one goes unrecorded.
THEOREM RecordedOnce == Spec => []OneRecordPerOccurrence
  BY RecordsAreFinished, RecordsAreOnePerOccurrence, PTL DEF SimInv

-----------------------------------------------------------------------------
(* The steps of the run that is active.                                     *)
(*                                                                          *)
(* A restart may pause a run next to a zone that is on and leave its step   *)
(* running, so the rest is about an executor that does not die.             *)

Steady == "crash" \notin Faults

OnlyCurrent(j) == \A k \in DOMAIN j.res : j.res[k].status = "running" => k = j.idx
NoneRunning(j) == \A k \in DOMAIN j.res : j.res[k].status # "running"

\* What the state of the run, and what it is reconciling, say of its steps.  A
\* skip puts the run into the gap behind whatever step is the current one.
Stated(j, ctx) ==
  /\ OnlyCurrent(j)
  /\ j.state \notin {"watering", "reconciling", "stopping"} => NoneRunning(j)
  /\ j.state = "watering" => Current(j) = "running"
  /\ j.state = "starting" => Current(j) = "pending"
  /\ j.state = "reconciling" /\ ctx = "start" => Current(j) = "pending"
  /\ j.state = "reconciling" /\ ctx = "early_end" => Current(j) = "running"
  /\ j.state = "reconciling" /\ ctx = "overrun" /\ NoSkip
       => Current(j) \in {"running", "completed"}
  /\ j.state = "inter_zone_gap" /\ NoSkip => Current(j) = "completed"

\* What the outcome of a run says of its steps.
Closed(j, out) ==
  /\ \A k \in DOMAIN j.res : j.res[k].status \in Terminal
  /\ out = "completed" => AllCompleted(j)

StatusInv ==
  /\ hold.at = "finishing" => Closed(jrn, hold.out)
  /\ hold.at # "finishing" => Stated(jrn, mem.ctx)
  /\ hold.op = "overrun" => mem.ctx = "overrun"

\* A journal of this run in which no outcome is another one.
Open(j) ==
  /\ Run(j)
  /\ DOMAIN j.res = DOMAIN jrn.res
  /\ NoSkip => \A k \in DOMAIN j.res :
                 jrn.res[k].status \in Terminal => j.res[k].status = jrn.res[k].status

\* What OutcomesAreFinal says of a step.
Lasts ==
  \A k \in DOMAIN jrn.res \cap DOMAIN jrn'.res :
    jrn.res[k].status \in Terminal =>
      \/ jrn'.res[k].status = jrn.res[k].status
      \/ jrn.res[k].status = "completed" /\ jrn'.res[k].status = "overrun_stopped"
         /\ hold.op = "overrun"

Accounts == StatusInv' /\ (NoSkip => Lasts)

\* The current step may get an outcome.
MayEnd(j) == NoSkip => Current(j) \notin Terminal

LEMMA OpenEnds ==
  ASSUME NEW j, Open(j), now \in Int, NEW s \in Statuses, MayEnd(j)
  PROVE  LET e == EndStep(j, j.idx, s) IN
         /\ Open(e) /\ e.idx = j.idx /\ e.state = j.state
         /\ \A m \in DOMAIN j.res : e.res[m].status = IF m = j.idx THEN s ELSE j.res[m].status
  <1> DEFINE e == EndStep(j, j.idx, s)
  <1>1. j.idx \in DOMAIN j.res
    BY StepFacts DEF Open
  <1>2. Run(e) /\ e.state = j.state
    BY <1>1, EndStepFacts DEF Open
  <1>3. /\ DOMAIN e.res = DOMAIN j.res /\ e.idx = j.idx
        /\ \A m \in DOMAIN j.res : e.res[m].status = IF m = j.idx THEN s ELSE j.res[m].status
    BY <1>1, EndStepResults DEF Open, SameButResults
  <1> HIDE DEF e
  <1>4. Open(e)
    BY <1>1, <1>2, <1>3 DEF Open, MayEnd, Current
  <1> QED
    BY <1>2, <1>3, <1>4 DEF e

LEMMA OpenSkips ==
  ASSUME NEW j, Open(j), now \in Int
  PROVE  /\ Open(SkipRemaining(j))
         /\ \A m \in DOMAIN SkipRemaining(j).res : SkipRemaining(j).res[m].status \in Terminal
  <1> DEFINE n == SkipRemaining(j)
  <1>1. Run(n)
    BY SkipRemainingFacts DEF Open
  <1>2. /\ DOMAIN n.res = DOMAIN j.res
        /\ \A m \in DOMAIN j.res : n.res[m].status
              = CASE j.res[m].status = "pending" -> "skipped"
                  [] j.res[m].status = "running" -> "external_stop"
                  [] OTHER -> j.res[m].status
    BY SkipRemainingResults DEF Open, SameButResults
  <1>3. \A m \in DOMAIN j.res : j.res[m].status \in Statuses
    BY DEF Open, Run, IsJournal, Results
  <1> HIDE DEF n
  <1>4. \A m \in DOMAIN n.res : n.res[m].status \in Terminal
    BY <1>2, <1>3 DEF Terminal, Statuses
  <1>5. Open(n)
    BY <1>1, <1>2, <1>3 DEF Open, Terminal, Statuses
  <1> QED
    BY <1>4, <1>5 DEF n

LEMMA OpenLasts ==
  ASSUME Open(jrn')
  PROVE  NoSkip => Lasts
  BY DEF Open, Lasts

\* The same journal but for what says nothing of the steps.
LEMMA OpenCopies ==
  ASSUME NEW j, Open(j), NEW n, Run(n), n.res = j.res
  PROVE  Open(n)
  BY DEF Open

-----------------------------------------------------------------------------
(* The handlers' parts *)

LEMMA FinishAccounts ==
  ASSUME NEW j, IsJournal(j), NEW out, Closed(j, out), Finish(j, out),
         NoSkip => \A k \in DOMAIN j.res \cap DOMAIN jrn.res :
           jrn.res[k].status \in Terminal =>
             \/ j.res[k].status = jrn.res[k].status
             \/ jrn.res[k].status = "completed" /\ j.res[k].status = "overrun_stopped"
                /\ hold.op = "overrun"
  PROVE  Accounts
  <1>1. jrn'.res = j.res /\ hold'.at = "finishing" /\ hold'.out = out /\ hold'.op = "none"
    BY DEF Finish, IsJournal
  <1>2. Closed(jrn', hold'.out)
    BY <1>1 DEF Closed, AllCompleted
  <1> QED
    BY <1>1, <1>2 DEF Accounts, StatusInv, Lasts

LEMMA EndingAccounts ==
  ASSUME NEW j, Open(j), now \in Int, NEW out, out # "completed", NEW s \in Statuses,
         \/ EndEarly(j, out)
         \/ Finish(SkipRemaining(j), out)
         \/ MayEnd(j) /\ Finish(SkipRemaining(EndStep(j, j.idx, s)), out)
  PROVE  Accounts
  <1>1. ASSUME NEW n, Open(n), NEW o, o # "completed", Finish(SkipRemaining(n), o)
        PROVE  Accounts
    <2>1. Open(SkipRemaining(n)) /\ Closed(SkipRemaining(n), o)
      BY <1>1, OpenSkips DEF Closed
    <2> QED
      BY <1>1, <2>1, FinishAccounts DEF Open, Run
  <1>2. MayEnd(j) => Open(EndStep(j, j.idx, s))
    BY OpenEnds
  <1> QED
    BY <1>1, <1>2 DEF EndEarly

\* A handler that leaves no step running and the run in a state that asks
\* nothing of the current one.
LEMMA QuietAccounts ==
  ASSUME NEW j, Open(j), NoneRunning(j), Run(jrn'), jrn'.res = j.res,
         jrn'.state \notin {"watering", "starting", "reconciling", "inter_zone_gap"},
         hold'.at # "finishing", hold'.op # "overrun"
  PROVE  Accounts
  <1>1. NoSkip => Lasts
    BY OpenCopies, OpenLasts
  <1> QED
    BY <1>1 DEF Accounts, StatusInv, Stated, OnlyCurrent, NoneRunning

LEMMA SendStopAccounts ==
  ASSUME NEW j, IsJournal(j), j.res = jrn.res, Stated(j, mem.ctx), NEW op, SendStop(j, op),
         op = "overrun" => mem.ctx = "overrun"
  PROVE  Accounts
  <1>1. /\ jrn'.res = j.res /\ jrn'.idx = j.idx /\ jrn'.state = j.state
        /\ hold' = At("stopcall", op) /\ mem' = mem
    BY DEF SendStop, IsJournal
  <1>2. Stated(jrn', mem'.ctx)
    BY <1>1 DEF Stated, OnlyCurrent, NoneRunning, Current
  <1> QED
    BY <1>1, <1>2 DEF Accounts, StatusInv, Lasts, At

LEMMA PauseAccounts ==
  ASSUME NEW j, Open(j), NoneRunning(j), now \in Int, hold' = Free,
         \/ jrn' = PausedExternally(j)
         \/ jrn' = [PausedExternally(j) EXCEPT !.reason = "user"]
         \/ jrn' = [j EXCEPT !.state = "paused_sensor", !.pausedAt = now]
         \/ jrn' = [j EXCEPT !.state = "paused_sensor", !.pausedAt = now,
                             !.reason = "low_temperature"]
  PROVE  Accounts
  <1>1. jrn'.res = j.res /\ jrn'.state \in Paused
    BY DEF Open, Run, IsJournal, PausedExternally, Paused
  <1>2. Run(jrn')
    BY DEF Open, Run, IsJournal, PausedExternally, States
  <1> QED
    BY <1>1, <1>2, QuietAccounts DEF Paused, Free, At

LEMMA StartStepAccounts ==
  ASSUME NEW j, Open(j), NoneRunning(j), Current(j) = "pending", now \in Int,
         NEW o, NEW t, StartStep(j, o, t)
  PROVE  Accounts
  <1>1. CASE EndEarly(j, "completed_with_skips") \/ EndEarly(j, "aborted_sensor")
    BY <1>1, EndingAccounts DEF Statuses
  <1>2. CASE jrn' = PausedExternally(j) /\ Release
    BY <1>2, PauseAccounts DEF Release
  <1>3. CASE Finish(SkipRemaining(EndStep(j, j.idx, "failed")), "failed")
    BY <1>3, EndingAccounts DEF Statuses, MayEnd, Terminal
  <1>4. CASE /\ jrn' = [j EXCEPT !.state = "starting",
                                 !.cmd = [type |-> "start", disp |-> "intended", at |-> now],
                                 !.res[j.idx] = [j.res[j.idx] EXCEPT !.att = @ + 1]]
             /\ hold' = At("startcall", "none")
    <2>1. /\ jrn'.idx = j.idx /\ jrn'.state = "starting" /\ DOMAIN jrn'.res = DOMAIN j.res
      BY <1>4 DEF Open, Run, IsJournal
    <2>2. \A m \in DOMAIN j.res : jrn'.res[m].status = j.res[m].status
      BY <1>4 DEF Open, Run, IsJournal, Results
    <2>3. j.idx \in DOMAIN j.res
      BY StepFacts DEF Open
    <2>4. Stated(jrn', mem'.ctx)
      BY <2>1, <2>2, <2>3 DEF Stated, OnlyCurrent, NoneRunning, Current
    <2>5. NoSkip => Lasts
      BY <2>1, <2>2 DEF Open, Lasts
    <2> QED
      BY <1>4, <2>4, <2>5 DEF Accounts, StatusInv, At
  <1> QED
    BY <1>1, <1>2, <1>3, <1>4 DEF StartStep

LEMMA AdvanceAccounts ==
  ASSUME NEW j, Open(j), NoneRunning(j), now \in Int, NEW o, NEW t, AdvanceFrom(j, o, t)
  PROVE  Accounts
  <1>1. CASE PendingSteps(j) = {}
    <2> DEFINE out == IF AllCompleted(j) THEN "completed" ELSE "completed_with_skips"
    <2>1. \A k \in DOMAIN j.res : j.res[k].status \in Terminal
      BY <1>1 DEF Open, Run, IsJournal, Results, NoneRunning, PendingSteps, Terminal
    <2>2. Closed(j, out)
      BY <2>1 DEF Closed
    <2> QED
      BY <1>1, <2>2, FinishAccounts DEF AdvanceFrom, Open, Run
  <1>2. CASE PendingSteps(j) # {}
    <2>1. PICK k \in FirstPending(j) : StartStep([j EXCEPT !.idx = k], o, t)
      BY <1>2 DEF AdvanceFrom
    <2> DEFINE n == [j EXCEPT !.idx = k]
    <2>2. k \in DOMAIN j.res /\ j.res[k].status = "pending"
      BY <2>1 DEF FirstPending, PendingSteps
    <2>3. k \in StepIndexes(j.occ) /\ StepIndexes(j.occ) \subseteq Nat
      BY <2>2, StepFacts DEF Open
    <2>4. Run(n) /\ n.res = j.res /\ n.idx = k
      BY <2>3 DEF Open, Run, IsJournal
    <2>5. StartStep(n, o, t)
      BY <2>1
    <2> HIDE DEF n
    <2>6. Open(n) /\ NoneRunning(n) /\ Current(n) = "pending"
      BY <2>2, <2>4, OpenCopies DEF NoneRunning, Current
    <2> QED
      BY <2>5, <2>6, StartStepAccounts
  <1> QED
    BY <1>1, <1>2

LEMMA CompleteAccounts ==
  ASSUME Open(jrn), OnlyCurrent(jrn), NoSkip => Current(jrn) \in {"running", "completed"},
         NEW t, Complete(jrn, t)
  PROVE  Accounts
  <1>1. jrn' = Completed(jrn, t) /\ hold' = Free
    BY DEF Complete, Release
  <1>2. /\ DOMAIN jrn'.res = DOMAIN jrn.res /\ jrn'.idx = jrn.idx
        /\ jrn'.state = "inter_zone_gap"
        /\ \A m \in DOMAIN jrn.res : jrn'.res[m].status
                                       = IF m = jrn.idx THEN "completed" ELSE jrn.res[m].status
    BY <1>1, CompletedResults DEF Open
  <1>3. jrn.idx \in DOMAIN jrn.res
    BY StepFacts DEF Open
  <1>4. Stated(jrn', mem'.ctx)
    BY <1>2, <1>3 DEF Stated, OnlyCurrent, NoneRunning, Current
  <1>5. NoSkip => Lasts
    BY <1>2 DEF Lasts, Terminal, Current
  <1> QED
    BY <1>1, <1>4, <1>5 DEF Accounts, StatusInv, Free, At

\* Asking once more whether the step has ended, early or late.
LEMMA ReconcileAccounts ==
  ASSUME NEW j, Open(j), OnlyCurrent(j), mem \in MemRec,
         \/ EnterOverrun(j) /\ (NoSkip => Current(j) \in {"running", "completed"})
         \/ EnterEarlyEnd(j) /\ Current(j) = "running"
  PROVE  Accounts
  <1>1. /\ jrn'.res = j.res /\ jrn'.idx = j.idx /\ jrn'.state = "reconciling"
        /\ hold' = Free
    BY DEF Open, Run, IsJournal, EnterOverrun, EnterEarlyEnd, Release
  <1>2. \/ mem'.ctx = "overrun" /\ (NoSkip => Current(j) \in {"running", "completed"})
        \/ mem'.ctx = "early_end" /\ Current(j) = "running"
    BY DEF EnterOverrun, EnterEarlyEnd, MemRec
  <1>3. Stated(jrn', mem'.ctx)
    BY <1>1, <1>2 DEF Stated, OnlyCurrent, Current
  <1>4. NoSkip => Lasts
    BY <1>1 DEF Open, Lasts
  <1> QED
    BY <1>1, <1>3, <1>4 DEF Accounts, StatusInv, Free, At

\* A step that is found to water.
LEMMA WateringAccounts ==
  ASSUME NEW j, Open(j), OnlyCurrent(j), MayEnd(j), NEW t, jrn'.res = Watering(j, t).res,
         jrn'.idx = j.idx, jrn'.state = "watering",
         hold' = Free \/ hold' = At("complete", "none")
  PROVE  Accounts
  <1>1. /\ DOMAIN jrn'.res = DOMAIN j.res
        /\ \A m \in DOMAIN j.res : jrn'.res[m].status
                                     = IF m = j.idx THEN "running" ELSE j.res[m].status
    BY WateringResults DEF Open
  <1>2. j.idx \in DOMAIN j.res
    BY StepFacts DEF Open
  <1>3. Stated(jrn', mem'.ctx)
    BY <1>1, <1>2 DEF Stated, OnlyCurrent, Current
  <1>4. NoSkip => Lasts
    BY <1>1, <1>2 DEF Open, Lasts, MayEnd, Current
  <1> QED
    BY <1>3, <1>4 DEF Accounts, StatusInv, Free, At

LEMMA AcceptOpen ==
  ASSUME NEW j, Open(j)
  PROVE  /\ Open(Accept(j)) /\ Accept(j).res = j.res /\ Accept(j).idx = j.idx
         /\ Accept(j).state = j.state
  <1>1. Run(Accept(j)) /\ Accept(j).res = j.res /\ Accept(j).idx = j.idx
        /\ Accept(j).state = j.state
    BY DEF Open, Run, IsJournal, Commands, Accept
  <1> QED
    BY <1>1, OpenCopies

LEMMA AcceptStartAccounts ==
  ASSUME NEW j, Open(j), OnlyCurrent(j), MayEnd(j), AcceptStart(j)
  PROVE  Accounts
  <1> DEFINE n == IF j.cmd = NoCmd THEN j ELSE Accept(j)
             t == IF j.cmd = NoCmd THEN now ELSE j.cmd.at
  <1>1. Open(n) /\ n.res = j.res /\ n.idx = j.idx
    BY AcceptOpen
  <1>2. jrn' = Watering(n, t) /\ (hold' = Free \/ hold' = At("complete", "none"))
    BY DEF AcceptStart, Release
  <1> HIDE DEF n, t
  <1>3. OnlyCurrent(n) /\ MayEnd(n)
    BY <1>1 DEF OnlyCurrent, MayEnd, Current
  <1>4. jrn'.idx = n.idx /\ jrn'.state = "watering"
    BY <1>1, <1>2, WateringResults DEF Open
  <1> QED
    BY <1>1, <1>2, <1>3, <1>4, WateringAccounts

LEMMA ResumeWateringAccounts ==
  ASSUME NEW j, Open(j), OnlyCurrent(j), Current(j) = "running", ResumeWatering(j)
  PROVE  Accounts
  <1> DEFINE n == IF j.cmd.disp = "sent" THEN Accept(j) ELSE j
  <1>1. Open(n) /\ n.res = j.res /\ n.idx = j.idx
    BY AcceptOpen
  <1>2. jrn' = [n EXCEPT !.state = "watering"] /\ hold' = Free
    BY DEF ResumeWatering, Release
  <1> HIDE DEF n
  <1>3. jrn'.res = n.res /\ jrn'.idx = n.idx /\ jrn'.state = "watering"
    BY <1>1, <1>2 DEF Open, Run, IsJournal
  <1>4. Stated(jrn', mem'.ctx)
    BY <1>1, <1>3 DEF Stated, OnlyCurrent, Current
  <1>5. NoSkip => Lasts
    BY <1>1, <1>3 DEF Open, Lasts
  <1> QED
    BY <1>2, <1>4, <1>5 DEF Accounts, StatusInv, Free, At

\* The current step, if it runs, is ended.
LEMMA CutOpen ==
  ASSUME NEW j, Open(j), OnlyCurrent(j), now \in Int, NEW s \in Terminal, Current(j) = "running"
  PROVE  LET e == EndStep(j, j.idx, s) IN Open(e) /\ NoneRunning(e) /\ e.state = j.state
  <1>1. MayEnd(j) /\ s \in Statuses /\ s # "running"
    BY DEF MayEnd, Terminal
  <1> QED
    BY <1>1, OpenEnds DEF Open, OnlyCurrent, NoneRunning

LEMMA ConflictAccounts ==
  ASSUME Open(jrn), OnlyCurrent(jrn), now \in Int, Conflict(jrn)
  PROVE  Accounts
  <1> DEFINE cut == IF Current(jrn) = "running" THEN EndStep(jrn, jrn.idx, "external_stop")
                                                ELSE jrn
  <1>1. Open(cut) /\ NoneRunning(cut)
    BY CutOpen DEF Terminal, Statuses, OnlyCurrent, NoneRunning, Current
  <1>2. CASE Finish(SkipRemaining(cut), "aborted_external")
    BY <1>1, <1>2, EndingAccounts DEF Statuses
  <1>3. CASE jrn' = PausedExternally(cut) /\ Release
    BY <1>1, <1>3, PauseAccounts DEF Release
  <1> QED
    BY <1>2, <1>3 DEF Conflict

LEMMA ClassifyAccounts ==
  ASSUME Open(jrn), OnlyCurrent(jrn), Current(jrn) = "running", now \in Int,
         NEW o, NEW m, ClassifyEarlyEnd(jrn, o, m)
  PROVE  Accounts
  <1>1. \A s \in {"sensor_cut", "external_stop"} :
          Open(EndStep(jrn, jrn.idx, s)) /\ NoneRunning(EndStep(jrn, jrn.idx, s))
    BY CutOpen DEF Terminal, Statuses
  <1>2. CASE /\ jrn' = [EndStep(jrn, jrn.idx, "sensor_cut") EXCEPT !.state = "paused_sensor",
                                                                 !.pausedAt = now]
             /\ Release
    BY <1>1, <1>2, PauseAccounts DEF Release
  <1>3. CASE Finish(SkipRemaining(EndStep(jrn, jrn.idx, "sensor_cut")), "aborted_sensor")
    BY <1>1, <1>3, EndingAccounts DEF Statuses
  <1>4. CASE \E out \in {"aborted_external", "aborted_power_loss"} :
               Finish(SkipRemaining(EndStep(jrn, jrn.idx, "external_stop")), out)
    BY <1>1, <1>4, EndingAccounts DEF Statuses
  <1> QED
    BY <1>2, <1>3, <1>4 DEF ClassifyEarlyEnd

LEMMA ResumeAccounts ==
  ASSUME Open(jrn), NoneRunning(jrn), now \in Int, NEW by \in {"user", "event"},
         ResumeOrExpire(by)
  PROVE  Accounts
  <1> DEFINE cleared == [jrn EXCEPT !.reason = "none", !.pausedAt = NoTime]
  <1>0. NoTime \in Int
    BY DEF NoTime
  <1>1. Run(cleared) /\ cleared.res = jrn.res
    BY <1>0 DEF Open, Run, IsJournal
  <1>2. Open(cleared)
    BY <1>1, OpenCopies
  <1>3. CASE EndEarly(cleared, "completed_with_skips")
    BY <1>2, <1>3, EndingAccounts DEF Statuses
  <1>4. CASE jrn' = [cleared EXCEPT !.state = "waiting"] /\ hold' = At("advance", by)
    <2> HIDE DEF cleared
    <2>1. Run(jrn') /\ jrn'.res = jrn.res /\ jrn'.state = "waiting"
      BY <1>1, <1>4 DEF Run, IsJournal, States
    <2> QED
      BY <1>4, <2>1, QuietAccounts DEF At
  <1> QED
    BY <1>3, <1>4 DEF ResumeOrExpire

\* A skipped step is over.
LEMMA SkippedAccounts ==
  ASSUME ~NoSkip, Open(jrn), OnlyCurrent(jrn), jrn' = Skipped(jrn), hold' = Free
  PROVE  Accounts
  <1> DEFINE e == EndStep(jrn, jrn.idx, "skipped")
  <1>1. /\ DOMAIN e.res = DOMAIN jrn.res /\ "state" \in DOMAIN e
        /\ \A m \in DOMAIN jrn.res :
             e.res[m].status = IF m = jrn.idx THEN "skipped" ELSE jrn.res[m].status
    BY StepFacts, EndStepResults DEF Open, SameButResults, EndStep, Run, IsJournal
  <1>2. jrn' = [e EXCEPT !.state = "inter_zone_gap"]
    BY DEF Skipped
  <1> HIDE DEF e
  <1>3. jrn'.res = e.res /\ jrn'.state = "inter_zone_gap"
    BY <1>1, <1>2
  <1> QED
    BY <1>1, <1>3 DEF Accounts, StatusInv, Stated, OnlyCurrent, NoneRunning, Free, At

-----------------------------------------------------------------------------
(* The actions *)

Standing == Found /\ StatusInv

LEMMA StandingFacts ==
  ASSUME Steady, Standing
  PROVE  /\ IsJournal(jrn) /\ now \in Int /\ mem \in MemRec /\ hold \in HoldRec
         /\ PlaceInv /\ TimerMatchesState
         /\ hold.at \notin {"start", "down"}
         /\ Active /\ hold.at \notin {"advance", "finishing"} => Open(jrn)
         /\ Active /\ StepsOf(jrn) # <<>> => Open(jrn)
         /\ hold.at # "finishing" => Stated(jrn, mem.ctx) /\ OnlyCurrent(jrn)
  <1>1. /\ IsJournal(jrn) /\ now \in Time /\ mem \in MemRec /\ hold \in HoldRec
        /\ TimerMatchesState /\ PlaceInv /\ IInv
    BY DEF Standing, Found, PauseInv, IInv, EnvTypeOK, ExecInv, ExecTypeOK
  <1>2. now \in Int
    BY <1>1, DelayAssumption DEF Time
  <1>3. hold.at \notin {"start", "down"}
    BY <1>1 DEF PlaceInv, Steady
  <1>4. Run(jrn) => Open(jrn)
    BY DEF Open
  <1>5. hold.at # "finishing" => Stated(jrn, mem.ctx) /\ OnlyCurrent(jrn)
    BY DEF Standing, StatusInv, Stated
  <1> QED
    BY <1>1, <1>2, <1>3, <1>4, <1>5, ActiveRuns

\* A step that says nothing new of the steps.
LEMMA SameAccounts ==
  ASSUME StatusInv, hold.at # "finishing", hold'.at # "finishing",
         jrn'.res = jrn.res, jrn'.idx = jrn.idx, jrn'.state = jrn.state, mem'.ctx = mem.ctx,
         hold'.op = "overrun" => hold.op = "overrun"
  PROVE  Accounts
  BY DEF Accounts, StatusInv, Stated, OnlyCurrent, NoneRunning, Current, Lasts

LEMMA IdleAccounts ==
  ASSUME StatusInv, UNCHANGED <<jrn, hold>>, mem'.ctx = mem.ctx
  PROVE  Accounts
  BY DEF Accounts, StatusInv, Stated, Closed, AllCompleted, OnlyCurrent, NoneRunning, Current,
         Lasts

\* A start finds no outcomes and leaves none.
LEMMA StartAccounts ==
  ASSUME Steady, Standing, NEW o \in Occurrences, ~Active, Start(o)
  PROVE  Accounts
  <1>1. /\ jrn'.res = NotStarted(Len(Plans[o].steps)) /\ jrn'.state = "waiting"
        /\ hold' = At("advance", "none")
    BY DEF Start, Claimed, Journal
  <1>2. \A k \in DOMAIN jrn'.res : jrn'.res[k].status = "pending"
    BY <1>1 DEF NotStarted
  <1>3. jrn.occ = NoOcc
    BY StandingFacts DEF Active, ActiveStates, IsJournal
  <1>4. DOMAIN jrn.res = {}
    BY <1>3, StandingFacts DEF IsJournal, StepIndexes
  <1> QED
    BY <1>1, <1>2, <1>4 DEF Accounts, StatusInv, Stated, OnlyCurrent, NoneRunning, Lasts, At

LEMMA MethodsAccount ==
  ASSUME Steady, Standing, Methods
  PROVE  Accounts
  <1>0. hold = Free => hold.at \notin {"advance", "finishing", "stopped"}
    BY DEF Free, At
  <1>1. ASSUME NEW o \in Occurrences, StartRun(o) PROVE Accounts
    BY <1>1, StartAccounts DEF StartRun
  <1>2. CASE RefusedRequest
    BY <1>2, IdleAccounts DEF RefusedRequest, Standing
  <1>3. CASE Stop
    <2> DEFINE j == [jrn EXCEPT !.stopReq = TRUE, !.state = IF Active THEN "stopping" ELSE @]
    <2>1. /\ j.res = jrn.res /\ j.idx = jrn.idx
          /\ j.state = "stopping" \/ (j.state = "idle" /\ j.state = jrn.state)
      BY StandingFacts DEF IsJournal, Active, ActiveStates
    <2>2. IsJournal(j)
      BY StandingFacts DEF IsJournal, Active, ActiveStates, States
    <2>3. SendStop(j, "stop") /\ hold = Free
      BY <1>3 DEF Stop
    <2> HIDE DEF j
    <2>4. Stated(j, mem.ctx)
      BY <1>0, <2>1, <2>3, StandingFacts DEF Stated, OnlyCurrent, NoneRunning
    <2> QED
      BY <2>1, <2>2, <2>3, <2>4, SendStopAccounts
  <1>4. CASE Pause
    <2>1. hold = Free /\ Open(jrn) /\ Stated(jrn, mem.ctx)
      BY <1>0, <1>4, StandingFacts DEF Pause
    <2>2. CASE SendStop(jrn, "pause")
      BY <2>1, <2>2, StandingFacts, SendStopAccounts
    <2>3. CASE /\ ~NeedsStop
               /\ jrn' = [PausedExternally(jrn) EXCEPT !.reason = "user"]
               /\ UNCHANGED hold
      <3>1. NoneRunning(jrn)
        BY <2>1, <2>3 DEF NeedsStop, Stated, OnlyCurrent, NoneRunning, Current
      <3> QED
        BY <2>1, <2>3, <3>1, StandingFacts, PauseAccounts
    <2> QED
      BY <1>4, <2>2, <2>3 DEF Pause
  <1>5. CASE Resume
    <2>1. Open(jrn) /\ NoneRunning(jrn)
      BY <1>0, <1>5, StandingFacts DEF Resume, Active, ActiveStates, States, Paused, Stated
    <2> QED
      BY <1>5, <2>1, StandingFacts, ResumeAccounts DEF Resume
  <1>6. CASE SkipCurrent
    <2>1. hold = Free /\ Open(jrn) /\ Stated(jrn, mem.ctx) /\ OnlyCurrent(jrn) /\ ~NoSkip
      BY <1>0, <1>6, StandingFacts DEF SkipCurrent, NoSkip
    <2>2. CASE SendStop(jrn, "skip")
      BY <2>1, <2>2, StandingFacts, SendStopAccounts
    <2>3. CASE jrn' = Skipped(jrn) /\ UNCHANGED hold
      BY <2>1, <2>3, SkippedAccounts
    <2> QED
      BY <1>6, <2>2, <2>3 DEF SkipCurrent
  <1> QED
    BY <1>1, <1>2, <1>3, <1>4, <1>5, <1>6 DEF Methods

LEMMA ReturnsAccount ==
  ASSUME Steady, Standing, Returns
  PROVE  Accounts
  <1>1. CASE hold.at = "startcall"
    <2>1. Current(jrn) = "pending" /\ OnlyCurrent(jrn) /\ MayEnd(jrn)
      BY <1>1, StandingFacts DEF PlaceInv, Stated, MayEnd, Terminal
    <2>2. Open(jrn)
      BY <1>1, StandingFacts DEF PlaceInv, Active, ActiveStates, States
    <2>3. CASE StartAccepted
      <3> DEFINE w == Watering(jrn, now)
      <3>1. Run(w) /\ w.idx = jrn.idx /\ w.state = "watering"
        BY <2>2, StandingFacts, WateringFacts, WateringResults DEF Open
      <3>2. jrn' = [w EXCEPT !.cmd.disp = "sent"] /\ hold' = Free
        BY <2>3 DEF StartAccepted, Release
      <3> HIDE DEF w
      <3>3. jrn'.res = w.res /\ jrn'.idx = w.idx /\ jrn'.state = w.state
        BY <3>1, <3>2 DEF Run, IsJournal
      <3> QED
        BY <2>1, <2>2, <3>1, <3>2, <3>3, WateringAccounts DEF w
    <2>4. CASE StartRejected
      <3> DEFINE j == [jrn EXCEPT !.cmd.disp = "rejected"]
      <3>1. Run(j) /\ j.res = jrn.res /\ j.idx = jrn.idx
        BY <2>2 DEF Open, Run, IsJournal, Commands
      <3>2. Finish(SkipRemaining(EndStep(j, jrn.idx, "failed")), "failed")
        BY <2>4 DEF StartRejected
      <3> HIDE DEF j
      <3>3. Open(j) /\ MayEnd(j)
        BY <2>1, <2>2, <3>1, OpenCopies DEF MayEnd, Current
      <3> QED
        BY <3>1, <3>2, <3>3, StandingFacts, EndingAccounts DEF Statuses
    <2>5. CASE StartUncertain
      <3>1. /\ jrn'.res = jrn.res /\ jrn'.idx = jrn.idx /\ jrn'.state = "reconciling"
            /\ mem'.ctx = "start" /\ hold' = Free
        BY <2>5, StandingFacts DEF StartUncertain, Release, IsJournal, MemRec
      <3> QED
        BY <2>1, <3>1 DEF Accounts, StatusInv, Stated, OnlyCurrent, Current, Lasts, Free, At
    <2> QED
      BY <1>1, <2>3, <2>4, <2>5 DEF Returns, StopConfirmed, StopUncertain
  <1>2. CASE hold.at = "stopcall"
    <2>1. /\ jrn'.res = jrn.res /\ jrn'.idx = jrn.idx /\ jrn'.state = jrn.state
          /\ mem'.ctx = mem.ctx /\ hold' = At("stopped", hold.op)
      BY <1>2, StandingFacts DEF Returns, StartAccepted, StartRejected, StartUncertain,
                                 StopConfirmed, StopUncertain, IsJournal, MemRec
    <2> QED
      BY <1>2, <2>1, SameAccounts DEF Standing, At
  <1> QED
    BY <1>1, <1>2 DEF Returns, StartAccepted, StartRejected, StartUncertain, StopConfirmed,
                      StopUncertain

LEMMA OverrunAccounts ==
  ASSUME Open(jrn), NoSkip => Current(jrn) \in {"running", "completed"}, now \in Int,
         hold.op = "overrun",
         Finish(SkipRemaining(EndStep(jrn, jrn.idx, "overrun_stopped")), "failed")
  PROVE  Accounts
  <1> DEFINE e == EndStep(jrn, jrn.idx, "overrun_stopped")
  <1>1. jrn.idx \in DOMAIN jrn.res
    BY StepFacts DEF Open
  <1>2. /\ Run(e) /\ DOMAIN e.res = DOMAIN jrn.res
        /\ \A m \in DOMAIN jrn.res : e.res[m].status = IF m = jrn.idx THEN "overrun_stopped"
                                                       ELSE jrn.res[m].status
    BY <1>1, EndStepFacts, EndStepResults DEF Open, Statuses, SameButResults
  <1> HIDE DEF e
  <1> DEFINE n == SkipRemaining(e)
  <1>3. /\ Run(n) /\ DOMAIN n.res = DOMAIN e.res
        /\ \A m \in DOMAIN e.res : n.res[m].status
              = CASE e.res[m].status = "pending" -> "skipped"
                  [] e.res[m].status = "running" -> "external_stop"
                  [] OTHER -> e.res[m].status
    BY <1>2, SkipRemainingFacts, SkipRemainingResults DEF SameButResults
  <1>4. \A m \in DOMAIN jrn.res : jrn.res[m].status \in Statuses
    BY DEF Open, Run, IsJournal, Results
  <1>5. Finish(n, "failed")
    BY DEF e
  <1> HIDE DEF n
  <1>6. Closed(n, "failed")
    BY <1>2, <1>3, <1>4 DEF Closed, Terminal, Statuses
  <1>7. ASSUME NoSkip, NEW k \in DOMAIN n.res \cap DOMAIN jrn.res, jrn.res[k].status \in Terminal
        PROVE  \/ n.res[k].status = jrn.res[k].status
               \/ jrn.res[k].status = "completed" /\ n.res[k].status = "overrun_stopped"
    BY <1>2, <1>3, <1>4, <1>7 DEF Terminal, Statuses, Current
  <1> QED
    BY <1>3, <1>5, <1>6, <1>7, FinishAccounts DEF Run

LEMMA GoesAccount ==
  ASSUME Steady, Standing, Goes
  PROVE  Accounts
  <1>0. \A place, op : At(place, op).op = op
    BY DEF At
  <1>1. ASSUME hold.at = "stopped", hold.op # "stop" PROVE Open(jrn)
    BY <1>1, StandingFacts DEF Standing, Found, IInv, ExecInv, LockInv
  <1>2. CASE Advance
    <2>1. NoneRunning(jrn) /\ Active
      BY <1>2, StandingFacts
      DEF Advance, PlaceInv, Stated, Standing, Found, IInv, ExecInv, LockInv
    <2>2. CASE StepsOf(jrn) = <<>>
      <3>1. jrn.occ \in Occurrences
        BY <2>1, StandingFacts DEF IsJournal, Active, ActiveStates
      <3>2. DOMAIN jrn.res = {}
        BY <2>2, <3>1, StandingFacts, PlanAssumption DEF IsJournal, StepIndexes, StepsOf
      <3>3. Closed(jrn, "skipped")
        BY <3>2 DEF Closed, AllCompleted
      <3> QED
        BY <1>2, <2>2, <3>2, <3>3, StandingFacts, FinishAccounts DEF Advance
    <2>3. CASE StepsOf(jrn) # <<>>
      BY <1>2, <2>1, <2>3, StandingFacts, AdvanceAccounts DEF Advance
    <2> QED
      BY <2>2, <2>3
  <1>3. CASE RestartStep
    BY <1>3, StandingFacts DEF RestartStep
  <1>4. CASE StopDone
    <2>1. CASE Active
      <3>1. Open(jrn)
        BY <1>4, <2>1, StandingFacts DEF StopDone
      <3>2. \/ Finish(SkipRemaining(jrn), "aborted_user")
            \/ \E s \in {"external_stop", "skipped"} :
                 MayEnd(jrn) /\ Finish(SkipRemaining(EndStep(jrn, jrn.idx, s)), "aborted_user")
        BY <1>4, <2>1 DEF StopDone, MayEnd, Terminal
      <3>3. CASE Finish(SkipRemaining(jrn), "aborted_user")
        BY <3>1, <3>3, StandingFacts, EndingAccounts DEF Statuses
      <3> QED
        BY <3>1, <3>2, <3>3, StandingFacts, EndingAccounts DEF Statuses
    <2>2. CASE ~Active
      <3>1. /\ jrn'.res = jrn.res /\ jrn'.idx = jrn.idx /\ jrn'.state = jrn.state
            /\ mem' = mem /\ hold' = Free
        BY <1>4, <2>2, StandingFacts DEF StopDone, Release, IsJournal
      <3> QED
        BY <1>4, <3>1, SameAccounts DEF StopDone, Standing, Free, At
    <2> QED
      BY <2>1, <2>2
  <1>5. CASE PauseDone
    <2> DEFINE cut == IF Current(jrn) = "running" THEN EndStep(jrn, jrn.idx, "external_stop")
                                                  ELSE jrn
    <2>1. OnlyCurrent(jrn)
      BY <1>5, StandingFacts DEF PauseDone
    <2>2. Open(cut) /\ NoneRunning(cut)
      BY <1>1, <1>5, <2>1, StandingFacts, CutOpen
      DEF PauseDone, Terminal, Statuses, OnlyCurrent, NoneRunning, Current
    <2>3. jrn' = [PausedExternally(cut) EXCEPT !.reason = "user"] /\ hold' = Free
      BY <1>5 DEF PauseDone, Release
    <2> HIDE DEF cut
    <2> QED
      BY <2>2, <2>3, StandingFacts, PauseAccounts
  <1>6. CASE SkipDone
    <2>1. Open(jrn) /\ OnlyCurrent(jrn) /\ ~NoSkip /\ jrn' = Skipped(jrn) /\ hold' = Free
      BY <1>1, <1>6, StandingFacts DEF SkipDone, PlaceInv, NoSkip, Release
    <2> QED
      BY <2>1, SkippedAccounts
  <1>7. CASE FreezeCutDone
    <2> DEFINE cut == EndStep(jrn, jrn.idx, "sensor_cut")
    <2>1. Open(jrn) /\ OnlyCurrent(jrn) /\ Current(jrn) = "running"
      BY <1>1, <1>7, StandingFacts DEF FreezeCutDone, PlaceInv, Stated
    <2>2. Open(cut) /\ NoneRunning(cut)
      BY <2>1, StandingFacts, CutOpen DEF Terminal, Statuses
    <2>3. CASE Finish(SkipRemaining(cut), "aborted_sensor")
      BY <2>2, <2>3, StandingFacts, EndingAccounts DEF Statuses
    <2>4. CASE /\ jrn' = [cut EXCEPT !.state = "paused_sensor", !.pausedAt = now,
                                     !.reason = "low_temperature"]
               /\ Release
      <3> HIDE DEF cut
      <3> QED
        BY <2>2, <2>4, StandingFacts, PauseAccounts DEF Release
    <2> QED
      BY <1>7, <2>3, <2>4 DEF FreezeCutDone
  <1>8. CASE OverrunStopped
    <2>1. NoSkip => Current(jrn) \in {"running", "completed"}
      BY <1>8, StandingFacts DEF OverrunStopped, PlaceInv, Stated, Standing, StatusInv
    <2> QED
      BY <1>1, <1>8, <2>1, StandingFacts, OverrunAccounts DEF OverrunStopped
  <1>9. CASE RetryStopDone
    BY <1>9, SameAccounts DEF RetryStopDone, Release, Standing, Free, At
  <1>10. CASE CompleteLate
    <2>1. Open(jrn) /\ OnlyCurrent(jrn) /\ Current(jrn) = "running"
      BY <1>10, StandingFacts
      DEF CompleteLate, PlaceInv, Stated, Active, ActiveStates, States
    <2> QED
      BY <1>10, <2>1, CompleteAccounts DEF CompleteLate
  <1>11. CASE FinishReset
    <2>1. jrn'.res = <<>> /\ jrn'.state = "idle" /\ hold' = Free
      BY <1>11 DEF FinishReset, IdleJournal, Journal, Release
    <2> QED
      BY <2>1 DEF Accounts, StatusInv, Stated, OnlyCurrent, NoneRunning, Lasts, Free, At
  <1> QED
    BY <1>2, <1>3, <1>4, <1>5, <1>6, <1>7, <1>8, <1>9, <1>10, <1>11 DEF Goes

LEMMA TimersAccount ==
  ASSUME Steady, Standing, Timers
  PROVE  Accounts
  <1>0. hold = Free /\ hold.at = "free"
    BY DEF Timers, OnExpectedEnd, OnGap, ConfirmOverrun, ConfirmEarlyEnd, ClassifyUncertain,
           RetryStep, RetryUncertainStop, Fires, Free, At
  <1>1. /\ Active => Open(jrn)
        /\ Stated(jrn, mem.ctx) /\ OnlyCurrent(jrn) /\ TimerMatchesState
    BY <1>0, StandingFacts
  <1>2. CASE OnExpectedEnd
    <2>1. Open(jrn) /\ Current(jrn) = "running"
      BY <1>1, <1>2 DEF OnExpectedEnd, Stated, Active, ActiveStates, States
    <2> QED
      BY <1>1, <1>2, <2>1, StandingFacts, ReconcileAccounts, CompleteAccounts
      DEF OnExpectedEnd
  <1>3. CASE OnGap
    <2>1. Open(jrn) /\ NoneRunning(jrn)
      BY <1>1, <1>3 DEF OnGap, Stated, Active, ActiveStates, States
    <2> QED
      BY <1>3, <2>1, StandingFacts, AdvanceAccounts DEF OnGap
  <1>4. CASE ConfirmOverrun
    <2>1. Open(jrn) /\ (NoSkip => Current(jrn) \in {"running", "completed"})
      BY <1>1, <1>4 DEF ConfirmOverrun, Stated, Active, ActiveStates, States
    <2>2. CASE Complete(jrn, jrn.end)
      BY <1>1, <2>1, <2>2, CompleteAccounts
    <2>3. CASE SendStop(jrn, "overrun")
      BY <1>1, <1>4, <2>3, StandingFacts, SendStopAccounts DEF ConfirmOverrun
    <2>4. CASE mem' = [mem EXCEPT !.confirms = 1] /\ UNCHANGED <<jrn, hold>>
      BY <2>4, StandingFacts, IdleAccounts DEF Standing, MemRec
    <2> QED
      BY <1>4, <2>2, <2>3, <2>4 DEF ConfirmOverrun
  <1>5. CASE ConfirmEarlyEnd
    <2>1. Open(jrn) /\ Current(jrn) = "running"
      BY <1>1, <1>5 DEF ConfirmEarlyEnd, Stated, Active, ActiveStates, States
    <2> QED
      BY <1>1, <1>5, <2>1, StandingFacts, ResumeWateringAccounts, ClassifyAccounts
      DEF ConfirmEarlyEnd
  <1>6. CASE ClassifyUncertain
    <2> DEFINE rejected == [jrn EXCEPT !.cmd.disp = "rejected"]
    <2>1. mem.ctx = "start"
      BY <1>0, <1>1, <1>6 DEF ClassifyUncertain, Fires, TimerMatchesState, Paused
    <2>2. Open(jrn) /\ MayEnd(jrn)
      BY <1>1, <1>6, <2>1
      DEF ClassifyUncertain, Stated, MayEnd, Terminal, Active, ActiveStates, States
    <2>3. /\ Run(rejected) /\ rejected.res = jrn.res /\ rejected.idx = jrn.idx
          /\ rejected.state = jrn.state
      BY <2>2 DEF Open, Run, IsJournal, Commands
    <2>4. CASE AcceptStart(jrn) \/ Conflict(jrn)
      BY <1>1, <2>2, <2>4, StandingFacts, AcceptStartAccounts, ConflictAccounts
    <2>5. CASE jrn' = rejected /\ UNCHANGED <<hold, mem>>
      BY <1>0, <2>3, <2>5, SameAccounts DEF Standing
    <2>6. CASE Finish(SkipRemaining(EndStep(rejected, jrn.idx, "failed")), "failed")
      <3> HIDE DEF rejected
      <3>1. Open(rejected) /\ MayEnd(rejected)
        BY <2>2, <2>3, OpenCopies DEF MayEnd, Current
      <3> QED
        BY <2>3, <2>6, <3>1, StandingFacts, EndingAccounts DEF Statuses
    <2> QED
      BY <1>6, <2>4, <2>5, <2>6 DEF ClassifyUncertain
  <1>7. CASE RetryStep
    <2> DEFINE j == [jrn EXCEPT !.state = "waiting"]
    <2>1. mem.ctx = "start"
      BY <1>0, <1>1, <1>7 DEF RetryStep, Fires, TimerMatchesState, Paused
    <2>2. Open(jrn) /\ Current(jrn) = "pending"
      BY <1>1, <1>7, <2>1 DEF RetryStep, Stated, Active, ActiveStates, States
    <2>3. Run(j) /\ j.res = jrn.res /\ j.idx = jrn.idx
      BY <2>2 DEF Open, Run, IsJournal, States
    <2>4. StartStep(j, lastObs, NoTimer)
      BY <1>7 DEF RetryStep
    <2> HIDE DEF j
    <2>5. Open(j) /\ Current(j) = "pending" /\ NoneRunning(j)
      BY <1>1, <2>2, <2>3, OpenCopies DEF Current, OnlyCurrent, NoneRunning
    <2> QED
      BY <2>4, <2>5, StandingFacts, StartStepAccounts
  <1>8. CASE RetryUncertainStop
    <2>1. CASE SendStop(jrn, "retry_stop")
      BY <1>1, <2>1, StandingFacts, SendStopAccounts
    <2>2. CASE UNCHANGED <<jrn, hold, mem>>
      BY <2>2, IdleAccounts DEF Standing
    <2> QED
      BY <1>8, <2>1, <2>2 DEF RetryUncertainStop
  <1> QED
    BY <1>2, <1>3, <1>4, <1>5, <1>6, <1>7, <1>8 DEF Timers

LEMMA ZoneEventsAccount ==
  ASSUME Steady, Standing, hold = Free, NEW e \in SourceEvents, e.kind = "zone",
         \/ ZoneEventDuringRun(e) /\ jrn.state \in {"watering", "reconciling"}
         \/ ZoneEventDuringGap(e) /\ jrn.state = "inter_zone_gap"
  PROVE  Accounts
  <1> DEFINE confirmed == IF jrn.cmd.disp \in {"sent", "uncertain"} THEN Accept(jrn) ELSE jrn
  <1>0. hold.at = "free" /\ hold.op = "none"
    BY DEF Free, At
  <1>1. Open(jrn) /\ Stated(jrn, mem.ctx) /\ OnlyCurrent(jrn) /\ now \in Int /\ mem \in MemRec
    BY <1>0, StandingFacts DEF Active, ActiveStates, States
  <1>2. /\ Open(confirmed) /\ confirmed.res = jrn.res /\ confirmed.idx = jrn.idx
        /\ confirmed.state = jrn.state
    BY <1>1, AcceptOpen
  <1>3. OnlyCurrent(confirmed) /\ Current(confirmed) = Current(jrn)
    BY <1>1, <1>2 DEF OnlyCurrent, Current
  <1>4. CASE UNCHANGED <<jrn, timer, hold, mem>>
    BY <1>4, IdleAccounts DEF Standing
  <1>5. CASE Conflict(jrn)
    BY <1>1, <1>5, ConflictAccounts
  <1>6. CASE ZoneEventDuringRun(e) /\ jrn.state \in {"watering", "reconciling"}
    <2>1. CASE ResumeWatering(confirmed) /\ jrn.state = "reconciling" /\ mem.ctx = "early_end"
      <3>1. Current(confirmed) = "running"
        BY <1>1, <1>3, <2>1 DEF Stated
      <3> HIDE DEF confirmed
      <3> QED
        BY <1>2, <1>3, <2>1, <3>1, ResumeWateringAccounts
    <2>2. CASE /\ jrn' = Watering(confirmed, e.at) /\ UNCHANGED hold
               /\ jrn.state = "reconciling" /\ mem.ctx = "start"
      <3>1. MayEnd(confirmed)
        BY <1>1, <1>3, <2>2 DEF Stated, MayEnd, Terminal
      <3>2. e.at \in Int
        BY DelayAssumption DEF SourceEvents, Time
      <3> HIDE DEF confirmed
      <3>3. jrn'.idx = confirmed.idx /\ jrn'.state = "watering"
        BY <1>2, <2>2, <3>2, WateringResults DEF Open
      <3> QED
        BY <1>2, <1>3, <2>2, <3>1, <3>3, WateringAccounts
    <2>3. CASE jrn' = confirmed /\ UNCHANGED <<timer, hold, mem>>
      <3> HIDE DEF confirmed
      <3> QED
        BY <1>0, <1>2, <2>3, SameAccounts DEF Standing
    <2>4. CASE /\ jrn.state = "watering"
               /\ \/ Complete(jrn, e.at)
                  \/ ClassifyEarlyEnd(jrn, e.obs, mem) \/ EnterEarlyEnd(jrn)
      <3>1. Current(jrn) = "running"
        BY <1>1, <2>4 DEF Stated
      <3> QED
        BY <1>1, <2>4, <3>1, CompleteAccounts, ClassifyAccounts, ReconcileAccounts
    <2> HIDE DEF confirmed
    <2> QED
      BY <1>4, <1>5, <1>6, <2>1, <2>2, <2>3, <2>4 DEF ZoneEventDuringRun, confirmed
  <1>7. CASE ZoneEventDuringGap(e) /\ jrn.state = "inter_zone_gap"
    <2> DEFINE ended == jrn.res[jrn.idx].end
               j     == [jrn EXCEPT !.end = ended]
    <2>1. CASE EnterOverrun(j)
      <3>1. ended \in Int
        BY <1>1, StepFacts DEF Open, Run, IsJournal, Results
      <3>2. Run(j) /\ j.res = jrn.res /\ j.idx = jrn.idx
        BY <1>1, <3>1 DEF Open, Run, IsJournal
      <3>3. NoSkip => Current(jrn) = "completed"
        BY <1>1, <1>7 DEF Stated
      <3> HIDE DEF j, ended
      <3>4. Open(j) /\ OnlyCurrent(j) /\ (NoSkip => Current(j) = "completed")
        BY <1>1, <3>2, <3>3, OpenCopies DEF OnlyCurrent, Current
      <3> QED
        BY <1>1, <2>1, <3>4, ReconcileAccounts
    <2> QED
      BY <1>4, <1>5, <1>7, <2>1 DEF ZoneEventDuringGap
  <1> QED
    BY <1>6, <1>7

LEMMA EventsAccount ==
  ASSUME Steady, Standing, Events
  PROVE  Accounts
  <1> DEFINE e == Head(inbox)
  <1>0. hold = Free /\ hold.at = "free" /\ hold.op = "none" /\ e \in SourceEvents
    <2>1. hold = Free
      BY DEF Events, ServeZone, ServeSensor, ServeWeather, Serve
    <2>2. e \in SourceEvents
      BY ServeFacts DEF Events, ServeZone, ServeSensor, ServeWeather, Standing, Found, IInv
    <2> QED
      BY <2>1, <2>2 DEF Free, At
  <1>1. CASE ResumeOrExpire("event") /\ jrn.state \in Paused
    <2>1. Open(jrn) /\ NoneRunning(jrn)
      BY <1>0, <1>1, StandingFacts DEF Stated, Active, ActiveStates, States, Paused
    <2> QED
      BY <1>1, <2>1, StandingFacts, ResumeAccounts
  <1>2. CASE UNCHANGED <<jrn, timer, hold, mem>>
    BY <1>2, IdleAccounts DEF Standing
  <1>3. CASE ServeZone
    <2>1. e.kind = "zone" /\ HandleZone(e)
      BY <1>3 DEF ServeZone, Serve
    <2> HIDE DEF e
    <2> QED
      BY <1>0, <1>1, <1>2, <2>1, ZoneEventsAccount DEF HandleZone, Paused
  <1>4. ASSUME HandleSensor(e) PROVE Accounts
    BY <1>1, <1>2, <1>4 DEF HandleSensor, Paused
  <1>5. CASE SendStop(jrn, "freeze")
    BY <1>0, <1>5, StandingFacts, SendStopAccounts
  <1> QED
    BY <1>3, <1>4, <1>5 DEF Events, ServeSensor, ServeWeather, HandleWeather

\* Every step keeps what the steps' outcomes say of the run.
LEMMA AccountsStep ==
  ASSUME Steady, Standing, [Next]_vars
  PROVE  Accounts
  <1>1. CASE Methods \/ Returns \/ Goes \/ Timers \/ Events
    BY <1>1, MethodsAccount, ReturnsAccount, GoesAccount, TimersAccount, EventsAccount
  <1>2. CASE Restart
    <2>1. hold.at # "down"
      BY StandingFacts
    <2> QED
      BY <1>2, <2>1 DEF Restart, Crash, Recover, RecoverIdle, Steady
  <1>3. CASE Source \/ Tick \/ UNCHANGED vars
    <2>1. UNCHANGED <<jrn, hold>> /\ mem' = mem
      BY <1>3 DEF Source, Tick, ZoneReports, ZoneReconfirmed, WeatherChanges, vars
    <2> QED
      BY <2>1, IdleAccounts DEF Standing
  <1>4. CASE Queued
    <2>0. EnvTypeOK
      BY DEF Standing, Found, IInv
    <2>1. \/ UNCHANGED <<jrn, hold, mem>>
          \/ ~Active /\ \E o \in Occurrences : Start(o)
      BY <1>4, <2>0, QueuedSteps
    <2> QED
      BY <2>1, StartAccounts, IdleAccounts DEF Standing
  <1> QED
    BY <1>1, <1>2, <1>3, <1>4 DEF Next

-----------------------------------------------------------------------------
(* Which step is started, and what the record says *)

\* The occurrence that has the controller is not a finished one.
OpenClaim == jrn.occ \in jrn.done => hold.at = "finishing"

\* Nothing but the second half of _finish_run leaves its first half.
LEMMA OnlyResetFollows ==
  ASSUME IInv, [Next]_vars, hold.at = "finishing", ~FinishReset, ~Crash
  PROVE  UNCHANGED <<jrn, hold>>
  <1>0. hold # Free /\ hold.at \notin {"startcall", "stopcall", "stopped", "advance", "start",
                                       "complete", "down"}
    BY DEF Free, At
  <1>1. CASE Methods \/ Returns \/ Goes
    BY <1>0, <1>1
    DEF Methods, StartRun, RefusedRequest, Stop, Pause, Resume, SkipCurrent,
        Returns, StartAccepted, StartRejected, StartUncertain, StopConfirmed, StopUncertain,
        Goes, Advance, RestartStep, StopDone, PauseDone, SkipDone, FreezeCutDone,
        OverrunStopped, RetryStopDone, CompleteLate
  <1>2. CASE Timers \/ Events \/ Restart
    BY <1>0, <1>2
    DEF Timers, OnExpectedEnd, OnGap, ConfirmOverrun, ConfirmEarlyEnd, ClassifyUncertain,
        RetryStep, RetryUncertainStop, Fires, Events, ServeZone, ServeSensor, ServeWeather,
        Serve, Restart, Recover, RecoverIdle
  <1>3. CASE Source \/ Tick \/ UNCHANGED vars
    BY <1>3 DEF Source, Tick, ZoneReports, ZoneReconfirmed, WeatherChanges, vars
  <1>4. CASE Queued
    BY <1>0, <1>4, QueuedSteps DEF IInv
  <1> QED
    BY <1>1, <1>2, <1>3, <1>4 DEF Next

LEMMA OpenClaimStep ==
  ASSUME Steady, SimInv, OpenClaim, [Next]_vars, IInv'
  PROVE  OpenClaim'
  <1>1. IsJournal(jrn) /\ Kept(jrn) /\ NoOcc \notin jrn'.done
    BY JournalKept, PlanAssumption DEF SimInv, IInv, ExecInv, ExecTypeOK, IsJournal
  <1>2. ASSUME NEW o \in Occurrences, o \notin jrn.done, Start(o)
        PROVE  OpenClaim'
    <2>1. jrn'.occ = o /\ jrn'.done = jrn.done
      BY <1>2 DEF Start, Claimed, Journal
    <2> QED
      BY <1>2, <2>1 DEF OpenClaim
  <1>3. CASE FinishReset
    <2>1. jrn'.occ = NoOcc
      BY <1>3 DEF FinishReset, IdleJournal, Journal
    <2> QED
      BY <1>1, <2>1 DEF OpenClaim
  <1>4. CASE hold.at = "finishing" /\ ~FinishReset
    BY <1>4, OnlyResetFollows DEF OpenClaim, SimInv, Crash, Steady
  <1>5. ASSUME hold.at # "finishing", Continues
        PROVE  OpenClaim'
    BY <1>5 DEF OpenClaim, Continues
  <1>6. CASE hold.at # "finishing"
    <2>1. CASE RefusedRequest \/ Stop \/ Pause \/ Resume \/ SkipCurrent
      BY <1>1, <1>5, <1>6, <2>1, MethodsContinue DEF SimInv
    <2>2. CASE Returns \/ (Goes /\ ~FinishReset) \/ Timers \/ Events \/ Restart
      BY <1>1, <1>5, <1>6, <2>2, ReturnsContinue, GoesContinue, TimersContinue,
         EventsContinue, RestartContinues DEF SimInv
    <2>3. CASE Source \/ Tick \/ UNCHANGED vars
      <3>1. UNCHANGED <<jrn, hold>>
        BY <2>3 DEF Source, Tick, ZoneReports, ZoneReconfirmed, WeatherChanges, vars
      <3> QED
        BY <3>1 DEF OpenClaim
    <2>4. CASE Queued
      <3>1. \/ UNCHANGED <<jrn, hold>>
            \/ \E o \in Occurrences : o \notin jrn.done /\ Start(o)
        BY <2>4, QueuedSteps DEF SimInv, IInv
      <3> QED
        BY <1>2, <3>1 DEF OpenClaim
    <2> QED
      BY <1>2, <1>3, <2>1, <2>2, <2>3, <2>4 DEF Next, Methods, StartRun
  <1> QED
    BY <1>3, <1>4, <1>6

\* What is recorded of a run is what closed it.
LEMMA FinalStep ==
  ASSUME Steady, Standing, RecordInv, HistoryIsFinal, [Next]_vars
  PROVE  HistoryIsFinal'
  <1>1. CASE FinishReset
    <2> DEFINE record == [occ |-> jrn.occ, out |-> hold.out,
                          steps |-> {jrn.res[k].status : k \in DOMAIN jrn.res},
                          saved |-> FALSE]
    <2>1. Closed(jrn, hold.out)
      BY <1>1 DEF FinishReset, Standing, StatusInv
    <2>2. record.steps \subseteq Terminal
          /\ (record.out = "completed" => record.steps \subseteq {"completed"})
      BY <2>1 DEF Closed, AllCompleted
    <2>3. history \in Seq(HistoryRec) /\ history' = Append(history, record)
      BY <1>1 DEF FinishReset, RecordInv, DistinctInv
    <2>4. record \in [occ : {jrn.occ}, out : {hold.out}, steps : {record.steps}, saved : BOOLEAN]
      OBVIOUS
    <2> HIDE DEF record
    <2>5. /\ DOMAIN history' = DOMAIN history \cup {Len(history) + 1}
          /\ \A n \in DOMAIN history : history'[n] = history[n]
          /\ history'[Len(history) + 1] = record
      BY <2>3
    <2> QED
      BY <2>2, <2>5 DEF HistoryIsFinal
  <1>2. CASE ~FinishReset
    BY <1>2, HistoryKept DEF HistoryIsFinal, Crash, Steady
  <1> QED
    BY <1>1, <1>2

-----------------------------------------------------------------------------
(* An executor that does not die *)

AccountInv == StatusInv /\ OpenClaim /\ HistoryIsFinal

\* What the outcomes of the steps say of the run is inductive together with
\* what its state, its place in the code and the history say.
THEOREM AccountsInvariant ==
  ASSUME Steady
  PROVE  Spec => [](Standing /\ AccountInv)
  <1>1. Init => AccountInv
    <2> SUFFICES ASSUME Init PROVE AccountInv
      OBVIOUS
    <2>1. jrn = IdleJournal({}) /\ hold = Free /\ history = <<>>
      BY DEF Init
    <2>2. jrn.res = <<>> /\ jrn.state = "idle" /\ jrn.done = {}
      BY <2>1 DEF IdleJournal, Journal
    <2> QED
      BY <2>1, <2>2 DEF AccountInv, StatusInv, Stated, OnlyCurrent, NoneRunning, OpenClaim,
                        HistoryIsFinal, Free, At
  <1>2. Found /\ SimInv /\ RecordInv /\ IInv' /\ AccountInv /\ [Next]_vars => AccountInv'
    BY AccountsStep, OpenClaimStep, FinalStep DEF AccountInv, Standing, Accounts
  <1> QED
    BY <1>1, <1>2, ExecutorInvariant, PauseInvariant, RecordsAreFinished, PTL
    DEF Spec, Standing, AccountInv

\* Whatever reports, callbacks, commands and user calls come in between, only
\* the current step is ever recorded as running, and only while the run's
\* state supervises it.
THEOREM CurrentStepRuns ==
  ASSUME Steady
  PROVE  Spec => []OnlyCurrentStepRuns
  <1>1. Standing => OnlyCurrentStepRuns
    <2> SUFFICES ASSUME Standing, NEW k \in DOMAIN jrn.res, jrn.res[k].status = "running"
                 PROVE  k = jrn.idx /\ jrn.state \in {"watering", "reconciling", "stopping"}
      BY DEF OnlyCurrentStepRuns
    <2>1. hold.at # "finishing"
      BY DEF Standing, StatusInv, Closed, Terminal
    <2> QED
      BY <2>1 DEF Standing, StatusInv, Stated, OnlyCurrent, NoneRunning
  <1> QED
    BY <1>1, AccountsInvariant, PTL

\* A start command is for a step that is neither running nor over, of an
\* occurrence that is not finished.
THEOREM StartsPendingSteps ==
  ASSUME Steady
  PROVE  Spec => []StartsOnlyPendingSteps
  <1>1. Standing /\ AccountInv => StartsOnlyPendingSteps
    BY DEF Standing, Found, PauseInv, PlaceInv, AccountInv, StatusInv, Stated, OpenClaim,
           StartsOnlyPendingSteps
  <1> QED
    BY <1>1, AccountsInvariant, PTL

\* A record holds outcomes only, and one that says COMPLETED holds no other.
THEOREM HistoryFinal ==
  ASSUME Steady
  PROVE  Spec => []HistoryIsFinal
  BY AccountsInvariant, PTL DEF AccountInv

\* Without a skip, which may hit a step that is over, an outcome lasts: it
\* changes only when a completed step turns out to have overrun.
THEOREM OutcomesLast ==
  ASSUME Steady, NoSkip
  PROVE  Spec => OutcomesAreFinal
  <1>1. Standing /\ [Next]_vars => [Lasts]_vars
    BY AccountsStep DEF Accounts
  <1> QED
    BY <1>1, AccountsInvariant, PTL DEF Spec, OutcomesAreFinal, Lasts
=============================================================================
