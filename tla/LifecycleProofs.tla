--------------------------- MODULE LifecycleProofs ---------------------------
(* The executor implements RunLifecycle: every step of it claims, finishes  *)
(* or releases an occurrence, or leaves both the claim and the finished     *)
(* occurrences alone.  And between claim and release: how pauses begin and  *)
(* end.                                                                     *)
EXTENDS RunExecutorProofs

\* A journal the handlers build from the present one for the same run.
Kept(j) ==
  /\ {"occ", "done"} \subseteq DOMAIN j
  /\ j.occ = jrn.occ /\ j.done = jrn.done

\* A step within a run, or to its end.
Continues ==
  /\ jrn'.occ = jrn.occ
  /\ jrn'.done = IF hold'.at = "finishing" THEN jrn.done \cup {jrn.occ} ELSE jrn.done

\* Whoever is in the second half of _finish_run has done the first.
FinishedInv == hold.at = "finishing" => jrn.occ \in jrn.done

-----------------------------------------------------------------------------
(* What the parts of the handlers leave alone *)

LEMMA JournalKept ==
  ASSUME IsJournal(jrn)
  PROVE  Kept(jrn)
  BY DEF IsJournal, Kept

LEMMA PartsKeep ==
  ASSUME NEW j, Kept(j), NEW k, NEW s, NEW t
  PROVE  /\ Kept(EndStep(j, k, s))
         /\ Kept(SkipRemaining(j))
         /\ Kept(Watering(j, t))
         /\ Kept(PausedExternally(j))
         /\ Kept(Accept(j))
         /\ Kept(Completed(j, t))
  BY DEF Kept, EndStep, SkipRemaining, Watering, PausedExternally, Accept, Completed

\* A handler that gives the lock back, or goes on to its next await.
LEMMA WithinRun ==
  ASSUME Kept(jrn'), hold'.at # "finishing"
  PROVE  Continues
  BY DEF Kept, Continues

LEMMA Places ==
  /\ Free.at = "free"
  /\ \A place, op : At(place, op).at = place
  BY DEF Free, At

LEMMA FinishContinues ==
  ASSUME NEW j, Kept(j), NEW outcome, Finish(j, outcome)
  PROVE  Continues
  BY DEF Kept, Finish, Continues

LEMMA EndEarlyContinues ==
  ASSUME NEW j, Kept(j), NEW outcome, EndEarly(j, outcome)
  PROVE  Continues
  BY PartsKeep, FinishContinues DEF EndEarly

LEMMA FinishEndingContinues ==
  ASSUME NEW j, Kept(j), NEW k, NEW s, NEW outcome,
         Finish(SkipRemaining(EndStep(j, k, s)), outcome)
  PROVE  Continues
  <1>1. Kept(SkipRemaining(EndStep(j, k, s)))
    BY PartsKeep
  <1> QED
    BY <1>1, FinishContinues

LEMMA SendStopContinues ==
  ASSUME NEW j, Kept(j), NEW op, SendStop(j, op)
  PROVE  Continues
  <1>1. Kept(jrn')
    BY DEF Kept, SendStop
  <1> QED
    BY <1>1, WithinRun, Places DEF SendStop

LEMMA StartStepContinues ==
  ASSUME NEW j, Kept(j), NEW o, NEW t, StartStep(j, o, t)
  PROVE  Continues
  <1>1. CASE EndEarly(j, "completed_with_skips") \/ EndEarly(j, "aborted_sensor")
    BY <1>1, EndEarlyContinues
  <1>2. CASE jrn' = PausedExternally(j) /\ Release
    <2>1. Kept(jrn')
      BY <1>2, PartsKeep
    <2> QED
      BY <1>2, <2>1, WithinRun, Places DEF Release
  <1>3. CASE Finish(SkipRemaining(EndStep(j, j.idx, "failed")), "failed")
    BY <1>3, FinishEndingContinues
  <1>4. CASE /\ jrn' = [j EXCEPT !.state = "starting",
                                 !.cmd = [type |-> "start", disp |-> "intended", at |-> now],
                                 !.res[j.idx] = [j.res[j.idx] EXCEPT !.att = @ + 1]]
             /\ hold' = At("startcall", "none")
    <2>1. Kept(jrn')
      BY <1>4 DEF Kept
    <2> QED
      BY <1>4, <2>1, WithinRun, Places
  <1> QED
    BY <1>1, <1>2, <1>3, <1>4 DEF StartStep

LEMMA AdvanceContinues ==
  ASSUME NEW j, Kept(j), NEW o, NEW t, AdvanceFrom(j, o, t)
  PROVE  Continues
  <1>1. CASE PendingSteps(j) = {}
    BY <1>1, FinishContinues DEF AdvanceFrom
  <1>2. ASSUME NEW k \in FirstPending(j), StartStep([j EXCEPT !.idx = k], o, t)
        PROVE  Continues
    <2>1. Kept([j EXCEPT !.idx = k])
      BY DEF Kept
    <2> QED
      BY <1>2, <2>1, StartStepContinues
  <1> QED
    BY <1>1, <1>2 DEF AdvanceFrom

LEMMA CompleteContinues ==
  ASSUME NEW j, Kept(j), NEW t, Complete(j, t)
  PROVE  Continues
  BY PartsKeep, WithinRun, Places DEF Complete, Release

LEMMA ReconcileContinues ==
  ASSUME NEW j, Kept(j), EnterOverrun(j) \/ EnterEarlyEnd(j)
  PROVE  Continues
  <1>1. Kept(jrn') /\ hold' = Free
    BY DEF Kept, EnterOverrun, EnterEarlyEnd, Release
  <1> QED
    BY <1>1, WithinRun, Places

LEMMA ResumeWateringContinues ==
  ASSUME NEW j, Kept(j), ResumeWatering(j)
  PROVE  Continues
  <1>1. Kept(IF j.cmd.disp = "sent" THEN Accept(j) ELSE j)
    BY PartsKeep
  <1>2. Kept(jrn') /\ hold' = Free
    BY <1>1 DEF Kept, ResumeWatering, Release
  <1> QED
    BY <1>2, WithinRun, Places

LEMMA AcceptStartContinues ==
  ASSUME NEW j, Kept(j), AcceptStart(j)
  PROVE  Continues
  <1>1. Kept(IF j.cmd = NoCmd THEN j ELSE Accept(j))
    BY PartsKeep
  <1>2. Kept(jrn')
    BY <1>1, PartsKeep DEF AcceptStart
  <1>3. hold' = Free \/ hold' = At("complete", "none")
    BY DEF AcceptStart, Release
  <1> QED
    BY <1>2, <1>3, WithinRun, Places

LEMMA ConflictContinues ==
  ASSUME NEW j, Kept(j), Conflict(j)
  PROVE  Continues
  <1> DEFINE cut == IF Current(j) = "running" THEN EndStep(j, j.idx, "external_stop") ELSE j
  <1>1. Kept(cut)
    BY PartsKeep
  <1>2. CASE Finish(SkipRemaining(cut), "aborted_external")
    <2>1. Kept(SkipRemaining(cut))
      BY <1>1, PartsKeep
    <2> QED
      BY <1>2, <2>1, FinishContinues
  <1>3. CASE jrn' = PausedExternally(cut) /\ Release
    <2>1. Kept(jrn')
      BY <1>1, <1>3, PartsKeep
    <2> QED
      BY <1>3, <2>1, WithinRun, Places DEF Release
  <1> QED
    BY <1>2, <1>3 DEF Conflict

LEMMA EarlyEndContinues ==
  ASSUME NEW j, Kept(j), NEW o, NEW m, ClassifyEarlyEnd(j, o, m)
  PROVE  Continues
  <1>1. CASE /\ jrn' = [EndStep(j, j.idx, "sensor_cut") EXCEPT !.state = "paused_sensor",
                                                             !.pausedAt = now]
             /\ Release
    <2>1. Kept(EndStep(j, j.idx, "sensor_cut"))
      BY PartsKeep
    <2>2. Kept(jrn')
      BY <1>1, <2>1 DEF Kept
    <2> QED
      BY <1>1, <2>2, WithinRun, Places DEF Release
  <1>2. CASE \E s, out : Finish(SkipRemaining(EndStep(j, j.idx, s)), out)
    BY <1>2, FinishEndingContinues
  <1> QED
    BY <1>1, <1>2 DEF ClassifyEarlyEnd

LEMMA ResumeContinues ==
  ASSUME Kept(jrn), NEW by, ResumeOrExpire(by)
  PROVE  Continues
  <1> DEFINE cleared == [jrn EXCEPT !.reason = "none", !.pausedAt = NoTime]
  <1>1. Kept(cleared)
    BY DEF Kept
  <1>2. CASE EndEarly(cleared, "completed_with_skips")
    BY <1>1, <1>2, EndEarlyContinues
  <1>3. CASE jrn' = [cleared EXCEPT !.state = "waiting"] /\ hold' = At("advance", by)
    <2>1. Kept(jrn')
      BY <1>1, <1>3 DEF Kept
    <2> QED
      BY <1>3, <2>1, WithinRun, Places
  <1> QED
    BY <1>2, <1>3 DEF ResumeOrExpire

LEMMA ExpireContinues ==
  ASSUME NEW j, Kept(j), CompleteOrExpire(j)
  PROVE  Continues
  BY CompleteContinues, FinishEndingContinues DEF CompleteOrExpire

-----------------------------------------------------------------------------
(* The actions *)

\* A step that touches neither the journal nor the lock.
LEMMA IdleContinues ==
  ASSUME FinishedInv, UNCHANGED <<jrn, hold>>
  PROVE  Continues
  BY DEF FinishedInv, Continues

LEMMA MethodsContinue ==
  ASSUME Kept(jrn), FinishedInv,
         RefusedRequest \/ Stop \/ Pause \/ Resume \/ SkipCurrent
  PROVE  Continues
  <1>1. CASE RefusedRequest
    BY <1>1, IdleContinues DEF RefusedRequest
  <1>2. CASE Stop
    <2>1. Kept([jrn EXCEPT !.stopReq = TRUE, !.state = IF Active THEN "stopping" ELSE @])
      BY DEF Kept
    <2> QED
      BY <1>2, <2>1, SendStopContinues DEF Stop
  <1>3. CASE Pause
    <2>1. CASE SendStop(jrn, "pause")
      BY <2>1, SendStopContinues
    <2>2. CASE /\ jrn' = [PausedExternally(jrn) EXCEPT !.reason = "user"]
               /\ UNCHANGED hold /\ hold = Free
      <3>1. Kept(PausedExternally(jrn))
        BY PartsKeep
      <3>2. Kept(jrn')
        BY <2>2, <3>1 DEF Kept
      <3> QED
        BY <2>2, <3>2, WithinRun, Places
    <2> QED
      BY <1>3, <2>1, <2>2 DEF Pause
  <1>4. CASE Resume
    BY <1>4, ResumeContinues DEF Resume
  <1>5. CASE SkipCurrent
    <2>1. CASE SendStop(jrn, "skip")
      BY <2>1, SendStopContinues
    <2>2. CASE jrn' = Skipped(jrn) /\ UNCHANGED hold /\ hold = Free
      <3>1. Kept(EndStep(jrn, jrn.idx, "skipped"))
        BY PartsKeep
      <3>2. Kept(jrn')
        BY <2>2, <3>1 DEF Kept, Skipped
      <3> QED
        BY <2>2, <3>2, WithinRun, Places
    <2> QED
      BY <1>5, <2>1, <2>2 DEF SkipCurrent
  <1> QED
    BY <1>1, <1>2, <1>3, <1>4, <1>5

LEMMA ReturnsContinue ==
  ASSUME Kept(jrn), Returns
  PROVE  Continues
  <1>1. CASE StartRejected
    <2>1. Kept([jrn EXCEPT !.cmd.disp = "rejected"])
      BY DEF Kept
    <2> QED
      BY <1>1, <2>1, FinishEndingContinues DEF StartRejected
  <1>2. CASE StartAccepted
    <2>1. Kept(Watering(jrn, now))
      BY PartsKeep
    <2>2. Kept(jrn') /\ hold' = Free
      BY <1>2, <2>1 DEF Kept, StartAccepted, Release
    <2> QED
      BY <2>2, WithinRun, Places
  <1>3. CASE StartUncertain
    <2>1. Kept(jrn') /\ hold' = Free
      BY <1>3 DEF Kept, StartUncertain, Release
    <2> QED
      BY <2>1, WithinRun, Places
  <1>4. CASE StopConfirmed \/ StopUncertain
    <2>1. Kept(jrn') /\ hold' = At("stopped", hold.op)
      BY <1>4 DEF Kept, StopConfirmed, StopUncertain
    <2> QED
      BY <2>1, WithinRun, Places
  <1> QED
    BY <1>1, <1>2, <1>3, <1>4 DEF Returns

LEMMA GoesContinue ==
  ASSUME Kept(jrn), Goes, ~FinishReset
  PROVE  Continues
  <1>1. CASE Advance
    BY <1>1, FinishContinues, AdvanceContinues DEF Advance
  <1>2. CASE RestartStep
    BY <1>2, StartStepContinues DEF RestartStep
  <1>3. CASE StopDone
    <2> DEFINE cut == CASE Current(jrn) = "running" -> EndStep(jrn, jrn.idx, "external_stop")
                        [] Current(jrn) = "pending" -> EndStep(jrn, jrn.idx, "skipped")
                        [] OTHER -> jrn
    <2>1. CASE Finish(SkipRemaining(cut), "aborted_user")
      <3>1. Kept(EndStep(jrn, jrn.idx, "external_stop")) /\ Kept(EndStep(jrn, jrn.idx, "skipped"))
        BY PartsKeep
      <3>2. \/ cut = EndStep(jrn, jrn.idx, "external_stop")
            \/ cut = EndStep(jrn, jrn.idx, "skipped")
            \/ cut = jrn
        OBVIOUS
      <3>3. Kept(cut)
        BY <3>1, <3>2
      <3>4. Kept(SkipRemaining(cut))
        BY <3>3, PartsKeep
      <3> QED
        BY <2>1, <3>4, FinishContinues
    <2>2. CASE jrn' = [jrn EXCEPT !.stopReq = FALSE] /\ Release
      <3>1. Kept(jrn') /\ hold' = Free
        BY <2>2 DEF Kept, Release
      <3> QED
        BY <3>1, WithinRun, Places
    <2> QED
      BY <1>3, <2>1, <2>2 DEF StopDone
  <1>4. CASE PauseDone
    <2> DEFINE cut == IF Current(jrn) = "running" THEN EndStep(jrn, jrn.idx, "external_stop")
                                                  ELSE jrn
    <2>1. Kept(cut)
      BY PartsKeep
    <2>2. Kept(PausedExternally(cut))
      BY <2>1, PartsKeep
    <2>3. jrn' = [PausedExternally(cut) EXCEPT !.reason = "user"] /\ hold' = Free
      BY <1>4 DEF PauseDone, Release
    <2>4. Kept(jrn')
      BY <2>2, <2>3 DEF Kept
    <2> QED
      BY <2>3, <2>4, WithinRun, Places
  <1>5. CASE SkipDone
    <2>1. Kept(EndStep(jrn, jrn.idx, "skipped"))
      BY PartsKeep
    <2>2. Kept(jrn') /\ hold' = Free
      BY <1>5, <2>1 DEF Kept, SkipDone, Skipped, Release
    <2> QED
      BY <2>2, WithinRun, Places
  <1>6. CASE FreezeCutDone
    <2> DEFINE cut == EndStep(jrn, jrn.idx, "sensor_cut")
    <2>1. Kept(cut)
      BY PartsKeep
    <2>2. CASE Finish(SkipRemaining(cut), "aborted_sensor")
      BY <2>2, FinishEndingContinues
    <2>3. CASE /\ jrn' = [cut EXCEPT !.state = "paused_sensor", !.pausedAt = now,
                                     !.reason = "low_temperature"]
               /\ Release
      <3>1. Kept(jrn') /\ hold' = Free
        BY <2>1, <2>3 DEF Kept, Release
      <3> QED
        BY <3>1, WithinRun, Places
    <2> QED
      BY <1>6, <2>2, <2>3 DEF FreezeCutDone
  <1>7. CASE OverrunStopped
    BY <1>7, FinishEndingContinues DEF OverrunStopped
  <1>8. CASE RetryStopDone
    <2>1. Kept(jrn') /\ hold' = Free
      BY <1>8 DEF Kept, RetryStopDone, Release
    <2> QED
      BY <2>1, WithinRun, Places
  <1>9. CASE CompleteLate
    BY <1>9, CompleteContinues DEF CompleteLate
  <1> QED
    BY <1>1, <1>2, <1>3, <1>4, <1>5, <1>6, <1>7, <1>8, <1>9 DEF Goes

LEMMA TimersContinue ==
  ASSUME Kept(jrn), FinishedInv, Timers
  PROVE  Continues
  <1>1. CASE OnExpectedEnd
    BY <1>1, ReconcileContinues, CompleteContinues DEF OnExpectedEnd
  <1>2. CASE OnGap
    BY <1>2, AdvanceContinues DEF OnGap
  <1>3. CASE ConfirmOverrun
    BY <1>3, CompleteContinues, SendStopContinues, IdleContinues DEF ConfirmOverrun
  <1>4. CASE ConfirmEarlyEnd
    BY <1>4, ResumeWateringContinues, EarlyEndContinues DEF ConfirmEarlyEnd
  <1>5. CASE ClassifyUncertain
    <2> DEFINE rejected == [jrn EXCEPT !.cmd.disp = "rejected"]
    <2>1. Kept(rejected)
      BY DEF Kept
    <2>2. CASE jrn' = rejected /\ UNCHANGED hold /\ hold = Free
      BY <2>1, <2>2, WithinRun, Places
    <2>3. CASE Finish(SkipRemaining(EndStep(rejected, jrn.idx, "failed")), "failed")
      BY <2>1, <2>3, FinishEndingContinues
    <2> QED
      BY <1>5, <2>2, <2>3, AcceptStartContinues, ConflictContinues
      DEF ClassifyUncertain, Fires
  <1>6. CASE RetryStep
    <2>1. Kept([jrn EXCEPT !.state = "waiting"])
      BY DEF Kept
    <2> QED
      BY <1>6, <2>1, StartStepContinues DEF RetryStep
  <1>7. CASE RetryUncertainStop
    BY <1>7, SendStopContinues, IdleContinues DEF RetryUncertainStop
  <1> QED
    BY <1>1, <1>2, <1>3, <1>4, <1>5, <1>6, <1>7 DEF Timers

LEMMA ZoneEventsContinue ==
  ASSUME Kept(jrn), FinishedInv, hold = Free, NEW e,
         ZoneEventDuringRun(e) \/ ZoneEventDuringGap(e)
  PROVE  Continues
  <1> DEFINE confirmed == IF jrn.cmd.disp \in {"sent", "uncertain"} THEN Accept(jrn) ELSE jrn
  <1>1. Kept(confirmed)
    BY PartsKeep
  <1>2. CASE ZoneEventDuringRun(e)
    <2>1. CASE ResumeWatering(confirmed)
      BY <1>1, <2>1, ResumeWateringContinues
    <2>2. CASE UNCHANGED hold /\ jrn' \in {Watering(confirmed, e.at), confirmed}
      <3>1. Kept(jrn')
        BY <1>1, <2>2, PartsKeep
      <3> QED
        BY <2>2, <3>1, WithinRun, Places
    <2>3. CASE \/ Conflict(jrn) \/ Complete(jrn, e.at)
               \/ ClassifyEarlyEnd(jrn, e.obs, mem) \/ EnterEarlyEnd(jrn)
      BY <2>3, ConflictContinues, CompleteContinues, EarlyEndContinues, ReconcileContinues
    <2>4. CASE UNCHANGED <<jrn, hold>>
      BY <2>4, IdleContinues
    <2> QED
      BY <1>2, <2>1, <2>2, <2>3, <2>4 DEF ZoneEventDuringRun
  <1>3. CASE ZoneEventDuringGap(e)
    <2>1. Kept([jrn EXCEPT !.end = jrn.res[jrn.idx].end])
      BY DEF Kept
    <2>2. CASE EnterOverrun([jrn EXCEPT !.end = jrn.res[jrn.idx].end])
      BY <2>1, <2>2, ReconcileContinues
    <2>3. CASE Conflict(jrn) \/ UNCHANGED <<jrn, hold>>
      BY <2>3, ConflictContinues, IdleContinues
    <2> QED
      BY <1>3, <2>2, <2>3 DEF ZoneEventDuringGap
  <1> QED
    BY <1>2, <1>3

LEMMA EventsContinue ==
  ASSUME Kept(jrn), FinishedInv, Events
  PROVE  Continues
  <1>0. hold = Free
    BY DEF Events, ServeZone, ServeSensor, ServeWeather, Serve
  <1>1. ASSUME NEW e, HandleSensor(e) PROVE Continues
    BY <1>1, ResumeContinues, IdleContinues DEF HandleSensor
  <1>2. ASSUME NEW e, HandleZone(e) PROVE Continues
    <2>1. CASE ZoneEventDuringRun(e) \/ ZoneEventDuringGap(e)
      BY <1>0, <2>1, ZoneEventsContinue
    <2>2. CASE ResumeOrExpire("event") \/ UNCHANGED <<jrn, hold>>
      BY <2>2, ResumeContinues, IdleContinues
    <2> QED
      BY <1>2, <2>1, <2>2 DEF HandleZone
  <1>3. ASSUME NEW e, HandleWeather(e) PROVE Continues
    BY <1>1, <1>3, SendStopContinues DEF HandleWeather
  <1> QED
    BY <1>1, <1>2, <1>3 DEF Events, ServeZone, ServeSensor, ServeWeather

LEMMA RestartContinues ==
  ASSUME Kept(jrn), Restart
  PROVE  Continues
  <1>1. CASE Crash
    <2>1. Kept(jrn') /\ hold' = At("down", "none")
      BY <1>1 DEF Kept, Crash
    <2> QED
      BY <2>1, WithinRun, Places
  <1>2. ASSUME jrn' = jrn, Release PROVE Continues
    <2>1. Kept(jrn') /\ hold' = Free
      BY <1>2 DEF Kept, Release
    <2> QED
      BY <2>1, WithinRun, Places
  <1>3. CASE RecoverIdle
    BY <1>2, <1>3 DEF RecoverIdle
  <1>4. ASSUME RecoverWatering \/ RecoverEndReconcile PROVE Continues
    BY <1>2, <1>4, CompleteContinues, ExpireContinues, ReconcileContinues,
       ResumeWateringContinues, EarlyEndContinues DEF RecoverWatering, RecoverEndReconcile
  <1>5. ASSUME RecoverStart PROVE Continues
    <2>1. CASE AcceptStart([jrn EXCEPT !.state = "watering"])
      <3>1. Kept([jrn EXCEPT !.state = "watering"])
        BY DEF Kept
      <3> QED
        BY <2>1, <3>1, AcceptStartContinues
    <2>2. CASE jrn' = [jrn EXCEPT !.state = "waiting"] /\ hold' = At("start", "none")
      <3>1. Kept(jrn')
        BY <2>2 DEF Kept
      <3> QED
        BY <2>2, <3>1, WithinRun, Places
    <2> QED
      BY <1>5, <2>1, <2>2, EndEarlyContinues DEF RecoverStart
  <1>6. CASE Recover
    <2>1. CASE \E out : Finish(jrn, out)
      BY <2>1, FinishContinues
    <2>2. CASE Finish(SkipRemaining(jrn), "aborted_user")
      <3>1. Kept(SkipRemaining(jrn))
        BY PartsKeep
      <3> QED
        BY <2>2, <3>1, FinishContinues
    <2>3. CASE /\ jrn' = [jrn EXCEPT !.state = "paused_external",
                                     !.pausedAt = IF @ = NoTime THEN now ELSE @]
               /\ Release
      <3>1. Kept(jrn') /\ hold' = Free
        BY <2>3 DEF Kept, Release
      <3> QED
        BY <3>1, WithinRun, Places
    <2> QED
      BY <1>2, <1>4, <1>5, <1>6, <2>1, <2>2, <2>3 DEF Recover
  <1> QED
    BY <1>1, <1>3, <1>6 DEF Restart

-----------------------------------------------------------------------------
(* The refinement *)

\* What the simulation needs of a state.
SimInv == IInv /\ FinishedInv

LEMMA StartClaims ==
  ASSUME IInv, NEW o \in Occurrences, ~Active, o \notin jrn.done, Start(o)
  PROVE  Lifecycle!Claim(o) /\ hold'.at # "finishing"
  <1>1. jrn.occ = NoOcc
    BY DEF IInv, ExecInv, ExecTypeOK, IsJournal, Active, ActiveStates, States
  <1>2. jrn'.occ = o /\ jrn'.done = jrn.done /\ hold' = At("advance", "none")
    BY DEF Start, Claimed, Journal
  <1> QED
    BY <1>1, <1>2, Places DEF Lifecycle!Claim

LEMMA FinishResetReleases ==
  ASSUME FinishedInv, FinishReset
  PROVE  Lifecycle!Release /\ hold'.at # "finishing"
  <1>1. jrn.occ \in jrn.done
    BY DEF FinishedInv, FinishReset
  <1>2. jrn'.occ = NoOcc /\ jrn'.done = jrn.done /\ hold' = Free
    BY DEF FinishReset, IdleJournal, Journal, Release
  <1> QED
    BY <1>1, <1>2, Places DEF Lifecycle!Release

\* An idle journal has nothing to finish: NoOcc is no occurrence.
LEMMA ContinuesMaps ==
  ASSUME IsJournal(jrn'), Continues
  PROVE  Lifecycle!Finish \/ UNCHANGED <<jrn.occ, jrn.done>>
  <1>1. NoOcc \notin jrn'.done
    BY PlanAssumption DEF IsJournal
  <1> QED
    BY <1>1 DEF Continues, Lifecycle!Finish

\* Every step maps to a step of the abstract specification, or to none.
LEMMA StepMaps ==
  ASSUME SimInv, [Next]_vars, IInv'
  PROVE  /\ [Lifecycle!Next]_<<jrn.occ, jrn.done>>
         /\ FinishedInv'
  <1>1. IsJournal(jrn')
    BY DEF IInv, ExecInv, ExecTypeOK
  <1>2. Kept(jrn)
    BY JournalKept DEF SimInv, IInv, ExecInv, ExecTypeOK
  <1>3. ASSUME NEW o \in Occurrences, ~Active, o \notin jrn.done, Start(o)
        PROVE  [Lifecycle!Next]_<<jrn.occ, jrn.done>> /\ FinishedInv'
    BY <1>3, StartClaims DEF SimInv, FinishedInv, Lifecycle!Next
  <1>4. CASE FinishReset
    BY <1>4, FinishResetReleases DEF SimInv, FinishedInv, Lifecycle!Next
  <1>5. ASSUME Continues
        PROVE  [Lifecycle!Next]_<<jrn.occ, jrn.done>> /\ FinishedInv'
    BY <1>1, <1>5, ContinuesMaps DEF Continues, FinishedInv, Lifecycle!Next
  <1>6. CASE RefusedRequest \/ Stop \/ Pause \/ Resume \/ SkipCurrent
    BY <1>2, <1>5, <1>6, MethodsContinue DEF SimInv
  <1>7. CASE Returns \/ (Goes /\ ~FinishReset) \/ Timers \/ Events \/ Restart
    BY <1>2, <1>5, <1>7, ReturnsContinue, GoesContinue, TimersContinue, EventsContinue,
       RestartContinues DEF SimInv
  <1>8. CASE Source \/ Tick \/ UNCHANGED vars
    <2>1. UNCHANGED <<jrn, hold>>
      BY <1>8 DEF Source, Tick, ZoneReports, ZoneReconfirmed, WeatherChanges, vars
    <2> QED
      BY <1>5, <2>1, IdleContinues DEF SimInv
  <1>9. CASE Queued
    <2>1. \/ UNCHANGED <<jrn, hold>>
          \/ ~Active /\ \E o \in Occurrences : o \notin jrn.done /\ Start(o)
      BY <1>9, QueuedSteps DEF SimInv, IInv
    <2> QED
      BY <1>3, <1>5, <2>1, IdleContinues DEF SimInv
  <1> QED
    BY <1>3, <1>4, <1>6, <1>7, <1>8, <1>9 DEF Next, Methods, StartRun

\* Through every failing call, stop, pause, expired resume and restart, an
\* occurrence keeps the controller until it is a finished one, and a finished
\* one never gets it again.
THEOREM LifecycleImplemented == Spec => ImplementsLifecycle
  <1>1. Init => Lifecycle!Init /\ FinishedInv
    BY Places DEF Init, IdleJournal, Journal, Lifecycle!Init, FinishedInv
  <1>2. IInv /\ FinishedInv /\ [Next]_vars /\ IInv'
          => [Lifecycle!Next]_<<jrn.occ, jrn.done>> /\ FinishedInv'
    BY StepMaps DEF SimInv
  <1> QED
    BY <1>1, <1>2, ExecutorInvariant, PTL DEF Spec, ImplementsLifecycle, Lifecycle!Spec

-----------------------------------------------------------------------------
(* Pauses: what resumes a sensor pause, what ends the user's, and what the *)
(* journal says about a pause while it lasts.                              *)

\* The user never skips.  A skip while paused keeps the marks of the pause
\* for the rest of the run, and a later pause inherits the user's reason.
NoSkip == "skip" \notin UserOps

\* ... and the process never dies.  A restart next to a zone that is on turns
\* any pause into an external one and leaves the reason alone.
Calm == NoSkip /\ "crash" \notin Faults

\* The user's reason belongs to an external pause, or to the stop that ends it.
UserMark(j) == j.reason = "user" => j.state \in {"paused_external", "stopping"}

\* The marks of a pause are those of the state.
Book(j) ==
  /\ j.state \in Paused => j.pausedAt # NoTime
  /\ j.state \notin Paused \cup {"stopping"} => j.reason = "none" /\ j.pausedAt = NoTime
  /\ j.reason = "low_temperature" => j.state \in {"paused_sensor", "stopping"}

\* Where the lock holder stands says which state the run is in.
PlaceInv ==
  /\ hold.op = "event" => hold.at = "advance"
  /\ hold.at \in {"advance", "start"} => jrn.state = "waiting"
  /\ hold.at = "startcall" => jrn.state = "starting"
  /\ hold.at = "complete" => jrn.state = "watering"
  /\ hold.op = "freeze" => jrn.state = "watering"
  /\ hold.op = "overrun" => jrn.state = "reconciling"
  /\ hold.op = "stop" => jrn.state \in {"stopping", "idle"}
  /\ hold.op = "skip" => "skip" \in UserOps
  /\ hold.at \in {"start", "down"} => "crash" \in Faults

\* The second half of _finish_run clears what the first leaves, so a run that
\* is being finished may keep the state of a pause without its marks.
PauseInv ==
  /\ PlaceInv
  /\ NoSkip => UserMark(jrn)
  /\ Calm /\ hold.at # "finishing" => Book(jrn)

\* What a handler has to establish, unless it is an event that resumes.
Settles == PauseInv' /\ (hold'.op = "event" => hold.op = "event")

\* A journal without the marks of a pause.
Unmarked(j) ==
  /\ {"state", "reason", "pausedAt", "cmd"} \subseteq DOMAIN j
  /\ NoSkip => j.reason # "user"
  /\ Calm => j.reason = "none" /\ j.pausedAt = NoTime

-----------------------------------------------------------------------------
(* The handlers' parts *)

LEMMA PartsUnmarked ==
  ASSUME NEW j, Unmarked(j), NEW k, NEW s, NEW t
  PROVE  /\ Unmarked(EndStep(j, k, s))
         /\ Unmarked(SkipRemaining(j))
         /\ Unmarked(Watering(j, t)) /\ Watering(j, t).state = "watering"
         /\ Unmarked(Accept(j))
         /\ Unmarked(Completed(j, t)) /\ Completed(j, t).state = "inter_zone_gap"
  BY DEF Unmarked, EndStep, SkipRemaining, Watering, Accept, Completed

LEMMA FieldsUnmarked ==
  ASSUME NEW j, Unmarked(j), NEW v
  PROVE  /\ Unmarked([j EXCEPT !.idx = v])
         /\ Unmarked([j EXCEPT !.end = v])
         /\ Unmarked([j EXCEPT !.state = v]) /\ [j EXCEPT !.state = v].state = v
         /\ Unmarked([j EXCEPT !.cmd.disp = v])
         /\ [j EXCEPT !.cmd.disp = v].state = j.state
  BY DEF Unmarked

\* Outside a pause the journal is unmarked, and an unmarked one is in order in
\* every state that is no pause.
LEMMA RunningUnmarked ==
  ASSUME PauseInv, IsJournal(jrn), hold.at # "finishing",
         jrn.state \notin Paused \cup {"stopping"}
  PROVE  Unmarked(jrn)
  BY DEF PauseInv, Unmarked, UserMark, Book, IsJournal, Paused, Calm

LEMMA UnmarkedInOrder ==
  ASSUME NEW j, Unmarked(j)
  PROVE  /\ NoSkip => UserMark(j)
         /\ j.state \notin Paused /\ Calm => Book(j)
  BY DEF Unmarked, UserMark, Book, Calm

LEMMA FreeSettles ==
  ASSUME hold' = Free, NoSkip => UserMark(jrn'), Calm => Book(jrn')
  PROVE  Settles
  BY DEF Settles, PauseInv, PlaceInv, Free, At

LEMMA RunningSettles ==
  ASSUME hold' = Free, Unmarked(jrn'), jrn'.state \notin Paused
  PROVE  Settles
  BY UnmarkedInOrder, FreeSettles

LEMMA FinishSettles ==
  ASSUME NEW j, Unmarked(j), NEW out, Finish(j, out)
  PROVE  Settles
  <1>1. hold'.at = "finishing" /\ hold'.op = "none"
    BY DEF Finish
  <1>2. jrn'.reason = j.reason
    BY DEF Finish, Unmarked
  <1>3. NoSkip => UserMark(jrn')
    BY <1>2 DEF Unmarked, UserMark
  <1> QED
    BY <1>1, <1>3 DEF Settles, PauseInv, PlaceInv

LEMMA EndingSettles ==
  ASSUME NEW j, Unmarked(j), NEW k, NEW s, NEW out,
         \/ EndEarly(j, out)
         \/ Finish(SkipRemaining(EndStep(j, k, s)), out)
  PROVE  Settles
  <1>1. Unmarked(SkipRemaining(j)) /\ Unmarked(SkipRemaining(EndStep(j, k, s)))
    BY PartsUnmarked
  <1> QED
    BY <1>1, FinishSettles DEF EndEarly

\* A pause that something other than the user began.
LEMMA PauseSettles ==
  ASSUME NEW j, Unmarked(j), now \in Time, hold' = Free,
         \/ jrn' = PausedExternally(j)
         \/ jrn' = [j EXCEPT !.state = "paused_sensor", !.pausedAt = now]
  PROVE  Settles
  <1>1. now # NoTime
    BY DelayAssumption DEF Time, NoTime
  <1>2. /\ jrn'.state \in Paused /\ jrn'.pausedAt = now
        /\ jrn'.reason = j.reason
    BY DEF Unmarked, PausedExternally, Paused
  <1> QED
    BY <1>1, <1>2, FreeSettles DEF Unmarked, UserMark, Book, Calm

LEMMA StartStepSettles ==
  ASSUME NEW j, Unmarked(j), now \in Time, NEW o, NEW t, StartStep(j, o, t)
  PROVE  Settles
  <1>1. CASE EndEarly(j, "completed_with_skips") \/ EndEarly(j, "aborted_sensor")
    BY <1>1, EndingSettles
  <1>2. CASE jrn' = PausedExternally(j) /\ Release
    BY <1>2, PauseSettles DEF Release
  <1>3. CASE Finish(SkipRemaining(EndStep(j, j.idx, "failed")), "failed")
    BY <1>3, EndingSettles
  <1>4. CASE /\ jrn' = [j EXCEPT !.state = "starting",
                                 !.cmd = [type |-> "start", disp |-> "intended", at |-> now],
                                 !.res[j.idx] = [j.res[j.idx] EXCEPT !.att = @ + 1]]
             /\ hold' = At("startcall", "none")
    <2>1. Unmarked(jrn') /\ jrn'.state = "starting"
      BY <1>4 DEF Unmarked
    <2> QED
      BY <1>4, <2>1, UnmarkedInOrder DEF Settles, PauseInv, PlaceInv, At, Paused
  <1> QED
    BY <1>1, <1>2, <1>3, <1>4 DEF StartStep

LEMMA AdvanceSettles ==
  ASSUME NEW j, Unmarked(j), now \in Time, NEW o, NEW t, AdvanceFrom(j, o, t)
  PROVE  Settles
  <1>1. CASE PendingSteps(j) = {}
    BY <1>1, FinishSettles DEF AdvanceFrom
  <1>2. CASE PendingSteps(j) # {}
    <2>1. PICK k \in FirstPending(j) : StartStep([j EXCEPT !.idx = k], o, t)
      BY <1>2 DEF AdvanceFrom
    <2> QED
      BY <2>1, FieldsUnmarked, StartStepSettles
  <1> QED
    BY <1>1, <1>2

\* The parts that leave the run watering, between two steps or reconciling.
LEMMA CompleteSettles ==
  ASSUME NEW j, Unmarked(j), NEW t, Complete(j, t)
  PROVE  Settles
  BY PartsUnmarked, RunningSettles DEF Complete, Release, Paused

LEMMA ReconcileSettles ==
  ASSUME NEW j, Unmarked(j), EnterOverrun(j) \/ EnterEarlyEnd(j)
  PROVE  Settles
  <1>1. jrn' = [j EXCEPT !.state = "reconciling"] /\ hold' = Free
    BY DEF EnterOverrun, EnterEarlyEnd, Release
  <1>2. Unmarked(jrn') /\ jrn'.state = "reconciling"
    BY <1>1, FieldsUnmarked
  <1> QED
    BY <1>1, <1>2, RunningSettles DEF Paused

LEMMA ResumeWateringSettles ==
  ASSUME NEW j, Unmarked(j), ResumeWatering(j)
  PROVE  Settles
  <1> DEFINE n == IF j.cmd.disp = "sent" THEN Accept(j) ELSE j
  <1>1. Unmarked(n)
    BY PartsUnmarked
  <1>2. jrn' = [n EXCEPT !.state = "watering"] /\ hold' = Free
    BY DEF ResumeWatering, Release
  <1> HIDE DEF n
  <1>3. Unmarked(jrn') /\ jrn'.state = "watering"
    BY <1>1, <1>2, FieldsUnmarked
  <1> QED
    BY <1>2, <1>3, RunningSettles DEF Paused

LEMMA AcceptStartSettles ==
  ASSUME NEW j, Unmarked(j), AcceptStart(j)
  PROVE  Settles
  <1>1. Unmarked(IF j.cmd = NoCmd THEN j ELSE Accept(j))
    BY PartsUnmarked
  <1>2. Unmarked(jrn') /\ jrn'.state = "watering"
    BY <1>1, PartsUnmarked DEF AcceptStart
  <1>3. CASE hold' = Free
    BY <1>2, <1>3, RunningSettles DEF Paused
  <1>4. CASE hold' = At("complete", "none")
    BY <1>2, <1>4, UnmarkedInOrder DEF Settles, PauseInv, PlaceInv, At, Paused
  <1> QED
    BY <1>3, <1>4 DEF AcceptStart, Release

LEMMA ConflictSettles ==
  ASSUME NEW j, Unmarked(j), now \in Time, Conflict(j)
  PROVE  Settles
  <1> DEFINE cut == IF Current(j) = "running" THEN EndStep(j, j.idx, "external_stop") ELSE j
  <1>1. Unmarked(cut) /\ Unmarked(SkipRemaining(cut))
    BY PartsUnmarked
  <1>2. CASE Finish(SkipRemaining(cut), "aborted_external")
    BY <1>1, <1>2, FinishSettles
  <1>3. CASE jrn' = PausedExternally(cut) /\ Release
    BY <1>1, <1>3, PauseSettles DEF Release
  <1> QED
    BY <1>2, <1>3 DEF Conflict

LEMMA EarlyEndSettles ==
  ASSUME NEW j, Unmarked(j), now \in Time, NEW o, NEW m, ClassifyEarlyEnd(j, o, m)
  PROVE  Settles
  <1>1. Unmarked(EndStep(j, j.idx, "sensor_cut"))
    BY PartsUnmarked
  <1>2. CASE /\ jrn' = [EndStep(j, j.idx, "sensor_cut") EXCEPT !.state = "paused_sensor",
                                                             !.pausedAt = now]
             /\ Release
    BY <1>1, <1>2, PauseSettles DEF Release
  <1>3. CASE \E s, out : Finish(SkipRemaining(EndStep(j, j.idx, s)), out)
    BY <1>3, EndingSettles
  <1> QED
    BY <1>2, <1>3 DEF ClassifyEarlyEnd

LEMMA ExpireSettles ==
  ASSUME NEW j, Unmarked(j), CompleteOrExpire(j)
  PROVE  Settles
  BY CompleteSettles, EndingSettles DEF CompleteOrExpire

\* A resumed run has lost the marks, whoever resumes it.
LEMMA ResumeKeepsOrder ==
  ASSUME IsJournal(jrn), NEW by \in {"user", "event"}, ResumeOrExpire(by)
  PROVE  PauseInv' /\ (by = "user" => Settles)
  <1> DEFINE cleared == [jrn EXCEPT !.reason = "none", !.pausedAt = NoTime]
  <1>1. Unmarked(cleared)
    BY DEF Unmarked, IsJournal
  <1>2. CASE EndEarly(cleared, "completed_with_skips")
    BY <1>1, <1>2, EndingSettles DEF Settles
  <1>3. CASE jrn' = [cleared EXCEPT !.state = "waiting"] /\ hold' = At("advance", by)
    <2>1. Unmarked(jrn') /\ jrn'.state = "waiting"
      BY <1>1, <1>3, FieldsUnmarked
    <2> QED
      BY <1>3, <2>1, UnmarkedInOrder DEF Settles, PauseInv, PlaceInv, At, Paused
  <1> QED
    BY <1>2, <1>3 DEF ResumeOrExpire

\* Sending a stop leaves the marks to what follows it.
LEMMA SendStopSettles ==
  ASSUME NEW j, {"state", "reason", "pausedAt"} \subseteq DOMAIN j,
         NoSkip => UserMark(j), Calm => Book(j),
         NEW op, SendStop(j, op), op # "event",
         op = "freeze" => j.state = "watering",
         op = "overrun" => j.state = "reconciling",
         op = "stop" => j.state \in {"stopping", "idle"},
         op = "skip" => "skip" \in UserOps
  PROVE  Settles
  <1>1. hold' = At("stopcall", op)
    BY DEF SendStop
  <1>2. /\ jrn'.state = j.state /\ jrn'.reason = j.reason
        /\ jrn'.pausedAt = j.pausedAt
    BY DEF SendStop
  <1> QED
    BY <1>1, <1>2 DEF Settles, PauseInv, PlaceInv, UserMark, Book, At

-----------------------------------------------------------------------------
(* The actions *)

\* What the handlers find: the executor's invariant and the marks.
Found == IInv /\ PauseInv

LEMMA FoundFacts ==
  ASSUME Found
  PROVE  /\ IsJournal(jrn)
         /\ {"state", "reason", "pausedAt"} \subseteq DOMAIN jrn
         /\ now \in Time
         /\ NoSkip => UserMark(jrn)
         /\ hold.at # "finishing" /\ Calm => Book(jrn)
         /\ hold.at # "finishing" /\ jrn.state \notin Paused \cup {"stopping"} => Unmarked(jrn)
  <1>1. IsJournal(jrn) /\ now \in Time /\ PauseInv
    BY DEF Found, IInv, EnvTypeOK, ExecInv, ExecTypeOK
  <1>2. {"state", "reason", "pausedAt"} \subseteq DOMAIN jrn
    BY <1>1 DEF IsJournal
  <1> QED
    BY <1>1, <1>2, RunningUnmarked DEF PauseInv

\* A step that touches neither the journal nor the lock.
LEMMA IdleSettles ==
  ASSUME PauseInv, UNCHANGED <<jrn, hold>>
  PROVE  Settles
  BY DEF Settles, PauseInv, PlaceInv, UserMark, Book

\* A start begins unmarked.
LEMMA StartSettles ==
  ASSUME NEW o, Start(o)
  PROVE  Settles
  <1>1. Unmarked(jrn') /\ jrn'.state = "waiting" /\ hold' = At("advance", "none")
    BY DEF Start, Claimed, Journal, Unmarked
  <1> QED
    BY <1>1, UnmarkedInOrder DEF Settles, PauseInv, PlaceInv, At, Paused

LEMMA MethodsSettle ==
  ASSUME Found, Methods
  PROVE  Settles
  <1>1. ASSUME NEW o \in Occurrences, StartRun(o) PROVE Settles
    BY <1>1, StartSettles DEF StartRun
  <1>2. CASE RefusedRequest
    BY <1>2, IdleSettles DEF RefusedRequest, Found
  <1>3. CASE Stop
    <2> DEFINE j == [jrn EXCEPT !.stopReq = TRUE, !.state = IF Active THEN "stopping" ELSE @]
    <2>1. hold.at # "finishing"
      BY <1>3 DEF Stop, Free, At
    <2>2. /\ {"state", "reason", "pausedAt"} \subseteq DOMAIN j
          /\ j.state \in {"stopping", "idle"}
          /\ j.state = IF Active THEN "stopping" ELSE jrn.state
          /\ j.reason = jrn.reason /\ j.pausedAt = jrn.pausedAt
      BY FoundFacts DEF IsJournal, Active, ActiveStates
    <2>3. SendStop(j, "stop")
      BY <1>3 DEF Stop
    <2> HIDE DEF j
    <2>4. (NoSkip => UserMark(j)) /\ (Calm => Book(j))
      BY <2>1, <2>2, FoundFacts DEF UserMark, Book, Paused
    <2> QED
      BY <2>2, <2>3, <2>4, SendStopSettles
  <1>4. CASE Pause
    <2>1. hold.at # "finishing" /\ hold = Free
      BY <1>4 DEF Pause, Free, At
    <2>2. CASE SendStop(jrn, "pause")
      BY <2>1, <2>2, FoundFacts, SendStopSettles
    <2>3. CASE jrn' = [PausedExternally(jrn) EXCEPT !.reason = "user"] /\ UNCHANGED hold
      <3>1. jrn'.state = "paused_external" /\ jrn'.reason = "user" /\ jrn'.pausedAt = now
        BY <2>3, FoundFacts DEF PausedExternally, IsJournal
      <3>2. now # NoTime
        BY FoundFacts, DelayAssumption DEF Time, NoTime
      <3> QED
        BY <2>1, <2>3, <3>1, <3>2, FreeSettles DEF UserMark, Book, Paused
    <2> QED
      BY <1>4, <2>2, <2>3 DEF Pause
  <1>5. CASE Resume
    BY <1>5, FoundFacts, ResumeKeepsOrder DEF Resume
  <1>6. CASE SkipCurrent
    <2>1. hold.at # "finishing" /\ hold = Free /\ ~NoSkip /\ ~Calm
      BY <1>6 DEF SkipCurrent, Free, At, NoSkip, Calm
    <2>2. CASE SendStop(jrn, "skip")
      BY <2>1, <2>2, FoundFacts, SendStopSettles DEF NoSkip
    <2> QED
      BY <1>6, <2>1, <2>2, FreeSettles DEF SkipCurrent
  <1> QED
    BY <1>1, <1>2, <1>3, <1>4, <1>5, <1>6 DEF Methods

LEMMA ReturnsSettle ==
  ASSUME Found, Returns
  PROVE  Settles
  <1>1. CASE StartAccepted \/ StartRejected \/ StartUncertain
    <2>1. Unmarked(jrn)
      BY <1>1, FoundFacts DEF StartAccepted, StartRejected, StartUncertain, Found, PauseInv,
                              PlaceInv, Paused
    <2>2. CASE StartAccepted
      <3>1. Unmarked(Watering(jrn, now)) /\ Watering(jrn, now).state = "watering"
        BY <2>1, PartsUnmarked
      <3>2. jrn' = [Watering(jrn, now) EXCEPT !.cmd.disp = "sent"]
        BY <2>2 DEF StartAccepted
      <3>3. Unmarked(jrn') /\ jrn'.state = "watering"
        BY <3>1, <3>2, FieldsUnmarked
      <3> QED
        BY <2>2, <3>3, RunningSettles DEF StartAccepted, Release, Paused
    <2>3. CASE StartRejected
      BY <2>1, <2>3, FieldsUnmarked, EndingSettles DEF StartRejected
    <2>4. CASE StartUncertain
      <3>1. Unmarked(jrn') /\ jrn'.state = "reconciling"
        BY <2>1, <2>4 DEF StartUncertain, Unmarked
      <3> QED
        BY <2>4, <3>1, RunningSettles DEF StartUncertain, Release, Paused
    <2> QED
      BY <1>1, <2>2, <2>3, <2>4
  <1>2. CASE StopConfirmed \/ StopUncertain
    <2>1. /\ jrn'.state = jrn.state /\ jrn'.reason = jrn.reason
          /\ jrn'.pausedAt = jrn.pausedAt
          /\ hold' = At("stopped", hold.op) /\ hold.at = "stopcall"
      BY <1>2, FoundFacts DEF StopConfirmed, StopUncertain
    <2> QED
      BY <2>1 DEF Found, Settles, PauseInv, PlaceInv, UserMark, Book, At
  <1> QED
    BY <1>1, <1>2 DEF Returns

LEMMA GoesSettle ==
  ASSUME Found, Goes
  PROVE  Settles
  <1>1. CASE Advance
    <2>1. Unmarked(jrn)
      BY <1>1, FoundFacts DEF Advance, Found, PauseInv, PlaceInv, Paused
    <2> QED
      BY <1>1, <2>1, FoundFacts, FinishSettles, AdvanceSettles DEF Advance
  <1>2. CASE RestartStep
    <2>1. Unmarked(jrn)
      BY <1>2, FoundFacts DEF RestartStep, Found, PauseInv, PlaceInv, Paused
    <2> QED
      BY <1>2, <2>1, FoundFacts, StartStepSettles DEF RestartStep
  <1>3. CASE StopDone
    <2> DEFINE cut == CASE Current(jrn) = "running" -> EndStep(jrn, jrn.idx, "external_stop")
                        [] Current(jrn) = "pending" -> EndStep(jrn, jrn.idx, "skipped")
                        [] OTHER -> jrn
    <2>1. CASE Active /\ Finish(SkipRemaining(cut), "aborted_user")
      <3>1. jrn.state = "stopping"
        BY <1>3, <2>1 DEF StopDone, Found, PauseInv, PlaceInv, Active, ActiveStates
      <3>2. /\ jrn'.state = "stopping" /\ hold'.at = "finishing" /\ hold'.op = "none"
        <4>1. \/ cut = EndStep(jrn, jrn.idx, "external_stop")
              \/ cut = EndStep(jrn, jrn.idx, "skipped")
              \/ cut = jrn
          OBVIOUS
        <4>2. {"state"} \subseteq DOMAIN cut /\ cut.state = "stopping"
          BY <3>1, <4>1, FoundFacts DEF EndStep
        <4> HIDE DEF cut
        <4> QED
          BY <2>1, <4>2 DEF Finish, SkipRemaining
      <3> QED
        BY <3>2 DEF Settles, PauseInv, PlaceInv, UserMark
    <2>2. CASE jrn' = [jrn EXCEPT !.stopReq = FALSE] /\ Release
      <3>1. /\ jrn'.state = jrn.state /\ jrn'.reason = jrn.reason
            /\ jrn'.pausedAt = jrn.pausedAt /\ hold' = Free
        BY <2>2, FoundFacts DEF Release
      <3> QED
        BY <1>3, <3>1, FoundFacts, FreeSettles DEF StopDone, UserMark, Book
    <2> QED
      BY <1>3, <2>1, <2>2 DEF StopDone
  <1>4. CASE PauseDone
    <2> DEFINE cut == IF Current(jrn) = "running" THEN EndStep(jrn, jrn.idx, "external_stop")
                                                  ELSE jrn
    <2>1. {"state", "reason", "pausedAt"} \subseteq DOMAIN cut
      BY FoundFacts DEF EndStep
    <2>2. jrn' = [PausedExternally(cut) EXCEPT !.reason = "user"] /\ hold' = Free
      BY <1>4 DEF PauseDone, Release
    <2> HIDE DEF cut
    <2>3. jrn'.state = "paused_external" /\ jrn'.reason = "user" /\ jrn'.pausedAt = now
      BY <2>1, <2>2 DEF PausedExternally
    <2>4. now # NoTime
      BY FoundFacts, DelayAssumption DEF Time, NoTime
    <2> QED
      BY <2>2, <2>3, <2>4, FreeSettles DEF UserMark, Book, Paused
  <1>5. CASE SkipDone
    <2>1. ~NoSkip /\ ~Calm
      BY <1>5 DEF SkipDone, Found, PauseInv, PlaceInv, NoSkip, Calm
    <2> QED
      BY <1>5, <2>1, FreeSettles DEF SkipDone, Release
  <1>6. CASE FreezeCutDone
    <2> DEFINE cut == EndStep(jrn, jrn.idx, "sensor_cut")
    <2>1. Unmarked(jrn)
      BY <1>6, FoundFacts DEF FreezeCutDone, Found, PauseInv, PlaceInv, Paused
    <2>2. CASE Finish(SkipRemaining(cut), "aborted_sensor")
      BY <2>1, <2>2, EndingSettles
    <2>3. CASE /\ jrn' = [cut EXCEPT !.state = "paused_sensor", !.pausedAt = now,
                                     !.reason = "low_temperature"]
               /\ Release
      <3>1. Unmarked(cut)
        BY <2>1, PartsUnmarked
      <3>2. /\ jrn'.state = "paused_sensor" /\ jrn'.reason = "low_temperature"
            /\ jrn'.pausedAt = now /\ hold' = Free
        BY <2>3, <3>1 DEF Unmarked, Release
      <3>3. now # NoTime
        BY FoundFacts, DelayAssumption DEF Time, NoTime
      <3> QED
        BY <3>2, <3>3, FreeSettles DEF UserMark, Book, Paused
    <2> QED
      BY <1>6, <2>2, <2>3 DEF FreezeCutDone
  <1>7. CASE OverrunStopped
    <2>1. Unmarked(jrn)
      BY <1>7, FoundFacts DEF OverrunStopped, Found, PauseInv, PlaceInv, Paused
    <2> QED
      BY <1>7, <2>1, EndingSettles DEF OverrunStopped
  <1>8. CASE RetryStopDone
    BY <1>8, FoundFacts, FreeSettles DEF RetryStopDone, Release
  <1>9. CASE CompleteLate
    <2>1. Unmarked(jrn)
      BY <1>9, FoundFacts DEF CompleteLate, Found, PauseInv, PlaceInv, Paused
    <2> QED
      BY <1>9, <2>1, CompleteSettles DEF CompleteLate
  <1>10. CASE FinishReset
    <2>1. Unmarked(jrn') /\ jrn'.state = "idle" /\ hold' = Free
      BY <1>10 DEF FinishReset, IdleJournal, Journal, Unmarked, Release
    <2> QED
      BY <2>1, RunningSettles DEF Paused
  <1> QED
    BY <1>1, <1>2, <1>3, <1>4, <1>5, <1>6, <1>7, <1>8, <1>9, <1>10 DEF Goes

LEMMA TimersSettle ==
  ASSUME Found, Timers
  PROVE  Settles
  <1>0. hold = Free /\ hold.at # "finishing"
    BY DEF Timers, OnExpectedEnd, OnGap, ConfirmOverrun, ConfirmEarlyEnd, ClassifyUncertain,
           RetryStep, RetryUncertainStop, Fires, Free, At
  <1>1. CASE OnExpectedEnd \/ OnGap \/ ConfirmOverrun \/ ConfirmEarlyEnd
             \/ ClassifyUncertain \/ RetryStep
    <2>1. Unmarked(jrn)
      BY <1>0, <1>1, FoundFacts
      DEF OnExpectedEnd, OnGap, ConfirmOverrun, ConfirmEarlyEnd, ClassifyUncertain, RetryStep,
          Paused
    <2>2. CASE OnExpectedEnd
      BY <2>1, <2>2, ReconcileSettles, CompleteSettles DEF OnExpectedEnd
    <2>3. CASE OnGap
      BY <2>1, <2>3, FoundFacts, AdvanceSettles DEF OnGap
    <2>4. CASE ConfirmOverrun
      BY <1>0, <2>1, <2>4, FoundFacts, CompleteSettles, SendStopSettles, IdleSettles
      DEF ConfirmOverrun, Found
    <2>5. CASE ConfirmEarlyEnd
      BY <2>1, <2>5, FoundFacts, ResumeWateringSettles, EarlyEndSettles DEF ConfirmEarlyEnd
    <2>6. CASE ClassifyUncertain
      <3> DEFINE rejected == [jrn EXCEPT !.cmd.disp = "rejected"]
      <3>1. Unmarked(rejected) /\ rejected.state = jrn.state
        BY <2>1, FieldsUnmarked
      <3>2. CASE jrn' = rejected /\ UNCHANGED hold
        BY <1>0, <2>6, <3>1, <3>2, RunningSettles DEF ClassifyUncertain, Paused
      <3>3. CASE Finish(SkipRemaining(EndStep(rejected, jrn.idx, "failed")), "failed")
        BY <3>1, <3>3, EndingSettles
      <3>4. CASE AcceptStart(jrn) \/ Conflict(jrn)
        BY <2>1, <3>4, FoundFacts, AcceptStartSettles, ConflictSettles
      <3> QED
        BY <2>6, <3>2, <3>3, <3>4 DEF ClassifyUncertain
    <2>7. CASE RetryStep
      BY <2>1, <2>7, FoundFacts, FieldsUnmarked, StartStepSettles DEF RetryStep
    <2> QED
      BY <1>1, <2>2, <2>3, <2>4, <2>5, <2>6, <2>7
  <1>2. CASE RetryUncertainStop
    BY <1>0, <1>2, FoundFacts, SendStopSettles, IdleSettles DEF RetryUncertainStop, Found
  <1> QED
    BY <1>1, <1>2 DEF Timers

\* What an event that resumes a sensor pause was told of the weather.
ToldClear == jrn.state = "paused_sensor" => PauseCleared(jrn, lastObs')

LEMMA ZoneEventsSettle ==
  ASSUME Found, hold = Free, NEW e,
         \/ ZoneEventDuringRun(e) /\ jrn.state \in {"watering", "reconciling"}
         \/ ZoneEventDuringGap(e) /\ jrn.state = "inter_zone_gap"
  PROVE  Settles
  <1> DEFINE confirmed == IF jrn.cmd.disp \in {"sent", "uncertain"} THEN Accept(jrn) ELSE jrn
  <1>1. Unmarked(jrn) /\ jrn.state \notin Paused
    BY FoundFacts DEF Free, At, Paused
  <1>2. Unmarked(confirmed)
    BY <1>1, PartsUnmarked
  <1>3. confirmed.state = jrn.state
    BY FoundFacts DEF Accept
  <1>4. CASE UNCHANGED <<jrn, hold>>
    BY <1>4, IdleSettles DEF Found
  <1>5. CASE ZoneEventDuringRun(e) /\ jrn.state \in {"watering", "reconciling"}
    <2>1. CASE ResumeWatering(confirmed)
      BY <1>2, <2>1, ResumeWateringSettles
    <2>2. CASE UNCHANGED hold /\ jrn' = Watering(confirmed, e.at)
      <3>1. Unmarked(jrn') /\ jrn'.state = "watering"
        BY <1>2, <2>2, PartsUnmarked
      <3> QED
        BY <2>2, <3>1, RunningSettles DEF Paused
    <2>3. CASE UNCHANGED hold /\ jrn' = confirmed
      BY <1>1, <1>2, <1>3, <2>3, RunningSettles
    <2>4. CASE \/ Conflict(jrn) \/ Complete(jrn, e.at)
               \/ ClassifyEarlyEnd(jrn, e.obs, mem) \/ EnterEarlyEnd(jrn)
      BY <1>1, <2>4, FoundFacts, ConflictSettles, CompleteSettles, EarlyEndSettles,
         ReconcileSettles
    <2> HIDE DEF confirmed
    <2> QED
      BY <1>4, <1>5, <2>1, <2>2, <2>3, <2>4 DEF ZoneEventDuringRun, confirmed
  <1>6. CASE ZoneEventDuringGap(e)
    <2>1. CASE EnterOverrun([jrn EXCEPT !.end = jrn.res[jrn.idx].end])
      BY <1>1, <2>1, FieldsUnmarked, ReconcileSettles
    <2>2. CASE Conflict(jrn)
      BY <1>1, <2>2, FoundFacts, ConflictSettles
    <2> QED
      BY <1>4, <1>6, <2>1, <2>2 DEF ZoneEventDuringGap
  <1> QED
    BY <1>5, <1>6

\* An event settles what it finds, or resumes a pause that it may resume.
LEMMA EventsSettle ==
  ASSUME Found, Events
  PROVE  PauseInv' /\ (Settles \/ ToldClear)
  <1>0. hold = Free /\ lastObs' = Head(inbox).obs
    BY DEF Events, ServeZone, ServeSensor, ServeWeather, Serve
  <1>1. ASSUME ResumeOrExpire("event"),
               jrn.state = "paused_sensor" => PauseCleared(jrn, Head(inbox).obs)
        PROVE  PauseInv' /\ ToldClear
    BY <1>0, <1>1, FoundFacts, ResumeKeepsOrder DEF ToldClear
  <1>2. CASE UNCHANGED <<jrn, hold>>
    BY <1>2, IdleSettles DEF Found, Settles
  <1>3. CASE ServeZone
    <2>1. CASE \/ ZoneEventDuringRun(Head(inbox)) /\ jrn.state \in {"watering", "reconciling"}
               \/ ZoneEventDuringGap(Head(inbox)) /\ jrn.state = "inter_zone_gap"
      BY <1>0, <2>1, ZoneEventsSettle DEF Settles
    <2> QED
      BY <1>1, <1>2, <1>3, <2>1 DEF ServeZone, HandleZone, Paused
  <1>4. ASSUME HandleSensor(Head(inbox)) PROVE PauseInv' /\ (Settles \/ ToldClear)
    BY <1>1, <1>2, <1>4 DEF HandleSensor
  <1>5. CASE ServeSensor \/ ServeWeather
    <2>1. CASE jrn.state = "watering" /\ SendStop(jrn, "freeze")
      BY <1>0, <2>1, FoundFacts, SendStopSettles DEF Settles, Free, At
    <2> QED
      BY <1>4, <1>5, <2>1 DEF ServeSensor, ServeWeather, HandleWeather
  <1> QED
    BY <1>3, <1>5 DEF Events

LEMMA RestartSettles ==
  ASSUME Found, Restart
  PROVE  Settles
  <1>0. ~Calm /\ (hold.at = "down" => hold.at # "finishing")
    BY DEF Restart, Crash, Recover, RecoverIdle, Found, PauseInv, PlaceInv, Calm
  <1>1. CASE Crash
    BY <1>0, <1>1, FoundFacts DEF Crash, Settles, PauseInv, PlaceInv, At
  <1>2. ASSUME jrn' = jrn, Release PROVE Settles
    BY <1>0, <1>2, FoundFacts, FreeSettles DEF Release
  <1>3. CASE RecoverIdle
    BY <1>2, <1>3 DEF RecoverIdle
  <1>4. ASSUME hold.at = "down",
               RecoverWatering \/ RecoverEndReconcile \/ RecoverStart
        PROVE  Settles
    <2>1. Unmarked(jrn)
      BY <1>0, <1>4, FoundFacts DEF RecoverWatering, RecoverEndReconcile, RecoverStart, Paused
    <2>2. CASE RecoverWatering \/ RecoverEndReconcile
      BY <1>2, <2>1, <2>2, FoundFacts, CompleteSettles, ExpireSettles, ReconcileSettles,
         ResumeWateringSettles, EarlyEndSettles DEF RecoverWatering, RecoverEndReconcile
    <2>3. CASE RecoverStart
      <3>1. CASE AcceptStart([jrn EXCEPT !.state = "watering"])
        BY <2>1, <3>1, FieldsUnmarked, AcceptStartSettles
      <3>2. CASE jrn' = [jrn EXCEPT !.state = "waiting"] /\ hold' = At("start", "none")
        <4>1. Unmarked(jrn') /\ jrn'.state = "waiting"
          BY <2>1, <3>2, FieldsUnmarked
        <4> QED
          BY <1>0, <1>4, <3>2, <4>1, UnmarkedInOrder
          DEF Found, Settles, PauseInv, PlaceInv, At, Paused
      <3> QED
        BY <2>1, <2>3, <3>1, <3>2, EndingSettles DEF RecoverStart
    <2> QED
      BY <1>4, <2>2, <2>3
  <1>5. CASE Recover
    <2>1. CASE \E out : Finish(jrn, out) \/ Finish(SkipRemaining(jrn), out)
      <3> DEFINE skipped == SkipRemaining(jrn)
      <3>1. /\ {"state", "reason"} \subseteq DOMAIN skipped
            /\ skipped.state = jrn.state /\ skipped.reason = jrn.reason
        BY FoundFacts DEF SkipRemaining
      <3> HIDE DEF skipped
      <3>2. /\ jrn'.state = jrn.state /\ jrn'.reason = jrn.reason
            /\ hold'.at = "finishing" /\ hold'.op = "none"
        BY <2>1, <3>1, FoundFacts DEF Finish, skipped
      <3> QED
        BY <3>2, FoundFacts DEF Settles, PauseInv, PlaceInv, UserMark
    <2>2. CASE /\ jrn' = [jrn EXCEPT !.state = "paused_external",
                                     !.pausedAt = IF @ = NoTime THEN now ELSE @]
               /\ Release
      <3>1. jrn'.state = "paused_external" /\ hold' = Free
        BY <2>2, FoundFacts DEF Release
      <3> QED
        BY <1>0, <3>1, FreeSettles DEF UserMark
    <2> QED
      BY <1>2, <1>4, <1>5, <2>1, <2>2 DEF Recover
  <1> QED
    BY <1>1, <1>3, <1>5 DEF Restart

\* Every step keeps the invariant, and only an event that resumes a pause
\* makes an event the one that goes on with the run.
LEMMA PauseStep ==
  ASSUME Found, [Next]_vars
  PROVE  PauseInv' /\ (Settles \/ ToldClear)
  <1>1. CASE Methods \/ Returns \/ Goes \/ Timers \/ Restart
    BY <1>1, MethodsSettle, ReturnsSettle, GoesSettle, TimersSettle, RestartSettles DEF Settles
  <1>2. CASE Events
    BY <1>2, EventsSettle
  <1>3. CASE Source \/ Tick \/ UNCHANGED vars
    <2>1. UNCHANGED <<jrn, hold>>
      BY <1>3 DEF Source, Tick, ZoneReports, ZoneReconfirmed, WeatherChanges, vars
    <2> QED
      BY <2>1, IdleSettles DEF Found, Settles
  <1>4. CASE Queued
    <2>1. UNCHANGED <<jrn, hold>> \/ \E o \in Occurrences : Start(o)
      BY <1>4, QueuedSteps DEF Found, IInv
    <2> QED
      BY <2>1, StartSettles, IdleSettles DEF Found, Settles
  <1> QED
    BY <1>1, <1>2, <1>3, <1>4 DEF Next

-----------------------------------------------------------------------------
(* The theorems *)

\* The marks of a pause are inductive together with the executor's invariant.
THEOREM PauseInvariant == Spec => []Found
  <1>1. Init => PauseInv
    BY DEF Init, IdleJournal, Journal, Free, At, PauseInv, PlaceInv, UserMark, Book, Paused
  <1>2. IInv /\ PauseInv /\ [Next]_vars => PauseInv'
    BY PauseStep DEF Found
  <1> QED
    BY <1>1, <1>2, ExecutorInvariant, PTL DEF Spec, Found

\* A sensor pause that an event ends, ends in clear weather, whatever other
\* events, calls, failures and restarts came before: neither wet nor freezing,
\* and out of a freeze only past the hysteresis.
THEOREM SensorPauseEnds == Spec => SensorResumesWhenClear
  <1> DEFINE Clear == /\ lastObs'.rain # "wet" /\ ~FreezeActive(lastObs')
                      /\ jrn.reason = "low_temperature" => lastObs'.temp = "warm"
             A     == jrn.state = "paused_sensor" /\ hold'.op = "event" => Clear
  <1>1. Found /\ [Next]_vars => [A]_vars
    <2> SUFFICES ASSUME Found, [Next]_vars, jrn.state = "paused_sensor", hold'.op = "event"
                 PROVE  Clear
      OBVIOUS
    <2>1. hold.op # "event"
      BY DEF Found, PauseInv, PlaceInv
    <2>2. PauseCleared(jrn, lastObs')
      BY <2>1, PauseStep DEF Settles, ToldClear
    <2> QED
      BY <2>2 DEF PauseCleared, FreezeCleared, FreezeActive
  <1> QED
    BY <1>1, PauseInvariant, PTL DEF Spec, SensorResumesWhenClear

\* No event resumes the user's pause, nor does a restart end it.
LEMMA UserPauseKept ==
  ASSUME Found, NoSkip, [Next]_vars, jrn.state \in Paused, jrn.reason = "user",
         inbox' # inbox \/ hold.at = "down"
  PROVE  jrn'.state \in Paused /\ jrn'.reason = "user"
  <1>1. jrn.state = "paused_external"
    BY FoundFacts DEF UserMark, Paused
  <1>2. CASE UNCHANGED jrn
    BY <1>2
  <1>3. CASE Events
    <2>1. ~ExternalPauseCleared(jrn, Head(inbox).obs)
      BY DEF ExternalPauseCleared
    <2> QED
      BY <1>1, <1>2, <1>3, <2>1
      DEF Events, ServeZone, ServeSensor, ServeWeather, HandleZone, HandleSensor,
          HandleWeather
  <1>4. CASE Recover
    <2>1. ~jrn.stopReq
      BY <1>1 DEF Found, IInv, ExecInv, StopInv, Active, ActiveStates, States
    <2>2. CASE jrn' = [jrn EXCEPT !.state = "paused_external",
                                  !.pausedAt = IF @ = NoTime THEN now ELSE @]
      BY <2>2, FoundFacts DEF Paused
    <2>3. CASE \E out : Finish(jrn, out)
      BY <1>1, <2>3, FoundFacts DEF Finish, Paused
    <2> QED
      BY <1>1, <1>2, <1>4, <2>1, <2>2, <2>3
      DEF Recover, StopPersisted, RecoverWatering, RecoverEndReconcile, RecoverStart
  <1>5. CASE Crash \/ RecoverIdle \/ Source \/ Tick \/ UNCHANGED vars
    BY <1>2, <1>5 DEF Crash, RecoverIdle, Source, ZoneReports, ZoneReconfirmed,
                      WeatherChanges, Tick, vars
  <1>6. CASE Methods \/ Returns \/ Goes \/ Timers
    <2>1. hold.at # "down" /\ UNCHANGED inbox
      <3>1. CASE Methods
        BY <3>1 DEF Methods, StartRun, RefusedRequest, Stop, Pause, Resume, SkipCurrent, Free, At
      <3>2. CASE Returns
        BY <3>2 DEF Returns, StartAccepted, StartRejected, StartUncertain, StopConfirmed,
                    StopUncertain
      <3>3. CASE Goes
        BY <3>3 DEF Goes, Advance, RestartStep, StopDone, PauseDone, SkipDone, FreezeCutDone,
                    OverrunStopped, RetryStopDone, CompleteLate, FinishReset
      <3>4. CASE Timers
        BY <3>4 DEF Timers, OnExpectedEnd, OnGap, ConfirmOverrun, ConfirmEarlyEnd,
                    ClassifyUncertain, RetryStep, RetryUncertainStop, Fires, Free, At
      <3> QED
        BY <1>6, <3>1, <3>2, <3>3, <3>4
    <2> QED
      BY <2>1
  <1>7. CASE Queued
    <2>1. Active
      BY <1>1 DEF Active, ActiveStates, States
    <2> QED
      BY <1>2, <1>7, <2>1, QueuedSteps DEF Found, IInv
  <1> QED
    BY <1>3, <1>4, <1>5, <1>6, <1>7 DEF Next, Restart

\* Where the user does not skip, the user's pause ends by the user alone:
\* through crashes, restarts, rain, frost and other people's watering.
THEOREM UserPauseIsTheUsers ==
  ASSUME NoSkip
  PROVE  Spec => UserPauseHolds
  <1> DEFINE A == jrn.state \in Paused /\ jrn.reason = "user"
                    /\ (inbox' # inbox \/ hold.at = "down")
                  => jrn'.state \in Paused /\ jrn'.reason = "user"
  <1>1. Found /\ [Next]_vars => [A]_vars
    BY UserPauseKept
  <1> QED
    BY <1>1, PauseInvariant, PTL DEF Spec, UserPauseHolds

\* Without skip and crashes, paused_at_utc and paused_reason are those of the
\* pause the run is in, and no others.
THEOREM PausesAreMarked ==
  ASSUME Calm
  PROVE  Spec => []PauseBookkeeping
  <1>1. Found => PauseBookkeeping
    <2> SUFFICES ASSUME Found, hold = Free
                 PROVE  /\ jrn.state \notin Paused
                             => jrn.pausedAt = NoTime /\ jrn.reason = "none"
                        /\ jrn.state \in Paused => jrn.pausedAt # NoTime
                        /\ jrn.reason = "low_temperature" => jrn.state = "paused_sensor"
      BY DEF PauseBookkeeping
    <2>1. Book(jrn)
      BY FoundFacts DEF Free, At
    <2>2. jrn.state # "stopping"
      BY DEF Found, IInv, ExecInv, TimerMatchesState, Paused
    <2> QED
      BY <2>1, <2>2 DEF Book
  <1> QED
    BY <1>1, PauseInvariant, PTL
=============================================================================
