---------------------------- MODULE RunExecutor ----------------------------
(***************************************************************************)
(* The journaled run executor (executor.py): one executor, one lock and    *)
(* one journal per controller.                                             *)
(*                                                                         *)
(* Every public method and every timer callback runs under one asyncio     *)
(* lock.  The lock holder yields only where it awaits a journal write or a *)
(* driver call, so a step of this specification is the code between two    *)
(* such awaits: `hold' says where the lock holder stands, and a crash or   *)
(* an arriving source event can come between any two of its steps.  Every  *)
(* step that changes `jrn' ends with the write the code awaits, so what is *)
(* on disk when a step ends is `jrn' itself, and a crash loses exactly the *)
(* other variables.  (lastObs is written along with the journal too, but   *)
(* recovery replaces it before anything reads it.)                         *)
(*                                                                         *)
(* An operator marked "seeded fault" is no part of the specification: it   *)
(* states a plausible mistake in the definition below it, which TLC has to *)
(* detect when it takes that definition's place.                           *)
(***************************************************************************)
EXTENDS Integers, Sequences, FiniteSets

CONSTANTS
  Zones,            \* zone ids
  Occurrences,      \* occurrence ids the launch loop may hand over
  NoOcc,            \* "no active occurrence"
  Plans,            \* occurrence -> [requested, steps]
  Gap, StartTimeout, Confirm, EarlyTolerance, MissedTolerance, Proximity,
  MaxAttempts,      \* MAX_COMMAND_ATTEMPTS
  RetryDelays,      \* COMMAND_RETRY_DELAYS_SECONDS, one per retry
  StopDelays,       \* _STOP_RETRY_DELAYS_SECONDS
  \* policies of the program and of the controller configuration
  SkipWhenWet, HonorDelay, GuardEnabled, SkipFreezing, BlockUnknown,
  RainCutPauses, FreezeCutPauses, AbortOnExternal,
  \* what the environment may do in this instance
  UserOps,          \* subset of {"stop", "pause", "resume", "skip", "run"}
  Faults,           \* subset of {"crash", "start", "reject", "unresolved", "stop"}
  SourceStates,     \* states the zone switches may report
  Weathers,         \* sensor readings the source may report
  MaxTime,          \* bound of the clock
  MaxDisturbances,  \* bound on user calls, crashes and source changes
  MaxInbox          \* bound on what waits for the lock

Time     == 0 .. MaxTime
NoTime   == -1
Statuses == {"pending", "running", "completed", "skipped", "sensor_cut",
             "external_stop", "overrun_stopped", "failed"}
Outcomes == {"completed", "completed_with_skips", "aborted_sensor",
             "aborted_external", "aborted_user", "aborted_power_loss",
             "skipped", "failed"}
States   == {"idle", "waiting", "starting", "watering", "inter_zone_gap",
             "paused_external", "paused_sensor", "reconciling", "stopping"}
Paused   == {"paused_external", "paused_sensor"}

\* _TERMINAL_STEP_STATUSES, _ACTIVE_STATES
Terminal == Statuses \ {"pending", "running"}
ActiveStates == States \ {"idle"}

TimerKinds == {"expected_end", "gap", "overrun", "early_end", "classify",
               "retry_step", "retry_stop"}

StepRec   == [zone : Zones, dur : Nat, soak : BOOLEAN, planned : Int]

ASSUME PlanAssumption ==
  /\ NoOcc \notin Occurrences
  /\ Plans \in [Occurrences -> [requested : Int, steps : Seq(StepRec)]]
ASSUME DelayAssumption ==
  /\ {Gap, StartTimeout, Confirm, EarlyTolerance, MissedTolerance, Proximity} \subseteq Nat
  /\ MaxTime \in Nat /\ MaxDisturbances \in Nat /\ MaxInbox \in Nat /\ MaxAttempts \in Nat
  /\ RetryDelays \in Seq(Nat) /\ Len(RetryDelays) > 0
  /\ StopDelays \in Seq(Nat)
ASSUME PolicyAssumption ==
  {SkipWhenWet, HonorDelay, GuardEnabled, SkipFreezing, BlockUnknown,
   RainCutPauses, FreezeCutPauses, AbortOnExternal} \subseteq BOOLEAN
ASSUME SourceAssumption ==
  /\ SourceStates \subseteq {"on", "off", "unusable"}
  /\ Weathers \subseteq [rain : {"wet", "dry", "unknown"},
                         temp : {"cold", "cool", "warm", "unknown"},
                         delay : BOOLEAN]

VARIABLES
  now,      \* the clock
  src,      \* what each zone switch last reported, and when
  left,     \* how many disturbances this instance has left
  wx,       \* what the rain sensor, thermometer and rain delay report
  lastObs,  \* journal.last_observation
  jrn,      \* the rest of the journal
  timer,    \* the one armed timer
  inbox,    \* source events and starts that wait for the lock
  hold,     \* where the lock holder stands
  mem,      \* what the executor keeps only in memory about reconciling
  history   \* finished-run records

\* Something from outside happens: a user call, a crash, a source change.
Disturbs == left > 0 /\ left' = left - 1

vars == <<now, src, left, wx, lastObs, jrn, timer, inbox, hold, mem, history>>
world == <<now, src, wx>>
env  == <<now, src, left, wx>>

-----------------------------------------------------------------------------
(* Observations *)

\* build_observation: a snapshot of the source.  A report time is read only
\* for a zone that is on, so it is kept only for those.
Snapshot(s, w) ==
  [on    |-> {z \in Zones : s[z].st = "on"},
   rep   |-> [z \in Zones |-> s[z].at],
   avail |-> \E z \in Zones : s[z].st # "unusable",
   rain  |-> w.rain, temp |-> w.temp, delay |-> w.delay]

Observation == Snapshot(src, wx)

Observations ==
  [on : SUBSET Zones, rep : [Zones -> Time], avail : BOOLEAN,
   rain : {"wet", "dry", "unknown"},
   temp : {"cold", "cool", "warm", "unknown"}, delay : BOOLEAN]

\* "cold": at or below the threshold; "warm": a hysteresis step above it.
FreezeActive(o)  == GuardEnabled /\ o.temp = "cold"
FreezeCleared(o) == o.temp = "warm"

FreezeBlocks(o) ==
  /\ GuardEnabled /\ SkipFreezing
  /\ FreezeActive(o) \/ (BlockUnknown /\ o.temp = "unknown")

WetBlocks(o)   == SkipWhenWet /\ o.rain = "wet"
DelayBlocks(o) == HonorDelay /\ o.delay

-----------------------------------------------------------------------------
(* The journal *)

NoCmd == [type |-> "none", disp |-> "none", at |-> NoTime]

Journal(state, o, res, done) ==
  [state |-> state, occ |-> o, idx |-> 1, res |-> res, cmd |-> NoCmd,
   end |-> NoTime, stopReq |-> FALSE, reason |-> "none", pausedAt |-> NoTime,
   done |-> done]

\* Seeded fault: the finished occurrences are reset too.
IdleJournalForgets(done) == Journal("idle", NoOcc, <<>>, {})

IdleJournal(done) == Journal("idle", NoOcc, <<>>, done)

NotStarted(n) == [k \in 1 .. n |-> [status |-> "pending", end |-> NoTime, att |-> 0]]

\* Seeded fault: one result too few.
ClaimedButLast(o) ==
  Journal("waiting", o, NotStarted(Len(Plans[o].steps) - 1), jrn.done)

Claimed(o) ==
  Journal("waiting", o, NotStarted(Len(Plans[o].steps)), jrn.done)

StepsOf(j) == Plans[j.occ].steps
Zone(j)    == StepsOf(j)[j.idx].zone
Current(j) == j.res[j.idx].status

Active == jrn.state \in ActiveStates

\* Seeded fault: steps that failed or were skipped count as open.
NotCompleted(j) == {k \in DOMAIN j.res : j.res[k].status # "completed"}

PendingSteps(j)  == {k \in DOMAIN j.res : j.res[k].status = "pending"}
AnyCompleted(j)  == \E k \in DOMAIN j.res : j.res[k].status = "completed"
AllCompleted(j)  == \A k \in DOMAIN j.res : j.res[k].status = "completed"
HasBegun(j)      == \E k \in DOMAIN j.res : j.res[k].status # "pending"
FirstPending(j)  == {k \in PendingSteps(j) : \A m \in PendingSteps(j) : k <= m}
Least(S)         == CHOOSE k \in S : \A m \in S : k <= m

\* The later of the request and the first compiled step, plus the tolerance.
LatestStart(j) ==
  LET anchors   == {StepsOf(j)[k].planned : k \in DOMAIN StepsOf(j)}
      requested == Plans[j.occ].requested
  IN  MissedTolerance + IF Least(anchors) > requested THEN Least(anchors) ELSE requested

EndStep(j, k, s) ==
  [j EXCEPT !.res[k] =
     [j.res[k] EXCEPT !.status = s,
                      !.end = IF @ = NoTime /\ s # "skipped" THEN now ELSE @]]

\* Seeded fault: pending steps stay pending.
SkipRemainingRunning(j) ==
  [j EXCEPT !.res = [k \in DOMAIN j.res |->
     IF j.res[k].status = "running"
     THEN [j.res[k] EXCEPT !.status = "external_stop", !.end = now]
     ELSE j.res[k]]]

\* Seeded fault: finished steps are overwritten.
SkipAll(j) ==
  [j EXCEPT !.res = [k \in DOMAIN j.res |-> [j.res[k] EXCEPT !.status = "skipped"]]]

SkipRemaining(j) ==
  [j EXCEPT !.res = [k \in DOMAIN j.res |->
     CASE j.res[k].status = "pending" -> [j.res[k] EXCEPT !.status = "skipped"]
       [] j.res[k].status = "running" ->
            [j.res[k] EXCEPT !.status = "external_stop", !.end = now]
       [] OTHER -> j.res[k]]]

\* Zones reported on that no earlier step of this run explains.
ExternalZones(j, o) ==
  o.on \ {StepsOf(j)[k].zone : k \in
            {m \in 1 .. (j.idx - 1) :
               j.res[m].end # NoTime /\ o.rep[StepsOf(j)[m].zone] <= j.res[m].end}}

Watering(j, start) ==
  [j EXCEPT !.state = "watering",
            !.end = start + StepsOf(j)[j.idx].dur,
            !.res[j.idx] = [j.res[j.idx] EXCEPT !.status = "running"]]

\* Seeded fault: paused_at_utc is not recorded.
PausedWithoutTime(j) == [j EXCEPT !.state = "paused_external"]

PausedExternally(j) == [j EXCEPT !.state = "paused_external", !.pausedAt = now]

-----------------------------------------------------------------------------
(* Where the lock holder stands, and the armed timer *)

At(place, op) == [at |-> place, op |-> op, out |-> "none"]
Free          == At("free", "none")
NoTimer       == [kind |-> "none", at |-> NoTime]

\* _arm_at and _cancel_pending_timer start a new generation: a callback that
\* already fired and waits for the lock finds its generation gone and returns.
Arm(kind, when) == timer' = [kind |-> kind, at |-> when]

\* Seeded fault: the timer stays armed.
DisarmForgotten == timer' = timer

Disarm == timer' = NoTimer

NotReconciling == [mem EXCEPT !.ctx = "none"]

\* Up to the write that makes the occurrence a finished one; what follows
\* that write is FinishReset.
Finish(j, outcome) ==
  /\ jrn' = [j EXCEPT !.done = @ \cup {j.occ}]
  /\ mem' = NotReconciling
  /\ hold' = [at |-> "finishing", op |-> "none", out |-> outcome]
  /\ Disarm

EndEarly(j, ifBegun) ==
  Finish(SkipRemaining(j), IF AnyCompleted(j) THEN ifBegun ELSE "skipped")

SendStop(j, op) ==
  /\ jrn' = [j EXCEPT !.cmd = [type |-> "stop", disp |-> "intended", at |-> now]]
  /\ hold' = At("stopcall", op)
  /\ Disarm
  /\ UNCHANGED mem

Release == hold' = Free

-----------------------------------------------------------------------------
(* Step lifecycle *)

\* _start_step for the current step, `t' being the timer that stays armed.
StartStep(j, o, t) ==
  \/ /\ DelayBlocks(o)
     /\ EndEarly(j, "completed_with_skips")
  \/ /\ ~DelayBlocks(o) /\ (WetBlocks(o) \/ FreezeBlocks(o))
     /\ EndEarly(j, "aborted_sensor")
  \/ /\ ~DelayBlocks(o) /\ ~WetBlocks(o) /\ ~FreezeBlocks(o)
     /\ \/ /\ ExternalZones(j, o) # {}
           /\ jrn' = PausedExternally(j)
           /\ timer' = t
           /\ Release
           /\ UNCHANGED mem
        \/ /\ ExternalZones(j, o) = {}
           /\ "unresolved" \in Faults
           /\ Finish(SkipRemaining(EndStep(j, j.idx, "failed")), "failed")
        \/ /\ ExternalZones(j, o) = {}
           /\ jrn' = [j EXCEPT !.state = "starting",
                               !.cmd = [type |-> "start", disp |-> "intended", at |-> now],
                               !.res[j.idx] = [j.res[j.idx] EXCEPT !.att = @ + 1]]
           /\ timer' = t
           /\ hold' = At("startcall", "none")
           /\ UNCHANGED mem

\* _advance: the next pending step, or the end of the run.
AdvanceFrom(j, o, t) ==
  IF PendingSteps(j) = {}
  THEN Finish(j, IF AllCompleted(j) THEN "completed" ELSE "completed_with_skips")
  ELSE \E k \in FirstPending(j) : StartStep([j EXCEPT !.idx = k], o, t)

\* Seeded fault: the soak is forgotten.
ArmGapOnly(j) == Arm("gap", now + Gap)

\* _arm_gap_to_next_start: a soak waits for its compiled start, any other
\* step for the gap only.
ArmGap(j) ==
  LET target == now + Gap
      soaks  == {k \in FirstPending(j) : StepsOf(j)[k].soak /\ StepsOf(j)[k].planned > target}
  IN  IF soaks = {} THEN Arm("gap", target)
                    ELSE \E k \in soaks : Arm("gap", StepsOf(j)[k].planned)

\* _complete_step
Completed(j, at) ==
  [j EXCEPT !.state = "inter_zone_gap", !.cmd = NoCmd, !.end = NoTime,
            !.res[j.idx] = [j.res[j.idx] EXCEPT !.status = "completed", !.end = at]]

Complete(j, at) ==
  /\ jrn' = Completed(j, at)
  /\ mem' = NotReconciling
  /\ Release
  /\ ArmGap(Completed(j, at))

EnterOverrun(j) ==
  /\ jrn' = [j EXCEPT !.state = "reconciling"]
  /\ mem' = [mem EXCEPT !.ctx = "overrun", !.confirms = 0]
  /\ Release
  /\ Arm("overrun", now + Confirm)

EnterEarlyEnd(j) ==
  /\ jrn' = [j EXCEPT !.state = "reconciling"]
  /\ mem' = [mem EXCEPT !.ctx = "early_end"]
  /\ Release
  /\ Arm("early_end", now + Confirm)

\* Accept(j): a command the source confirms.
Accept(j) == [j EXCEPT !.cmd.disp = "accepted"]

ResumeWatering(j) ==
  /\ jrn' = [IF j.cmd.disp = "sent" THEN Accept(j) ELSE j EXCEPT !.state = "watering"]
  /\ mem' = NotReconciling
  /\ Release
  /\ Arm("expected_end", j.end)

\* The uncertain start did water: the step runs from the instant the command
\* was journaled, and is complete already if that window has passed.
AcceptStart(j) ==
  LET accepted == Watering(IF j.cmd = NoCmd THEN j ELSE Accept(j),
                           IF j.cmd = NoCmd THEN now ELSE j.cmd.at)
  IN  /\ jrn' = accepted
      /\ UNCHANGED mem
      /\ IF accepted.end <= now
         THEN hold' = At("complete", "none") /\ Disarm
         ELSE Release /\ Arm("expected_end", accepted.end)

\* Seeded fault: the interrupted step is left running.
ConflictLeavesStep(j) ==
  IF AbortOnExternal
  THEN Finish(SkipRemaining(j), "aborted_external")
  ELSE /\ jrn' = PausedExternally(j)
       /\ Disarm /\ Release
       /\ UNCHANGED mem

\* _external_conflict
Conflict(j) ==
  LET cut == IF Current(j) = "running" THEN EndStep(j, j.idx, "external_stop") ELSE j
  IN  IF AbortOnExternal
      THEN Finish(SkipRemaining(cut), "aborted_external")
      ELSE /\ jrn' = PausedExternally(cut)
           /\ Disarm /\ Release
           /\ UNCHANGED mem

\* _classify_early_end; `m' is the memory it leaves behind.
ClassifyEarlyEnd(j, o, m) ==
  CASE o.rain = "wet" /\ RainCutPauses ->
         /\ jrn' = [EndStep(j, j.idx, "sensor_cut") EXCEPT !.state = "paused_sensor",
                                                         !.pausedAt = now]
         /\ Disarm /\ Release
         /\ mem' = m
    [] o.rain = "wet" /\ ~RainCutPauses ->
         Finish(SkipRemaining(EndStep(j, j.idx, "sensor_cut")), "aborted_sensor")
    [] o.rain # "wet" ->
         Finish(SkipRemaining(EndStep(j, j.idx, "external_stop")),
                IF o.avail THEN "aborted_external" ELSE "aborted_power_loss")

\* Seeded fault: a freeze pause resumes into rain.
PauseClearedIfWarm(j, o) ==
  IF j.reason = "low_temperature" THEN FreezeCleared(o)
                                  ELSE o.rain = "dry" /\ ~FreezeActive(o)

\* May a sensor pause resume?  Both conditions must be clear.
PauseCleared(j, o) ==
  IF j.reason = "low_temperature"
  THEN FreezeCleared(o) /\ o.rain # "wet"
  ELSE o.rain = "dry" /\ ~FreezeActive(o)

\* _resume_or_expire; `by' says who resumes.
ResumeOrExpire(by) ==
  LET cleared == [jrn EXCEPT !.reason = "none", !.pausedAt = NoTime]
      expired == IF HasBegun(jrn)
                 THEN jrn.pausedAt # NoTime /\ now - jrn.pausedAt > MissedTolerance
                 ELSE now > LatestStart(jrn)
  IN  IF expired
      THEN EndEarly(cleared, "completed_with_skips")
      ELSE /\ jrn' = [cleared EXCEPT !.state = "waiting"]
           /\ hold' = At("advance", by)
           /\ UNCHANGED <<timer, mem>>

-----------------------------------------------------------------------------
(* The public methods.  Each takes the lock.                               *)

\* Whoever finds the lock taken waits for it, first come, first served.
Enqueue(e) ==
  IF hold.at = "down" THEN UNCHANGED inbox
                      ELSE Len(inbox) < MaxInbox /\ inbox' = Append(inbox, e)

\* What a call of async_start_run does once it has the lock and is not refused.
Start(o) ==
  /\ jrn' = Claimed(o)
  /\ hold' = At("advance", "none")
  /\ UNCHANGED <<timer, mem>>

\* async_start_run with the lock free.  The caller, who hands over no plan before
\* it is due, has just put its snapshot into the journal.
StartRun(o) ==
  /\ hold = Free /\ ~Active
  /\ o \notin jrn.done
  /\ now >= Plans[o].requested
  /\ lastObs' = Observation
  /\ Start(o)
  /\ UNCHANGED <<env, inbox, history>>

\* With the lock taken the caller has put its snapshot there all the same, and
\* waits.  The launch loop does not call while a run is active, a request does.
StartWaits(o) ==
  /\ hold.at \notin {"free", "down"}
  /\ Disturbs
  /\ ~Active \/ "run" \in UserOps
  /\ o \notin jrn.done \cup {jrn.occ}
  /\ now >= Plans[o].requested
  /\ lastObs' = Observation
  /\ Enqueue([kind |-> "start", occ |-> o])
  /\ UNCHANGED <<world, jrn, timer, hold, mem, history>>

\* A request that finds a run active, and the lock free, is refused at once: it
\* has replaced the snapshot of the run.
RefusedRequest ==
  /\ "run" \in UserOps
  /\ Disturbs
  /\ Active /\ hold = Free
  /\ lastObs' = Observation
  /\ UNCHANGED <<world, jrn, timer, inbox, hold, mem, history>>

\* Seeded fault: the state is not STOPPING while the stop is sent.
StopWhileWatering ==
  /\ "stop" \in UserOps
  /\ Disturbs
  /\ hold = Free
  /\ SendStop([jrn EXCEPT !.stopReq = TRUE], "stop")
  /\ UNCHANGED <<world, lastObs, inbox, history>>

Stop ==
  /\ "stop" \in UserOps
  /\ Disturbs
  /\ hold = Free
  /\ SendStop([jrn EXCEPT !.stopReq = TRUE,
                          !.state = IF Active THEN "stopping" ELSE @], "stop")
  /\ UNCHANGED <<world, lastObs, inbox, history>>

\* An uncertain start may have been accepted, so leaving its reconcile sends
\* a stop too.
NeedsStop ==
  \/ Current(jrn) = "running"
  \/ jrn.state = "reconciling" /\ Current(jrn) = "pending"

Pause ==
  /\ "pause" \in UserOps
  /\ Disturbs
  /\ hold = Free /\ Active
  /\ IF NeedsStop
     THEN SendStop(jrn, "pause")
     ELSE /\ jrn' = [PausedExternally(jrn) EXCEPT !.reason = "user"]
          /\ Disarm
          /\ UNCHANGED <<hold, mem>>
  /\ UNCHANGED <<world, lastObs, inbox, history>>

Resume ==
  /\ "resume" \in UserOps
  /\ Disturbs
  /\ hold = Free /\ jrn.state \in Paused
  /\ ResumeOrExpire("user")
  /\ UNCHANGED <<world, lastObs, inbox, history>>

Skipped(j) == [EndStep(j, j.idx, "skipped") EXCEPT !.state = "inter_zone_gap"]

SkipCurrent ==
  /\ "skip" \in UserOps
  /\ Disturbs
  /\ hold = Free /\ Active
  /\ IF NeedsStop
     THEN SendStop(jrn, "skip")
     ELSE /\ jrn' = Skipped(jrn)
          /\ Arm("gap", now + Gap)
          /\ UNCHANGED <<hold, mem>>
  /\ UNCHANGED <<world, lastObs, inbox, history>>

-----------------------------------------------------------------------------
(* The lock holder goes on *)

\* After the write that puts the run into WAITING.
Advance ==
  /\ hold.at = "advance"
  /\ IF StepsOf(jrn) = <<>>
     THEN Finish(jrn, "skipped")
     ELSE AdvanceFrom(jrn, lastObs, timer)
  /\ UNCHANGED <<env, lastObs, inbox, history>>

\* Recovery re-sends the start of the current step.
RestartStep ==
  /\ hold.at = "start"
  /\ StartStep(jrn, lastObs, timer)
  /\ UNCHANGED <<env, lastObs, inbox, history>>

StartAccepted ==
  /\ hold.at = "startcall"
  /\ jrn' = [Watering(jrn, now) EXCEPT !.cmd.disp = "sent"]
  /\ Release
  /\ Arm("expected_end", now + StepsOf(jrn)[jrn.idx].dur)
  /\ UNCHANGED <<env, lastObs, inbox, mem, history>>

\* ZoneValidationError: definitely not sent.
StartRejected ==
  /\ "reject" \in Faults
  /\ hold.at = "startcall"
  /\ Finish(SkipRemaining(EndStep([jrn EXCEPT !.cmd.disp = "rejected"],
                                  jrn.idx, "failed")), "failed")
  /\ UNCHANGED <<env, lastObs, inbox, history>>

\* Any other DriverError: the controller may or may not have started the zone.
StartUncertain ==
  /\ "start" \in Faults
  /\ hold.at = "startcall"
  /\ jrn' = [jrn EXCEPT !.state = "reconciling", !.cmd.disp = "uncertain"]
  /\ mem' = [mem EXCEPT !.ctx = "start"]
  /\ Release
  /\ Arm("classify", now + StartTimeout)
  /\ UNCHANGED <<env, lastObs, inbox, history>>

StopConfirmed ==
  /\ hold.at = "stopcall"
  /\ jrn' = [jrn EXCEPT !.cmd.disp = "sent"]
  /\ mem' = [mem EXCEPT !.stopTries = 0]
  /\ hold' = At("stopped", hold.op)
  /\ UNCHANGED <<env, lastObs, timer, inbox, history>>

StopUncertain ==
  /\ "stop" \in Faults
  /\ hold.at = "stopcall"
  /\ jrn' = [jrn EXCEPT !.cmd.disp = "uncertain"]
  /\ hold' = At("stopped", hold.op)
  /\ IF Active /\ mem.stopTries < Len(StopDelays)
     THEN /\ mem' = [mem EXCEPT !.stopTries = @ + 1]
          /\ Arm("retry_stop", now + StopDelays[mem.stopTries + 1])
     ELSE UNCHANGED <<mem, timer>>
  /\ UNCHANGED <<env, lastObs, inbox, history>>

\* What each caller of _send_stop does next.
StopDone ==
  /\ hold.at = "stopped" /\ hold.op = "stop"
  /\ IF Active
     THEN Finish(SkipRemaining(
                   CASE Current(jrn) = "running" -> EndStep(jrn, jrn.idx, "external_stop")
                     [] Current(jrn) = "pending" -> EndStep(jrn, jrn.idx, "skipped")
                     [] OTHER -> jrn), "aborted_user")
     ELSE /\ jrn' = [jrn EXCEPT !.stopReq = FALSE]
          /\ Release
          /\ UNCHANGED <<timer, mem>>
  /\ UNCHANGED <<env, lastObs, inbox, history>>

PauseDone ==
  /\ hold.at = "stopped" /\ hold.op = "pause"
  /\ LET cut == IF Current(jrn) = "running" THEN EndStep(jrn, jrn.idx, "external_stop")
                                            ELSE jrn
     IN  jrn' = [PausedExternally(cut) EXCEPT !.reason = "user"]
  /\ Release
  /\ UNCHANGED <<env, lastObs, timer, inbox, mem, history>>

SkipDone ==
  /\ hold.at = "stopped" /\ hold.op = "skip"
  /\ jrn' = Skipped(jrn)
  /\ Release
  /\ Arm("gap", now + Gap)
  /\ UNCHANGED <<env, lastObs, inbox, mem, history>>

FreezeCutDone ==
  /\ hold.at = "stopped" /\ hold.op = "freeze"
  /\ LET cut == EndStep(jrn, jrn.idx, "sensor_cut")
     IN  IF FreezeCutPauses
         THEN /\ jrn' = [cut EXCEPT !.state = "paused_sensor", !.pausedAt = now,
                                    !.reason = "low_temperature"]
              /\ Release
              /\ UNCHANGED <<timer, mem>>
         ELSE Finish(SkipRemaining(cut), "aborted_sensor")
  /\ UNCHANGED <<env, lastObs, inbox, history>>

OverrunStopped ==
  /\ hold.at = "stopped" /\ hold.op = "overrun"
  /\ Finish(SkipRemaining(EndStep(jrn, jrn.idx, "overrun_stopped")), "failed")
  /\ UNCHANGED <<env, lastObs, inbox, history>>

RetryStopDone ==
  /\ hold.at = "stopped" /\ hold.op = "retry_stop"
  /\ Release
  /\ UNCHANGED <<env, lastObs, jrn, timer, inbox, mem, history>>

\* After the write that records an accepted start whose window has passed.
CompleteLate ==
  /\ hold.at = "complete"
  /\ Complete(jrn, jrn.end)
  /\ UNCHANGED <<env, lastObs, inbox, history>>

\* The second half of _finish_run: history, then the reset to IDLE.  One step:
\* the record goes to disk HISTORY_SAVE_DELAY_SECONDS (ten) later, or with an
\* unload, which writes the journal first, so never before the reset does.
FinishReset ==
  /\ hold.at = "finishing"
  /\ history' = Append(history, [occ |-> jrn.occ, out |-> hold.out,
                                 steps |-> {jrn.res[k].status : k \in DOMAIN jrn.res},
                                 saved |-> FALSE])
  /\ jrn' = IdleJournal(jrn.done)
  /\ Release
  /\ UNCHANGED <<env, lastObs, timer, inbox, mem>>

-----------------------------------------------------------------------------
(* Timer callbacks *)

\* Seeded fault: a callback runs before its time.
FiresEarly(kind) == hold = Free /\ timer.kind = kind

\* The armed timer has fired and its callback has the lock.
Fires(kind) == hold = Free /\ timer.kind = kind /\ timer.at <= now

OnExpectedEnd ==
  /\ Fires("expected_end") /\ jrn.state = "watering"
  /\ IF Zone(jrn) \in lastObs.on /\ lastObs.rep[Zone(jrn)] >= jrn.end
     THEN EnterOverrun(jrn)
     ELSE Complete(jrn, jrn.end)
  /\ UNCHANGED <<env, lastObs, inbox, history>>

OnGap ==
  /\ Fires("gap") /\ jrn.state = "inter_zone_gap"
  /\ AdvanceFrom(jrn, lastObs, NoTimer)
  /\ UNCHANGED <<env, lastObs, inbox, history>>

\* Only a report made after the commanded end says the zone is still on, and
\* it takes two of them to stop the controller.
ConfirmOverrun ==
  /\ Fires("overrun") /\ jrn.state = "reconciling" /\ mem.ctx = "overrun"
  /\ lastObs' = Observation
  /\ IF ~(Zone(jrn) \in lastObs'.on /\ lastObs'.rep[Zone(jrn)] >= jrn.end)
     THEN Complete(jrn, jrn.end)
     ELSE IF mem.confirms = 0
          THEN /\ mem' = [mem EXCEPT !.confirms = 1]
               /\ Arm("overrun", now + Confirm)
               /\ UNCHANGED <<jrn, hold>>
          ELSE SendStop(jrn, "overrun")
  /\ UNCHANGED <<env, inbox, history>>

ConfirmEarlyEnd ==
  /\ Fires("early_end") /\ jrn.state = "reconciling" /\ mem.ctx = "early_end"
  /\ lastObs' = Observation
  /\ IF Zone(jrn) \in lastObs'.on
     THEN ResumeWatering(jrn)
     ELSE ClassifyEarlyEnd(jrn, lastObs', NotReconciling)
  /\ UNCHANGED <<env, inbox, history>>

ClassifyUncertain ==
  /\ Fires("classify") /\ jrn.state = "reconciling"
  /\ lastObs' = Observation
  /\ LET attempts == jrn.res[jrn.idx].att
         rejected == [jrn EXCEPT !.cmd.disp = "rejected"]
     IN  IF Zone(jrn) \in lastObs'.on
         THEN AcceptStart(jrn)
         ELSE IF ExternalZones(jrn, lastObs') # {}
         THEN Conflict(jrn)
         ELSE IF attempts < MaxAttempts /\ now <= LatestStart(jrn)
         THEN /\ jrn' = rejected
              /\ Arm("retry_step", now + RetryDelays[IF attempts < Len(RetryDelays)
                                                     THEN attempts ELSE Len(RetryDelays)])
              /\ UNCHANGED <<hold, mem>>
         ELSE Finish(SkipRemaining(EndStep(rejected, jrn.idx, "failed")), "failed")
  /\ UNCHANGED <<env, inbox, history>>

RetryStep ==
  /\ Fires("retry_step") /\ jrn.state = "reconciling"
  /\ StartStep([jrn EXCEPT !.state = "waiting"], lastObs, NoTimer)
  /\ UNCHANGED <<env, lastObs, inbox, history>>

RetryUncertainStop ==
  /\ Fires("retry_stop")
  /\ IF jrn.cmd.type = "stop" /\ jrn.cmd.disp = "uncertain"
     THEN SendStop(jrn, "retry_stop")
     ELSE Disarm /\ UNCHANGED <<jrn, hold, mem>>
  /\ UNCHANGED <<env, lastObs, inbox, history>>

-----------------------------------------------------------------------------
(* Source events.  Each carries the snapshot built when the entity changed, *)
(* before its handler waited for the lock.                                  *)

\* _zone_event_during_run
ZoneEventDuringRun(e) ==
  LET here      == e.zone = Zone(jrn)
      confirmed == IF jrn.cmd.disp \in {"sent", "uncertain"} THEN Accept(jrn) ELSE jrn
      nothing   == UNCHANGED <<jrn, timer, hold, mem>>
  IN  CASE e.on /\ here /\ jrn.state = "reconciling" /\ mem.ctx = "early_end" ->
             ResumeWatering(confirmed)
        [] e.on /\ here /\ jrn.state = "reconciling" /\ mem.ctx = "start" ->
             /\ jrn' = Watering(confirmed, e.at)
             /\ Arm("expected_end", e.at + StepsOf(jrn)[jrn.idx].dur)
             /\ UNCHANGED <<hold, mem>>
        [] e.on /\ here /\ (jrn.state = "watering" \/ mem.ctx = "overrun") ->
             /\ jrn' = confirmed
             /\ UNCHANGED <<timer, hold, mem>>
        [] e.on /\ ~here ->
             IF e.zone \in ExternalZones(jrn, e.obs) THEN Conflict(jrn) ELSE nothing
        [] ~e.on /\ here /\ jrn.state = "watering" ->
             IF e.at >= jrn.end - EarlyTolerance THEN Complete(jrn, e.at)
             ELSE IF e.obs.rain = "wet" \/ ~e.obs.avail
             THEN ClassifyEarlyEnd(jrn, e.obs, mem)
             ELSE EnterEarlyEnd(jrn)
        [] OTHER -> nothing

\* _zone_event_during_gap: the zone that just finished reports on again.
\* Close to its end that is our own overrun, later it is somebody else's start.
ZoneEventDuringGap(e) ==
  LET ended   == jrn.res[jrn.idx].end
      here    == e.zone = Zone(jrn)
      overran == here /\ ended # NoTime /\ e.obs.rep[e.zone] > ended
  IN  IF e.on /\ overran /\ e.obs.rep[e.zone] - ended <= Proximity
      THEN EnterOverrun([jrn EXCEPT !.end = ended])
      ELSE IF e.on /\ (overran \/ ~here)
      THEN Conflict(jrn)
      ELSE UNCHANGED <<jrn, timer, hold, mem>>

\* Seeded fault: a user's pause is resumed too.
ExternalPauseClearedAnyway(j, o) == o.on = {}

\* An external pause waits for an idle controller, a user's pause for the user.
ExternalPauseCleared(j, o) == o.on = {} /\ j.reason = "none"

\* async_handle_zone_state
HandleZone(e) ==
  CASE jrn.state \in {"watering", "reconciling"} -> ZoneEventDuringRun(e)
    [] jrn.state = "inter_zone_gap" -> ZoneEventDuringGap(e)
    [] \/ jrn.state = "paused_external" /\ ExternalPauseCleared(jrn, e.obs)
       \/ jrn.state = "paused_sensor" /\ PauseCleared(jrn, e.obs) ->
         ResumeOrExpire("event")
    [] OTHER -> UNCHANGED <<jrn, timer, hold, mem>>

\* async_handle_sensor_state
HandleSensor(e) ==
  IF jrn.state = "paused_sensor" /\ PauseCleared(jrn, e.obs)
  THEN ResumeOrExpire("event")
  ELSE UNCHANGED <<jrn, timer, hold, mem>>

\* async_handle_weather_state: a freeze stops the zone that is running.
HandleWeather(e) ==
  IF jrn.state = "watering" /\ SkipFreezing /\ FreezeActive(e.obs)
  THEN SendStop(jrn, "freeze")
  ELSE HandleSensor(e)

Serve(kind) ==
  /\ hold = Free
  /\ inbox # <<>> /\ Head(inbox).kind = kind
  /\ inbox' = Tail(inbox)
  /\ lastObs' = Head(inbox).obs
  /\ UNCHANGED <<env, history>>

ServeZone    == Serve("zone") /\ HandleZone(Head(inbox))
ServeSensor  == Serve("sensor") /\ HandleSensor(Head(inbox))
ServeWeather == Serve("weather") /\ HandleWeather(Head(inbox))

\* A start that has waited may come too late: the controller is busy, or its
\* occurrence was finished meanwhile.
ServeStart ==
  /\ hold = Free
  /\ inbox # <<>> /\ Head(inbox).kind = "start"
  /\ inbox' = Tail(inbox)
  /\ IF Active \/ Head(inbox).occ \in jrn.done
     THEN UNCHANGED <<jrn, timer, hold, mem>>
     ELSE Start(Head(inbox).occ)
  /\ UNCHANGED <<env, lastObs, history>>

-----------------------------------------------------------------------------
(* Restart: async_recover on the persisted journal                         *)

Fresh == [ctx |-> "none", confirms |-> 0, stopTries |-> 0]

\* The records on disk: those an earlier restart read, and however many of
\* the later ones the delayed save reached.  An unload saves them all.
SavedHistory(n) == [k \in 1 .. n |-> [history[k] EXCEPT !.saved = TRUE]]

\* A crash or an unload: only the journal and the saved history survive.
Crash ==
  /\ "crash" \in Faults
  /\ hold.at # "down"
  /\ Disturbs
  /\ hold' = At("down", "none")
  /\ mem' = Fresh
  /\ inbox' = <<>>
  /\ Disarm
  /\ \E n \in 0 .. Len(history) :
       /\ \A k \in DOMAIN history : history[k].saved => k <= n
       /\ history' = SavedHistory(n)
  /\ UNCHANGED <<world, lastObs, jrn>>

\* _complete_or_expire_step
CompleteOrExpire(j) ==
  IF now - j.end <= MissedTolerance
  THEN Complete(j, j.end)
  ELSE Finish(SkipRemaining(EndStep(j, j.idx, "completed")), "completed_with_skips")

\* Seeded fault: the switch decides instead of the commanded clock.
RecoverWateringByState ==
  /\ jrn.state = "watering"
  /\ IF now < jrn.end /\ Zone(jrn) \in Observation.on
     THEN Release /\ Arm("expected_end", jrn.end) /\ UNCHANGED <<jrn, mem>>
     ELSE CompleteOrExpire(jrn)

\* The commanded clock decides: an idle switch may simply be stale.
RecoverWatering ==
  /\ jrn.state = "watering"
  /\ IF now < jrn.end
     THEN Release /\ Arm("expected_end", jrn.end) /\ UNCHANGED <<jrn, mem>>
     ELSE IF Zone(jrn) \in Observation.on
     THEN Complete(jrn, jrn.end)
     ELSE CompleteOrExpire(jrn)

\* Reconciling with the step running: the zone has watered already.
RecoverEndReconcile ==
  /\ jrn.state = "reconciling" /\ Current(jrn) = "running"
  /\ IF Zone(jrn) \in Observation.on
     THEN IF jrn.end <= now THEN EnterOverrun(jrn) ELSE ResumeWatering(jrn)
     ELSE IF jrn.end <= now THEN CompleteOrExpire(jrn)
                            ELSE ClassifyEarlyEnd(jrn, Observation, mem)

\* Before or during a start: accepted if the zone is on, else sent again.
RecoverStart ==
  /\ \/ jrn.state \in {"waiting", "starting"}
     \/ jrn.state = "reconciling" /\ Current(jrn) # "running"
  /\ IF Zone(jrn) \in Observation.on
     THEN AcceptStart([jrn EXCEPT !.state = "watering"])
     ELSE IF now <= LatestStart(jrn)
     THEN /\ jrn' = [jrn EXCEPT !.state = "waiting"]
          /\ hold' = At("start", "none")
          /\ UNCHANGED <<timer, mem>>
     ELSE EndEarly(jrn, "completed_with_skips")

\* Seeded fault: external activity is checked before the stop.
StopPersistedUnlessExternal(o) ==
  jrn.stopReq /\ ExternalZones(jrn, o) \ {Zone(jrn)} = {}

\* A persisted stop comes before the check for external activity.
StopPersisted(o) == jrn.stopReq

Recover ==
  /\ hold.at = "down" /\ Active
  /\ lastObs' = Observation
  /\ IF StepsOf(jrn) = <<>>
     THEN Finish(jrn, "completed_with_skips")
     ELSE IF StopPersisted(Observation)
     THEN Finish(SkipRemaining(jrn), "aborted_user")
     ELSE IF ExternalZones(jrn, Observation) \ {Zone(jrn)} # {}
     THEN /\ jrn' = [jrn EXCEPT !.state = "paused_external",
                                !.pausedAt = IF @ = NoTime THEN now ELSE @]
          /\ Release
          /\ UNCHANGED <<timer, mem>>
     ELSE \/ RecoverWatering
          \/ RecoverEndReconcile
          \/ RecoverStart
          \/ /\ jrn.state = "inter_zone_gap"
             /\ ArmGap(jrn)
             /\ Release
             /\ UNCHANGED <<jrn, mem>>
          \/ /\ jrn.state \in Paused
             /\ Release
             /\ UNCHANGED <<jrn, timer, mem>>
  /\ UNCHANGED <<env, inbox, history>>

RecoverIdle ==
  /\ hold.at = "down" /\ ~Active
  /\ Release
  /\ UNCHANGED <<env, lastObs, jrn, timer, inbox, mem, history>>

-----------------------------------------------------------------------------
(* The environment: the clock, the zone switches, the weather               *)

\* A callback or a journal write takes no time on this clock; a driver call
\* may take any time, and so may a restart.
Tick ==
  /\ now < MaxTime
  /\ \/ hold.at \in {"startcall", "stopcall", "down"}
     \/ hold = Free /\ inbox = <<>> /\ ~(timer.kind # "none" /\ timer.at <= now)
  /\ now' = now + 1
  /\ UNCHANGED <<src, left, wx, lastObs, jrn, timer, inbox, hold, mem, history>>

\* One zone entity changes state: our own command, somebody else's, or a late
\* poll.  The snapshot is built then.
ZoneReports(z, s) ==
  /\ Disturbs
  /\ src[z].st # s
  /\ src' = [src EXCEPT ![z] = [st |-> s, at |-> IF s = "on" THEN now ELSE 0]]
  /\ Enqueue([kind |-> "zone", zone |-> z, on |-> (s = "on"), at |-> now,
              obs |-> Snapshot(src', wx)])
  /\ UNCHANGED <<now, wx, lastObs, jrn, timer, hold, mem, history>>

\* A poll that confirms a zone is still on: no event, a newer report time.
ZoneReconfirmed(z) ==
  /\ Disturbs
  /\ src[z].st = "on" /\ src[z].at < now
  /\ src' = [src EXCEPT ![z].at = now]
  /\ UNCHANGED <<now, wx, lastObs, jrn, timer, inbox, hold, mem, history>>

WeatherChanges(w) ==
  /\ Disturbs
  /\ wx # w
  /\ wx' = w
  /\ CASE w.temp # wx.temp -> Enqueue([kind |-> "weather", obs |-> Snapshot(src, w)])
       [] w.temp = wx.temp /\ w.rain # wx.rain ->
            Enqueue([kind |-> "sensor", obs |-> Snapshot(src, w)])
       [] OTHER -> UNCHANGED inbox
  /\ UNCHANGED <<now, src, lastObs, jrn, timer, hold, mem, history>>

-----------------------------------------------------------------------------
Init ==
  /\ now = 0
  /\ src = [z \in Zones |-> [st |-> "off", at |-> 0]]
  /\ left = MaxDisturbances
  /\ wx \in Weathers
  /\ lastObs = Observation
  /\ jrn = IdleJournal({})
  /\ timer = NoTimer
  /\ inbox = <<>>
  /\ hold = Free
  /\ mem = Fresh
  /\ history = <<>>

Methods == (\E o \in Occurrences : StartRun(o)) \/ RefusedRequest
           \/ Stop \/ Pause \/ Resume \/ SkipCurrent
Returns == StartAccepted \/ StartRejected \/ StartUncertain
           \/ StopConfirmed \/ StopUncertain
Goes    == Advance \/ RestartStep \/ StopDone \/ PauseDone \/ SkipDone
           \/ FreezeCutDone \/ OverrunStopped \/ RetryStopDone
           \/ CompleteLate \/ FinishReset
Timers  == OnExpectedEnd \/ OnGap \/ ConfirmOverrun \/ ConfirmEarlyEnd
           \/ ClassifyUncertain \/ RetryStep \/ RetryUncertainStop
Events  == ServeZone \/ ServeSensor \/ ServeWeather
Queued  == (\E o \in Occurrences : StartWaits(o)) \/ ServeStart
Restart == Crash \/ Recover \/ RecoverIdle
Source  == \/ \E z \in Zones, s \in SourceStates : ZoneReports(z, s)
           \/ \E z \in Zones : ZoneReconfirmed(z)
           \/ \E w \in Weathers : WeatherChanges(w)

Next == \/ Methods \/ Queued \/ Returns \/ Goes \/ Timers \/ Events
        \/ Restart \/ Source \/ Tick

Spec == Init /\ [][Next]_vars

-----------------------------------------------------------------------------
(* Properties *)

Results  == [status : Statuses, end : Int, att : Nat]
Commands == [type : {"none", "start", "stop"},
             disp : {"none", "intended", "sent", "accepted", "rejected", "uncertain"},
             at : Int]
StepIndexes(o) == IF o = NoOcc THEN {} ELSE DOMAIN Plans[o].steps

IsJournal(j) ==
  /\ j \in [state : States, occ : Occurrences \cup {NoOcc}, idx : Nat,
            res : [StepIndexes(j.occ) -> Results], cmd : Commands, end : Int,
            stopReq : BOOLEAN, reason : {"none", "user", "low_temperature"},
            pausedAt : Int, done : SUBSET Occurrences]
  /\ j.state = "idle" <=> j.occ = NoOcc
  /\ j.idx \in StepIndexes(j.occ) \/ StepIndexes(j.occ) = {}

SourceEvents == [kind : {"zone"}, zone : Zones, on : BOOLEAN, at : Time, obs : Observations]
                \cup [kind : {"sensor", "weather"}, obs : Observations]
Waiting == SourceEvents \cup [kind : {"start"}, occ : Occurrences]

TimerRec == [kind : TimerKinds \cup {"none"}, at : Int]
HoldRec  == [at : {"free", "advance", "start", "startcall", "stopcall", "stopped",
                   "complete", "finishing", "down"},
             op : {"none", "user", "event", "stop", "pause", "skip", "freeze",
                   "overrun", "retry_stop"},
             out : Outcomes \cup {"none"}]
MemRec   == [ctx : {"none", "start", "overrun", "early_end"},
             confirms : 0 .. 1, stopTries : 0 .. Len(StopDelays)]

\* Types.  An occurrence is claimed exactly while the run is active, and as
\* long as it is, the journal has one result per planned step and a current
\* step that is one of them.
TypeOK ==
  /\ now \in Time
  /\ src \in [Zones -> [st : {"on", "off", "unusable"}, at : Time]]
  /\ left \in 0 .. MaxDisturbances
  /\ wx \in Weathers
  /\ lastObs \in Observations
  /\ IsJournal(jrn)
  /\ timer \in TimerRec
  /\ inbox \in Seq(Waiting) /\ Len(inbox) <= MaxInbox
  /\ hold \in HoldRec
  /\ mem \in MemRec

\* Whenever the lock is free, the one armed timer is the one that moves the
\* journal's state on: no interleaving of methods, callbacks, events, failing
\* commands and restarts leaves an active run with nothing left to wake it,
\* or a timer of a state the run has left.  A paused run waits for an event
\* or for the user; at most a stop is being retried for it.
TimerMatchesState ==
  hold = Free =>
    CASE jrn.state = "idle"           -> timer.kind = "none"
      [] jrn.state = "watering"       -> timer.kind = "expected_end" /\ timer.at = jrn.end
      [] jrn.state = "inter_zone_gap" -> timer.kind = "gap"
      [] jrn.state = "reconciling"    ->
           \/ mem.ctx = "start" /\ timer.kind \in {"classify", "retry_step"}
           \/ mem.ctx \in {"overrun", "early_end"} /\ timer.kind = mem.ctx
      [] jrn.state \in Paused         -> timer.kind \in {"none", "retry_stop"}
      [] OTHER                        -> FALSE

\* A step that is recorded as running is the current one, and the run is in
\* a state that supervises it.
OnlyCurrentStepRuns ==
  \A k \in DOMAIN jrn.res : jrn.res[k].status = "running" =>
    /\ k = jrn.idx
    /\ jrn.state \in {"watering", "reconciling", "stopping"}

\* A start command is only ever sent for a step that has not been carried
\* out or given up, of an occurrence that has not been finished.
StartsOnlyPendingSteps ==
  hold.at = "startcall" =>
    /\ Current(jrn) = "pending"
    /\ jrn.occ \notin jrn.done

\* A restart never commands a step again that was completed before it.
CompletedStepsStayDone ==
  hold.at = "startcall" => Current(jrn) # "completed"

\* MAX_COMMAND_ATTEMPTS total sends per step, never more.
AttemptsBounded ==
  \A k \in DOMAIN jrn.res : jrn.res[k].att <= MaxAttempts

\* A persisted stop request is never undone: until the abort is finished, no
\* start is sent and the run is neither paused nor resumed.
StopWins ==
  jrn.stopReq /\ Active =>
    /\ hold.at \in {"stopcall", "stopped", "finishing", "down"}
    /\ jrn.state = "stopping"

\* paused_at_utc and paused_reason describe the pause the run is in: they are
\* clear while it is not paused, and a freeze is the reason of a sensor pause
\* only, because an external pause with a reason waits for the user.
PauseBookkeeping ==
  hold = Free =>
    /\ jrn.state \notin Paused => jrn.pausedAt = NoTime /\ jrn.reason = "none"
    /\ jrn.state \in Paused => jrn.pausedAt # NoTime
    /\ jrn.reason = "low_temperature" => jrn.state = "paused_sensor"

\* A finished run reports what its steps say: COMPLETED means all of them
\* were, and no step is left pending or running in the record.
HistoryIsFinal ==
  \A n \in DOMAIN history :
    /\ history[n].steps \subseteq Terminal
    /\ history[n].out = "completed" => history[n].steps \subseteq {"completed"}

\* No occurrence is recorded twice, restarts included, and none that may be
\* launched again is in the history.  Nothing but a crash loses a record.
OneRecordPerOccurrence ==
  LET recorded == {history[n].occ : n \in DOMAIN history}
  IN  /\ Cardinality(recorded) = Len(history)
      /\ recorded \subseteq jrn.done
      /\ hold = Free /\ ~Active /\ "crash" \notin Faults => jrn.done = recorded

\* While a stop of an active run is unconfirmed and has retries left, a retry
\* is armed.
UncertainStopIsRetried ==
  hold = Free /\ Active /\ jrn.cmd.type = "stop" /\ jrn.cmd.disp = "uncertain"
    /\ mem.stopTries < Len(StopDelays)
  => timer.kind = "retry_stop"

\* The primary clock: a step is recorded as completed only when its commanded
\* window is over, within the early-end tolerance.
CompletesOnTheClock ==
  [][\A k \in DOMAIN jrn.res \cap DOMAIN jrn'.res :
       jrn.res[k].status # "completed" /\ jrn'.res[k].status = "completed"
       => k = jrn.idx /\ jrn.end # NoTime /\ now >= jrn.end - EarlyTolerance]_vars

\* A step's outcome is final, except that a step completed on the clock is an
\* overrun when its zone is confirmed to be still on.
OutcomesAreFinal ==
  [][\A k \in DOMAIN jrn.res \cap DOMAIN jrn'.res :
       jrn.res[k].status \in Terminal =>
         \/ jrn'.res[k].status = jrn.res[k].status
         \/ jrn.res[k].status = "completed" /\ jrn'.res[k].status = "overrun_stopped"
            /\ hold.op = "overrun"]_vars

\* The gap timer never starts a soak step before its compiled start when the
\* step before it ran to its end.
SoakIsKept ==
  [][jrn.state = "inter_zone_gap" /\ hold = Free /\ hold'.at = "startcall"
     /\ Current(jrn) = "completed" /\ StepsOf(jrn)[jrn'.idx].soak
     => now >= StepsOf(jrn)[jrn'.idx].planned]_vars

\* A sensor pause is resumed by an event only into clear weather: neither wet
\* nor freezing, and out of a freeze only past the hysteresis.
SensorResumesWhenClear ==
  [][jrn.state = "paused_sensor" /\ hold'.op = "event"
     => /\ lastObs'.rain # "wet" /\ ~FreezeActive(lastObs')
        /\ jrn.reason = "low_temperature" => lastObs'.temp = "warm"]_vars

\* A user's pause ends only by the user: no event and no restart resumes it.
UserPauseHolds ==
  [][jrn.state \in Paused /\ jrn.reason = "user"
     /\ (inbox' # inbox \/ hold.at = "down")
     => jrn'.state \in Paused /\ jrn'.reason = "user"]_vars

\* The executor keeps the promise of RunLifecycle with the journal it has on
\* disk: through crashes, restarts, stops and expired resumes, an occurrence
\* has the controller until it is a finished one, and never again
\* (completed_occurrences, async_start_run, _finish_run, async_recover).
Lifecycle == INSTANCE RunLifecycle WITH
  Nobody <- NoOcc, active <- jrn.occ, finished <- jrn.done

ImplementsLifecycle == Lifecycle!Spec
=============================================================================
