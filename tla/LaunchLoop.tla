----------------------------- MODULE LaunchLoop -----------------------------
(***************************************************************************)
(* The coordinator's launch loop (coordinator.py) over the occurrences the *)
(* recurrence engine finds: recompiling the timeline, the one launch       *)
(* timer, the one retry timer of the launches that have to wait, expiry,   *)
(* skips, configuration changes and restarts, and the executor's lock and  *)
(* journal as far as a launch meets them.                                  *)
(*                                                                         *)
(* Everything runs in one event loop.  A recalculation, and a launch up to *)
(* the executor's lock, await nothing that suspends, so each is one step;  *)
(* another step can come in wherever the code awaits the lock, a driver    *)
(* call, or a write of the journal or of the configuration.  The clock     *)
(* counts minutes: whatever is due is handled before the next one.         *)
(*                                                                         *)
(* An operator marked "seeded fault" is no part of the specification.      *)
(***************************************************************************)
EXTENDS Recurrence, FiniteSetsExt, Functions

CONSTANTS
  Programs,        \* program ids, ordered as their texts are
  Initial,         \* the programs that exist at first, with their schedules
  Edits,           \* schedules a user may give a program: [rule, enabled]
  Block,           \* program -> minutes its run and the gap behind it take
  Priority,        \* program -> priority
  SkipLate,        \* programs whose missed-run policy is SKIP
  Tolerance,       \* missed_run_tolerance_minutes
  Retry,           \* LAUNCH_RETRY_SECONDS
  Horizon,         \* PLAN_HORIZON_DAYS
  Native,          \* the authority mode is NATIVE_AUTHORITATIVE
  \* policies the preconditions read
  SkipWhenWet, HonorDelay, GuardEnabled, SkipFreezing, BlockUnknown,
  Observations,    \* what the source may report
  UserOps,         \* subset of {"manual", "stop", "recalculate", "enable", "edit",
                   \*            "create", "delete", "crash"}
  NoRun, ManualRun,
  MaxTime,         \* bound of the clock
  MaxDisturbances  \* bound on what users do, and on crashes

Occurrence == [prog : Programs, at : Int]
NoTimer    == [kind |-> "none"]
Never      == -1

ASSUME LaunchAssumption ==
  /\ Programs \subseteq Int /\ IsFiniteSet(Programs) /\ SkipLate \subseteq Programs
  /\ Block \in [Programs -> Nat] /\ Priority \in [Programs -> Int]
  /\ {Tolerance, Horizon, MaxTime, MaxDisturbances} \subseteq Nat /\ Retry \in Nat \ {0}
  /\ Edits \subseteq [rule : Rules, enabled : BOOLEAN]
  /\ DOMAIN Initial \subseteq Programs
  /\ \A p \in DOMAIN Initial : Initial[p] \in [rule : Rules, enabled : BOOLEAN]
  /\ NoRun # ManualRun /\ {NoRun, ManualRun} \cap Occurrence = {}
ASSUME PreconditionAssumption ==
  /\ {SkipWhenWet, HonorDelay, GuardEnabled, SkipFreezing, BlockUnknown, Native} \subseteq BOOLEAN
  /\ Observations \subseteq [avail : BOOLEAN, delay : BOOLEAN, rain : {"wet", "dry"},
                             temp : {"cold", "warm", "unknown"}, on : BOOLEAN]

VARIABLES
  now, up, left,   \* the clock; Home Assistant runs; disturbances left
  enabled,         \* the controller's switch
  programs,        \* the programs: their schedule and its stamp
  timeline,        \* compiled runs: an occurrence and its planned launch
  armed,           \* the launch timer
  retry, retryAt,  \* the launches that wait, and the retry timer
  due,             \* launches the retry timer has still to make, and the verdict for them
  waiters,         \* launches that wait for the executor's lock
  lock,            \* who holds it: nobody, a start, the end of a run
  launching,       \* a scheduled launch has not come back from the executor
  active, done,    \* the journal: claimed occurrence, finished occurrences
  saved,           \* the journal on disk
  stored, dirty,   \* the configuration on disk; a change of it is being saved
  midnight,        \* the daily recompile is due
  launched, skipped, \* history: claimed, and recorded as skipped
  asked            \* history: occurrences scheduled when their time came

config  == <<enabled, programs, stored, dirty>>
journal == <<active, done, launched, skipped>>
timers  == <<timeline, armed, retry, retryAt>>
locking == <<waiters, lock, launching>>
outside == <<now, up, midnight>>
launch  == <<config, journal, timers, locking, outside, due, saved, asked, left>>
vars    == <<expansion, launch>>

-----------------------------------------------------------------------------
(* evaluate_preconditions *)

\* Reasons that waiting is not expected to clear ...
Permanent(obs) ==
  \/ ~enabled \/ Native
  \/ obs.avail /\ \/ HonorDelay /\ obs.delay
                  \/ SkipWhenWet /\ obs.rain = "wet"
                  \/ GuardEnabled /\ SkipFreezing /\ obs.temp = "cold"

\* ... and those it may clear, where none of the others holds.
Transient(obs) ==
  \/ ~obs.avail
  \/ GuardEnabled /\ SkipFreezing /\ BlockUnknown /\ obs.temp = "unknown"
  \/ obs.on

\* What the readings come to.
Verdict(obs) == IF Permanent(obs) THEN "skip" ELSE IF Transient(obs) THEN "wait" ELSE "launch"
Verdicts == {Verdict(obs) : obs \in Observations}

-----------------------------------------------------------------------------
(* The compiled timeline *)

Exists(p) == programs[p].life = "live"

\* start_of_local_day
DayStart == Utc(LocalDay(now) * DayLength, 0)

\* Seeded fault: the stamp of the edit is not looked at.
AfterAny(p, t) == TRUE

\* An edited schedule has no occurrences before its edit.
AfterStamp(p, t) == \A s \in programs[p].stamp : t >= s

\* What occurrences_between returns for the programs.
Candidates(from, to) ==
  UNION {{[prog |-> p, at |-> t] :
            t \in {i \in OccurrencesBetween(programs[p].rule, from, to) : AfterStamp(p, i)}} :
           p \in {q \in Programs : Exists(q) /\ programs[q].enabled}}

\* The order in which runs claim the controller, and that of timeline.runs.
ClaimsBefore(o, q) ==
  \/ o.at < q.at
  \/ o.at = q.at /\ Priority[o.prog] < Priority[q.prog]
  \/ o.at = q.at /\ Priority[o.prog] = Priority[q.prog] /\ o.prog < q.prog
ListedBefore(o, q) == o.at < q.at \/ (o.at = q.at /\ o.prog < q.prog)

\* The time that the runs from q up to, and without, o take.
BlockedFrom(q, o, occs) ==
  LET between == {r \in occs : ~ClaimsBefore(r, q) /\ ClaimsBefore(r, o)}
  IN  SumFunctionOnSet([r \in between |-> Block[r.prog]], between)

\* Runs are laid out in the order of their claims, each behind the one before
\* it: what holds a run up is some run before it and all in between.
PlannedStart(o, occs) ==
  Max({q.at + BlockedFrom(q, o, occs) : q \in {r \in occs : ~ClaimsBefore(o, r)}})

\* compile_timeline: a late run of a program with the SKIP policy is left out
\* once all are laid out.
Compile(occs) ==
  {run \in {[occ |-> o, planned |-> PlannedStart(o, occs)] : o \in occs} :
     run.occ.prog \in SkipLate => run.planned <= run.occ.at + Tolerance}

\* The window starts with today.  (Bound by a set, so that TLC evaluates the
\* candidates once.)
Plan == UNION {Compile(occs) : occs \in {Candidates(DayStart, now + Horizon)}}

\* _launch_deadline
Deadline(run) ==
  Tolerance + IF run.occ.prog \in SkipLate /\ Exists(run.occ.prog)
              THEN run.occ.at ELSE run.planned

\* _occurrence_launch_deadline
DeadlineOf(o) ==
  IF \E run \in timeline : run.occ = o
  THEN Deadline(CHOOSE run \in timeline : run.occ = o)
  ELSE o.at + Tolerance

-----------------------------------------------------------------------------
(* Arming *)

Automatic == enabled /\ ~Native

\* Seeded fault: a finished occurrence is armed again.
PendingAgain(plan, d, a, w) ==
  {run \in plan : run.occ \notin w \cup {a} /\ now <= Deadline(run)}

Pending(plan, d, a, w) ==
  {run \in plan : run.occ \notin d \cup w \cup {a} /\ now <= Deadline(run)}

TimerFor(run) == [kind |-> "launch", occ |-> run.occ, at |-> Larger(run.planned, now)]

\* next_pending_run takes the first in the order of the list.
Armed(pending) ==
  IF ~Automatic \/ pending = {} THEN NoTimer
  ELSE TimerFor(CHOOSE run \in pending :
                  \A other \in pending : ~ListedBefore(other.occ, run.occ))

\* Seeded fault: nothing expires.
StaleNever(plan, d, a) == {}

\* _expire_stale_occurrences
Stale(plan, d, a) ==
  {run.occ : run \in {r \in plan : /\ Automatic
                                   /\ r.occ \notin d \cup {a}
                                   /\ Exists(r.occ.prog)
                                   /\ now > Deadline(r)}}

\* The first that is recorded recalculates, and what the new window no longer
\* has is passed over from then on.
Recorded(stale) ==
  {o \in stale : \/ \A q \in stale : ~ListedBefore(q, o)
                 \/ o \in Candidates(DayStart, now + Horizon)}

\* _arm_next_occurrence, with the finished, active and waiting occurrences it
\* finds and the skips recorded so far.  Recording a skip recalculates within.
ArmNext(plan, d, a, w, s) ==
  \E fresh \in {IF Stale(plan, d, a) = {} THEN plan ELSE Plan} :
    \E stale \in {Recorded(Stale(plan, d, a)) \cup Stale(fresh, d, a)} :
      \E pending \in {Pending(fresh, d \cup stale, a, w \ stale)} :
        /\ timeline' = fresh
        /\ done' = d \cup stale
        /\ skipped' = s \cup stale
        /\ retry' = w \ stale
        /\ armed' = Armed(pending)

\* async_recalculate
Recalculate(d, a, w, s) == \E plan \in {Plan} : ArmNext(plan, d, a, w, s)
Recompile == Recalculate(done, active, retry, skipped)

-----------------------------------------------------------------------------
(* Launching *)

Free     == "free"
IsActive == active # NoRun
Unsaved  == saved # [active |-> active, done |-> done]

\* Seeded faults: each launch that waits puts the retry off ...
ArmRetryLater(o) ==
  /\ retryAt' = Larger(retryAt, now) + Retry
  /\ ArmNext(timeline, done, active, retry \cup {o}, skipped)
  /\ UNCHANGED <<active, launched>>

\* ... or leaves the launch timer to somebody else.
ArmRetryAlone(o) ==
  /\ retryAt' = IF retryAt = Never THEN now + Retry ELSE retryAt
  /\ retry' = retry \cup {o} /\ armed' = NoTimer
  /\ UNCHANGED <<active, launched, timeline, done, skipped>>

\* _arm_launch_retry: one timer serves all launches that wait.
ArmRetry(o) ==
  /\ retryAt' = IF retryAt = Never THEN now + Retry ELSE retryAt
  /\ ArmNext(timeline, done, active, retry \cup {o}, skipped)
  /\ UNCHANGED <<active, launched>>

\* Seeded fault: the skip does not make the occurrence a finished one.
SkipUnfinished(o) ==
  /\ Recalculate(done, active, retry, skipped \cup {o})
  /\ UNCHANGED <<active, launched, retryAt>>

\* _record_occurrence_skip, and the recalculation that follows it.
Skip(o) ==
  /\ Recalculate(done \cup {o}, active, retry, skipped \cup {o})
  /\ UNCHANGED <<active, launched, retryAt>>

WaitOrSkip(o, late) == (~late /\ ArmRetry(o)) \/ (late /\ Skip(o))

\* Nothing to launch: back to the timeline.
Return == Recompile /\ UNCHANGED <<active, launched, retryAt>>

\* async_start_run up to its first write: the occurrence has the controller.
Claim(o, queue) ==
  /\ ~IsActive /\ o \notin done
  /\ active' = o /\ launched' = launched \cup {o}
  /\ lock' = "start" /\ launching' = TRUE /\ waiters' = queue
  /\ UNCHANGED <<done, skipped, timeline, retry, retryAt>>

\* Worth a launch: the program exists, the occurrence is not behind us.
Launchable(o) == Exists(o.prog) /\ o \notin done /\ o # active

\* _launch_occurrence with the verdict on a reading of the source, up to what
\* it awaits; `t' is the launch timer.
Launch(o, verdict, t) ==
  LET late == now > DeadlineOf(o)
  IN  \/ /\ ~Launchable(o)
         /\ Return /\ UNCHANGED locking
      \/ /\ Launchable(o) /\ (IsActive \/ verdict = "wait")
         /\ WaitOrSkip(o, late) /\ UNCHANGED locking
      \/ /\ Launchable(o) /\ ~IsActive
         /\ verdict = "skip" \/ (verdict = "launch" /\ ~programs[o.prog].enabled)
         /\ Skip(o) /\ UNCHANGED locking
      \/ /\ Launchable(o) /\ verdict = "launch" /\ programs[o.prog].enabled
         /\ lock = Free /\ waiters = <<>> /\ Claim(o, waiters)
         /\ armed' = t
      \/ /\ Launchable(o) /\ ~IsActive /\ verdict = "launch" /\ programs[o.prog].enabled
         /\ lock # Free \/ waiters # <<>>
         /\ waiters' = Append(waiters, [occ |-> o, late |-> late])
         /\ armed' = t
         /\ UNCHANGED <<journal, timeline, retry, retryAt, lock, launching>>

Ready == Expanded /\ up /\ due = {}

\* The launch timer fires.
Fire ==
  /\ Ready /\ armed.kind = "launch" /\ armed.at <= now
  /\ \E verdict \in Verdicts : Launch(armed.occ, verdict, NoTimer)
  /\ UNCHANGED <<config, outside, due, saved, asked, left>>

\* The retry timer fires; its launches follow in the same callback.
RetryFires ==
  /\ Ready /\ retryAt # Never /\ retryAt <= now
  /\ \E verdict \in Verdicts : due' = {[occ |-> o, verdict |-> verdict] : o \in retry}
  /\ retry' = {} /\ retryAt' = Never
  /\ UNCHANGED <<config, journal, timeline, armed, locking, outside, saved, asked, left>>

Relaunch ==
  /\ up /\ due # {}
  /\ \E d \in due : Launch(d.occ, d.verdict, armed) /\ due' = due \ {d}
  /\ UNCHANGED <<config, outside, saved, asked, left>>

-----------------------------------------------------------------------------
(* The executor, as far as launches meet it *)

ClaimManually(queue) ==
  /\ active' = ManualRun /\ lock' = "start" /\ waiters' = queue
  /\ UNCHANGED <<done, launched, skipped, timers, launching>>

\* The lock comes to a launch that waited for it.
GrantedToLaunch ==
  /\ Ready /\ lock = Free /\ waiters # <<>> /\ Head(waiters).occ # ManualRun
  /\ LET w == Head(waiters)
     IN  \/ /\ IsActive
            /\ WaitOrSkip(w.occ, w.late)
            /\ waiters' = Tail(waiters) /\ UNCHANGED <<lock, launching>>
         \/ /\ ~IsActive /\ w.occ \in done
            /\ Return
            /\ waiters' = Tail(waiters) /\ UNCHANGED <<lock, launching>>
         \/ Claim(w.occ, Tail(waiters)) /\ UNCHANGED armed
  /\ UNCHANGED <<config, outside, due, saved, asked, left>>

\* ... or to a request, which is refused while a run is active.
GrantedToRequest ==
  /\ Ready /\ lock = Free /\ waiters # <<>> /\ Head(waiters).occ = ManualRun
  /\ \/ ~IsActive /\ ClaimManually(Tail(waiters))
     \/ /\ IsActive /\ waiters' = Tail(waiters)
        /\ UNCHANGED <<journal, timers, lock, launching>>
  /\ UNCHANGED <<config, outside, due, saved, asked, left>>

JournalWritten ==
  /\ Ready /\ Unsaved
  /\ saved' = [active |-> active, done |-> done]
  /\ UNCHANGED <<config, journal, timers, locking, outside, due, asked, left>>

\* A scheduled launch that comes back from the executor recalculates.
Returned ==
  /\ launching' = FALSE
  /\ \/ launching /\ Return
     \/ ~launching /\ UNCHANGED <<journal, timers>>

\* async_start_run has sent the first command and returns.
Started ==
  /\ Ready /\ lock = "start" /\ saved.active = active
  /\ lock' = Free /\ Returned
  /\ UNCHANGED <<config, waiters, outside, due, saved, asked, left>>

\* The run ends: its occurrence is a finished one ...
RunEnds ==
  /\ Ready /\ IsActive /\ ~Unsaved
  /\ lock = "start" \/ (lock = Free /\ waiters = <<>>)
  /\ done' = done \cup ({active} \ {ManualRun})
  /\ lock' = "finishing"
  /\ UNCHANGED <<config, active, launched, skipped, timers, waiters, launching,
                 outside, due, saved, asked, left>>

\* ... and, once that is on disk, gives up the controller.  The event of an
\* interrupted run does not recalculate.
RunReleased ==
  /\ Ready /\ lock = "finishing" /\ ~Unsaved
  /\ active' = NoRun /\ lock' = "tail"
  /\ \/ Recompile /\ UNCHANGED <<launched, retryAt>>
     \/ UNCHANGED <<done, launched, skipped, timers>>
  /\ UNCHANGED <<config, waiters, launching, outside, due, saved, asked, left>>

\* The last write of the end of a run.
TailWritten ==
  /\ Ready /\ lock = "tail" /\ ~Unsaved
  /\ lock' = Free /\ Returned
  /\ UNCHANGED <<config, waiters, outside, due, saved, asked, left>>

\* async_stop without a run comes back from the driver.
StopReturns ==
  /\ Ready /\ lock = "stop"
  /\ lock' = Free
  /\ UNCHANGED <<config, journal, timers, waiters, launching, outside, due, saved, asked, left>>

-----------------------------------------------------------------------------
(* Users, the source and the clock *)

Disturbs(op) == op \in UserOps /\ left > 0 /\ left' = left - 1

\* async_run_program, async_run_zones
Request ==
  /\ Ready /\ Disturbs("manual")
  /\ \/ lock = Free /\ waiters = <<>> /\ ~IsActive /\ ClaimManually(waiters)
     \/ /\ lock # Free \/ waiters # <<>>
        /\ waiters' = Append(waiters, [occ |-> ManualRun, late |-> FALSE])
        /\ UNCHANGED <<journal, timers, lock, launching>>
  /\ UNCHANGED <<config, outside, due, saved, asked>>

\* async_stop without a run holds the lock over a driver call.
StopIdle ==
  /\ Ready /\ Disturbs("stop") /\ lock = Free /\ waiters = <<>> /\ ~IsActive
  /\ lock' = "stop"
  /\ UNCHANGED <<config, journal, timers, waiters, launching, outside, due, saved, asked>>

\* The service, or a change of the home's location.
RecalculateNow ==
  /\ Ready /\ Disturbs("recalculate") /\ Return
  /\ UNCHANGED <<config, locking, outside, due, saved, asked>>

Asks(p, rule, when) ==
  {[prog |-> p, at |-> i.at] : i \in {j \in instants : j.key.rule = rule /\ j.at \in when}}

Changed == dirty' = TRUE /\ UNCHANGED <<stored, journal, timers, locking, outside, due, saved>>

\* async_set_enabled
SetEnabled ==
  /\ Ready /\ Disturbs("enable") /\ ~dirty
  /\ enabled' = ~enabled
  /\ Changed /\ UNCHANGED <<programs, asked>>

\* A changed schedule is stamped with the time of the change.
Stamp(p, e) == IF e.rule = programs[p].rule THEN programs[p].stamp ELSE {now}

\* async_update_program
UpdateProgram(p, e) ==
  /\ Ready /\ Disturbs("edit") /\ ~dirty
  /\ Exists(p) /\ [rule |-> programs[p].rule, enabled |-> programs[p].enabled] # e
  /\ programs' = [programs EXCEPT ![p] = [life |-> "live", rule |-> e.rule,
                                          enabled |-> e.enabled, stamp |-> Stamp(p, e)]]
  /\ asked' = asked \cup Asks(p, e.rule, {now})
  /\ Changed /\ UNCHANGED enabled

\* async_create_program: starts of today that have passed are caught up with.
CreateProgram(p, e) ==
  /\ Ready /\ Disturbs("create") /\ ~dirty
  /\ programs[p].life = "new"
  /\ programs' = [programs EXCEPT ![p] = [life |-> "live", rule |-> e.rule,
                                          enabled |-> e.enabled, stamp |-> {}]]
  /\ asked' = asked \cup Asks(p, e.rule, {i.at : i \in {j \in instants : j.at <= now}})
  /\ Changed /\ UNCHANGED enabled

\* async_delete_program
DeleteProgram(p) ==
  /\ Ready /\ Disturbs("delete") /\ ~dirty
  /\ Exists(p)
  /\ programs' = [programs EXCEPT ![p] = [@ EXCEPT !.life = "deleted"]]
  /\ Changed /\ UNCHANGED <<enabled, asked>>

\* _persist_config comes back from the write.
ConfigSaved ==
  /\ Ready /\ dirty
  /\ stored' = [enabled |-> enabled, programs |-> programs]
  /\ dirty' = FALSE /\ Return
  /\ UNCHANGED <<enabled, programs, locking, outside, due, saved, asked, left>>

\* _daily_recompile
DailyRecompile ==
  /\ Ready /\ midnight
  /\ midnight' = FALSE /\ Return
  /\ UNCHANGED <<config, locking, now, up, due, saved, asked, left>>

\* Home Assistant stops at once: what is left is the journal and the
\* configuration on disk.  The history follows the journal: a claim that is not
\* on disk has sent no command yet, and a skip that is not is forgotten.
Crash ==
  /\ Expanded /\ up /\ Disturbs("crash")
  /\ up' = FALSE /\ midnight' = FALSE /\ dirty' = FALSE
  /\ timeline' = {} /\ armed' = NoTimer /\ retry' = {} /\ retryAt' = Never
  /\ due' = {} /\ waiters' = <<>> /\ lock' = Free /\ launching' = FALSE
  /\ active' = saved.active /\ done' = saved.done
  /\ launched' = launched \cap (saved.done \cup {saved.active})
  /\ skipped' = skipped \cap saved.done
  /\ enabled' = stored.enabled /\ programs' = stored.programs
  /\ UNCHANGED <<stored, now, saved, asked>>

\* async_setup: the recovered journal, and the first recalculation.
Setup ==
  /\ Expanded /\ ~up
  /\ up' = TRUE
  /\ Return
  /\ UNCHANGED <<config, locking, now, midnight, due, saved, asked, left>>

\* Nothing is due, and nobody waits for anything but a driver call, or for the
\* lock that is held over one.
Settled ==
  /\ Ready /\ ~dirty /\ ~midnight /\ ~Unsaved
  /\ lock \in {"start", "stop"} \/ (lock = Free /\ waiters = <<>>)
  /\ ~(armed.kind = "launch" /\ armed.at <= now)
  /\ retryAt = Never \/ retryAt > now

Tick ==
  /\ Expanded /\ now < MaxTime /\ (~up \/ Settled)
  /\ now' = now + 1
  /\ midnight' = (up /\ LocalDay(now + 1) # LocalDay(now))
  /\ asked' = asked \cup UNION {Asks(p, programs[p].rule, {now + 1}) : p \in {q \in Programs : Exists(q)}}
  /\ UNCHANGED <<config, journal, timers, locking, up, due, saved, left>>

-----------------------------------------------------------------------------
Init ==
  /\ ExpansionInit
  /\ now = 0 /\ up = FALSE /\ left = MaxDisturbances /\ midnight = FALSE
  /\ enabled = TRUE /\ dirty = FALSE
  /\ programs = [p \in Programs |->
       IF p \in DOMAIN Initial
       THEN [life |-> "live", rule |-> Initial[p].rule, enabled |-> Initial[p].enabled,
             stamp |-> {}]
       ELSE [life |-> "new", rule |-> 0, enabled |-> FALSE, stamp |-> {}]]
  /\ stored = [enabled |-> enabled, programs |-> programs]
  /\ timeline = {} /\ armed = NoTimer /\ retry = {} /\ retryAt = Never
  /\ due = {} /\ waiters = <<>> /\ lock = Free /\ launching = FALSE
  /\ active = NoRun /\ done = {} /\ saved = [active |-> NoRun, done |-> {}]
  /\ launched = {} /\ skipped = {} /\ asked = {}

\* What the event loop does by itself.
Loop ==
  \/ JournalWritten \/ StopReturns \/ RetryFires \/ GrantedToRequest
  \/ Setup \/ Fire \/ Relaunch \/ GrantedToLaunch
  \/ Started \/ RunReleased \/ TailWritten
  \/ ConfigSaved \/ DailyRecompile

Outside ==
  \/ RunEnds \/ Request \/ StopIdle \/ RecalculateNow \/ SetEnabled
  \/ \E p \in Programs, e \in Edits : UpdateProgram(p, e) \/ CreateProgram(p, e)
  \/ \E p \in Programs : DeleteProgram(p)
  \/ Crash

Next ==
  \/ Expand /\ UNCHANGED launch
  \/ (Loop \/ Outside \/ Tick) /\ UNCHANGED expansion

\* The event loop runs what is ready, and time goes on.
Fairness ==
  /\ WF_vars(Expand /\ UNCHANGED launch)
  /\ WF_vars(Loop /\ UNCHANGED expansion)
  /\ WF_vars(Tick /\ UNCHANGED expansion)

Spec == Init /\ [][Next]_vars /\ Fairness

-----------------------------------------------------------------------------
(* Properties *)

TypeOK ==
  /\ ExpansionTypeOK
  /\ now \in 0 .. MaxTime /\ left \in 0 .. MaxDisturbances
  /\ {up, enabled, dirty, midnight, launching} \subseteq BOOLEAN
  /\ programs \in [Programs -> [life : {"new", "live", "deleted"}, rule : Rules \cup {0},
                                enabled : BOOLEAN, stamp : SUBSET Int]]
  /\ ~dirty => stored = [enabled |-> enabled, programs |-> programs]
  /\ timeline \subseteq [occ : Occurrence, planned : Int]
  /\ armed = NoTimer \/ armed \in [kind : {"launch"}, occ : Occurrence, at : Int]
  /\ armed # NoTimer => armed.at >= now
  /\ {retry, done, launched, skipped, asked} \subseteq SUBSET Occurrence
  /\ due \subseteq [occ : Occurrence, verdict : {"skip", "wait", "launch"}]
  /\ retryAt \in {Never} \cup (now .. now + Retry)
  /\ waiters \in Seq([occ : Occurrence \cup {ManualRun}, late : BOOLEAN])
  /\ lock \in {"free", "start", "finishing", "tail", "stop"}
  /\ active \in Occurrence \cup {NoRun, ManualRun}
  /\ saved \in [active : Occurrence \cup {NoRun, ManualRun}, done : SUBSET Occurrence]

\* Nothing is in progress that ends with a recalculation.
InLoop == Settled /\ waiters = <<>> /\ ~launching /\ Automatic

\* An occurrence of the plan is finished, running, owned by the retry timer,
\* or still ahead with the launch timer armed no later than its launch: no
\* path through a launch, a skip, an edit, a restart or a midnight leaves one
\* behind without a timer (_arm_next_occurrence, _arm_launch_retry).  The plan
\* is the one a recompile would make now, which starts with today: a run that
\* was requested before midnight and is still pending is no longer in it.
NothingIsForgotten ==
  InLoop =>
    /\ retry # {} => retryAt # Never
    /\ \A run \in Plan : run.occ.at < DayStart + Horizon =>
         \/ run.occ \in done \cup retry \cup {active}
         \/ now < run.planned /\ armed.kind = "launch" /\ armed.at <= run.planned

\* At the latest one retry after its deadline an occurrence of the day has
\* been launched or recorded as skipped (_launch_deadline).
SettledInTime ==
  InLoop => \A run \in Plan :
    now > Deadline(run) + Retry => run.occ \in done \cup {active}

\* Starts that had passed when the model's clock began.
AskedBefore ==
  UNION {Asks(p, Initial[p].rule, {i.at : i \in {j \in instants : j.at <= 0}}) :
           p \in DOMAIN Initial}

\* Whatever was launched or recorded as missed was on a schedule when its
\* time came: an edit brings no starts from before it (schedule_updated_at).
NoPhantoms == launched \cup skipped \subseteq asked \cup AskedBefore

\* Whatever is claimed now was never claimed before, nor recorded as skipped.
ClaimIsNew ==
  up' /\ active' # active /\ active' \in Occurrence => active' \notin launched \cup skipped

\* An occurrence is claimed once, and not after it was recorded as skipped,
\* also when it was armed twice, waited twice for the lock, or its launch was
\* overtaken by a restart (completed_occurrences, async_start_run).
ClaimedOnce == [][ClaimIsNew]_vars

\* What record_run_skipped says of its records: they are of occurrences that
\* were skipped before they were claimed.
SkippedBeforeClaim == [][(skipped' \ skipped) \cap launched = {}]_vars

\* The expansion misses no start of the window: a day of padding is enough
\* for every offset of the zone and of the sun (occurrences_between).
WindowIsComplete ==
  Expanded => \A r \in Rules :
    OccurrencesBetween(r, DayStart, now + Horizon) =
      {i.at : i \in {j \in instants : /\ j.key.rule = r
                                      /\ DayStart <= j.at /\ j.at < now + Horizon}}

\* The loop never spins or hangs: whatever it does at an instant comes to an
\* end, and the clock goes on.
TimeGoesOn == <>(now = MaxTime)

\* What _planned_launch says of the timeline, which decides when the controller
\* takes a run: no run is launched while one that is planned earlier, and may
\* still be launched, is neither launched nor waiting for its retry.
LaunchedInPlannedOrder ==
  [][\A run, earlier \in timeline :
       /\ active' # active /\ active' = run.occ
       /\ earlier.planned < run.planned
       => earlier.occ \in done \cup retry \/ now > Deadline(earlier)]_vars

=============================================================================
