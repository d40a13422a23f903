# Verification of the Rain Bird scheduler

The repository is a Home Assistant integration
(`src/custom_components/rainbird_scheduler`) that plans irrigation runs and
executes them on a Rain Bird controller through the entities of Home
Assistant's own Rain Bird integration. The controller can water one zone at a
time, is polled slowly, and may be driven by others at the same time. The
integration therefore journals every intention before it acts on it, treats
the commanded clock as the truth, and reconciles with whatever the switches
report later. That is the part where the order of things matters, and the part
modelled first; the planner, which decides what is executed, comes second, and
the launch loop with the recurrence rules, which decides when, third.

## Inventory

| Component | State | Operations | Interacts with | Hard behaviour | What makes it correct |
|---|---|---|---|---|---|
| Run executor, `executor.py` | journal (persisted), the one pending timer and its generation, reconcile context, retry counters, one asyncio lock | start, stop, pause, resume, skip; zone, sensor and weather events; seven timer callbacks; recovery | called by the coordinator, services, websocket; awaits driver and journal store; calls history | interleaving under the lock, commands whose fate is unknown, crashes at every await, stale reports | an active run always has what wakes it; a stop wins; steps complete on the clock, outcomes are final; one record per occurrence; soak kept; pauses end as they should |
| Execution journal and history, `models.py`, `storage.py` | `ExecutionJournal`, `HistoryData`, the stores on disk | write now, delayed save, load, trim, dedup window | executor, coordinator | a crash between a write and what follows it, bounded dedup window | no finished occurrence can be launched or recorded again |
| Coordinator: events, `coordinator.py` | subscriptions, flags, background tasks | source state event, registry update, shutdown | Home Assistant bus, executor | a snapshot built now and used after waiting for the lock | events are applied in order to the state they find |
| Coordinator: launch loop | timeline, the armed occurrence, retry set, dedup window | recalculate, arm, launch, retry, expire, manual run | planner, conditions, executor | retry timer against occurrence timer, recalculation at any await, edits between arming and firing | an occurrence is launched or recorded as skipped, once, at most one retry after its deadline |
| Planner, `planner.py` | none (pure) | compile a timeline | recurrence, adjustment, models | cycles and soaks interleaved on one controller, delay-and-preserve, collisions | no two steps overlap, gaps and soaks kept, totals preserved, lateness bounded |
| Recurrence, `recurrence.py` | none | date rules, local and solar starts | Home Assistant time zone | daylight-saving gaps and folds | one instant per local start, deterministic identifiers |
| Conditions, `conditions.py` | none | evaluate preconditions | coordinator | order of the rules, transient or final | same verdict as the executor's own check before a step |
| Observations, `observations.py` | none | build a snapshot | HA state machine | unusable and stale entities | unknown is never taken for clear |
| Drivers, `driver/*` | entity names | start zone, stop, observe | HA services | a failed call that was carried out | definitely-not-sent is told from unknown |
| Configuration CRUD and stores | configuration, revisions | create, update, delete, set enabled | websocket, storage | two editors | a stale revision is rejected, never overwritten |
| Adjustment providers, `adjustment/*` | none | percentages | planner | entity readings | bounded percentages |
| Services, websocket, config flow, entities, diagnostics, panel | views | delegate | coordinator | | thin |

## Modules

`RunExecutor.tla` is the executor together with its journal, its driver calls
and the source it observes; `MCRunExecutor.tla` instantiates it for TLC. Four
modules prove theorems about it, each on top of the one before:
`RunExecutorProofs.tla` (types, lock, timer), `LifecycleProofs.tla` (the
lifecycle of an occurrence, pauses), `ClockProofs.tla` (ends and soaks on the
clock) and `HistoryProofs.tla` (the outcomes of steps and the run records).

`Planner.tla` is `compile_timeline`, from the candidate occurrences to the
serial plan; `MCPlanner.tla` lists the inputs TLC compiles; `PlannerProofs.tla`
proves theorems about it, with the lemmas on sums over finite sets in
`FiniteSums.tla`. The two specifications meet in the plan: what
`Planner` promises (steps in order, a gap and a soak between them, planned
starts not before the request) is what `RunExecutor` takes as the constant
`Plans`.

`Recurrence.tla` is the expansion of schedules into instants across a clock
change, and `LaunchLoop.tla` extends it by the coordinator: what is compiled,
armed, launched, retried, expired and recorded while users, midnights and
crashes interfere, with the preconditions of a launch and with the executor
reduced to its lock and its claim. `MCLaunchLoop.tla` instantiates both;
`RecurrenceProofs.tla` and, on top of it, `LaunchLoopProofs.tla` prove theorems
about them.

`RunLifecycle.tla` is the abstract promise between the two: an occurrence is
claimed, finished, released, and never claimed again. `RunExecutor` implements
it (`ImplementsLifecycle`, with the journal's occurrence and dedup window as
its two variables); `LifecycleProofs.tla` proves it, and `HistoryProofs.tla`
takes it to the history's records. `LaunchLoop` relies on it:
`Claim`, `RunEnds` and `RunReleased` are its three steps.

### How the executor's model corresponds to the code

A step of the model is the code between two awaits. All public methods, timer
callbacks and event handlers run under one lock; `hold` says where the current
lock holder is suspended (`startcall` and `stopcall` in a driver call,
`advance`, `start`, `complete`, `finishing` after a journal write, `stopped`
after the write that follows a stop call, `down` when the process is not
running). Only when `hold = Free` can another method, callback or event take
the lock; a crash and a source report can happen at any time. Event handlers
and starts that find it taken wait in `inbox`. A step that
assigns to the journal ends with the write the code awaits there, so `jrn` is
both the journal in memory and the one on disk, and `Crash` keeps `jrn` and
loses the timer, the waiting events and the executor's in-memory fields
(`mem`).

| Variable | Code |
|---|---|
| `jrn` | `ExecutionJournal`: state, active occurrence, current step, step results, pending command, expected end, stop request, pause reason and time, dedup window (`done`) |
| `timer` | `_cancel_timer` with its generation: at most one timer is armed, and a callback whose generation is gone returns |
| `mem` | `_reconcile_context`, `_overrun_confirm_attempts`, `_stop_retry_attempts` |
| `lastObs` | `journal.last_observation` |
| `inbox` | what waits for the lock: event handlers, each with the snapshot built when the entity changed, and calls of `async_start_run` |
| `src`, `wx` | the switches, the rain sensor, the thermometer, the native rain delay (external) |
| `history` | run records; `saved` marks those known to be on disk |
| `now`, `left` | the clock, and the number of disturbances left in this instance |

Data is abstracted as follows. A plan is a constant: an occurrence's compiled
steps with a zone, a duration, a planned start and whether the step is a soak
cycle. Temperatures are `cold` (at the threshold or below), `cool` (within the
hysteresis), `warm`, `unknown`. A switch report is on, off or unusable with its
report time. Reasons that end up in messages only, `retry_count`,
`uncertain_count` and actual start times are left out: no decision of the
executor reads them, except that recovery asks whether a running step has an
actual start, which it always has. `async_observe` of the Home Assistant
driver (`driver/ha_entity.py:145`) builds a snapshot and never raises, so the
fallback to the previous observation is not taken.

A start has a caller, the coordinator, which builds a snapshot and puts it into
the journal before it asks for the lock. With the lock free the two are one
step (`StartRun`); otherwise the snapshot is in the journal at once, in the
middle of whatever the lock holder does (`StartWaits`), and the start follows,
or is refused, when the lock comes to it (`ServeStart`), with a snapshot that
may be old by then. `RefusedRequest` is the call that finds the lock free and a
run active. One condition is the caller's and not the executor's: no plan is
handed over before it is due.

`_finish_run` is two steps, `Finish` up to the write of the final statuses and
`FinishReset` behind it. The second appends the record and resets the journal.
They are one step although the code awaits a write at the end of it, because the
record goes to disk ten seconds after the append (`storage.py:44` and `:142`) or
at an unload, so a crash before the reset loses it as a crash before the append
does; `Crash` cuts off any part of the history that is not known to be saved.

The environment is allowed more than a good controller does: any switch may
report anything at any time, commands may fail, and a command's effect on the
source is not modelled, because the code must cope with a poll that is late,
wrong, or shows somebody else's watering. No property therefore speaks of the
water itself; they speak of what the executor records, commands and waits for.

Time passes (`Tick`) while a driver call is awaited, while the process is down,
or when the executor is idle with no callback due and no event waiting.
Callbacks and journal writes take no time on this clock.

Operators marked "seeded fault" are used by no specification. Each states a
plausible bug in the definition that follows it; put in its place, it makes TLC
report a violation of the property it is paired with in `PROJECT.json`.

### How the planner's model corresponds to the code

The planner is a pure, sequential function, so it could have been one operator.
It is a state machine with one step per loop iteration instead, because then
what holds of a partial plan is an invariant that can be checked, broken by a
seeded fault and proved. A behavior compiles one input; nothing interferes.

| Variable | Code |
|---|---|
| `input` | `PlannerInput`: the occurrences with their program, zones and settings |
| `phase` | which loop runs: the claims of `_schedule`, the inner loop of `_schedule_occurrence`, `_enforce_lateness`, the verifier |
| `queue`, `cur` | what the loop has still to come to, and where it is (while verifying: `survivor`) |
| `cursor`, `free` | `cursor`, `controller_free` |
| `item` | the current occurrence's `_WorkItem`s: remaining cycles, next eligible time, emitted cycles |
| `steps`, `skipped`, `dropped` | `build.steps`, `build.skipped`, `build.dropped` with the conflict's reason |

Zone settings and step overrides are merged into one record per step, steps are
numbered in the order of position and zone id, and exact runtimes are integers,
`Parts` of them to a minute, so that half-up rounding is integer arithmetic.
The loops over independent builds (work items, lateness) are one step each. The
verifier's two passes are one, since the first looks at each run alone. Not
modelled: messages and warnings, run identifiers, the cycle counts shown to the
user, and the local time of a day on which the clock changes.

### How the launch loop's model corresponds to the code

The event loop interleaves only where a coroutine suspends. `async_recalculate`
and `_launch_occurrence` await other coroutines, but none that suspends before
the executor's lock, so a recalculation is part of the step that calls it
(`Recalculate`, `Return`), and a launch is one step up to the lock, the claim
and the journal write behind it. Another step can come in while somebody holds
the lock (`lock`), while a launch or a request waits for it (`waiters`), while
the journal or the configuration is being written (`Unsaved`, `dirty`), and
between the launches one retry timer makes (`due`).

| Variable | Code |
|---|---|
| `timeline` | `self.timeline.runs`: occurrence and planned launch |
| `armed` | `_unsub_occurrence`, `_armed_occurrence_id`, `_armed_when` |
| `retry`, `retryAt` | `_retry_occurrences`, `_unsub_retry` |
| `due` | the launches `_retry` has started as background tasks, and what the preconditions say of the reading they find |
| `waiters`, `lock` | the executor's `asyncio.Lock`: who waits for it, with the deadline verdict each launch took along, and which part of the executor holds it |
| `launching` | a `_launch_occurrence` that has not come back from `async_start_run` |
| `active`, `done`, `saved` | the journal's active occurrence and dedup window, in memory and on disk |
| `programs`, `enabled`, `stored`, `dirty` | `config.programs` with `schedule_updated_at_utc` and the switch, in memory and on disk, and a save in progress |
| `midnight` | the daily recompile is due |
| `launched`, `skipped`, `asked` | what has been claimed, recorded as skipped, and which occurrences were on a schedule when their time came |

| Action | Code |
|---|---|
| `Fire`, `RetryFires`, `Relaunch` | `_fire`, `_retry`, and the `_launch_occurrence` each starts |
| `GrantedToLaunch`, `GrantedToRequest` | `async_start_run` once it gets the lock: busy, duplicate, or claimed |
| `Started`, `RunEnds`, `RunReleased`, `TailWritten` | `async_start_run` and `_finish_run` between their awaits, and the recalculation of `_emit_lifecycle` |
| `JournalWritten`, `ConfigSaved` | the awaited writes |
| `Request`, `StopIdle`, `RecalculateNow` | manual runs, a stop without a run, the service and a moved home |
| `SetEnabled`, `UpdateProgram`, `CreateProgram`, `DeleteProgram` | the configuration methods up to their write |
| `DailyRecompile`, `Crash`, `Setup`, `Tick` | 00:00:30, a process that dies, `async_setup` with the recovered journal, the clock |

Data is abstracted. A reading of the source has a usable flag, a rain delay, a
wet sensor, a temperature class and whether any zone is on; `Permanent` and
`Transient` are the rules of `evaluate_preconditions`, and a launch uses the
`Verdict` they come to: skip, wait or launch. A run is a block of
minutes (`Block`, its gap included), so `Compile` is what the planner does to
whole runs: lay them out by request, priority and id, then leave out the late
ones of programs with the SKIP policy. The planner's own model has the steps.
Programs have no window, no empty plan and no failing adjustment. The dedup
window is unbounded here (in the code: a number of days).

A crash keeps what is on disk: a change of the configuration whose write has not
come back is lost with everything in memory, and a claim or a skip that is not
in the saved journal is taken out of `launched` and `skipped` too: the claim has
sent no command yet, and the skip is one nobody will read.

Time passes (`Tick`) when nothing is due and nothing is being written, also
while a start or a stop holds the lock over a driver call and launches wait
behind it. The deadline verdict a launch took before it waited can therefore be
out of date when the lock comes to it.

### How the recurrence's model corresponds to the code

`occurrences_between` is called with a window for every recalculation. The
model expands every rule over all of its days first, one start a step, with
the binary search for a start inside a gap one halving a step (`SearchStart`,
`Halve`, `EndSearch`); `OccurrencesBetween` then selects what a call with a
window returns, padding included. A start's instant does not depend on the
window, so this is the same set, and `WindowIsComplete` checks that the padding
loses none. A time zone has an offset before and one after a single change; its
reading with a fold (`Utc`) and its inverse (`Wall`) are the library's and
marked external. Sun starts are instants of a constant ephemeris, or none.

## Properties and runs

| Property | Says | Checked in |
|---|---|---|
| `TypeOK` | types, and a claimed journal has one result per planned step | commands, proof |
| `TimerMatchesState` | when the lock is free, the armed timer is the one of the journal's state | all three, proof |
| `OnlyCurrentStepRuns` | only the current step is running, and only in a supervising state | commands, proof without crashes |
| `StartsOnlyPendingSteps` | a start is sent for a pending step of an unfinished occurrence | commands, proof without crashes |
| `StopWins` | a requested stop is never undone | commands, restart, proof |
| `PauseBookkeeping` | pause time and reason describe the current pause | weather, proof without skips and crashes |
| `HistoryIsFinal` | a record has only final steps, COMPLETED means all of them completed | commands, proof without crashes |
| `OneRecordPerOccurrence` | one record per finished occurrence; only a crash loses one | commands, restart, proof |
| `CompletesOnTheClock` | completed only at the commanded end, within the tolerance | commands, restart, proof |
| `OutcomesAreFinal` | a step's outcome does not change, but for a confirmed overrun | commands, proof without skips and crashes |
| `SoakIsKept` | the next cycle does not start before its compiled start | restart, proof |
| `SensorResumesWhenClear` | a sensor pause resumes only into clear weather | weather, proof |
| `UserPauseHolds` | only the user ends the user's pause | weather, restart, proof without skips |
| `ImplementsLifecycle` | an occurrence has the controller until it is a finished one, and never again, through crashes | restart, proof |
| `Planner!TypeOK` | types; every planned duration is one the controller accepts | planner, proof |
| `NoOverlap` | any two cycles of the plan are apart, with the gap | planner, proof |
| `NeverWithheld` | whole runs are disjoint, and the verifier withholds none | planner, proof |
| `SoakKept` | the cycles of a step are its soak apart | planner, proof |
| `NeverEarly` | no step starts before it was asked for | planner, proof |
| `NoIdling` | a gap in a run ends at the first cycle that is due | planner, proof |
| `MinutesAccounted` | cycles sum to the rounded runtime, or a window or a skip record says why not | planner, proof |
| `InWindow` | cycles start, and with truncation end, inside the window | planner, proof |
| `AllOrNothing` | a deferred occurrence waters all of its minutes or none | planner, proof |
| `ServedInOrder` | the earlier request waters first | planner, proof |
| `LateOnlyBehindOthers` | only an occurrence that waited for another is dropped as late | planner, proof |
| `Termination` | the compilation returns | planner |
| `LaunchLoop!TypeOK` | types; no timer in the past, the retry at most one delay ahead | launch, proof |
| `FirstReading` | a clock start is the first instant a clock shows its time or a later one, left out only in a gap | launch, proof |
| `WindowIsComplete` | a window's occurrences are all starts in it | launch, proof |
| `NothingIsForgotten` | every planned run is finished, running, retried, or ahead of an armed timer | launch, proof if ids do not contradict priorities |
| `SettledInTime` | one retry after its deadline a run has been launched or recorded | launch, proof if ids do not contradict priorities |
| `NoPhantoms` | what was launched or recorded was on a schedule at its time, or was there when the clock began | launch, proof |
| `ClaimedOnce` | no occurrence is claimed that was claimed before or recorded as skipped | launch, proof |
| `TimeGoesOn` | the loop neither spins nor hangs | launch |

The executor's three passing runs split the faults, because each run has to
finish in minutes. Each has two zones and two occurrences, so that a run has a
current, a finished and a pending step and another run can follow it; a zone
waters for two time units, and the gap, the timeouts and the retry delays take
one, so that every two of them can coincide or race. The clock stops at 6,
which covers a run with one retry, one pause or one restart and what follows.
`left` bounds the number of user calls, crashes and source changes by four:
enough for a fault in the handling of a fault. One source event can wait for
the lock.

* `commands`: starts fail, are rejected or stay uncertain, stops fail, users
  stop and ask for further runs; wet aborts, frost, a rain delay that is
  configured to be ignored; the second plan resolves to no steps.
* `weather`: rain and frost pause; all combinations of readings listed in
  `AllWeather`; switches become unusable; the user pauses and resumes; stops
  fail. Skip is left out (see below).
* `restart`: crashes anywhere, starts that stay uncertain, all the user's
  methods, a soak cycle, abort on external activity.

Deadlock checking is off: the clock is bounded, and an idle executor has
nothing to do.

The planner's run `planner` compiles 26 816 inputs. Two occurrences take every
pair of seven programs and ten windows, the second with two request times,
another priority and both missed-run policies; an occurrence is alone; a
third, in a part of the inputs, is a late one, one that has the first request,
or one whose program is gone or disabled. The programs cover one cycle,
several with and without a soak, remainders, a later offset, a runtime above
the cap, one below half a minute with either policy, a disabled step and the
same zone twice. A day has twelve minutes, so that windows open, close and
pass midnight within a plan. Two runs are enough for a run in the way of
another; with three, one of them can be dropped between two others. Deadlock
checking is off because the planner returns; `Termination` says that it does,
under weak fairness of the next step, which is that a function runs on.

The run `launch` has days of six minutes, so that a window of eight spans two
midnights and the clock, which stops at 10, passes one; two zones whose clocks
jump ahead by three and back by two minutes on the day looked at; a weekly rule
with a clock start and a rule for odd days with a clock and a sun start, so
that starts meet, fall into the gap, repeat, and have no sun; two programs and
a third that a user may create, one of them with the SKIP policy; blocks of two
minutes, a tolerance of two and a retry delay of one, so that a run can be
delayed, wait, be retried and expire. The seven readings are a clear one, one
that forbids watering, two that ask to wait, and three for which rules disagree
(a rain delay and frost win over what can wait; an unusable source waits
although its last rain report is wet); a launch may meet any of them. One user
action or crash comes at any point: with two the state space is beyond what can
be repeated in minutes, and each kind of them already meets every place of the
loop, a lock held over a slow driver call included. The programs have equal
priorities; the run `misordered` shows what happens otherwise. The horizon is
eight minutes, as long as the day on which a clock is set back; the code plans
seven days ahead (`const.py:73`).

Its fairness is that of an event loop: what is ready is run (`Loop`), the
expansion, a plain function, goes on (`Expand`), and time passes (`Tick`).
Nothing is assumed of users, of the source, or that a run ever ends (`RunEnds`
is not fair): a run may last, and the loop must go on around it. A driver call
may take its time, also with launches waiting behind it, but it comes back
(`Started`, `StopReturns`): the service calls of Home Assistant end, with a
result or an exception.

Seven runs are counterexamples: each checks one statement that a document, a
comment or a test of the repository makes and the code does not keep. They are
listed under `findings` in `PROJECT.json`.

* `refinished`: a restart can water a step again that was completed.
* `left_running`: a restart next to external activity leaves a step recorded
  as running for good.
* `attempts`: a pause in between lets a step be commanded more than
  `MAX_COMMAND_ATTEMPTS` times.
* `lost_retry`: pausing twice drops the retry of an unconfirmed stop.
* `skip_finished`: skipping between two steps rewrites the outcome of the step
  that has completed.
* `claimed_then_skipped`: while a launch waits for the executor's lock, a
  recalculation arms its occurrence again. If the stop or start that holds the
  lock takes longer than `LAUNCH_RETRY_SECONDS`, two launches of one occurrence
  wait, and the second, late by then, records the occurrence as skipped that
  the first has just claimed. The one user action of this instance is a stop
  without a run.
* `misordered`: of two runs with the same start, the launch timer is armed for
  the one with the lower id, also when the planner laid it out behind the other
  because of its priority. Nothing fires at the time of the run that is first;
  it meets a busy controller later and spends its tolerance there.
  `LaunchedInPlannedOrder` is the statement of `_planned_launch`, and
  `NothingIsForgotten` fails in the same instance.

That is why `StartsOnlyPendingSteps`, `HistoryIsFinal` and
`OnlyCurrentStepRuns` are checked without crashes, and `OutcomesAreFinal` and
`PauseBookkeeping` without skip.

Two more disagreements have no run of their own. The steps of overlapping
occurrences do not merge into one queue, as the planner's docstring
(`planner.py:7`) and `docs/PROJECT_PLAN.md:730` say; the comment in `_schedule`
(`planner.py:394`) says why they must not, and `ServedInOrder` states the order
of whole runs that the code keeps. And in the launch loop the recompile
after midnight compiles from the new day on, so an occurrence requested before
midnight and planned after it behind another run is gone without a run, a
retry or a record, although `_expire_stale_occurrences` says that none shall
vanish. It is among the hazards, and `NothingIsForgotten` and `SettledInTime`
are about the window compiled now for this reason.

The executor's specification states no fairness and no liveness property yet:
`TimerMatchesState` is the safety half of "an active run makes progress" (what
has to wake it is armed), and it holds for every interleaving.

## Proofs

`RunExecutorProofs.tla` proves, for every plan, policy, set of faults and
bound, with the assumptions named in `RunExecutor.tla` (plans are sequences of
steps, delays are natural numbers, there is at least one retry delay, policies
are Booleans):

* `TypeCorrect`: `Spec => []TypeOK`;
* `TimerCorrect`: `Spec => []TimerMatchesState`;
* `StopIsFinal`: `Spec => []StopWins`;
* `ExecutorInvariant`: `Spec => []IInv`, the inductive invariant they follow
  from.

`TimerMatchesState` is not inductive: it speaks of the moments when the lock is
free. `IInv` adds what holds while it is taken. `LockInv` says that whoever
holds the lock has an active run with a current step to work on (a stop may
find none); `TimerInv` says which timers can still be armed at each place (none
in a driver call for a stop, at most a stop retry after it); `StopInv` says
that while a stop is requested only the stop method holds the lock; and
`AttemptInv` says that a step being classified or retried has been commanded,
which makes the index into the retry delays a valid one. The argument goes
through the handlers' common parts: one lemma per operator (`Finish`,
`SendStop`, `StartStep`, `Complete`, `Conflict`, `AcceptStart`, ...) says what
next state it establishes, and the lemmas about `Methods`, `Queued`, `Returns`,
`Goes`, `Timers`, `Events` and `Restart` combine them action by action. The
environment's typing is separate (`EnvPreserved`), since no handler touches it.

`PlannerProofs.tla` proves, for every set of occurrences, every program, gap,
window, tolerance and cap (the assumptions are the types of the inputs and that
a minute, a day and the cap are positive):

* `PlannerTypeCorrect`, `PlanIsSerial`, `VerifierIsIdle`, `SoaksAreKept` and
  `NothingStartsEarly`: `Spec => []` of `TypeOK`, `NoOverlap`, `NeverWithheld`,
  `SoakKept` and `NeverEarly`;
* `PlannerInvariant`: `Spec => []IInv`, which they follow from.

The plan's properties say nothing about where the next cycle will go; `IInv`
does. `PlanInv` says that each run is in order and that of any two runs one is
before the other; `ClaimInv` and `LayInv` that `free` is behind everything laid
out, the cursor behind `free` and behind every cycle of the current run, and
that no item is due before its request or before its last cycle's soak is over;
`VerifyInv` that the verifier's survivor starts before all that it has still to
see. A cycle that starts at the cursor, when its item is due, keeps all of it.
`VerifierIsIdle` is the claim that the comment in `_detect_collisions` calls
believed: its check can only fire when `_schedule` is changed.

The other planner theorems need more than `IInv`, each an inductive invariant
of its own on top of it:

* `WindowsAreKept` (`InWindow`) is inductive as it stands; the work is in the
  arithmetic of a window that passes midnight.
* `PlanServesInOrder` (`ServedInOrder`): `OrderInv` says that whatever an
  occurrence precedes has not been laid out while the occurrence waits.
* `LatenessIsOfOthers` (`LateOnlyBehindOthers`): in `LateInv` an occurrence
  that nobody claims before has, so far, a first cycle no later than any of
  its requests.
* `ControllerNeverIdles` (`NoIdling`): `IdleInv` ties the clock of each open
  item (`next`) to what the plan itself says, the end of its last cycle and
  its soak.
* `MinutesAreAccounted` and `AllOrNothingWatered` (`MinutesAccounted`,
  `AllOrNothing`): in `MinutesInv` the minutes laid out of an item and the
  cycles it has left are those of `AllocateCycles`, whose sum is the rounded
  runtime.

The last two are about sums. `SumFunctionOnSet` is a fold, a recursive
function behind a `CHOOSE`; `FiniteSums.tla` proves that there is one such
function on the subsets of a finite set and what follows (the sum of nothing,
of one element more, of a part, of equal summands). Induction theorems with an
operator parameter cannot be instantiated, but `WFMin` has none: the argument
takes a smallest subset for which the claim fails.

`LifecycleProofs.tla` proves `LifecycleImplemented`, `Spec =>
ImplementsLifecycle`, on top of the executor's invariant. Most handlers build a
journal from the present one and keep its occurrence and dedup window (`Kept`,
one lemma per part); a step therefore continues a run (`Continues`: nothing
changes, or the active occurrence becomes a finished one), and only a start
and the second half of `_finish_run` change the occurrence. That second half is
a release only because the first has been done: `FinishedInv`, inductive
together with `IInv`.

It goes on to pauses. `PauseInv` says which state the run is in at each place
where the lock holder is suspended (`PlaceInv`), and whom the marks of a pause
belong to (`UserMark`, `Book`), the latter as far as skips and crashes leave
them alone.

* `SensorPauseEnds` (`SensorResumesWhenClear`) is unrestricted.
* `UserPauseIsTheUsers` (`UserPauseHolds`) assumes `NoSkip`, no skip among the
  user's operations: a skip while paused keeps `paused_reason` for the rest of
  the run (`executor.py:349`), a later sensor pause inherits the user's reason,
  and the weather ends it. TLC finds that run when skip is allowed.
* `PausesAreMarked` (`PauseBookkeeping`) assumes `Calm`, no skip and no crash,
  for the same reason and because a restart next to a zone that is on turns a
  pause into an external one without touching its reason (`executor.py:1648`).

`ClockProofs.tla` proves `CompletesAtItsEnd` (`CompletesOnTheClock`) and
`SoaksAreKept` (`SoakIsKept`), both unrestricted, from `ClockInv`: whoever is
about to complete a step, or asks once more whether it ended, has its commanded
end behind him, and the gap timer respects the soak of the next step.
`ReportsInv` says that a report, also one that waits with its event, is of the
past; without it an event might move a start into the future.

`HistoryProofs.tla` proves `RecordedOnce`, `Spec => []OneRecordPerOccurrence`.
Between the two halves of `_finish_run` an occurrence is finished and not yet
recorded, and a crash there never records it, so the dedup window and the
history are not simply equal. The inductive `RecordInv` says that records are
of different occurrences (`DistinctInv`), that a recorded occurrence is a
finished one other than the active one (`RecordedInv`), and that without
crashes every other finished one is recorded (`NoneLostInv`); a crash only cuts
the history short. The property counts, so its last step is a bijection between
the records and the occurrences recorded.

Its second half is about an executor that does not die (`Steady`, no crash
among the faults): `CurrentStepRuns`, `StartsPendingSteps` and `HistoryFinal`
state `OnlyCurrentStepRuns`, `StartsOnlyPendingSteps` and `HistoryIsFinal`,
and `OutcomesLast`, with `NoSkip`, states `OutcomesAreFinal`. None of the four
is inductive alone. `StatusInv` is: it says, for each state of the run, for
what is being reconciled and for the place of the lock holder, which steps may
be running, pending or over, and that a run that is being finished has only
final steps, all completed if it says so (`Closed`). The restrictions are not
for the prover's sake: the runs `refinished`, `left_running` and
`skip_finished` show what a restart and a skip do to these properties.

`RecurrenceProofs.tla` proves, for every zone with one change, every calendar
and every rule, `ExpansionTypeCorrect` and `StartsAtFirstReading`
(`ExpansionSpec => []FirstReading`) from `ExpansionInvariant`: while a gap is
searched, the change of the offset is between the two bounds (`SearchInv`), so
the search ends at the change itself; what has been found is a first reading
(`FoundInv`), and what has been left out lies in a gap (`LeftOutInv`). Its
lemma `WindowComplete` says that a call with a window returns every start in
it. That is where `NearAssumption` comes in: a change of the offset is at most
a day, and an event of the sun, moved by the rule's offset, falls on the day
before, of or after its date. A rule's offset is at most ten hours, which
`StartTime` enforces (`models.py:451` and `:469`).

`LaunchLoopProofs.tla` proves, for every schedule, zone, policy, reading and
bound, in this order:

* `HistoryInJournal` and from it `ClaimedAtMostOnce`, which states
  `ClaimedOnce`: whatever the timers do, a claim is of an occurrence that was
  neither claimed nor recorded as skipped before. The invariant says that
  claims and skips are in the journal, and that a run that is about to release
  the controller is already a finished one.
* `Frame` (`FrameInv`): the types, the expansion's invariant carried over from
  `RecurrenceProofs`, and that nothing is armed or queued while the process is
  down. From it `TypeCorrect`, `LaunchesAtFirstReading` and
  `WindowsAreComplete`.
* `KnownOccurrences` (`KnownInv`) and from it `NoPhantomLaunches`. The history
  alone says nothing of what a stale timer will launch. `KnownInv` says that
  of every occurrence in the timeline, the armed timer, the retries, the
  queues and the history: if its time has come it was on a schedule then; if
  not, it is on one now, or a change that takes it away is being saved and
  will be followed by a recompile (`Foreseen`). A crash brings back the
  schedules on disk, so the same is said of those (`StoredInv`).
* `PlanIsKept` (`KeptInv`) and from it `NoneIsForgotten` and `AllAreSettled`,
  that is `NothingIsForgotten` and `SettledInTime`. Both speak of the moments
  when the loop is at rest; `KeptInv` speaks of all others. While no recompile
  is due, the timeline has the runs of the day (`CurrentInv`); while no launch
  is under way, each of them is finished, active, retried or behind an armed
  timer (`CoverInv`), and the retry is no later than one delay after the run's
  deadline (`TimelyInv`). A recompile lays the rest of the window out anew, so
  the proof needs that the runs of the day do not move when time passes or
  when days are added at the window's end: a run is held up only by runs that
  claim before it (`BlockedFrom`), which is where the lemmas on sums and
  maxima come in.

The last two have assumptions on the constants, each named in the module. The
first is a restriction, the other two hold of the places the code runs in.

* `ListInOrder`: the ids of the programs do not contradict their priorities.
  Where they do, `NothingIsForgotten` is false: that is the run `misordered`.
* `MidnightExists`: no gap of a clock change takes in a midnight. Where one
  does (a few zones change at midnight), the day starts later than the window
  of its first timeline; that case is neither proved nor checked.
* `DayInHorizon`, for `AllAreSettled` only: the longest local day is no longer
  than the horizon, which is seven days in the code.

Model-checked only: the liveness properties `TimeGoesOn` and `Termination`,
since fairness is out of the provers' reach. `UserPauseHolds` is checked with
skips in `restart`, whose weather does not change. Outside of their
restrictions the other restricted properties are neither proved nor checked,
except by the counterexamples named with them.

## Plan

Done: `RunExecutor`, `Planner`, `Recurrence`, `LaunchLoop` with the launch
preconditions, `RunLifecycle` and its refinement, and their proofs. Left:

1. The check before a step (`_pre_step_block`) and the launch check agree; the
   bounded dedup window; configuration revisions; two disturbances in the
   launch loop.
2. Liveness under the fairness of the event loop: every run ends once the
   source reports and no further disturbance comes.
3. More theorems: the first half of the pause properties with skips, that is
   which pauses a skip leaves marked; a run's records through crashes; the
   launch loop's properties for ids that contradict priorities, with the delay
   that the misordering costs.

## Not modelled

The panel, the entities, the diagnostics, the config flow and the serializers
hold no state of their own or only convert data. The adjustment providers are
numeric and stateless; the planner takes what they return as an input. Services
and the websocket API validate and delegate to the methods that are modelled;
of their own they have the optimistic revisions, which are planned. Entity
resolution and service calls are Home Assistant's.
