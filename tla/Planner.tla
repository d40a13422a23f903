------------------------------ MODULE Planner ------------------------------
(***************************************************************************)
(* compile_timeline (planner.py): candidate occurrences become one serial  *)
(* plan for a controller that waters one zone at a time.                   *)
(*                                                                         *)
(* The planner is a pure, sequential function; a step of this              *)
(* specification is one iteration of one of its loops, so that what holds  *)
(* for the partial plans can be stated and proved as an invariant.  Each   *)
(* behavior compiles one input.  Times are integers; a minute is Minute of *)
(* their units, because the gap is given in seconds.  Local time of day is *)
(* the time modulo Day: the plan of a day without a clock change.          *)
(*                                                                         *)
(* Left out: messages, the cycle counts shown to the user, zone names.      *)
(*                                                                         *)
(* An operator marked "seeded fault" is no part of the specification.      *)
(***************************************************************************)
EXTENDS Integers, Sequences, Functions

CONSTANTS
  Occs,        \* occurrence ids, numbers because ids break ties
  NoOcc,       \* no occurrence
  Inputs,      \* the inputs to compile: occurrence -> program and settings
  ZoneIds,
  Gap,         \* inter_zone_gap_seconds
  Minute,
  Parts,       \* exact runtimes are integers, Parts of them to a minute
  MaxMinutes,  \* MAX_COMMAND_MINUTES
  Tolerance,   \* missed_run_tolerance_minutes
  Day

Policies == {"skip_step", "truncate_last", "defer_occurrence", "require_intervention"}

\* One zone step of a program, sorted by position: the zone's settings with
\* the step's overrides applied, and the provider's exact runtime.
ZoneStep == [zone : ZoneIds, enabled : BOOLEAN, offset : Nat, exact : Nat,
             clamp : BOOLEAN, max : Nat, soak : Nat]

Occurrence ==
  [program : {"gone", "disabled", "enabled"}, manual : BOOLEAN, start : Nat,
   priority : Nat, created : Nat, steps : Seq(ZoneStep), skipLate : BOOLEAN,
   window : [policy : Policies \cup {"none"}, from : 0 .. (Day - 1), to : 0 .. (Day - 1)]]

ASSUME InputAssumption ==
  /\ Occs \subseteq Nat /\ NoOcc \notin Occs
  /\ Inputs \subseteq [Occs -> Occurrence]
ASSUME NumberAssumption ==
  /\ Gap \in Nat /\ Tolerance \in Nat
  /\ Minute \in Nat \ {0} /\ Parts \in Nat \ {0}
  /\ MaxMinutes \in Nat \ {0} /\ Day \in Nat \ {0}

VARIABLES
  input,    \* what is being compiled
  phase,    \* which loop runs
  queue,    \* occurrences the loop has still to come to
  cur,      \* the occurrence it is at (while verifying, the last survivor)
  cursor,   \* where the next cycle of the current occurrence may start
  free,     \* controller_free: when the occurrences laid out release it
  item,     \* the work items of the current occurrence, by step
  steps,    \* build.steps
  skipped,  \* build.skipped: the steps with a skip record
  dropped   \* why an occurrence was dropped, or "no"

vars == <<input, phase, queue, cur, cursor, free, item, steps, skipped, dropped>>

-----------------------------------------------------------------------------
(* Runtimes and cycles *)

\* Half-up.
QuantizeZoneMinutes(exact) == (2 * exact + Parts) \div (2 * Parts)

\* Seeded fault: the remainder of the division is lost.
EqualCycles(total, max) ==
  IF max = 0 \/ total <= max THEN <<total>>
  ELSE [k \in 1 .. ((total + max - 1) \div max) |-> total \div ((total + max - 1) \div max)]

AllocateCycles(total, max) ==
  IF max = 0 \/ total <= max THEN <<total>>
  ELSE LET count == (total + max - 1) \div max
       IN  [k \in 1 .. count |-> (total \div count) + IF k <= total % count THEN 1 ELSE 0]

Least(a, b) == IF a < b THEN a ELSE b

\* Seeded fault: without the cap.
UncappedMinutes(s) ==
  LET quantized == QuantizeZoneMinutes(s.exact)
  IN  IF s.enabled THEN quantized ELSE 0

\* Whole minutes of a step, 0 when it gets a skip record instead.
Minutes(s) ==
  LET quantized == QuantizeZoneMinutes(s.exact)
  IN  IF ~s.enabled THEN 0
      ELSE IF quantized = 0 /\ s.exact > 0 /\ s.clamp THEN 1
      ELSE Least(quantized, MaxMinutes)

\* _build_work_item
WorkItem(o, k) ==
  LET s == input[o].steps[k]
  IN  [cycles |-> IF Minutes(s) = 0 THEN <<>> ELSE AllocateCycles(Minutes(s), s.max),
       next   |-> input[o].start + s.offset,
       nr     |-> 0]
WorkItems(o) == [k \in DOMAIN input[o].steps |-> WorkItem(o, k)]

Admitted(o) == input[o].program = "enabled" \/ (input[o].program = "disabled" /\ input[o].manual)
Open(items) == {k \in DOMAIN items : items[k].cycles # <<>>}

-----------------------------------------------------------------------------
(* The watering window *)

WindowContains(w, t) ==
  LET local == t % Day
  IN  CASE w.from = w.to -> TRUE
        [] w.from < w.to -> w.from <= local /\ local < w.to
        [] w.from > w.to -> w.from <= local \/ local < w.to

MinutesUntilWindowEnd(w, t) ==
  LET today == t - (t % Day) + w.to
      end   == IF today <= t THEN today + Day ELSE today
  IN  (end - t) \div Minute

\* May the cycle start now, and how long may it be?
Blocked(w, t) ==
  /\ w.policy # "none"
  /\ \/ ~WindowContains(w, t)
     \/ w.policy = "truncate_last" /\ MinutesUntilWindowEnd(w, t) < 1

\* Seeded fault: the minutes are counted to the next full one.
RoundedUpAllowed(w, t, minutes) ==
  IF w.policy = "truncate_last" THEN Least(minutes, MinutesUntilWindowEnd(w, t) + 1)
                                ELSE minutes

Allowed(w, t, minutes) ==
  IF w.policy = "truncate_last" THEN Least(minutes, MinutesUntilWindowEnd(w, t))
                                ELSE minutes

-----------------------------------------------------------------------------
(* _schedule: occurrences claim the controller one after the other *)

LexLess(a, b) ==
  \E i \in DOMAIN a : a[i] < b[i] /\ \A j \in 1 .. (i - 1) : a[j] = b[j]

\* Seeded fault: the priority comes before the request.
PriorityKey(o, k) == <<input[o].priority, WorkItem(o, k).next, input[o].created, o>>

\* claim_order, with the request of the earliest work item
ClaimKey(o, k) == <<WorkItem(o, k).next, input[o].priority, input[o].created, o>>

ClaimsBefore(o, p) ==
  \E k \in Open(WorkItems(o)) : \A m \in Open(WorkItems(p)) :
    LexLess(ClaimKey(o, k), ClaimKey(p, m))

\* Seeded fault: a request inside an earlier run's block does not wait.
EnterAtRequest(o, t) == t

\* A later request that lands inside an earlier run's block waits for its end.
Enter(o, t) == IF t < free THEN free ELSE t

Claim(o) ==
  /\ phase = "claim" /\ o \in queue
  /\ \A p \in queue \ {o} : ClaimsBefore(o, p)
  /\ cur' = o
  /\ queue' = queue \ {o}
  /\ item' = WorkItems(o)
  /\ \E k \in Open(item') :
       /\ \A m \in Open(item') : item'[k].next <= item'[m].next
       /\ cursor' = Enter(o, item'[k].next)
  /\ phase' = "lay"
  /\ UNCHANGED <<input, free, steps, skipped, dropped>>

\* Seeded fault: the request and the soak are not looked at.
AllReady == Open(item)

\* _schedule_occurrence: the work items that may go on now, and the first of
\* them by sort_key
Ready == {k \in Open(item) : item[k].next <= cursor}
Requested(o, k) == input[o].start + input[o].steps[k].offset
SortKey(k) == <<Requested(cur, k), k>>
First(k)   == k \in Ready /\ \A m \in Ready \ {k} : LexLess(SortKey(k), SortKey(m))

Window == input[cur].window
Soak(o, k) == input[o].steps[k].soak * Minute

\* Seeded fault: wait until all of them are through.
LastDue(k) == \A m \in Open(item) : item[m].next <= item[k].next

FirstDue(k) == \A m \in Open(item) : item[k].next <= item[m].next

\* Every item soaks or is requested later: move on to the first that is due.
Wait ==
  /\ phase = "lay" /\ Open(item) # {} /\ Ready = {}
  /\ \E k \in Open(item) : FirstDue(k) /\ cursor' = item[k].next
  /\ UNCHANGED <<input, phase, queue, cur, free, item, steps, skipped, dropped>>

\* Seeded fault: without the gap.
AtOnce(end) == end

Released(end) == end + Gap

RunStep(k, minutes) ==
  [item |-> k, zone |-> input[cur].steps[k].zone, dur |-> minutes, req |-> Requested(cur, k),
   start |-> cursor, end |-> cursor + minutes * Minute,
   soak |-> item[k].nr > 0 /\ Soak(cur, k) > 0]

\* Seeded fault: the next cycle may follow after the gap.
WithoutSoak(k, end, rest) ==
  [item EXCEPT ![k] = [cycles |-> rest, next |-> end, nr |-> item[k].nr + 1]]

Soaking(k, end, rest) ==
  [item EXCEPT ![k] = [cycles |-> rest, next |-> end + Soak(cur, k), nr |-> item[k].nr + 1]]

\* Emit a cycle.  One that is cut at the end of the window is the item's last,
\* and the cycles behind it get a skip record.
Emit(k) ==
  LET minutes == Head(item[k].cycles)
      allowed == Allowed(Window, cursor, minutes)
      rest    == Tail(item[k].cycles)
      step    == RunStep(k, allowed)
  IN  /\ phase = "lay" /\ First(k) /\ ~Blocked(Window, cursor)
      /\ steps' = [steps EXCEPT ![cur] = Append(@, step)]
      /\ item' = Soaking(k, step.end, IF allowed < minutes THEN <<>> ELSE rest)
      /\ skipped' = [skipped EXCEPT
                       ![cur] = IF allowed < minutes /\ rest # <<>> THEN @ \cup {k} ELSE @]
      /\ cursor' = Released(step.end)
      /\ UNCHANGED <<input, phase, queue, cur, free, dropped>>

\* Seeded fault: the item keeps its cycles.
StillOpen(k) == item

WithoutCycles(k) == [item EXCEPT ![k].cycles = <<>>]

\* _apply_window_violation: the item's remaining cycles are skipped ...
LeaveOut(k) ==
  /\ phase = "lay" /\ First(k) /\ Blocked(Window, cursor)
  /\ Window.policy \in {"skip_step", "truncate_last"}
  /\ item' = WithoutCycles(k)
  /\ skipped' = [skipped EXCEPT ![cur] = @ \cup {k}]
  /\ UNCHANGED <<input, phase, queue, cur, cursor, free, steps, dropped>>

\* Seeded fault: the steps laid out before stay in the plan.
StepsKept(o) == steps

StepsCleared(o) == [steps EXCEPT ![o] = <<>>]

\* ... or the whole occurrence is dropped.
Drop(k) ==
  /\ phase = "lay" /\ First(k) /\ Blocked(Window, cursor)
  /\ Window.policy \in {"defer_occurrence", "require_intervention"}
  /\ dropped' = [dropped EXCEPT ![cur] = "out_of_window"]
  /\ steps' = StepsCleared(cur)
  /\ item' = [m \in DOMAIN item |-> [item[m] EXCEPT !.cycles = <<>>]]
  /\ UNCHANGED <<input, phase, queue, cur, cursor, free, skipped>>

\* The occurrence is laid out; it holds the controller until its last end.
LaidOut ==
  /\ phase = "lay" /\ Open(item) = {}
  /\ IF steps[cur] = <<>>
     THEN UNCHANGED free
     ELSE \E i \in DOMAIN steps[cur] :
            /\ \A j \in DOMAIN steps[cur] : steps[cur][j].end <= steps[cur][i].end
            /\ free' = Released(steps[cur][i].end)
  /\ phase' = "claim" /\ cur' = NoOcc
  /\ UNCHANGED <<input, queue, cursor, item, steps, skipped, dropped>>
AllLaidOut ==
  /\ phase = "claim" /\ queue = {}
  /\ phase' = "late"
  /\ UNCHANGED <<input, queue, cur, cursor, free, item, steps, skipped, dropped>>

-----------------------------------------------------------------------------
(* _enforce_lateness, then _detect_collisions *)

Planned == {o \in Occs : steps[o] # <<>>}

\* Seeded fault: an offset counts as lateness.
LateForItsTime(o) ==
  \A i \in DOMAIN steps[o] : steps[o][i].start > input[o].start + Tolerance * Minute

\* The first start is later than the first request allows.
Late(o) ==
  \E r \in DOMAIN steps[o] : \A i \in DOMAIN steps[o] :
    steps[o][i].start > steps[o][r].req + Tolerance * Minute

EnforceLateness ==
  /\ phase = "late"
  /\ LET late == {o \in Planned : input[o].skipLate /\ Late(o)}
     IN  /\ dropped' = [o \in Occs |-> IF o \in late THEN "missed_tolerance" ELSE dropped[o]]
         /\ steps' = [o \in Occs |-> IF o \in late THEN <<>> ELSE steps[o]]
         /\ queue' = Planned \ late
  /\ phase' = "verify"
  /\ UNCHANGED <<input, cur, cursor, free, item, skipped>>

\* Two steps of one run overlap, or lack the gap.
OverlapsItself(o) ==
  \E i, j \in DOMAIN steps[o] :
    /\ i # j /\ steps[o][i].start <= steps[o][j].start
    /\ steps[o][j].start < steps[o][i].end + Gap

\* The run begins inside the block of the last survivor.
BeginsInside(o, survivor) ==
  \E i \in DOMAIN steps[o], j \in DOMAIN steps[survivor] :
    steps[o][i].start < steps[survivor][j].end + Gap

FirstStart(o, p) ==
  \E i \in DOMAIN steps[o] : \A j \in DOMAIN steps[p] : steps[o][i].start <= steps[p][j].start

\* The runs are verified in the order of their starts; cur is the survivor.
Verify(o) ==
  /\ phase = "verify" /\ o \in queue /\ \A p \in queue : FirstStart(o, p)
  /\ queue' = queue \ {o}
  /\ IF OverlapsItself(o) \/ (cur # NoOcc /\ BeginsInside(o, cur))
     THEN /\ dropped' = [dropped EXCEPT ![o] = "planner_collision"]
          /\ steps' = StepsCleared(o)
          /\ UNCHANGED cur
     ELSE cur' = o /\ UNCHANGED <<steps, dropped>>
  /\ UNCHANGED <<input, phase, cursor, free, item, skipped>>

Compiled ==
  /\ phase = "verify" /\ queue = {}
  /\ phase' = "done"
  /\ UNCHANGED <<input, queue, cur, cursor, free, item, steps, skipped, dropped>>

-----------------------------------------------------------------------------
Init ==
  /\ input \in Inputs
  /\ phase = "claim" /\ cur = NoOcc
  /\ cursor = 0 /\ free = 0 /\ item = <<>>
  /\ queue = {o \in Occs : Admitted(o) /\ Open(WorkItems(o)) # {}}
  /\ steps = [o \in Occs |-> <<>>]
  /\ skipped = [o \in Occs |->
                  IF Admitted(o) THEN DOMAIN input[o].steps \ Open(WorkItems(o)) ELSE {}]
  /\ dropped = [o \in Occs |-> IF Admitted(o) THEN "no" ELSE "program_disabled"]

LayOut == \/ \E k \in DOMAIN item : Emit(k) \/ LeaveOut(k) \/ Drop(k)
          \/ Wait \/ LaidOut

Next == \/ \E o \in Occs : Claim(o) \/ Verify(o)
        \/ LayOut \/ AllLaidOut \/ EnforceLateness \/ Compiled

\* A function runs on until it returns.
Spec == Init /\ [][Next]_vars /\ WF_vars(Next)
-----------------------------------------------------------------------------
(* Properties *)

Steps == [item : Nat \ {0}, zone : ZoneIds, dur : 1 .. MaxMinutes, req : Nat,
          start : Nat, end : Nat, soak : BOOLEAN]
Items == [cycles : Seq(1 .. MaxMinutes), next : Nat, nr : Nat]

\* Every planned duration is one the controller accepts, 1 to MaxMinutes whole
\* minutes; the loops' variables have their types.
TypeOK ==
  /\ input \in [Occs -> Occurrence]
  /\ phase \in {"claim", "lay", "late", "verify", "done"}
  /\ queue \subseteq Occs /\ cur \in Occs \cup {NoOcc}
  /\ cursor \in Nat /\ free \in Nat
  /\ item \in Seq(Items)
  /\ steps \in [Occs -> Seq(Steps)]
  /\ skipped \in [Occs -> SUBSET (Nat \ {0})]
  /\ dropped \in [Occs -> {"no", "program_disabled", "out_of_window",
                          "missed_tolerance", "planner_collision"}]

Separated(s, t) == s.end + Gap <= t.start \/ t.end + Gap <= s.start

\* The plan never waters two zones at a time, and keeps the gap between any two
\* cycles, be they of one run or of different runs (planner.py:3, plan 45.2).
NoOverlap ==
  \A o, p \in Occs : \A i \in DOMAIN steps[o], j \in DOMAIN steps[p] :
    <<o, i>> # <<p, j>> => Separated(steps[o][i], steps[p][j])

Before(o, p) ==
  \A i \in DOMAIN steps[o], j \in DOMAIN steps[p] : steps[o][i].end + Gap <= steps[p][j].start

\* Whole runs never interleave, not even in a soak: what the verifier looks for
\* (planner.py:607-622) the scheduler never gives it, and no run is withheld.
NeverWithheld ==
  /\ \A o \in Occs : dropped[o] # "planner_collision"
  /\ \A o, p \in Occs : o # p => Before(o, p) \/ Before(p, o)

\* Between two cycles of a work item lies its soak, whatever other cycles, gaps
\* and windows come between them.
SoakKept ==
  \A o \in Occs : \A i, j \in DOMAIN steps[o] :
    i < j /\ steps[o][i].item = steps[o][j].item
      => steps[o][j].start >= steps[o][i].end + Soak(o, steps[o][i].item)

\* No step is planned before its program asked for it
\* (test_actual_start_never_before_requested).
NeverEarly ==
  \A o \in Occs : \A i \in DOMAIN steps[o] :
    steps[o][i].start >= Requested(o, steps[o][i].item)

\* When the cycle could have started at the earliest.
Due(o, j) ==
  LET own == {i \in 1 .. (j - 1) : steps[o][i].item = steps[o][j].item}
  IN  IF own = {} THEN steps[o][j].req
      ELSE steps[o][CHOOSE i \in own : \A m \in own : m <= i].end + Soak(o, steps[o][j].item)

\* Inside a run the controller idles only while all that is left of it soaks or
\* is requested later: a gap in the plan ends at the first cycle that is due.
NoIdling ==
  \A o \in Occs : \A i \in 2 .. Len(steps[o]) :
    steps[o][i].start > steps[o][i - 1].end + Gap
      => \A j \in i .. Len(steps[o]) : Due(o, j) >= steps[o][i].start

PlannedMinutes(o, k) ==
  LET own == {i \in DOMAIN steps[o] : steps[o][i].item = k}
  IN  SumFunctionOnSet([i \in own |-> steps[o][i].dur], own)

\* The cycle ends with the window: no whole minute more would fit.
CutByWindow(o, k) ==
  LET w == input[o].window
  IN  /\ w.policy = "truncate_last"
      /\ \E i \in DOMAIN steps[o] :
           /\ steps[o][i].item = k
           /\ steps[o][i].end + Minute >
                steps[o][i].start + MinutesUntilWindowEnd(w, steps[o][i].start) * Minute

\* The cycles of a step sum exactly to its quantized minutes; whoever gets fewer
\* has a skip record or was cut at the end of the window (planner.py:12-14).
MinutesAccounted ==
  phase = "done" => \A o \in Occs : dropped[o] = "no" =>
    \A k \in DOMAIN input[o].steps :
      LET planned == PlannedMinutes(o, k)  asked == Minutes(input[o].steps[k])
      IN  \/ planned = asked
          \/ planned < asked /\ (k \in skipped[o] \/ CutByWindow(o, k))

\* A cycle starts inside its window, and with truncate_last it ends there too.
InWindow ==
  \A o \in Occs : \A i \in DOMAIN steps[o] :
    LET w == input[o].window  s == steps[o][i]
    IN  /\ w.policy # "none" => WindowContains(w, s.start)
        /\ w.policy = "truncate_last" => \A t \in s.start .. (s.end - 1) : WindowContains(w, t)

\* An occurrence that its window defers is dropped as a whole: it waters all of
\* its minutes or none.
AllOrNothing ==
  phase = "done" => \A o \in Occs :
    input[o].window.policy \in {"defer_occurrence", "require_intervention"} =>
      \/ steps[o] = <<>>
      \/ \A k \in DOMAIN input[o].steps : PlannedMinutes(o, k) = Minutes(input[o].steps[k])

\* Of two runs in the plan the one with the first request waters first, however
\* long the others are and whatever was dropped between them (planner.py:394).
ServedInOrder ==
  \A o, p \in Planned : \A k \in Open(WorkItems(o)) :
    (\A m \in Open(WorkItems(p)) : Requested(o, k) < Requested(p, m)) => Before(o, p)

\* Only an occurrence behind another is ever too late: neither its own offsets nor
\* its soaks and windows make it late (planner.py:576-578).
LateOnlyBehindOthers ==
  \A o \in Occs : dropped[o] = "missed_tolerance" =>
    \E p \in Occs \ {o} :
      Admitted(p) /\ Open(WorkItems(p)) # {} /\ ClaimsBefore(p, o)

\* The planner returns, for every input: none of its loops goes round for ever.
Termination == <>(phase = "done")
=============================================================================
