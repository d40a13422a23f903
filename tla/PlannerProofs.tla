--------------------------- MODULE PlannerProofs ---------------------------
(* Proofs about the planner, for every set of occurrences and programs,     *)
(* every gap, window, tolerance and cap.                                    *)
EXTENDS Planner, FiniteSums

-----------------------------------------------------------------------------
(* Runtimes and times *)

\* Whole minutes last for some time.
LEMMA Product ==
  ASSUME NEW a \in Nat, NEW b \in Nat
  PROVE  a * b \in Nat /\ (a > 0 /\ b > 0 => a * b > 0)
  <1>1. a * b \in Nat
    OBVIOUS
  <1>2. ASSUME a > 0, b > 0 PROVE a * b > 0
    BY <1>2
  <1> QED
    BY <1>1, <1>2

\* Dividing minutes among cycles leaves none of them empty.
LEMMA Quotient ==
  ASSUME NEW a \in Nat, NEW b \in Nat, b >= 2, b <= a
  PROVE  a \div b \in Nat /\ a \div b >= 1 /\ (a \div b) + 1 <= a
  <1>1. a \div b \in Nat
    OBVIOUS
  <1>2. a \div b >= 1
    OBVIOUS
  <1>3. (a \div b) + 1 <= a
    OBVIOUS
  <1> QED
    BY <1>1, <1>2, <1>3

\* How many cycles there are.
LEMMA CycleCount ==
  ASSUME NEW a \in Nat, NEW b \in Nat, b >= 1, a > b
  PROVE  /\ (a + b - 1) \div b \in Nat
         /\ (a + b - 1) \div b >= 2 /\ (a + b - 1) \div b <= a
  <1>1. (a + b - 1) \div b >= 2 /\ (a + b - 1) \div b <= a
    OBVIOUS
  <1>2. (a + b - 1) \div b \in Int
    OBVIOUS
  <1> QED
    BY <1>1, <1>2

\* A runtime splits into cycles of a length the controller accepts.
LEMMA CyclesType ==
  ASSUME NEW total \in 1 .. MaxMinutes, NEW max \in Nat
  PROVE  AllocateCycles(total, max) \in Seq(1 .. MaxMinutes)
  <1>1. CASE max = 0 \/ total <= max
    <2>1. <<total>> \in Seq(1 .. MaxMinutes)
      BY NumberAssumption
    <2> QED
      BY <1>1, <2>1 DEF AllocateCycles
  <1>2. CASE ~(max = 0 \/ total <= max)
    <2> DEFINE count == (total + max - 1) \div max
               part(k) == (total \div count) + IF k <= total % count THEN 1 ELSE 0
    <2>1. total \in Nat /\ max >= 1 /\ total > max
      BY <1>2, NumberAssumption
    <2>2. count \in Nat /\ count >= 2 /\ count <= total
      BY <2>1, CycleCount
    <2>3. AllocateCycles(total, max) = [k \in 1 .. count |-> part(k)]
      BY <1>2 DEF AllocateCycles
    <2> HIDE DEF count
    <2>4. total \div count \in Nat /\ total \div count >= 1 /\ (total \div count) + 1 <= total
      BY <2>1, <2>2, Quotient
    <2>5. \A k \in 1 .. count : part(k) \in 1 .. MaxMinutes
      BY <2>4, NumberAssumption
    <2> HIDE DEF part
    <2>6. [k \in 1 .. count |-> part(k)] \in Seq(1 .. MaxMinutes)
      BY <2>2, <2>5
    <2> QED
      BY <2>3, <2>6
  <1> QED
    BY <1>1, <1>2

\* Rounding, clamping and capping leave a number the controller accepts, or 0.
LEMMA MinutesType ==
  ASSUME NEW s \in ZoneStep
  PROVE  Minutes(s) \in 0 .. MaxMinutes
  <1> DEFINE q == QuantizeZoneMinutes(s.exact)
  <1>1. s.exact \in Nat
    BY DEF ZoneStep
  <1>2. 2 * s.exact + Parts \in Nat /\ 2 * Parts \in Nat \ {0}
    BY <1>1, NumberAssumption
  <1>3. \A a \in Nat, b \in Nat \ {0} : a \div b \in Nat
    OBVIOUS
  <1>4. q \in Nat
    BY <1>2, <1>3 DEF QuantizeZoneMinutes
  <1> HIDE DEF q
  <1>5. Least(q, MaxMinutes) \in 0 .. MaxMinutes /\ 1 \in 0 .. MaxMinutes
    BY <1>4, NumberAssumption DEF Least
  <1> QED
    BY <1>5, NumberAssumption DEF Minutes, q

\* What an occurrence asks for.
LEMMA InputFacts ==
  ASSUME input \in [Occs -> Occurrence], NEW o \in Occs, NEW k \in DOMAIN input[o].steps
  PROVE  /\ input[o].steps[k] \in ZoneStep
         /\ k \in Nat \ {0}
         /\ Requested(o, k) \in Nat
         /\ Soak(o, k) \in Nat
  <1>1. input[o].steps \in Seq(ZoneStep) /\ input[o].start \in Nat
    BY DEF Occurrence
  <1>2. input[o].steps[k] \in ZoneStep /\ k \in Nat \ {0}
    BY <1>1
  <1>3. input[o].steps[k].offset \in Nat /\ input[o].steps[k].soak \in Nat
    BY <1>2 DEF ZoneStep
  <1>4. Soak(o, k) \in Nat
    BY <1>3, NumberAssumption, Product DEF Soak
  <1> QED
    BY <1>1, <1>2, <1>3, <1>4 DEF Requested

\* Work items are built as requested, with all of their cycles.
LEMMA WorkItemFacts ==
  ASSUME input \in [Occs -> Occurrence], NEW o \in Occs
  PROVE  /\ WorkItems(o) \in Seq(Items)
         /\ DOMAIN WorkItems(o) = DOMAIN input[o].steps
         /\ \A k \in DOMAIN input[o].steps : WorkItems(o)[k].next = Requested(o, k)
  <1>1. input[o].steps \in Seq(ZoneStep)
    BY DEF Occurrence
  <1>2. ASSUME NEW k \in DOMAIN input[o].steps
        PROVE  WorkItem(o, k) \in Items /\ WorkItem(o, k).next = Requested(o, k)
    <2> DEFINE s == input[o].steps[k]
    <2>1. s \in ZoneStep /\ Requested(o, k) \in Nat
      BY InputFacts
    <2>2. Minutes(s) \in 0 .. MaxMinutes
      BY <2>1, MinutesType
    <2>3. s.max \in Nat
      BY <2>1 DEF ZoneStep
    <2>4. ASSUME Minutes(s) # 0 PROVE AllocateCycles(Minutes(s), s.max) \in Seq(1 .. MaxMinutes)
      <3>1. Minutes(s) \in 1 .. MaxMinutes
        BY <2>2, <2>4, NumberAssumption
      <3> QED
        BY <3>1, <2>3, CyclesType
    <2>5. <<>> \in Seq(1 .. MaxMinutes)
      OBVIOUS
    <2>6. WorkItem(o, k).next = Requested(o, k)
      BY DEF WorkItem, Requested
    <2> QED
      BY <2>1, <2>4, <2>5, <2>6 DEF WorkItem, Items, Requested
  <1>3. DOMAIN input[o].steps = 1 .. Len(input[o].steps) /\ Len(input[o].steps) \in Nat
    BY <1>1
  <1> QED
    BY <1>2, <1>3 DEF WorkItems

-----------------------------------------------------------------------------
(* The inductive invariant.                                                *)
(*                                                                         *)
(* That runs do not overlap follows from where the cursor is: behind every *)
(* occurrence laid out (free), behind every cycle of the current one, and  *)
(* a cycle starts at the cursor only when its item is due.                 *)

\* A run on its own: steps in order, with the gap and the soak between them.
RunOf(o, run) ==
  \A i \in DOMAIN run :
    /\ run[i].item \in DOMAIN input[o].steps
    /\ run[i].start >= Requested(o, run[i].item)
    /\ run[i].start < run[i].end
    /\ \A j \in DOMAIN run : i < j =>
         /\ run[i].end + Gap <= run[j].start
         /\ run[i].item = run[j].item => run[j].start >= run[i].end + Soak(o, run[i].item)

PlanInv ==
  /\ \A o \in Occs : RunOf(o, steps[o])
  /\ \A o, p \in Occs : o # p => Before(o, p) \/ Before(p, o)

\* Occurrences that were laid out hold the controller until free.
HeldUntilFree(o) == \A i \in DOMAIN steps[o] : steps[o][i].end + Gap <= free

ClaimInv ==
  phase = "claim" =>
    /\ cur = NoOcc
    /\ \A o \in queue : steps[o] = <<>>
    /\ \A o \in Occs : HeldUntilFree(o)

\* No item is due before its request, nor before its soak is over.
ItemInv ==
  \A k \in DOMAIN item :
    /\ item[k].next >= Requested(cur, k)
    /\ \A i \in DOMAIN steps[cur] :
         steps[cur][i].item = k => item[k].next >= steps[cur][i].end + Soak(cur, k)

LayInv ==
  phase = "lay" =>
    /\ cur \in Occs /\ cur \notin queue
    /\ \A o \in queue : steps[o] = <<>>
    /\ DOMAIN item = DOMAIN input[cur].steps
    /\ free <= cursor
    /\ \A o \in Occs \ {cur} : HeldUntilFree(o)
    /\ \A i \in DOMAIN steps[cur] :
         free <= steps[cur][i].start /\ steps[cur][i].end + Gap <= cursor
    /\ ItemInv

\* The survivor starts before everything that is still to be verified.
VerifyInv ==
  /\ phase = "late" => cur = NoOcc
  /\ phase = "verify" =>
       /\ \A o \in queue : steps[o] # <<>>
       /\ cur # NoOcc => \A o \in queue : o # cur /\ FirstStart(cur, o)

Unwithheld == \A o \in Occs : dropped[o] # "planner_collision"

IInv == TypeOK /\ PlanInv /\ ClaimInv /\ LayInv /\ VerifyInv /\ Unwithheld

-----------------------------------------------------------------------------
(* Facts about runs *)

\* Steps of a plan are numbers where numbers are expected.
LEMMA StepFacts ==
  ASSUME TypeOK, NEW o \in Occs, NEW i \in DOMAIN steps[o]
  PROVE  /\ steps[o][i] \in Steps
         /\ steps[o][i].start \in Nat /\ steps[o][i].end \in Nat
         /\ i \in Nat
  <1>1. steps[o] \in Seq(Steps)
    BY DEF TypeOK
  <1>2. steps[o][i] \in Steps /\ i \in Nat
    BY <1>1
  <1> QED
    BY <1>2 DEF Steps

\* Clearing runs does no harm to the others.
LEMMA Cleared ==
  ASSUME PlanInv, UNCHANGED input,
         \A o \in Occs : steps'[o] = steps[o] \/ steps'[o] = <<>>
  PROVE  PlanInv'
  <1>1. ASSUME NEW o \in Occs PROVE RunOf(o, steps[o])'
    <2>1. CASE steps'[o] = steps[o]
      <3>1. RunOf(o, steps[o])
        BY DEF PlanInv
      <3> QED
        BY <2>1, <3>1 DEF RunOf, Requested, Soak
    <2>2. CASE steps'[o] = <<>>
      BY <2>2 DEF RunOf
    <2> QED
      BY <2>1, <2>2
  <1>2. ASSUME NEW o \in Occs, NEW p \in Occs, o # p
        PROVE  (Before(o, p) \/ Before(p, o))'
    <2>1. Before(o, p) \/ Before(p, o)
      BY <1>2 DEF PlanInv
    <2>2. CASE steps'[o] = steps[o] /\ steps'[p] = steps[p]
      BY <2>1, <2>2 DEF Before
    <2>3. CASE steps'[o] = <<>> \/ steps'[p] = <<>>
      BY <2>3 DEF Before
    <2> QED
      BY <2>2, <2>3
  <1> QED
    BY <1>1, <1>2 DEF PlanInv

\* No cycle of the plan overlaps another: what PlanInv is for.
LEMMA PlanSeparates ==
  ASSUME TypeOK, PlanInv
  PROVE  NoOverlap
  <1> SUFFICES ASSUME NEW o \in Occs, NEW p \in Occs,
                      NEW i \in DOMAIN steps[o], NEW j \in DOMAIN steps[p],
                      <<o, i>> # <<p, j>>
               PROVE  Separated(steps[o][i], steps[p][j])
    BY DEF NoOverlap
  <1>1. CASE o # p
    BY <1>1 DEF PlanInv, Before, Separated
  <1>2. CASE o = p
    <2>1. i \in Nat /\ j \in Nat /\ i # j
      BY <1>2, StepFacts
    <2>2. i < j \/ j < i
      BY <2>1
    <2>3. RunOf(o, steps[o])
      BY DEF PlanInv
    <2> QED
      BY <1>2, <2>2, <2>3 DEF RunOf, Separated
  <1> QED
    BY <1>1, <1>2

-----------------------------------------------------------------------------
(* The steps of the planner *)

\* An occurrence that claims the controller starts behind those laid out.
LEMMA ClaimPreserves ==
  ASSUME IInv, NEW o \in Occs, Claim(o)
  PROVE  IInv'
  <1> USE DEF IInv
  <1>1. /\ phase = "claim" /\ o \in queue /\ cur' = o /\ queue' = queue \ {o}
        /\ item' = WorkItems(o) /\ phase' = "lay"
        /\ UNCHANGED <<input, free, steps, skipped, dropped>>
    BY DEF Claim
  <1>2. /\ item' \in Seq(Items) /\ DOMAIN item' = DOMAIN input[o].steps
        /\ \A k \in DOMAIN item' : item'[k].next = Requested(o, k)
    BY <1>1, WorkItemFacts DEF TypeOK
  <1>3. cursor' \in Nat /\ free <= cursor'
    <2>1. PICK k \in Open(item') : cursor' = Enter(o, item'[k].next)
      BY DEF Claim
    <2>2. k \in DOMAIN item' /\ item'[k] \in Items
      BY <2>1, <1>2 DEF Open
    <2>3. item'[k].next \in Nat /\ free \in Nat
      BY <2>2 DEF Items, TypeOK
    <2> QED
      BY <2>1, <2>3 DEF Enter
  <1>4. TypeOK'
    BY <1>1, <1>2, <1>3 DEF TypeOK
  <1>5. PlanInv'
    BY <1>1, Cleared
  <1>6. steps[o] = <<>>
    BY <1>1 DEF ClaimInv
  <1>7. ItemInv'
    <2>1. ASSUME NEW k \in DOMAIN item' PROVE item'[k].next >= Requested(o, k)
      BY <1>1, <1>2, InputFacts DEF TypeOK
    <2> QED
      BY <1>1, <1>6, <2>1 DEF ItemInv, Requested
  <1>8. LayInv'
    BY <1>1, <1>2, <1>3, <1>6, <1>7 DEF LayInv, ClaimInv, HeldUntilFree
  <1> QED
    BY <1>1, <1>4, <1>5, <1>8 DEF ClaimInv, VerifyInv, Unwithheld

\* Waiting moves the cursor on.
LEMMA WaitPreserves ==
  ASSUME IInv, Wait
  PROVE  IInv'
  <1> USE DEF IInv
  <1>1. /\ phase = "lay" /\ Ready = {}
        /\ UNCHANGED <<input, phase, queue, cur, free, item, steps, skipped, dropped>>
    BY DEF Wait
  <1>2. cursor' \in Nat /\ cursor' >= cursor
    <2>1. PICK k \in Open(item) : cursor' = item[k].next
      BY DEF Wait
    <2>2. item[k] \in Items
      BY <2>1 DEF Open, TypeOK
    <2>3. ~(item[k].next <= cursor)
      BY <1>1, <2>1 DEF Ready
    <2> QED
      BY <2>1, <2>2, <2>3 DEF Items, TypeOK
  <1>3. TypeOK'
    BY <1>1, <1>2 DEF TypeOK
  <1>4. PlanInv'
    BY <1>1, Cleared
  <1>5. ItemInv'
    BY <1>1 DEF LayInv, ItemInv, Requested, Soak
  <1>6. \A i \in DOMAIN steps[cur] : steps[cur][i].end + Gap <= cursor'
    <2>1. cur \in Occs /\ cursor \in Nat
      BY <1>1 DEF LayInv, TypeOK
    <2> QED
      BY <1>1, <1>2, <2>1, StepFacts, NumberAssumption DEF LayInv
  <1>7. free <= cursor'
    BY <1>1, <1>2 DEF LayInv, TypeOK
  <1>8. LayInv'
    BY <1>1, <1>5, <1>6, <1>7 DEF LayInv, HeldUntilFree
  <1> QED
    BY <1>1, <1>3, <1>4, <1>8 DEF ClaimInv, VerifyInv, Unwithheld

\* A cycle that may start has a length the controller accepts.
LEMMA AllowedFacts ==
  ASSUME TypeOK, cur \in Occs, NEW minutes \in 1 .. MaxMinutes, ~Blocked(Window, cursor)
  PROVE  /\ Allowed(Window, cursor, minutes) \in 1 .. MaxMinutes
         /\ Window.policy = "truncate_last"
              => Allowed(Window, cursor, minutes) <= MinutesUntilWindowEnd(Window, cursor)
  <1> DEFINE left == MinutesUntilWindowEnd(Window, cursor)
  <1>1. CASE Window.policy = "truncate_last"
    <2>1. ~(left < 1)
      BY <1>1 DEF Blocked
    <2>2. left \in Int
      <3>1. Window.to \in Nat /\ cursor \in Nat
        BY NumberAssumption DEF Window, TypeOK, Occurrence
      <3>2. \A a \in Int, b \in Nat \ {0} : a \div b \in Int /\ a % b \in Int
        OBVIOUS
      <3> QED
        BY <3>1, <3>2, NumberAssumption DEF MinutesUntilWindowEnd
    <2> HIDE DEF left
    <2>3. Least(minutes, left) \in 1 .. MaxMinutes /\ Least(minutes, left) <= left
      BY <2>1, <2>2, NumberAssumption DEF Least
    <2> QED
      BY <1>1, <2>3 DEF Allowed, left
  <1>2. CASE Window.policy # "truncate_last"
    BY <1>2 DEF Allowed
  <1> QED
    BY <1>1, <1>2

\* A run may be continued by a cycle behind its gap and its item's soak.
LEMMA RunGrows ==
  ASSUME input \in [Occs -> Occurrence], NEW o \in Occs, NEW run \in Seq(Steps), RunOf(o, run),
         NEW s \in Steps, s.item \in DOMAIN input[o].steps,
         s.start >= Requested(o, s.item), s.start < s.end,
         \A i \in DOMAIN run : run[i].end + Gap <= s.start,
         \A i \in DOMAIN run :
           run[i].item = s.item => s.start >= run[i].end + Soak(o, s.item)
  PROVE  RunOf(o, Append(run, s))
  <1> DEFINE new == Append(run, s)
             n   == Len(run) + 1
  <1>1. /\ DOMAIN new = 1 .. n /\ n \in Nat /\ DOMAIN run = 1 .. Len(run)
        /\ \A i \in DOMAIN run : i < n /\ new[i] = run[i]
        /\ new[n] = s
    OBVIOUS
  <1>2. \A i \in DOMAIN new : i \in DOMAIN run \/ i = n
    BY <1>1
  <1> HIDE DEF new, n
  <1>3. ASSUME NEW i \in DOMAIN run
        PROVE  /\ new[i].item \in DOMAIN input[o].steps
               /\ new[i].start >= Requested(o, new[i].item)
               /\ new[i].start < new[i].end
               /\ \A j \in DOMAIN new : i < j =>
                    /\ new[i].end + Gap <= new[j].start
                    /\ new[i].item = new[j].item
                         => new[j].start >= new[i].end + Soak(o, new[i].item)
    BY <1>1, <1>2, <1>3 DEF RunOf
  <1>4. \A j \in DOMAIN new : ~(n < j)
    BY <1>1
  <1>5. RunOf(o, new)
    BY <1>1, <1>2, <1>3, <1>4 DEF RunOf
  <1> QED
    BY <1>5 DEF new

\* What emitting the cycle `s' of an item does to the run and to the item.
Emitted(k, s) ==
  /\ s \in Steps /\ s.item = k /\ s.req = Requested(cur, k)
  /\ s.start = cursor /\ s.end \in Nat /\ cursor < s.end
  /\ s.end = cursor + s.dur * Minute
  /\ Window.policy = "truncate_last" => s.dur <= MinutesUntilWindowEnd(Window, cursor)
  /\ cursor' \in Nat /\ cursor' = s.end + Gap /\ free <= cursor'
  /\ item' \in Seq(Items) /\ DOMAIN item' = DOMAIN item
  /\ item'[k].next = s.end + Soak(cur, k)
  /\ \A m \in DOMAIN item \ {k} : item'[m] = item[m]
  /\ \A o \in Occs \ {cur} : steps'[o] = steps[o]
  /\ steps'[cur] = Append(steps[cur], s)
  /\ DOMAIN steps'[cur] = 1 .. (Len(steps[cur]) + 1)
  /\ DOMAIN steps[cur] = 1 .. Len(steps[cur]) /\ Len(steps[cur]) \in Nat
  /\ steps'[cur][Len(steps[cur]) + 1] = s
  /\ \A i \in DOMAIN steps[cur] : steps'[cur][i] = steps[cur][i]

LEMMA EmitFacts ==
  ASSUME IInv, NEW k \in DOMAIN item, Emit(k)
  PROVE  /\ cur \in Occs /\ cur \notin queue /\ DOMAIN item = DOMAIN input[cur].steps
         /\ free <= cursor /\ free \in Nat /\ cursor \in Nat
         /\ input \in [Occs -> Occurrence]
         /\ item[k] \in Items /\ k \in Open(item) /\ item[k].next <= cursor
         /\ input[cur].steps[k] \in ZoneStep /\ k \in Nat \ {0}
         /\ Requested(cur, k) \in Nat /\ Soak(cur, k) \in Nat
         /\ \E s : Emitted(k, s)
  <1> USE DEF IInv
  <1> DEFINE minutes == Head(item[k].cycles)
             rest    == Tail(item[k].cycles)
             allowed == Allowed(Window, cursor, minutes)
             left    == IF allowed < minutes THEN <<>> ELSE rest
             step    == RunStep(k, allowed)
  <1>1. /\ phase = "lay" /\ First(k) /\ ~Blocked(Window, cursor)
        /\ steps' = [steps EXCEPT ![cur] = Append(@, step)]
        /\ item' = Soaking(k, step.end, left)
        /\ cursor' = Released(step.end)
    BY DEF Emit
  <1>2. /\ cur \in Occs /\ cur \notin queue /\ DOMAIN item = DOMAIN input[cur].steps
        /\ free <= cursor /\ free \in Nat /\ cursor \in Nat
        /\ input \in [Occs -> Occurrence]
    BY <1>1 DEF LayInv, TypeOK
  <1>3. item[k] \in Items /\ k \in Open(item) /\ item[k].next <= cursor
    BY <1>1 DEF First, Ready, TypeOK
  <1>4. minutes \in 1 .. MaxMinutes /\ rest \in Seq(1 .. MaxMinutes)
    <2>1. item[k].cycles \in Seq(1 .. MaxMinutes) /\ item[k].cycles # <<>>
      BY <1>3 DEF Items, Open
    <2>2. ASSUME NEW S, NEW s \in Seq(S), s # <<>> PROVE Head(s) \in S /\ Tail(s) \in Seq(S)
      BY <2>2
    <2> QED
      BY <2>1, <2>2
  <1>5. /\ allowed \in 1 .. MaxMinutes
        /\ Window.policy = "truncate_last" => allowed <= MinutesUntilWindowEnd(Window, cursor)
    BY <1>1, <1>2, <1>4, AllowedFacts DEF TypeOK
  <1>6. /\ input[cur].steps[k] \in ZoneStep /\ k \in Nat \ {0}
        /\ Requested(cur, k) \in Nat /\ Soak(cur, k) \in Nat
    BY <1>2, InputFacts
  <1> HIDE DEF minutes, rest, allowed
  <1>7. /\ step \in Steps /\ step.item = k /\ step.start = cursor /\ step.req = Requested(cur, k)
        /\ step.end \in Nat /\ cursor < step.end
        /\ step.dur = allowed /\ step.end = cursor + allowed * Minute
    <2>1. allowed * Minute \in Nat /\ allowed * Minute > 0
      BY <1>5, NumberAssumption, Product
    <2>2. input[cur].steps[k].zone \in ZoneIds
      BY <1>6 DEF ZoneStep
    <2> QED
      BY <1>2, <1>5, <1>6, <2>1, <2>2 DEF RunStep, Steps
  <1> HIDE DEF step
  <1>8. left \in Seq(1 .. MaxMinutes)
    <2>1. <<>> \in Seq(1 .. MaxMinutes)
      OBVIOUS
    <2> QED
      BY <1>4, <2>1
  <1> HIDE DEF left
  <1>9. /\ cursor' \in Nat /\ cursor' = step.end + Gap /\ free <= cursor'
    BY <1>1, <1>2, <1>7, NumberAssumption DEF Released
  <1>10. /\ item' \in Seq(Items) /\ DOMAIN item' = DOMAIN item
         /\ item'[k].next = step.end + Soak(cur, k)
         /\ \A m \in DOMAIN item \ {k} : item'[m] = item[m]
    <2>1. [cycles |-> left, next |-> step.end + Soak(cur, k), nr |-> item[k].nr + 1] \in Items
      BY <1>3, <1>6, <1>7, <1>8 DEF Items
    <2>2. item \in Seq(Items)
      BY DEF TypeOK
    <2> QED
      BY <1>1, <2>1, <2>2 DEF Soaking
  <1>11. steps[cur] \in Seq(Steps) /\ steps'[cur] = Append(steps[cur], step)
         /\ \A o \in Occs \ {cur} : steps'[o] = steps[o]
    BY <1>1, <1>2 DEF TypeOK
  <1>12. /\ DOMAIN steps'[cur] = 1 .. (Len(steps[cur]) + 1)
         /\ DOMAIN steps[cur] = 1 .. Len(steps[cur]) /\ Len(steps[cur]) \in Nat
         /\ steps'[cur][Len(steps[cur]) + 1] = step
         /\ \A i \in DOMAIN steps[cur] : steps'[cur][i] = steps[cur][i]
    BY <1>7, <1>11
  <1>13. Emitted(k, step)
    BY <1>5, <1>7, <1>9, <1>10, <1>11, <1>12 DEF Emitted
  <1> QED
    BY <1>2, <1>3, <1>6, <1>13

\* A cycle starts at the cursor, when its item is due; the cursor moves behind
\* it, and its item is not due again before its soak.
LEMMA EmitPreserves ==
  ASSUME IInv, NEW k \in DOMAIN item, Emit(k)
  PROVE  IInv'
  <1> USE DEF IInv
  <1>1. phase = "lay" /\ UNCHANGED <<input, phase, queue, cur, free, dropped>>
    BY DEF Emit
  <1>2. /\ cur \in Occs /\ cur \notin queue /\ DOMAIN item = DOMAIN input[cur].steps
        /\ free <= cursor /\ free \in Nat /\ cursor \in Nat
        /\ input \in [Occs -> Occurrence]
    BY EmitFacts
  <1>3. item[k] \in Items /\ item[k].next <= cursor
    BY EmitFacts
  <1>4. k \in Nat \ {0} /\ Requested(cur, k) \in Nat /\ Soak(cur, k) \in Nat
    BY EmitFacts
  <1>5. PICK step : Emitted(k, step)
    BY EmitFacts
  <1>6. skipped' \in [Occs -> SUBSET (Nat \ {0})]
    BY <1>2, <1>4 DEF Emit, TypeOK
  <1>7. /\ step \in Steps /\ step.item = k /\ step.start = cursor
        /\ step.end \in Nat /\ cursor < step.end
    BY <1>5 DEF Emitted
  <1>8. /\ cursor' \in Nat /\ cursor' = step.end + Gap /\ free <= cursor'
    BY <1>5 DEF Emitted
  <1>9. /\ item' \in Seq(Items) /\ DOMAIN item' = DOMAIN item
         /\ item'[k].next = step.end + Soak(cur, k)
         /\ \A m \in DOMAIN item \ {k} : item'[m] = item[m]
    BY <1>5 DEF Emitted
  <1>10. steps[cur] \in Seq(Steps) /\ steps'[cur] = Append(steps[cur], step)
         /\ \A o \in Occs \ {cur} : steps'[o] = steps[o]
    BY <1>2, <1>5 DEF Emitted, TypeOK
  <1>11. TypeOK'
    <2>1. steps' \in [Occs -> Seq(Steps)]
      BY <1>2, <1>7, <1>10 DEF Emit, TypeOK
    <2> QED
      BY <1>1, <1>6, <1>8, <1>9, <2>1 DEF TypeOK
  <1>12. /\ DOMAIN steps'[cur] = 1 .. (Len(steps[cur]) + 1)
         /\ DOMAIN steps[cur] = 1 .. Len(steps[cur])
         /\ steps'[cur][Len(steps[cur]) + 1] = step
         /\ \A i \in DOMAIN steps[cur] : steps'[cur][i] = steps[cur][i]
    BY <1>5 DEF Emitted
  <1>13. \A i \in DOMAIN steps'[cur] :
           \/ i \in DOMAIN steps[cur] /\ steps'[cur][i] = steps[cur][i]
           \/ steps'[cur][i] = step
    BY <1>10, <1>12
  <1> QED
    <2>1. PlanInv'
      <3>1. RunOf(cur, steps'[cur])
        <4>1. RunOf(cur, steps[cur])
          BY <1>2 DEF PlanInv
        <4>2. \A i \in DOMAIN steps[cur] : steps[cur][i].end + Gap <= cursor
          BY <1>1 DEF LayInv
        <4>3. \A i \in DOMAIN steps[cur] : steps[cur][i].item = k
                => cursor >= steps[cur][i].end + Soak(cur, k)
          <5>1. ASSUME NEW i \in DOMAIN steps[cur], steps[cur][i].item = k
                PROVE  cursor >= steps[cur][i].end + Soak(cur, k)
            <6>1. item[k].next >= steps[cur][i].end + Soak(cur, k)
              BY <1>1, <5>1 DEF LayInv, ItemInv
            <6>2. steps[cur][i].end \in Nat
              BY <1>2, StepFacts
            <6> QED
              BY <1>2, <1>3, <1>4, <6>1, <6>2 DEF Items
          <5> QED
            BY <5>1
        <4>4. cursor >= Requested(cur, k)
          <5>1. item[k].next >= Requested(cur, k)
            BY <1>1 DEF LayInv, ItemInv
          <5> QED
            BY <1>2, <1>3, <1>4, <5>1 DEF Items
        <4> QED
          BY <1>2, <1>7, <1>10, <4>1, <4>2, <4>3, <4>4, RunGrows
      <3>2. ASSUME NEW o \in Occs PROVE RunOf(o, steps[o])'
        <4>1. RunOf(o, steps'[o])
          BY <1>10, <3>1 DEF PlanInv
        <4> QED
          BY <1>1, <4>1 DEF RunOf, Requested, Soak
      <3>3. ASSUME NEW o \in Occs \ {cur} PROVE Before(o, cur)'
        <4>1. HeldUntilFree(o)
          BY <1>1 DEF LayInv
        <4>2. \A i \in DOMAIN steps'[cur] : free <= steps'[cur][i].start
                                           /\ steps'[cur][i].start \in Nat
          BY <1>1, <1>2, <1>7, <1>13, StepFacts DEF LayInv
        <4>3. \A i \in DOMAIN steps[o] : steps[o][i].end \in Nat
          BY StepFacts
        <4> QED
          BY <1>1, <1>2, <1>10, <4>1, <4>2, <4>3, NumberAssumption DEF Before, HeldUntilFree
      <3>4. ASSUME NEW o \in Occs \ {cur}, NEW p \in Occs \ {cur}, o # p
            PROVE  (Before(o, p) \/ Before(p, o))'
        BY <1>10, <3>4 DEF PlanInv, Before
      <3> QED
        BY <1>1, <3>2, <3>3, <3>4 DEF PlanInv
    <2>2. ItemInv'
      <3>1. ASSUME NEW m \in DOMAIN item, m # k
            PROVE  /\ item'[m].next >= Requested(cur, m)
                   /\ \A i \in DOMAIN steps'[cur] : steps'[cur][i].item = m
                        => item'[m].next >= steps'[cur][i].end + Soak(cur, m)
        BY <1>1, <1>7, <1>9, <1>13, <3>1 DEF LayInv, ItemInv
      <3>2. /\ item'[k].next >= Requested(cur, k)
            /\ \A i \in DOMAIN steps'[cur] : steps'[cur][i].end <= step.end
                                            /\ steps'[cur][i].end \in Nat
        <4>1. cursor >= Requested(cur, k)
          <5>1. item[k].next >= Requested(cur, k)
            BY <1>1 DEF LayInv, ItemInv
          <5> QED
            BY <1>2, <1>3, <1>4, <5>1 DEF Items
        <4>2. \A i \in DOMAIN steps[cur] : steps[cur][i].end + Gap <= cursor
                                          /\ steps[cur][i].end \in Nat
          BY <1>1, <1>2, StepFacts DEF LayInv
        <4> QED
          BY <1>2, <1>4, <1>7, <1>9, <1>13, <4>1, <4>2, NumberAssumption
      <3>3. \A i \in DOMAIN steps'[cur] : item'[k].next >= steps'[cur][i].end + Soak(cur, k)
        BY <1>4, <1>7, <1>9, <3>2
      <3> QED
        BY <1>1, <1>9, <3>1, <3>2, <3>3 DEF ItemInv, Requested, Soak
    <2>3. \A i \in DOMAIN steps'[cur] :
            free <= steps'[cur][i].start /\ steps'[cur][i].end + Gap <= cursor'
      <3>1. \A i \in DOMAIN steps[cur] :
              /\ free <= steps[cur][i].start /\ steps[cur][i].end + Gap <= cursor
              /\ steps[cur][i].end \in Nat
        BY <1>1, <1>2, StepFacts DEF LayInv
      <3> QED
        BY <1>2, <1>7, <1>8, <1>13, <3>1, NumberAssumption
    <2>4. \A o \in queue : steps'[o] = <<>>
      BY <1>1, <1>2, <1>10 DEF LayInv, TypeOK
    <2>5. LayInv'
      BY <1>1, <1>2, <1>8, <1>9, <1>10, <2>2, <2>3, <2>4 DEF LayInv, HeldUntilFree
    <2> QED
      BY <1>1, <1>11, <2>1, <2>5 DEF ClaimInv, VerifyInv, Unwithheld

\* What neither lays out a cycle nor moves the cursor changes no run but to
\* clear the current one.
LEMMA StopsLayingOut ==
  ASSUME IInv, phase = "lay",
         UNCHANGED <<input, phase, queue, cur, cursor, free>>,
         steps' = steps \/ steps' = StepsCleared(cur),
         item' \in Seq(Items), DOMAIN item' = DOMAIN item,
         \A m \in DOMAIN item : item'[m].next = item[m].next,
         skipped' \in [Occs -> SUBSET (Nat \ {0})],
         dropped' = dropped \/ dropped' = [dropped EXCEPT ![cur] = "out_of_window"]
  PROVE  IInv'
  <1> USE DEF IInv
  <1>1. cur \in Occs /\ steps \in [Occs -> Seq(Steps)]
    BY DEF LayInv, TypeOK
  <1>2. \A o \in Occs : steps'[o] = steps[o] \/ steps'[o] = <<>>
    BY <1>1 DEF StepsCleared
  <1>3. \A o \in Occs \ {cur} : steps'[o] = steps[o]
    BY <1>1 DEF StepsCleared
  <1>4. PlanInv'
    BY <1>2, Cleared
  <1>5. TypeOK'
    <2>1. <<>> \in Seq(Steps)
      OBVIOUS
    <2>2. steps' \in [Occs -> Seq(Steps)]
      BY <1>1, <2>1 DEF StepsCleared
    <2> QED
      BY <2>2 DEF TypeOK
  <1>6. ItemInv'
    <2>1. ASSUME NEW m \in DOMAIN item
          PROVE  /\ item'[m].next >= Requested(cur, m)
                 /\ \A i \in DOMAIN steps'[cur] : steps'[cur][i].item = m
                      => item'[m].next >= steps'[cur][i].end + Soak(cur, m)
      <3>1. /\ item[m].next >= Requested(cur, m)
            /\ \A i \in DOMAIN steps[cur] : steps[cur][i].item = m
                 => item[m].next >= steps[cur][i].end + Soak(cur, m)
        BY DEF LayInv, ItemInv
      <3>2. CASE steps'[cur] = <<>>
        <4>1. DOMAIN steps'[cur] = {}
          BY <3>2
        <4> QED
          BY <3>1, <4>1
      <3>3. CASE steps'[cur] = steps[cur]
        BY <3>1, <3>3
      <3> QED
        BY <1>1, <1>2, <3>2, <3>3
    <2> QED
      BY <2>1 DEF ItemInv, Requested, Soak
  <1>7. \A o \in queue : steps'[o] = <<>>
    BY <1>2 DEF LayInv, TypeOK
  <1>8. \A i \in DOMAIN steps'[cur] :
          free <= steps'[cur][i].start /\ steps'[cur][i].end + Gap <= cursor
    BY <1>1, <1>2 DEF LayInv
  <1>9. LayInv'
    BY <1>1, <1>3, <1>6, <1>7, <1>8 DEF LayInv, HeldUntilFree
  <1> QED
    BY <1>4, <1>5, <1>9 DEF ClaimInv, VerifyInv, Unwithheld, TypeOK

\* An item without its cycles is due when it was.
LEMMA NoCycles ==
  ASSUME NEW w \in Items
  PROVE  /\ [w EXCEPT !.cycles = <<>>] \in Items
         /\ [w EXCEPT !.cycles = <<>>].next = w.next
  <1>1. <<>> \in Seq(1 .. MaxMinutes)
    OBVIOUS
  <1> QED
    BY <1>1 DEF Items

\* Leaving an item's cycles out changes no run.
LEMMA LeaveOutPreserves ==
  ASSUME IInv, NEW k \in DOMAIN item, LeaveOut(k)
  PROVE  IInv'
  <1>1. cur \in Occs /\ item \in Seq(Items) /\ k \in Nat \ {0}
    BY DEF LeaveOut, IInv, LayInv, TypeOK
  <1>2. [item[k] EXCEPT !.cycles = <<>>] \in Items
    BY <1>1, NoCycles
  <1>3. item' = [item EXCEPT ![k] = [item[k] EXCEPT !.cycles = <<>>]]
    BY <1>1 DEF LeaveOut, WithoutCycles
  <1>4. /\ item' \in Seq(Items) /\ DOMAIN item' = DOMAIN item
        /\ \A m \in DOMAIN item : item'[m].next = item[m].next
    <2>1. [item EXCEPT ![k] = [item[k] EXCEPT !.cycles = <<>>]] \in Seq(Items)
      BY <1>1, <1>2
    <2>2. [item[k] EXCEPT !.cycles = <<>>].next = item[k].next
      BY <1>1, NoCycles
    <2> QED
      BY <1>1, <1>3, <2>1, <2>2
  <1>5. skipped' \in [Occs -> SUBSET (Nat \ {0})]
    BY <1>1 DEF LeaveOut, IInv, TypeOK
  <1> QED
    BY <1>4, <1>5, StopsLayingOut DEF LeaveOut

\* Dropping an occurrence clears its run.
LEMMA DropPreserves ==
  ASSUME IInv, NEW k \in DOMAIN item, Drop(k)
  PROVE  IInv'
  <1>1. item \in Seq(Items)
    BY DEF IInv, TypeOK
  <1>2. /\ item' \in Seq(Items) /\ DOMAIN item' = DOMAIN item
        /\ \A m \in DOMAIN item : item'[m].next = item[m].next
    <2>1. item' = [m \in DOMAIN item |-> [item[m] EXCEPT !.cycles = <<>>]]
      BY DEF Drop
    <2>2. ASSUME NEW m \in DOMAIN item
          PROVE  /\ [item[m] EXCEPT !.cycles = <<>>] \in Items
                 /\ [item[m] EXCEPT !.cycles = <<>>].next = item[m].next
      BY <1>1, NoCycles
    <2> DEFINE w(m) == [item[m] EXCEPT !.cycles = <<>>]
    <2>3. DOMAIN item = 1 .. Len(item) /\ Len(item) \in Nat
      BY <1>1
    <2>4. \A m \in DOMAIN item : w(m) \in Items /\ w(m).next = item[m].next
      BY <2>2
    <2>5. item' = [m \in 1 .. Len(item) |-> w(m)]
      BY <2>1, <2>3
    <2> HIDE DEF w
    <2>6. item' \in Seq(Items) /\ DOMAIN item' = 1 .. Len(item)
      BY <2>3, <2>4, <2>5
    <2> QED
      BY <2>3, <2>4, <2>5, <2>6
  <1>3. skipped' \in [Occs -> SUBSET (Nat \ {0})]
    BY DEF Drop, IInv, TypeOK
  <1> QED
    BY <1>2, <1>3, StopsLayingOut DEF Drop

\* An occurrence laid out holds the controller until its last cycle is over.
LEMMA LaidOutPreserves ==
  ASSUME IInv, LaidOut
  PROVE  IInv'
  <1> USE DEF IInv
  <1>1. /\ phase = "lay" /\ phase' = "claim" /\ cur' = NoOcc
        /\ UNCHANGED <<input, queue, cursor, item, steps, skipped, dropped>>
    BY DEF LaidOut
  <1>2. cur \in Occs /\ free \in Nat
    BY <1>1 DEF LayInv, TypeOK
  <1>3. /\ free' \in Nat /\ free <= free'
        /\ \A i \in DOMAIN steps[cur] : steps[cur][i].end + Gap <= free'
    <2>1. CASE steps[cur] = <<>>
      BY <1>2, <2>1 DEF LaidOut
    <2>2. CASE steps[cur] # <<>>
      <3>1. PICK i \in DOMAIN steps[cur] :
              /\ \A j \in DOMAIN steps[cur] : steps[cur][j].end <= steps[cur][i].end
              /\ free' = Released(steps[cur][i].end)
        BY <2>2 DEF LaidOut
      <3>2. \A j \in DOMAIN steps[cur] : steps[cur][j].start \in Nat /\ steps[cur][j].end \in Nat
        BY <1>2, StepFacts
      <3>3. free <= steps[cur][i].start /\ steps[cur][i].start < steps[cur][i].end
        BY <1>1, <1>2 DEF LayInv, PlanInv, RunOf
      <3> QED
        BY <1>2, <3>1, <3>2, <3>3, NumberAssumption DEF Released
    <2> QED
      BY <2>1, <2>2
  <1>4. TypeOK'
    BY <1>1, <1>3 DEF TypeOK
  <1>5. PlanInv'
    BY <1>1, Cleared
  <1>6. ASSUME NEW o \in Occs PROVE HeldUntilFree(o)'
    <2>1. CASE o = cur
      BY <1>1, <1>3, <2>1 DEF HeldUntilFree
    <2>2. CASE o # cur
      <3>1. HeldUntilFree(o) /\ \A j \in DOMAIN steps[o] : steps[o][j].end \in Nat
        BY <1>1, <2>2, StepFacts DEF LayInv
      <3> QED
        BY <1>1, <1>2, <1>3, <3>1, NumberAssumption DEF HeldUntilFree
    <2> QED
      BY <2>1, <2>2
  <1>7. ClaimInv'
    BY <1>1, <1>6 DEF LayInv, ClaimInv
  <1> QED
    BY <1>1, <1>4, <1>5, <1>7 DEF LayInv, VerifyInv, Unwithheld

\* The loop over the occurrences ends, or the verifier's does.
LEMMA ReturnsPreserve ==
  ASSUME IInv, AllLaidOut \/ Compiled
  PROVE  IInv'
  <1> USE DEF IInv
  <1>1. /\ phase' \in {"late", "done"} /\ (phase' = "late" => phase = "claim")
        /\ UNCHANGED <<input, queue, cur, cursor, free, item, steps, skipped, dropped>>
    BY DEF AllLaidOut, Compiled
  <1>2. PlanInv'
    BY <1>1, Cleared
  <1>3. TypeOK'
    BY <1>1 DEF TypeOK
  <1> QED
    BY <1>1, <1>2, <1>3 DEF ClaimInv, LayInv, VerifyInv, Unwithheld

\* Late runs are cleared; the verifier looks at those that are left.
LEMMA LatenessPreserves ==
  ASSUME IInv, EnforceLateness
  PROVE  IInv'
  <1> USE DEF IInv
  <1> DEFINE late == {o \in Planned : input[o].skipLate /\ Late(o)}
  <1>1. /\ phase = "late" /\ phase' = "verify"
        /\ dropped' = [o \in Occs |-> IF o \in late THEN "missed_tolerance" ELSE dropped[o]]
        /\ steps' = [o \in Occs |-> IF o \in late THEN <<>> ELSE steps[o]]
        /\ queue' = Planned \ late
        /\ UNCHANGED <<input, cur, cursor, free, item, skipped>>
    BY DEF EnforceLateness
  <1> HIDE DEF late
  <1>2. PlanInv'
    BY <1>1, Cleared
  <1>3. TypeOK'
    BY <1>1 DEF TypeOK, Planned
  <1>4. VerifyInv'
    BY <1>1 DEF VerifyInv, Planned
  <1> QED
    BY <1>1, <1>2, <1>3, <1>4 DEF ClaimInv, LayInv, Unwithheld

\* What the verifier looks for is not there.
LEMMA NothingToWithhold ==
  ASSUME IInv, NEW o \in queue, phase = "verify"
  PROVE  ~OverlapsItself(o) /\ (cur # NoOcc => ~BeginsInside(o, cur))
  <1> USE DEF IInv
  <1>1. o \in Occs
    BY DEF TypeOK
  <1>2. ASSUME NEW i \in DOMAIN steps[o], NEW j \in DOMAIN steps[o], i # j,
               steps[o][i].start <= steps[o][j].start
        PROVE  ~(steps[o][j].start < steps[o][i].end + Gap)
    <2>1. /\ i \in Nat /\ j \in Nat
          /\ steps[o][i].start \in Nat /\ steps[o][i].end \in Nat
          /\ steps[o][j].start \in Nat /\ steps[o][j].end \in Nat
      BY <1>1, StepFacts
    <2>2. RunOf(o, steps[o])
      BY <1>1 DEF PlanInv
    <2>3. CASE i < j
      <3>1. steps[o][i].end + Gap <= steps[o][j].start
        BY <2>2, <2>3 DEF RunOf
      <3> QED
        BY <2>1, <3>1, NumberAssumption
    <2>4. CASE j < i
      <3>1. steps[o][j].end + Gap <= steps[o][i].start /\ steps[o][j].start < steps[o][j].end
        BY <2>2, <2>4 DEF RunOf
      <3> QED
        BY <1>2, <2>1, <3>1, NumberAssumption
    <2> QED
      BY <1>2, <2>1, <2>3, <2>4
  <1>3. ASSUME cur # NoOcc PROVE ~BeginsInside(o, cur)
    <2>1. cur \in Occs /\ o # cur /\ FirstStart(cur, o) /\ steps[o] # <<>>
      BY <1>3 DEF VerifyInv, TypeOK
    <2>2. CASE Before(cur, o)
      <3>1. ASSUME NEW i \in DOMAIN steps[o], NEW j \in DOMAIN steps[cur]
            PROVE  ~(steps[o][i].start < steps[cur][j].end + Gap)
        <4>1. steps[cur][j].end + Gap <= steps[o][i].start
          BY <2>2 DEF Before
        <4>2. steps[o][i].start \in Nat /\ steps[cur][j].end \in Nat
          BY <1>1, <2>1, StepFacts
        <4> QED
          BY <4>1, <4>2, NumberAssumption
      <3> QED
        BY <3>1 DEF BeginsInside
    <2>3. CASE Before(o, cur)
      <3>1. PICK i \in DOMAIN steps[cur] :
              \A j \in DOMAIN steps[o] : steps[cur][i].start <= steps[o][j].start
        BY <2>1 DEF FirstStart
      <3>2. 1 \in DOMAIN steps[o]
        <4>1. steps[o] \in Seq(Steps) /\ steps[o] # <<>>
          BY <1>1, <2>1 DEF TypeOK
        <4> QED
          BY <4>1
      <3>3. /\ steps[o][1].end + Gap <= steps[cur][i].start
            /\ steps[cur][i].start <= steps[o][1].start
            /\ steps[o][1].start < steps[o][1].end
        BY <1>1, <2>3, <3>1, <3>2 DEF Before, PlanInv, RunOf
      <3>4. /\ steps[o][1].start \in Nat /\ steps[o][1].end \in Nat
            /\ steps[cur][i].start \in Nat
        BY <1>1, <2>1, <3>2, StepFacts
      <3> QED
        BY <3>3, <3>4, NumberAssumption
    <2> QED
      BY <1>1, <2>1, <2>2, <2>3 DEF PlanInv
  <1> QED
    BY <1>2, <1>3 DEF OverlapsItself

\* The verifier passes a run, which becomes the last survivor.
LEMMA VerifyPreserves ==
  ASSUME IInv, NEW o \in Occs, Verify(o)
  PROVE  IInv'
  <1> USE DEF IInv
  <1>1. /\ phase = "verify" /\ o \in queue /\ \A p \in queue : FirstStart(o, p)
        /\ queue' = queue \ {o}
        /\ UNCHANGED <<input, phase, cursor, free, item, skipped>>
    BY DEF Verify
  <1>2. cur' = o /\ UNCHANGED <<steps, dropped>>
    BY <1>1, NothingToWithhold DEF Verify
  <1>3. PlanInv'
    BY <1>1, <1>2, Cleared
  <1>4. TypeOK'
    BY <1>1, <1>2 DEF TypeOK
  <1>5. VerifyInv'
    BY <1>1, <1>2 DEF VerifyInv, FirstStart
  <1> QED
    BY <1>1, <1>2, <1>3, <1>4, <1>5 DEF ClaimInv, LayInv, Unwithheld

-----------------------------------------------------------------------------
(* The watering window *)

\* A day passes in Day units of time.
LEMMA Remainder ==
  ASSUME NEW q \in Int, NEW r \in 0 .. (Day - 1)
  PROVE  (Day * q + r) % Day = r
  <1> DEFINE x == Day * q + r
             p == x \div Day
             s == x % Day
  <1>1. Day \in Nat \ {0} /\ x \in Int /\ p \in Int
    BY NumberAssumption
  <1>2. s \in 0 .. (Day - 1) /\ x = Day * p + s
    BY <1>1
  <1> HIDE DEF p, s
  <1>3. Day * (q - p) = s - r /\ s - r < Day /\ r - s < Day
    BY <1>1, <1>2
  <1>4. ~(q - p >= 1) /\ ~(q - p <= -1)
    <2>1. ASSUME NEW a \in Int, a >= 1 PROVE Day * a >= Day
      BY <1>1, <2>1
    <2>2. ASSUME q - p >= 1 PROVE FALSE
      BY <1>1, <1>2, <1>3, <2>1, <2>2
    <2>3. ASSUME q - p <= -1 PROVE FALSE
      <3>1. p - q \in Int /\ p - q >= 1
        BY <1>1, <2>3
      <3>2. Day * (p - q) = r - s
        BY <1>1, <1>2, <1>3
      <3> QED
        BY <1>1, <1>2, <1>3, <2>1, <3>1, <3>2
    <2> QED
      BY <2>2, <2>3
  <1>5. q = p
    BY <1>1, <1>4
  <1>6. s = r
    BY <1>1, <1>2, <1>5
  <1> QED
    BY <1>6 DEF s

\* The local time, less than a day later.
LEMMA LocalTime ==
  ASSUME NEW c \in Nat, NEW d \in Nat, d < Day
  PROVE  /\ c % Day \in 0 .. (Day - 1)
         /\ (c + d) % Day = IF (c % Day) + d < Day THEN (c % Day) + d ELSE (c % Day) + d - Day
  <1> DEFINE q == c \div Day
             l == c % Day
  <1>1. Day \in Nat \ {0} /\ q \in Int /\ l \in 0 .. (Day - 1) /\ c = Day * q + l
    BY NumberAssumption
  <1> HIDE DEF q, l
  <1>2. CASE l + d < Day
    <2>1. l + d \in 0 .. (Day - 1) /\ c + d = Day * q + (l + d)
      BY <1>1, <1>2
    <2>2. (c + d) % Day = l + d
      BY <1>1, <2>1, Remainder
    <2> QED
      BY <1>1, <1>2, <2>2 DEF l
  <1>3. CASE ~(l + d < Day)
    <2>1. l + d - Day \in 0 .. (Day - 1) /\ q + 1 \in Int
      BY <1>1, <1>3
    <2>2. c + d = Day * (q + 1) + (l + d - Day)
      BY <1>1
    <2>3. (c + d) % Day = l + d - Day
      BY <1>1, <2>1, <2>2, Remainder
    <2> QED
      BY <1>1, <1>3, <2>3 DEF l
  <1> QED
    BY <1>2, <1>3

\* Whole minutes fit where their number was counted.
LEMMA WholeMinutes ==
  ASSUME NEW x \in Int, NEW m \in Int, m <= x \div Minute
  PROVE  m * Minute <= x
  <1> DEFINE q == x \div Minute
  <1>1. Minute \in Nat \ {0} /\ q \in Int /\ Minute * q <= x
    BY NumberAssumption
  <1> HIDE DEF q
  <1>2. ASSUME NEW a \in Nat PROVE Minute * a >= 0
    BY <1>1
  <1>3. q - m \in Nat
    BY <1>1 DEF q
  <1>4. Minute * (q - m) >= 0
    BY <1>2, <1>3
  <1> QED
    BY <1>1, <1>4

\* The three kinds of a window: all day, within a day, across midnight.
LEMMA WindowMeans ==
  ASSUME NEW w, w.from \in Int, w.to \in Int, NEW t \in Nat
  PROVE  WindowContains(w, t) <=>
           \/ w.from = w.to
           \/ w.from < w.to /\ w.from <= t % Day /\ t % Day < w.to
           \/ w.from > w.to /\ (w.from <= t % Day \/ t % Day < w.to)
  <1> DEFINE local == t % Day
  <1>1. WindowContains(w, t) =
          CASE w.from = w.to -> TRUE
            [] w.from < w.to -> w.from <= local /\ local < w.to
            [] w.from > w.to -> w.from <= local \/ local < w.to
    BY DEF WindowContains
  <1> HIDE DEF local
  <1>2. CASE w.from = w.to
    BY <1>1, <1>2
  <1>3. CASE w.from < w.to
    <2>1. w.from # w.to /\ ~(w.from > w.to)
      BY <1>3
    <2>2. WindowContains(w, t) <=> w.from <= local /\ local < w.to
      BY <1>1, <1>3, <2>1
    <2> QED
      BY <1>3, <2>1, <2>2 DEF local
  <1>4. CASE w.from > w.to
    <2>1. w.from # w.to /\ ~(w.from < w.to)
      BY <1>4
    <2>2. WindowContains(w, t) <=> w.from <= local \/ local < w.to
      BY <1>1, <1>4, <2>1
    <2> QED
      BY <1>4, <2>1, <2>2 DEF local
  <1> QED
    BY <1>2, <1>3, <1>4

\* A window that is open stays open until its next end.
LEMMA WindowLasts ==
  ASSUME NEW o \in Occs, input \in [Occs -> Occurrence], NEW c \in Nat, NEW t \in Nat,
         WindowContains(input[o].window, c), c <= t,
         NEW m \in Nat, m <= MinutesUntilWindowEnd(input[o].window, c), t < c + m * Minute
  PROVE  WindowContains(input[o].window, t)
  <1> DEFINE w     == input[o].window
             today == c - (c % Day) + w.to
             end   == IF today <= c THEN today + Day ELSE today
             d     == t - c
  <1>1. w.from \in 0 .. (Day - 1) /\ w.to \in 0 .. (Day - 1) /\ Day \in Nat \ {0}
    BY NumberAssumption DEF Occurrence
  <1>2. c % Day \in 0 .. (Day - 1)
    BY <1>1
  <1>3. end \in Int /\ m <= (end - c) \div Minute
    BY <1>1, <1>2 DEF MinutesUntilWindowEnd
  <1> HIDE DEF w
  <1>4. m * Minute <= end - c
    BY <1>3, WholeMinutes
  <1>5. d \in Nat /\ d < end - c /\ d < Day /\ t = c + d
    BY <1>1, <1>2, <1>3, <1>4, NumberAssumption
  <1>6. t % Day = IF (c % Day) + d < Day THEN (c % Day) + d ELSE (c % Day) + d - Day
    BY <1>5, LocalTime
  <1>7. d < IF w.to <= c % Day THEN w.to - (c % Day) + Day ELSE w.to - (c % Day)
    BY <1>1, <1>2, <1>5
  <1> HIDE DEF end, today, d
  <1> DEFINE l == c % Day
             n == t % Day
  <1>8. /\ WindowContains(w, c) <=>
             \/ w.from = w.to
             \/ w.from < w.to /\ w.from <= l /\ l < w.to
             \/ w.from > w.to /\ (w.from <= l \/ l < w.to)
        /\ WindowContains(w, t) <=>
             \/ w.from = w.to
             \/ w.from < w.to /\ w.from <= n /\ n < w.to
             \/ w.from > w.to /\ (w.from <= n \/ n < w.to)
    BY <1>1, WindowMeans
  <1>9. /\ l \in 0 .. (Day - 1)
        /\ n = IF l + d < Day THEN l + d ELSE l + d - Day
        /\ d < IF w.to <= l THEN w.to - l + Day ELSE w.to - l
    BY <1>2, <1>6, <1>7
  <1>10. WindowContains(w, c)
    BY DEF w
  <1> HIDE DEF l, n
  <1>11. CASE w.from = w.to
    BY <1>8, <1>11 DEF w
  <1>12. CASE w.from < w.to
    <2>1. w.from <= l /\ l < w.to
      BY <1>1, <1>8, <1>10, <1>12
    <2>2. w.from <= n /\ n < w.to
      BY <1>1, <1>5, <1>9, <2>1
    <2> QED
      BY <1>8, <1>12, <2>2 DEF w
  <1>13. CASE w.from > w.to
    <2>1. w.from <= l \/ l < w.to
      BY <1>1, <1>8, <1>10, <1>13
    <2>2. w.from <= n \/ n < w.to
      BY <1>1, <1>5, <1>9, <1>13, <2>1
    <2> QED
      BY <1>8, <1>13, <2>2 DEF w
  <1> QED
    BY <1>1, <1>11, <1>12, <1>13

\* A step inside its window.
Inside(o, s) ==
  LET w == input[o].window
  IN  /\ w.policy # "none" => WindowContains(w, s.start)
      /\ w.policy = "truncate_last" => \A t \in s.start .. (s.end - 1) : WindowContains(w, t)

\* Emitting is the only step that extends a run.
LEMMA OthersOnlyClear ==
  ASSUME IInv, [Next]_vars, ~(\E k \in DOMAIN item : Emit(k))
  PROVE  \A o \in Occs : steps'[o] = steps[o] \/ steps'[o] = <<>>
  <1>1. steps \in [Occs -> Seq(Steps)]
    BY DEF IInv, TypeOK
  <1> QED
    BY <1>1 DEF Next, LayOut, Claim, Verify, Emit, LeaveOut, Drop, Wait, LaidOut, AllLaidOut,
                EnforceLateness, Compiled, StepsCleared, vars

LEMMA InputFixed ==
  ASSUME [Next]_vars
  PROVE  UNCHANGED input
  BY DEF Next, LayOut, Claim, Verify, Emit, LeaveOut, Drop, Wait, LaidOut, AllLaidOut,
         EnforceLateness, Compiled, vars

LEMMA WindowStep ==
  ASSUME IInv, InWindow, [Next]_vars
  PROVE  InWindow'
  <1>0. /\ \A o \in Occs : \A i \in DOMAIN steps[o] : Inside(o, steps[o][i])
        /\ input' = input
    BY InputFixed DEF InWindow, Inside
  <1>1. SUFFICES \A o \in Occs : \A i \in DOMAIN steps'[o] : Inside(o, steps'[o][i])
    BY <1>0 DEF InWindow, Inside
  <1>2. CASE ~(\E k \in DOMAIN item : Emit(k))
    BY <1>0, <1>2, OthersOnlyClear
  <1>3. ASSUME NEW k \in DOMAIN item, Emit(k)
        PROVE  \A o \in Occs : \A i \in DOMAIN steps'[o] : Inside(o, steps'[o][i])
    <2>1. PICK s : Emitted(k, s)
      BY <1>3, EmitFacts
    <2>2. cur \in Occs /\ cursor \in Nat /\ input \in [Occs -> Occurrence]
      BY <1>3, EmitFacts
    <2>3. ~Blocked(Window, cursor)
      BY <1>3 DEF Emit
    <2>4. s.start = cursor /\ s.end = cursor + s.dur * Minute /\ s.dur \in Nat
      BY <2>1, NumberAssumption DEF Emitted, Steps
    <2>5. Window.policy # "none" => WindowContains(Window, cursor)
      BY <2>3 DEF Blocked
    <2>6. ASSUME Window.policy = "truncate_last", NEW t \in cursor .. (s.end - 1)
          PROVE  WindowContains(Window, t)
      <3>1. s.dur <= MinutesUntilWindowEnd(Window, cursor) /\ s.end \in Nat
        BY <2>1, <2>6 DEF Emitted
      <3>2. t \in Nat /\ cursor <= t /\ t < cursor + s.dur * Minute
        BY <2>2, <2>4, <2>6, <3>1
      <3> QED
        BY <2>2, <2>4, <2>5, <2>6, <3>1, <3>2, WindowLasts DEF Window
    <2>7. Inside(cur, s)
      BY <2>4, <2>5, <2>6 DEF Inside, Window
    <2>8. \A i \in DOMAIN steps'[cur] :
            \/ i \in DOMAIN steps[cur] /\ steps'[cur][i] = steps[cur][i]
            \/ steps'[cur][i] = s
      BY <2>1 DEF Emitted
    <2>9. \A o \in Occs \ {cur} : steps'[o] = steps[o]
      BY <2>1 DEF Emitted
    <2> QED
      BY <1>0, <2>2, <2>7, <2>8, <2>9
  <1> QED
    BY <1>2, <1>3

-----------------------------------------------------------------------------
(* The order of the runs                                                    *)

\* The first request of the one comes before every request of the other.
Precedes(o, p) ==
  \E k \in Open(WorkItems(o)) : \A m \in Open(WorkItems(p)) : Requested(o, k) < Requested(p, m)

\* Whoever it precedes has not been laid out.
Unserved(o) == \A p \in Occs : Precedes(o, p) => steps[p] = <<>>

OrderInv ==
  /\ \A o, p \in Occs : steps[o] # <<>> /\ steps[p] # <<>> /\ Precedes(o, p) => Before(o, p)
  /\ phase = "claim" => \A o \in queue : Unserved(o)
  /\ phase = "lay" => /\ \A o \in queue : Unserved(o) /\ ~Precedes(o, cur)
                      /\ Unserved(cur)

LEMMA OrderFixed ==
  ASSUME UNCHANGED input
  PROVE  /\ \A o, p : Precedes(o, p)' = Precedes(o, p)
         /\ \A o : Admitted(o)' = Admitted(o) /\ WorkItems(o)' = WorkItems(o)
         /\ \A o, k : Requested(o, k)' = Requested(o, k)
         /\ \A o, p : ClaimsBefore(o, p)' = ClaimsBefore(o, p)
  BY DEF Precedes, Open, WorkItems, WorkItem, Requested, Admitted, ClaimsBefore, ClaimKey

\* The first component of a key decides unless it is the same.
LEMMA LexFirst ==
  ASSUME NEW a, NEW b, 1 \in DOMAIN a, DOMAIN a \subseteq Nat \ {0},
         a[1] \in Nat, b[1] \in Nat, LexLess(a, b)
  PROVE  a[1] <= b[1]
  <1>1. PICK i \in DOMAIN a : a[i] < b[i] /\ \A j \in 1 .. (i - 1) : a[j] = b[j]
    BY DEF LexLess
  <1>2. i = 1 \/ 1 \in 1 .. (i - 1)
    BY <1>1
  <1> QED
    BY <1>1, <1>2

\* Whoever is preceded does not claim the controller first.
LEMMA PrecedenceClaims ==
  ASSUME input \in [Occs -> Occurrence], NEW o \in Occs, NEW p \in Occs, Precedes(o, p)
  PROVE  ~ClaimsBefore(p, o)
  <1>1. PICK k \in Open(WorkItems(o)) :
               \A m \in Open(WorkItems(p)) : Requested(o, k) < Requested(p, m)
    BY DEF Precedes
  <1>2. ASSUME NEW n \in Open(WorkItems(p)), LexLess(ClaimKey(p, n), ClaimKey(o, k))
        PROVE  FALSE
    <2>1. k \in DOMAIN input[o].steps /\ n \in DOMAIN input[p].steps
      BY DEF Open, WorkItems
    <2>2. /\ Requested(o, k) \in Nat /\ Requested(p, n) \in Nat
          /\ WorkItem(o, k).next = Requested(o, k) /\ WorkItem(p, n).next = Requested(p, n)
      BY <2>1, InputFacts DEF WorkItem, Requested
    <2>3. /\ ClaimKey(o, k)[1] = Requested(o, k) /\ ClaimKey(p, n)[1] = Requested(p, n)
          /\ DOMAIN ClaimKey(p, n) = 1 .. 4
      BY <2>2 DEF ClaimKey
    <2>4. Requested(p, n) <= Requested(o, k)
      BY <1>2, <2>2, <2>3, LexFirst
    <2> QED
      BY <1>1, <2>2, <2>4
  <1> QED
    BY <1>1, <1>2 DEF ClaimsBefore

\* What clears runs, and gives nobody the controller, keeps their order.
LEMMA ClearedOrder ==
  ASSUME OrderInv, UNCHANGED input,
         \A o \in Occs : steps'[o] = steps[o] \/ steps'[o] = <<>>
  PROVE  /\ \A o, p \in Occs : steps'[o] # <<>> /\ steps'[p] # <<>> /\ Precedes(o, p)
                                 => Before(o, p)'
         /\ \A o : Unserved(o) => Unserved(o)'
  <1>1. ASSUME NEW o \in Occs, NEW p \in Occs, steps'[o] # <<>>, steps'[p] # <<>>,
               Precedes(o, p)
        PROVE  Before(o, p)'
    <2>1. steps'[o] = steps[o] /\ steps'[p] = steps[p]
      BY <1>1
    <2>2. Before(o, p)
      BY <1>1, <2>1 DEF OrderInv
    <2> QED
      BY <2>1, <2>2 DEF Before
  <1> QED
    BY <1>1, OrderFixed DEF Unserved

LEMMA OrderStep ==
  ASSUME IInv, OrderInv, [Next]_vars
  PROVE  OrderInv'
  <1>0. UNCHANGED input /\ input \in [Occs -> Occurrence] /\ queue \subseteq Occs
    BY InputFixed DEF IInv, TypeOK
  <1>1. ASSUME NEW k \in DOMAIN item, Emit(k)
        PROVE  OrderInv'
    <2>1. PICK s : Emitted(k, s)
      BY <1>1, EmitFacts
    <2>2. /\ phase = "lay" /\ cur \in Occs /\ cur \notin queue
          /\ UNCHANGED <<phase, queue, cur, free>> /\ cursor \in Nat /\ free \in Nat
          /\ free <= cursor
      BY <1>1, EmitFacts DEF Emit
    <2>3. \A o \in Occs \ {cur} : steps'[o] = steps[o]
      BY <2>1 DEF Emitted
    <2>4. \A o \in queue : Unserved(o) /\ ~Precedes(o, cur)
      BY <2>2 DEF OrderInv
    <2>5. ~Precedes(cur, cur)
      <3>1. ASSUME NEW m \in Open(WorkItems(cur)) PROVE Requested(cur, m) \in Nat
        BY <1>0, <2>2, InputFacts DEF Open, WorkItems
      <3> QED
        BY <3>1 DEF Precedes
    <2>6. ASSUME NEW o \in Occs, o = cur \/ o \in queue PROVE Unserved(o)'
      BY <1>0, <2>2, <2>3, <2>4, <2>5, <2>6, OrderFixed DEF OrderInv, Unserved
    <2>7. ASSUME NEW o \in Occs \ {cur} PROVE Before(o, cur)'
      <3>1. \A i \in DOMAIN steps[o] : steps[o][i].end + Gap <= free /\ steps[o][i].end \in Nat
        BY <2>2, StepFacts DEF IInv, LayInv, HeldUntilFree
      <3>2. \A j \in DOMAIN steps'[cur] : free <= steps'[cur][j].start
                                          /\ steps'[cur][j].start \in Nat
        <4>1. \A j \in DOMAIN steps[cur] : free <= steps[cur][j].start
                                           /\ steps[cur][j].start \in Nat
          BY <2>2, StepFacts DEF IInv, LayInv
        <4>2. \A j \in DOMAIN steps'[cur] :
                \/ j \in DOMAIN steps[cur] /\ steps'[cur][j] = steps[cur][j]
                \/ steps'[cur][j] = s
          BY <2>1 DEF Emitted
        <4>3. free <= s.start /\ s.start \in Nat
          BY <2>1, <2>2 DEF Emitted
        <4> QED
          BY <4>1, <4>2, <4>3
      <3> QED
        BY <2>2, <2>3, <3>1, <3>2, NumberAssumption DEF Before
    <2>8. ASSUME NEW o \in Occs, NEW p \in Occs, steps'[o] # <<>>, steps'[p] # <<>>,
                 Precedes(o, p)
          PROVE  Before(o, p)'
      <3>1. CASE p = cur
        <4>1. o # cur
          BY <2>5, <2>8, <3>1
        <4> QED
          BY <2>2, <2>7, <3>1, <4>1
      <3>2. CASE o = cur /\ p # cur
        BY <2>2, <2>3, <2>8, <3>2 DEF OrderInv, Unserved
      <3>3. CASE o # cur /\ p # cur
        <4>1. steps'[o] = steps[o] /\ steps'[p] = steps[p]
          BY <2>3, <3>3
        <4>2. Before(o, p)
          BY <2>8, <4>1 DEF OrderInv
        <4> QED
          BY <4>1, <4>2 DEF Before
      <3> QED
        BY <3>1, <3>2, <3>3
    <2> QED
      BY <1>0, <2>2, <2>4, <2>6, <2>8, OrderFixed DEF OrderInv
  <1>2. CASE ~(\E k \in DOMAIN item : Emit(k))
    <2>1. \A o \in Occs : steps'[o] = steps[o] \/ steps'[o] = <<>>
      BY <1>2, OthersOnlyClear
    <2>2. /\ \A o, p \in Occs : steps'[o] # <<>> /\ steps'[p] # <<>> /\ Precedes(o, p)
                                  => Before(o, p)'
          /\ \A o : Unserved(o) => Unserved(o)'
      BY <1>0, <2>1, ClearedOrder
    <2>3. ASSUME NEW c \in Occs, Claim(c)
          PROVE  OrderInv'
      <3>1. /\ phase = "claim" /\ phase' = "lay" /\ cur' = c /\ queue' = queue \ {c}
            /\ c \in queue /\ \A o \in queue \ {c} : ClaimsBefore(c, o)
        BY <2>3 DEF Claim
      <3>2. \A o \in queue \ {c} : ~Precedes(o, c)
        BY <1>0, <3>1, PrecedenceClaims
      <3> QED
        BY <1>0, <2>2, <3>1, <3>2, OrderFixed DEF OrderInv
    <2>4. CASE /\ phase' = phase /\ cur' = cur /\ queue' \subseteq queue
      BY <1>0, <2>2, <2>4, OrderFixed DEF OrderInv
    <2>5. CASE LaidOut
      BY <1>0, <2>2, <2>5, OrderFixed DEF OrderInv, LaidOut
    <2>6. CASE phase' \in {"late", "verify", "done"}
      BY <1>0, <2>2, <2>6, OrderFixed DEF OrderInv
    <2> QED
      BY <1>2, <2>3, <2>4, <2>5, <2>6
      DEF Next, LayOut, Verify, LeaveOut, Drop, Wait, AllLaidOut, EnforceLateness, Compiled, vars
  <1> QED
    BY <1>1, <1>2

LEMMA OrderServes ==
  ASSUME OrderInv
  PROVE  ServedInOrder
  BY DEF OrderInv, ServedInOrder, Planned, Precedes

-----------------------------------------------------------------------------
(* Lateness *)

\* Somebody with something to water claims the controller first.
Behind(o) ==
  \E p \in Occs \ {o} : Admitted(p) /\ Open(WorkItems(p)) # {} /\ ClaimsBefore(p, o)

\* The run begins no later than any of its steps was asked for.
Prompt(o) == \A r \in DOMAIN steps[o] : steps[o][1].start <= steps[o][r].req

\* ... and will, whatever is left of it: until the first cycle, the cursor is
\* not past any request.
PromptSoFar ==
  \A k \in Open(item) :
    IF steps[cur] = <<>>
    THEN cursor <= Requested(cur, k) /\ item[k].next = Requested(cur, k)
    ELSE steps[cur][1].start <= Requested(cur, k)

LateInv ==
  /\ LateOnlyBehindOthers
  /\ \A o \in Occs : Behind(o) \/ Prompt(o)
  /\ phase \in {"claim", "lay"} =>
       \A o \in queue : Admitted(o) /\ Open(WorkItems(o)) # {}
  /\ phase = "claim" => \A o \in queue : Behind(o) \/ free = 0
  /\ phase = "lay" => /\ \A o \in queue : Behind(o)
                      /\ Behind(cur) \/ PromptSoFar

LEMMA BehindFixed ==
  ASSUME UNCHANGED input
  PROVE  \A o : Behind(o)' = Behind(o)
  BY OrderFixed DEF Behind, Open

\* Leaving cycles out, for good or with the whole occurrence.
LEMMA LeavesOut ==
  ASSUME IInv, NEW k \in DOMAIN item, LeaveOut(k) \/ Drop(k)
  PROVE  /\ Open(item') \subseteq Open(item)
         /\ \A m \in Open(item') : item'[m] = item[m]
         /\ UNCHANGED <<input, phase, queue, cur, cursor, free>>
         /\ Open(item') = {} \/ UNCHANGED steps
  <1>1. CASE LeaveOut(k)
    <2>1. item \in Seq(Items)
      BY DEF IInv, TypeOK
    <2>2. /\ DOMAIN item' = DOMAIN item
          /\ \A m \in DOMAIN item : IF m = k THEN item'[m].cycles = <<>> ELSE item'[m] = item[m]
      <3>1. item[k] \in Items
        BY <2>1
      <3>2. [item[k] EXCEPT !.cycles = <<>>].cycles = <<>>
        BY <3>1 DEF Items
      <3> QED
        BY <1>1, <2>1, <3>2 DEF LeaveOut, WithoutCycles
    <2> QED
      BY <1>1, <2>2 DEF LeaveOut, Open
  <1>2. CASE Drop(k)
    <2>1. /\ item' = [m \in DOMAIN item |-> [item[m] EXCEPT !.cycles = <<>>]]
          /\ item \in Seq(Items)
      BY <1>2 DEF Drop, IInv, TypeOK
    <2>2. \A m \in DOMAIN item : [item[m] EXCEPT !.cycles = <<>>].cycles = <<>>
      <3>1. \A m \in DOMAIN item : item[m] \in Items
        BY <2>1
      <3> QED
        BY <3>1 DEF Items
    <2>3. \A m \in DOMAIN item' : item'[m].cycles = <<>>
      BY <2>1, <2>2
    <2>4. Open(item') = {}
      BY <2>3 DEF Open
    <2> QED
      BY <1>2, <2>4 DEF Drop
  <1> QED
    BY <1>1, <1>2

\* After a cycle, no other item is open than before, and those are as they were.
LEMMA EmitKeepsItems ==
  ASSUME NEW k \in Open(item), NEW s, Emitted(k, s)
  PROVE  /\ Open(item') \subseteq Open(item)
         /\ \A m \in Open(item') \ {k} : item'[m] = item[m]
  BY DEF Emitted, Open

LEMMA LateStep ==
  ASSUME IInv, LateInv, [Next]_vars
  PROVE  LateInv'
  <1>0. UNCHANGED input /\ input \in [Occs -> Occurrence] /\ queue \subseteq Occs
    BY InputFixed DEF IInv, TypeOK
  <1>1. \A o \in Occs : dropped[o] = "missed_tolerance" => Behind(o)
    BY DEF LateInv, LateOnlyBehindOthers, Behind
  <1>2. ASSUME \A o \in Occs : dropped'[o] = "missed_tolerance" => Behind(o)
        PROVE  LateOnlyBehindOthers'
    BY <1>0, <1>2, OrderFixed DEF LateOnlyBehindOthers, Behind, Open
  <1>3. ASSUME NEW k \in DOMAIN item, Emit(k)
        PROVE  LateInv'
    <2>1. PICK s : Emitted(k, s)
      BY <1>3, EmitFacts
    <2>2. /\ phase = "lay" /\ cur \in Occs /\ k \in Open(item)
          /\ UNCHANGED <<phase, queue, cur, free, dropped>>
      BY <1>3, EmitFacts DEF Emit
    <2>3. \A o \in Occs \ {cur} : steps'[o] = steps[o]
      BY <2>1 DEF Emitted
    <2>4. Open(item') \subseteq Open(item)
      BY <2>1, <2>2, EmitKeepsItems
    <2>5. ASSUME ~Behind(cur) PROVE Prompt(cur)' /\ PromptSoFar'
      <3>1. PromptSoFar
        BY <2>2, <2>5 DEF LateInv
      <3>2. s.start = cursor /\ s.req = Requested(cur, k)
        BY <2>1 DEF Emitted
      <3>3. \A i \in DOMAIN steps'[cur] :
              \/ i \in DOMAIN steps[cur] /\ steps'[cur][i] = steps[cur][i]
              \/ steps'[cur][i] = s
        BY <2>1 DEF Emitted
      <3>4. CASE steps[cur] = <<>>
        <4>1. DOMAIN steps[cur] = {} /\ steps'[cur][1] = s /\ steps'[cur] # <<>>
          BY <2>1, <3>4 DEF Emitted
        <4>2. \A m \in Open(item) : cursor <= Requested(cur, m)
          BY <3>1, <3>4 DEF PromptSoFar
        <4> QED
          BY <1>0, <2>2, <2>4, <3>2, <3>3, <4>1, <4>2, OrderFixed DEF Prompt, PromptSoFar
      <3>5. CASE steps[cur] # <<>>
        <4>1. /\ 1 \in DOMAIN steps[cur] /\ steps'[cur][1] = steps[cur][1]
              /\ steps'[cur] # <<>>
          <5>1. steps[cur] \in Seq(Steps)
            BY <2>2 DEF IInv, TypeOK
          <5>2. 1 \in DOMAIN steps[cur] /\ 1 \in DOMAIN steps'[cur]
            BY <2>1, <3>5, <5>1 DEF Emitted
          <5> QED
            BY <2>1, <5>2 DEF Emitted
        <4>2. \A m \in Open(item) : steps[cur][1].start <= Requested(cur, m)
          BY <3>1, <3>5 DEF PromptSoFar
        <4>3. \A r \in DOMAIN steps[cur] : steps[cur][1].start <= steps[cur][r].req
          BY <2>2, <2>5 DEF LateInv, Prompt
        <4> QED
          BY <1>0, <2>2, <2>4, <3>2, <3>3, <4>1, <4>2, <4>3, OrderFixed
          DEF Prompt, PromptSoFar
      <3> QED
        BY <3>4, <3>5
    <2>6. \A o \in Occs : Behind(o) \/ Prompt(o)'
      BY <2>2, <2>3, <2>5 DEF LateInv, Prompt
    <2> QED
      BY <1>0, <1>1, <1>2, <2>2, <2>5, <2>6, BehindFixed, OrderFixed DEF LateInv, Open
  <1>4. CASE ~(\E k \in DOMAIN item : Emit(k))
    <2>1. \A o \in Occs : Behind(o) \/ Prompt(o)'
      <3>1. \A o \in Occs : steps'[o] = steps[o] \/ steps'[o] = <<>>
        BY <1>4, OthersOnlyClear
      <3> QED
        BY <3>1 DEF LateInv, Prompt
    <2>2. ASSUME NEW c \in Occs, Claim(c)
          PROVE  LateInv'
      <3>1. /\ phase = "claim" /\ phase' = "lay" /\ cur' = c /\ queue' = queue \ {c}
            /\ c \in queue /\ \A o \in queue \ {c} : ClaimsBefore(c, o)
            /\ UNCHANGED <<free, dropped, steps>> /\ item' = WorkItems(c)
        BY <2>2 DEF Claim
      <3>2. Admitted(c) /\ Open(WorkItems(c)) # {} /\ (Behind(c) \/ free = 0)
        BY <3>1 DEF LateInv
      <3>3. \A o \in queue' : Behind(o)
        BY <1>0, <3>1, <3>2 DEF Behind
      <3>4. ASSUME free = 0 PROVE PromptSoFar'
        <4>1. steps'[c] = <<>>
          BY <3>1 DEF IInv, ClaimInv
        <4>2. PICK k \in Open(item') : /\ \A m \in Open(item') : item'[k].next <= item'[m].next
                                       /\ cursor' = Enter(c, item'[k].next)
          BY <2>2 DEF Claim
        <4>3. \A m \in Open(item') : item'[m].next = Requested(c, m) /\ Requested(c, m) \in Nat
          BY <1>0, <3>1, WorkItemFacts, InputFacts DEF Open
        <4>4. cursor' = item'[k].next
          BY <3>4, <4>2, <4>3 DEF Enter
        <4> QED
          BY <1>0, <3>1, <4>1, <4>2, <4>3, <4>4, OrderFixed DEF PromptSoFar
      <3> QED
        BY <1>0, <1>1, <1>2, <2>1, <3>1, <3>2, <3>3, <3>4, BehindFixed, OrderFixed
        DEF LateInv, Open
    <2>3. CASE Wait
      <3>1. /\ phase = "lay"
            /\ UNCHANGED <<phase, queue, cur, free, item, steps, dropped>>
        BY <2>3 DEF Wait
      <3>2. PICK k \in Open(item) : FirstDue(k) /\ cursor' = item[k].next
        BY <2>3 DEF Wait
      <3>3. PromptSoFar => PromptSoFar'
        BY <1>0, <3>1, <3>2, OrderFixed DEF PromptSoFar, FirstDue, Open
      <3> QED
        BY <1>0, <1>1, <1>2, <2>1, <3>1, <3>3, BehindFixed, OrderFixed DEF LateInv, Open
    <2>4. ASSUME NEW k \in DOMAIN item, LeaveOut(k) \/ Drop(k)
          PROVE  LateInv'
      <3>1. /\ phase = "lay" /\ UNCHANGED <<phase, queue, cur, free, cursor>>
            /\ \A o \in Occs : dropped'[o] = dropped[o] \/ dropped'[o] = "out_of_window"
        BY <2>4 DEF LeaveOut, Drop, IInv, TypeOK
      <3>2. /\ Open(item') \subseteq Open(item) /\ \A m \in Open(item') : item'[m] = item[m]
            /\ Open(item') = {} \/ UNCHANGED steps
        BY <2>4, LeavesOut
      <3>3. PromptSoFar => PromptSoFar'
        BY <1>0, <3>1, <3>2, OrderFixed DEF PromptSoFar
      <3> QED
        BY <1>0, <1>1, <1>2, <2>1, <3>1, <3>3, BehindFixed, OrderFixed DEF LateInv, Open
    <2>5. CASE LaidOut \/ AllLaidOut \/ Compiled \/ UNCHANGED vars
      <3>1. /\ UNCHANGED <<queue, dropped, steps>>
            /\ \/ LaidOut /\ phase = "lay" /\ phase' = "claim"
               \/ phase' \in {"late", "done"}
               \/ UNCHANGED <<phase, cur, free, cursor, item>>
        BY <2>5 DEF LaidOut, AllLaidOut, Compiled, vars
      <3>2. UNCHANGED <<cur, cursor, item>> => (PromptSoFar => PromptSoFar')
        BY <1>0, <3>1, OrderFixed DEF PromptSoFar, Open
      <3> QED
        BY <1>0, <1>1, <1>2, <2>1, <3>1, <3>2, BehindFixed, OrderFixed DEF LateInv, Open
    <2>6. CASE EnforceLateness
      <3>1. ASSUME NEW o \in Occs, Late(o), steps[o] # <<>> PROVE Behind(o)
        <4>1. PICK r \in DOMAIN steps[o] : \A i \in DOMAIN steps[o] :
                steps[o][i].start > steps[o][r].req + Tolerance * Minute
          BY <3>1 DEF Late
        <4>2. /\ 1 \in DOMAIN steps[o]
              /\ steps[o][1].start \in Nat /\ steps[o][r].req \in Nat
          <5>1. steps[o] \in Seq(Steps)
            BY DEF IInv, TypeOK
          <5>2. 1 \in DOMAIN steps[o] /\ steps[o][1] \in Steps /\ steps[o][r] \in Steps
            BY <3>1, <4>1, <5>1
          <5> QED
            BY <5>2 DEF Steps
        <4>3. Tolerance * Minute \in Nat
          BY NumberAssumption, Product
        <4>4. ~(steps[o][1].start <= steps[o][r].req)
          <5>1. steps[o][1].start > steps[o][r].req + Tolerance * Minute
            BY <4>1, <4>2
          <5> QED
            BY <4>2, <4>3, <5>1
        <4> QED
          BY <4>4 DEF LateInv, Prompt
      <3>2. \A o \in Occs : dropped'[o] = "missed_tolerance" => Behind(o)
        BY <1>1, <2>6, <3>1 DEF EnforceLateness, Planned
      <3> QED
        BY <1>0, <1>2, <2>1, <2>6, <3>2, BehindFixed DEF LateInv, EnforceLateness
    <2>7. ASSUME NEW o \in Occs, Verify(o)
          PROVE  LateInv'
      <3>1. /\ phase' = "verify"
            /\ \A p \in Occs : dropped'[p] = dropped[p] \/ dropped'[p] = "planner_collision"
        BY <2>7 DEF Verify, IInv, TypeOK
      <3> QED
        BY <1>0, <1>1, <1>2, <2>1, <3>1, BehindFixed DEF LateInv
    <2> QED
      BY <1>4, <2>2, <2>3, <2>4, <2>5, <2>6, <2>7 DEF Next, LayOut
  <1> QED
    BY <1>3, <1>4

-----------------------------------------------------------------------------
(* Idling *)

\* `i' is the last cycle of the item `k' among the first `n' of a run.
LastOf(run, n, k, i) ==
  /\ i \in 1 .. n /\ run[i].item = k
  /\ \A m \in 1 .. n : run[m].item = k => m <= i

\* Item `k', its first cycle asked for at `req', may not go on before `t'.
NotDueBefore(o, run, n, k, req, t) ==
  \/ (\A i \in 1 .. n : run[i].item # k) /\ req >= t
  \/ \E i \in 1 .. n : LastOf(run, n, k, i) /\ run[i].end + Soak(o, k) >= t

IdlesBefore(run, i) == i \in 2 .. Len(run) /\ run[i].start > run[i - 1].end + Gap

Busy(o, run) ==
  \A i \in DOMAIN run : IdlesBefore(run, i) =>
    \A j \in i .. Len(run) :
      NotDueBefore(o, run, j - 1, run[j].item, run[j].req, run[i].start)

\* The plan tells when an open item is due, and why there was nothing to do
\* whenever the controller idled, now included.
DueInv ==
  \A k \in Open(item) :
    /\ NotDueBefore(cur, steps[cur], Len(steps[cur]), k, Requested(cur, k), item[k].next)
    /\ \A i \in DOMAIN steps[cur] :
         IdlesBefore(steps[cur], i) => item[k].next >= steps[cur][i].start
    /\ steps[cur] # <<>> /\ cursor > steps[cur][Len(steps[cur])].end + Gap
         => item[k].next >= cursor

IdleInv == (\A o \in Occs : Busy(o, steps[o])) /\ (phase = "lay" => DueInv)

\* The last cycle of an item is the one Due chooses.
LEMMA DueIsLast ==
  ASSUME TypeOK, NEW o \in Occs, NEW j \in DOMAIN steps[o], NEW t \in Nat,
         NotDueBefore(o, steps[o], j - 1, steps[o][j].item, steps[o][j].req, t)
  PROVE  Due(o, j) >= t
  <1> DEFINE own  == {i \in 1 .. (j - 1) : steps[o][i].item = steps[o][j].item}
             last == CHOOSE i \in own : \A m \in own : m <= i
  <1>1. CASE own = {}
    <2>1. Due(o, j) = steps[o][j].req
      BY <1>1 DEF Due
    <2>2. ~\E i \in 1 .. (j - 1) : steps[o][i].item = steps[o][j].item
      BY <1>1
    <2> QED
      BY <2>1, <2>2 DEF NotDueBefore, LastOf
  <1>2. CASE own # {}
    <2>1. PICK i \in 1 .. (j - 1) : /\ LastOf(steps[o], j - 1, steps[o][j].item, i)
                                    /\ steps[o][i].end + Soak(o, steps[o][j].item) >= t
      BY <1>2 DEF NotDueBefore
    <2>2. i \in own /\ \A m \in own : m <= i
      BY <2>1 DEF LastOf
    <2>3. last \in own /\ \A m \in own : m <= last
      BY <2>2
    <2>4. last = i
      BY <2>2, <2>3
    <2>5. Due(o, j) = steps[o][last].end + Soak(o, steps[o][j].item)
      BY <1>2 DEF Due
    <2> QED
      BY <2>1, <2>4, <2>5
  <1> QED
    BY <1>1, <1>2

LEMMA BusyMeans ==
  ASSUME TypeOK, \A o \in Occs : Busy(o, steps[o])
  PROVE  NoIdling
  <1> SUFFICES ASSUME NEW o \in Occs, NEW i \in 2 .. Len(steps[o]),
                      steps[o][i].start > steps[o][i - 1].end + Gap,
                      NEW j \in i .. Len(steps[o])
               PROVE  Due(o, j) >= steps[o][i].start
    BY DEF NoIdling
  <1>1. DOMAIN steps[o] = 1 .. Len(steps[o]) /\ Len(steps[o]) \in Nat
    BY DEF TypeOK
  <1>2. i \in DOMAIN steps[o] /\ j \in DOMAIN steps[o] /\ IdlesBefore(steps[o], i)
    BY <1>1 DEF IdlesBefore
  <1>3. NotDueBefore(o, steps[o], j - 1, steps[o][j].item, steps[o][j].req, steps[o][i].start)
    BY <1>2 DEF Busy
  <1> QED
    BY <1>2, <1>3, StepFacts, DueIsLast

LEMMA BusyFixed ==
  ASSUME UNCHANGED input
  PROVE  /\ \A o, k : Soak(o, k)' = Soak(o, k)
         /\ \A o, run : Busy(o, run)' = Busy(o, run)
         /\ \A o, run, n, k, req, t :
              NotDueBefore(o, run, n, k, req, t)' = NotDueBefore(o, run, n, k, req, t)
  BY DEF Soak, Busy, NotDueBefore, LastOf, IdlesBefore

\* What a cycle that is appended does not change, and what it does.
LEMMA IdlesStill ==
  ASSUME NEW o, NEW run \in Seq(Steps), NEW s \in Steps
  PROVE  LET new == Append(run, s)  n == Len(run)
         IN  /\ DOMAIN new = 1 .. (n + 1) /\ DOMAIN run = 1 .. n /\ n \in Nat
             /\ Len(new) = n + 1 /\ new[n + 1] = s
             /\ \A i \in 1 .. n : new[i] = run[i]
             /\ \A i \in 1 .. n : IdlesBefore(new, i) => IdlesBefore(run, i)
             /\ IdlesBefore(new, n + 1) => run # <<>> /\ s.start > run[n].end + Gap
             /\ \A k, req, t : \A m \in 0 .. n :
                  NotDueBefore(o, run, m, k, req, t) => NotDueBefore(o, new, m, k, req, t)
             /\ \A req : \A t \in Nat : s.end + Soak(o, s.item) >= t
                  => NotDueBefore(o, new, n + 1, s.item, req, t)
             /\ \A k, req, t : k # s.item /\ NotDueBefore(o, run, n, k, req, t)
                  => NotDueBefore(o, new, n + 1, k, req, t)
  <1> DEFINE new == Append(run, s)
             n   == Len(run)
  <1>1. /\ DOMAIN new = 1 .. (n + 1) /\ DOMAIN run = 1 .. n /\ n \in Nat
        /\ Len(new) = n + 1 /\ new[n + 1] = s
        /\ \A i \in 1 .. n : new[i] = run[i]
        /\ n = 0 => run = <<>>
    OBVIOUS
  <1> HIDE DEF new, n
  <1>2. ASSUME NEW i \in 1 .. n, IdlesBefore(new, i)
        PROVE  IdlesBefore(run, i)
    <2>1. i \in 2 .. n /\ i - 1 \in 1 .. n
      BY <1>1, <1>2 DEF IdlesBefore
    <2> QED
      BY <1>1, <1>2, <2>1 DEF IdlesBefore, n
  <1>3. ASSUME IdlesBefore(new, n + 1)
        PROVE  run # <<>> /\ s.start > run[n].end + Gap
    <2>1. n + 1 \in 2 .. (n + 1) /\ (n + 1) - 1 = n
      BY <1>1, <1>3 DEF IdlesBefore
    <2>2. n \in 1 .. n /\ run # <<>>
      BY <1>1, <2>1 DEF n
    <2> QED
      BY <1>1, <1>3, <2>1, <2>2 DEF IdlesBefore
  <1>4. ASSUME NEW k, NEW req, NEW t, NEW m \in 0 .. n, NotDueBefore(o, run, m, k, req, t)
        PROVE  NotDueBefore(o, new, m, k, req, t)
    <2>1. \A i \in 1 .. m : new[i] = run[i]
      BY <1>1
    <2> QED
      BY <1>4, <2>1 DEF NotDueBefore, LastOf
  <1>5. ASSUME NEW req, NEW t \in Nat, s.end + Soak(o, s.item) >= t
        PROVE  NotDueBefore(o, new, n + 1, s.item, req, t)
    <2>1. n + 1 \in 1 .. (n + 1) /\ \A m \in 1 .. (n + 1) : m <= n + 1
      BY <1>1
    <2>2. LastOf(new, n + 1, s.item, n + 1)
      BY <1>1, <2>1 DEF LastOf
    <2> QED
      BY <1>1, <1>5, <2>1, <2>2 DEF NotDueBefore
  <1>6. ASSUME NEW k, NEW req, NEW t, k # s.item, NotDueBefore(o, run, n, k, req, t)
        PROVE  NotDueBefore(o, new, n + 1, k, req, t)
    <2>1. \A i \in 1 .. (n + 1) : i \in 1 .. n \/ new[i].item # k
      BY <1>1, <1>6
    <2>2. 1 .. n \subseteq 1 .. (n + 1)
      BY <1>1
    <2> QED
      BY <1>1, <1>6, <2>1, <2>2 DEF NotDueBefore, LastOf
  <1> QED
    BY <1>1, <1>2, <1>3, <1>4, <1>5, <1>6 DEF new, n

LEMMA IdleStep ==
  ASSUME IInv, IdleInv, [Next]_vars
  PROVE  IdleInv'
  <1>0. UNCHANGED input /\ input \in [Occs -> Occurrence] /\ queue \subseteq Occs
    BY InputFixed DEF IInv, TypeOK
  <1>1. ASSUME NEW k \in DOMAIN item, Emit(k)
        PROVE  IdleInv'
    <2> DEFINE run == steps[cur]
               n   == Len(run)
    <2>1. PICK s : Emitted(k, s)
      BY <1>1, EmitFacts
    <2>2. /\ phase = "lay" /\ cur \in Occs /\ k \in Open(item)
          /\ UNCHANGED <<phase, cur>> /\ cursor \in Nat /\ Soak(cur, k) \in Nat
          /\ item[k].next \in Nat /\ item[k].next <= cursor
      BY <1>1, EmitFacts DEF Emit, Items
    <2>3. /\ s \in Steps /\ s.item = k /\ s.req = Requested(cur, k) /\ s.start = cursor
          /\ s.end \in Nat /\ cursor < s.end /\ cursor' = s.end + Gap
          /\ item'[k].next = s.end + Soak(cur, k)
          /\ \A o \in Occs \ {cur} : steps'[o] = steps[o]
          /\ steps'[cur] = Append(run, s)
      BY <2>1 DEF Emitted
    <2>4. Open(item') \subseteq Open(item) /\ \A m \in Open(item') \ {k} : item'[m] = item[m]
      BY <2>1, <2>2, EmitKeepsItems
    <2>5. run \in Seq(Steps) /\ Busy(cur, run) /\ DueInv
      BY <2>2 DEF IInv, TypeOK, IdleInv
    <2> HIDE DEF run
    <2> DEFINE new == Append(run, s)
    <2>6. /\ steps'[cur] = new
          /\ DOMAIN new = 1 .. (n + 1) /\ DOMAIN run = 1 .. n /\ n \in Nat
          /\ Len(new) = n + 1 /\ new[n + 1] = s
          /\ \A i \in 1 .. n : new[i] = run[i]
          /\ \A i \in 1 .. n : IdlesBefore(new, i) => IdlesBefore(run, i)
          /\ IdlesBefore(new, n + 1) => run # <<>> /\ s.start > run[n].end + Gap
      BY <2>3, <2>5, IdlesStill
    <2>7. /\ \A m, req, t : \A j \in 0 .. n :
               NotDueBefore(cur, run, j, m, req, t) => NotDueBefore(cur, new, j, m, req, t)
          /\ \A req : \A t \in Nat : s.end + Soak(cur, s.item) >= t
               => NotDueBefore(cur, new, n + 1, s.item, req, t)
          /\ \A m, req, t : m # s.item /\ NotDueBefore(cur, run, n, m, req, t)
               => NotDueBefore(cur, new, n + 1, m, req, t)
      BY <2>3, <2>5, IdlesStill
    <2> HIDE DEF new, n
    <2>8. ASSUME NEW m \in Open(item)
          PROVE  /\ NotDueBefore(cur, run, n, m, Requested(cur, m), item[m].next)
                 /\ \A i \in DOMAIN run : IdlesBefore(run, i) => item[m].next >= run[i].start
                 /\ run # <<>> /\ cursor > run[n].end + Gap => item[m].next >= cursor
      BY <2>5 DEF DueInv, run, n
    \* Whenever the run idled, the last time included, no open item was due.
    <2>9. ASSUME NEW i \in DOMAIN new, IdlesBefore(new, i), NEW m \in Open(item)
          PROVE  item[m].next >= new[i].start
      <3>1. CASE i = n + 1
        BY <2>3, <2>6, <2>8, <2>9, <3>1
      <3>2. CASE i # n + 1
        <4>1. i \in 1 .. n
          BY <2>6, <3>2
        <4> QED
          BY <2>6, <2>8, <2>9, <4>1
      <3> QED
        BY <3>1, <3>2
    <2>10. \A i \in DOMAIN new : new[i].start \in Nat /\ new[i].start <= cursor
      <3>1. ASSUME NEW i \in 1 .. n PROVE run[i].start \in Nat /\ run[i].start <= cursor
        <4>1. i \in DOMAIN steps[cur]
          BY <2>6, <3>1 DEF run
        <4>2. steps[cur][i].end + Gap <= cursor /\ steps[cur][i].start < steps[cur][i].end
          BY <2>2, <4>1 DEF IInv, LayInv, PlanInv, RunOf
        <4> QED
          BY <2>2, <4>1, <4>2, StepFacts, NumberAssumption DEF IInv, run
      <3>2. \A i \in DOMAIN new : i \in 1 .. n \/ i = n + 1
        BY <2>6
      <3> QED
        BY <2>2, <2>3, <2>6, <3>1, <3>2
    <2>11. Busy(cur, new)
      <3> SUFFICES ASSUME NEW i \in DOMAIN new, IdlesBefore(new, i), NEW j \in i .. Len(new)
                   PROVE  NotDueBefore(cur, new, j - 1, new[j].item, new[j].req, new[i].start)
        BY DEF Busy
      <3>1. CASE j = n + 1
        <4>1. NotDueBefore(cur, run, n, k, Requested(cur, k), item[k].next)
          BY <2>2, <2>8
        <4>2. item[k].next >= new[i].start /\ new[i].start \in Nat
          BY <2>2, <2>9, <2>10
        <4>3. NotDueBefore(cur, run, n, k, Requested(cur, k), new[i].start)
          <5>1. CASE \A l \in 1 .. n : run[l].item # k
            <6>1. Requested(cur, k) >= item[k].next
              BY <4>1, <5>1 DEF NotDueBefore, LastOf
            <6>2. Requested(cur, k) \in Nat
              BY <1>1, EmitFacts
            <6> QED
              BY <2>2, <4>2, <5>1, <6>1, <6>2 DEF NotDueBefore
          <5>2. CASE ~\A l \in 1 .. n : run[l].item # k
            <6>1. PICK l \in 1 .. n : /\ LastOf(run, n, k, l)
                                      /\ run[l].end + Soak(cur, k) >= item[k].next
              BY <4>1, <5>2 DEF NotDueBefore
            <6>2. run[l].end \in Nat
              <7>1. run[l] \in Steps
                BY <2>5, <2>6, <6>1
              <7> QED
                BY <7>1 DEF Steps
            <6>3. run[l].end + Soak(cur, k) >= new[i].start
              BY <2>2, <4>2, <6>1, <6>2
            <6> QED
              BY <6>1, <6>3 DEF NotDueBefore
          <5> QED
            BY <5>1, <5>2
        <4>4. n \in 0 .. n /\ j - 1 = n
          BY <2>6, <3>1
        <4> QED
          BY <2>3, <2>6, <2>7, <3>1, <4>3, <4>4
      <3>2. CASE j # n + 1
        <4>1. i \in 1 .. n /\ j \in i .. n /\ j \in 1 .. n /\ j - 1 \in 0 .. n
          BY <2>6, <3>2
        <4>2. NotDueBefore(cur, run, j - 1, run[j].item, run[j].req, run[i].start)
          BY <2>5, <2>6, <4>1 DEF Busy, n
        <4> QED
          BY <2>6, <2>7, <4>1, <4>2
      <3> QED
        BY <3>1, <3>2
    <2>12. ASSUME NEW m \in Open(item')
           PROVE  /\ NotDueBefore(cur, new, n + 1, m, Requested(cur, m), item'[m].next)
                  /\ \A i \in DOMAIN new : IdlesBefore(new, i) => item'[m].next >= new[i].start
      <3>1. CASE m = k
        <4>1. item'[k].next \in Nat /\ s.end + Soak(cur, s.item) >= item'[k].next
              /\ item'[k].next >= cursor
          BY <2>2, <2>3
        <4>2. \A i \in DOMAIN new : item'[k].next >= new[i].start
          BY <2>2, <2>10, <4>1
        <4> QED
          BY <2>3, <2>7, <3>1, <4>1, <4>2
      <3>2. CASE m # k
        <4>1. m \in Open(item) /\ item'[m] = item[m]
          BY <2>4, <3>2
        <4> QED
          BY <2>3, <2>7, <2>8, <2>9, <3>2, <4>1
      <3> QED
        BY <3>1, <3>2
    <2>13. ~(cursor' > new[n + 1].end + Gap)
      BY <2>3, <2>6, NumberAssumption
    <2>14. DueInv'
      <3>1. Len(new) = n + 1 /\ steps'[cur'] = new /\ cur' = cur
        BY <2>2, <2>6
      <3> QED
        BY <1>0, <2>2, <2>12, <2>13, <3>1, BusyFixed, OrderFixed DEF DueInv, IdlesBefore, Open
    <2>15. ASSUME NEW o \in Occs PROVE Busy(o, steps'[o])
      BY <2>3, <2>6, <2>11, <2>15 DEF IdleInv
    <2> QED
      BY <1>0, <2>14, <2>15, BusyFixed DEF IdleInv
  <1>2. CASE ~(\E k \in DOMAIN item : Emit(k))
    <2>1. \A o \in Occs : Busy(o, steps[o])'
      <3>1. \A o \in Occs : steps'[o] = steps[o] \/ steps'[o] = <<>>
        BY <1>2, OthersOnlyClear
      <3>2. \A o \in Occs : Busy(o, <<>>)
        BY DEF Busy
      <3> QED
        BY <1>0, <3>1, <3>2, BusyFixed DEF IdleInv
    <2>2. ASSUME NEW c \in Occs, Claim(c)
          PROVE  DueInv'
      <3>1. cur' = c /\ item' = WorkItems(c) /\ UNCHANGED steps /\ steps[c] = <<>>
        BY <2>2 DEF Claim, IInv, ClaimInv
      <3>2. \A k \in Open(item') : item'[k].next = Requested(c, k) /\ Requested(c, k) \in Nat
        BY <1>0, <3>1, WorkItemFacts, InputFacts DEF Open
      <3>3. Len(<<>>) = 0 /\ 1 .. 0 = {} /\ DOMAIN <<>> = {}
        OBVIOUS
      <3>4. \A k \in Open(item') :
              NotDueBefore(c, <<>>, 0, k, Requested(c, k), item'[k].next)
        BY <3>2, <3>3 DEF NotDueBefore
      <3> QED
        BY <1>0, <3>1, <3>3, <3>4, BusyFixed, OrderFixed DEF DueInv, Open
    <2>3. ASSUME Wait, phase = "lay"
          PROVE  DueInv'
      <3>1. UNCHANGED <<cur, item, steps>> /\ DueInv
        BY <2>3 DEF Wait, IdleInv
      <3>2. \A m \in Open(item) : item[m].next >= cursor'
        <4>1. PICK k \in Open(item) : FirstDue(k) /\ cursor' = item[k].next
          BY <2>3 DEF Wait
        <4>2. \A m \in Open(item) : item[m] \in Items
          BY DEF IInv, TypeOK, Open
        <4> QED
          BY <4>1, <4>2 DEF FirstDue, Items
      <3> QED
        BY <1>0, <3>1, <3>2, BusyFixed, OrderFixed DEF DueInv, Open, IdlesBefore
    <2>4. ASSUME NEW k \in DOMAIN item, LeaveOut(k) \/ Drop(k), phase = "lay"
          PROVE  DueInv'
      <3>1. /\ Open(item') \subseteq Open(item)
            /\ \A m \in Open(item') : item'[m] = item[m]
            /\ UNCHANGED <<cur, cursor>> /\ (Open(item') = {} \/ UNCHANGED steps)
        BY <2>4, LeavesOut
      <3>2. DueInv
        BY <2>4 DEF IdleInv
      <3>3. CASE Open(item') = {}
        BY <3>3 DEF DueInv, Open
      <3>4. CASE UNCHANGED steps
        BY <1>0, <3>1, <3>2, <3>4, BusyFixed, OrderFixed DEF DueInv, IdlesBefore, Open
      <3> QED
        BY <3>1, <3>3, <3>4
    <2>5. CASE UNCHANGED vars
      BY <1>0, <2>1, <2>5, BusyFixed, OrderFixed DEF vars, IdleInv, DueInv, IdlesBefore, Open
    <2>6. CASE phase' # "lay"
      BY <2>1, <2>6 DEF IdleInv
    <2> QED
      BY <1>2, <2>1, <2>2, <2>3, <2>4, <2>5, <2>6
      DEF IdleInv, Next, LayOut, Verify, LeaveOut, Drop, Wait, LaidOut, AllLaidOut,
          EnforceLateness, Compiled
  <1> QED
    BY <1>1, <1>2

-----------------------------------------------------------------------------
(* Minutes: the cycles of a step are a prefix of those it was split into,  *)
(* and all of them sum to what it asked for.                               *)

LEMMA FirstNatural ==
  ASSUME NEW B, B \subseteq Nat, B # {}
  PROVE  \E m \in B : \A n \in B : ~(n < m)
  <1>1. \E m \in B : \A n \in B : <<n, m>> \notin OpToRel(<, Nat)
    BY NatLessThanWellFounded, WFMin
  <1>2. \A m, n \in Nat : n < m => <<n, m>> \in OpToRel(<, Nat)
    BY DEF OpToRel
  <1> QED
    BY <1>1, <1>2

\* The first cycles of a sequence are a cycle more than those before it.
LEMMA Prefixes ==
  ASSUME NEW c \in Seq(Nat)
  PROVE  /\ Sum(c, 1 .. 0) = 0
         /\ \A n \in 0 .. Len(c) : Sum(c, 1 .. n) \in Nat
         /\ \A n \in 0 .. (Len(c) - 1) : Sum(c, 1 .. (n + 1)) = Sum(c, 1 .. n) + c[n + 1]
  <1>1. DOMAIN c = 1 .. Len(c) /\ Len(c) \in Nat /\ \A i \in 1 .. Len(c) : c[i] \in Nat
    OBVIOUS
  <1>2. Sum(c, 1 .. 0) = 0
    <2>1. 1 .. 0 = {} /\ IsFiniteSet({})
      BY FS_EmptySet
    <2> QED
      BY <2>1, SumStep
  <1>3. ASSUME NEW n \in 0 .. Len(c)
        PROVE  IsFiniteSet(1 .. n) /\ \A i \in 1 .. n : c[i] \in Nat
    BY <1>1, FS_Interval
  <1>4. ASSUME NEW n \in 0 .. Len(c) PROVE Sum(c, 1 .. n) \in Nat
    BY <1>3, SumType
  <1>5. ASSUME NEW n \in 0 .. (Len(c) - 1)
        PROVE  Sum(c, 1 .. (n + 1)) = Sum(c, 1 .. n) + c[n + 1]
    <2>1. n + 1 \in 0 .. Len(c) /\ n \in 0 .. Len(c) /\ n + 1 \in 1 .. (n + 1)
      BY <1>1
    <2>2. (1 .. (n + 1)) \ {n + 1} = 1 .. n
      BY <2>1
    <2>3. Sum(c, 1 .. (n + 1)) = c[n + 1] + Sum(c, (1 .. (n + 1)) \ {n + 1})
      BY <1>3, <2>1, SumRemove
    <2>4. c[n + 1] \in Nat /\ Sum(c, 1 .. n) \in Nat
      BY <1>3, <1>4, <2>1
    <2> DEFINE before == Sum(c, 1 .. n)
               after  == Sum(c, 1 .. (n + 1))
               last   == c[n + 1]
    <2>5. after = last + before /\ last \in Nat /\ before \in Nat
      BY <2>2, <2>3, <2>4
    <2> HIDE DEF before, after, last
    <2>6. after = before + last
      BY <2>5
    <2> QED
      BY <2>6 DEF before, after, last
  <1> QED
    BY <1>2, <1>4, <1>5

LEMMA AllocationSums ==
  ASSUME NEW total \in 1 .. MaxMinutes, NEW max \in Nat
  PROVE  LET all == AllocateCycles(total, max)
         IN  /\ Len(all) \in Nat \ {0}
             /\ Sum(all, 1 .. Len(all)) = total
             /\ \A n \in 0 .. Len(all) : Sum(all, 1 .. n) \in 0 .. total
  <1> DEFINE all == AllocateCycles(total, max)
  <1>1. all \in Seq(1 .. MaxMinutes) /\ all \in Seq(Nat)
    <2>1. all \in Seq(1 .. MaxMinutes)
      BY CyclesType
    <2>2. \A s \in Seq(1 .. MaxMinutes) : s \in Seq(Nat)
      BY NumberAssumption
    <2> HIDE DEF all
    <2> QED
      BY <2>1, <2>2
  <1>2. total \in Nat /\ total >= 1
    BY NumberAssumption
  <1>3. CASE max = 0 \/ total <= max
    <2>1. all = <<total>> /\ Len(all) = 1 /\ all[1] = total
      BY <1>3 DEF AllocateCycles
    <2> HIDE DEF all
    <2>2. /\ Sum(all, 1 .. 0) = 0
          /\ \A n \in 0 .. (Len(all) - 1) : Sum(all, 1 .. (n + 1)) = Sum(all, 1 .. n) + all[n + 1]
      BY <1>1, Prefixes
    <2>3. 0 \in 0 .. (Len(all) - 1) /\ 0 + 1 = 1
      BY <2>1
    <2>4. Sum(all, 1 .. 1) = Sum(all, 1 .. 0) + all[1]
      BY <2>2, <2>3
    <2>5. \A n \in 0 .. Len(all) : n = 0 \/ n = 1
      BY <2>1
    <2>6. 0 \in 0 .. total /\ total \in 0 .. total
      BY <1>2
    <2>7. Sum(all, 1 .. 1) = total /\ Sum(all, 1 .. Len(all)) = total
      BY <1>2, <2>1, <2>2, <2>4
    <2>8. \A n \in 0 .. Len(all) : Sum(all, 1 .. n) \in 0 .. total
      BY <2>2, <2>5, <2>6, <2>7
    <2>9. Len(all) \in Nat \ {0}
      BY <2>1
    <2> QED
      BY <2>7, <2>8, <2>9 DEF all
  <1>4. CASE ~(max = 0 \/ total <= max)
    <2> DEFINE count == (total + max - 1) \div max
               q     == total \div count
               r     == total % count
    <2>1. max >= 1 /\ total > max
      BY <1>2, <1>4
    <2>2. count \in Nat /\ count >= 2 /\ count <= total
      BY <1>2, <2>1, CycleCount
    <2>3. all = [k \in 1 .. count |-> q + IF k <= r THEN 1 ELSE 0]
      BY <1>4 DEF AllocateCycles
    <2> HIDE DEF count
    <2>4. q \in Nat /\ r \in 0 .. (count - 1) /\ total = q * count + r
      <3>1. \A a \in Nat, b \in Nat \ {0} :
              a \div b \in Nat /\ a % b \in 0 .. (b - 1) /\ a = (a \div b) * b + (a % b)
        OBVIOUS
      <3>2. count \in Nat \ {0}
        BY <2>2
      <3> QED
        BY <1>2, <3>1, <3>2
    <2> HIDE DEF q, r
    <2>5. Len(all) = count /\ \A k \in 1 .. count : all[k] = q + IF k <= r THEN 1 ELSE 0
      BY <2>2, <2>3
    <2> HIDE DEF all
    <2>6. /\ Sum(all, 1 .. 0) = 0
          /\ \A n \in 0 .. (Len(all) - 1) : Sum(all, 1 .. (n + 1)) = Sum(all, 1 .. n) + all[n + 1]
      BY <1>1, Prefixes
    <2> DEFINE B == {n \in 0 .. count : Sum(all, 1 .. n) # q * n + Least(n, r)}
    <2>7. ASSUME B # {} PROVE FALSE
      <3>1. B \subseteq Nat
        BY <2>2
      <3>2. PICK m \in B : \A n \in B : ~(n < m)
        <4> HIDE DEF B
        <4> QED
          BY <2>7, <3>1, FirstNatural
      <3>3. m \in 0 .. count /\ Sum(all, 1 .. m) # q * m + Least(m, r)
        BY <3>2
      <3>4. CASE m = 0
        <4>1. Sum(all, 1 .. 0) # q * 0 + Least(0, r)
          BY <3>3, <3>4
        <4>2. q * 0 + Least(0, r) = 0
          BY <2>4, <2>2 DEF Least
        <4> QED
          BY <2>6, <4>1, <4>2
      <3>5. CASE m # 0
        <4> DEFINE p == m - 1
        <4>1. p \in 0 .. (count - 1) /\ p \in 0 .. count /\ p \in Nat /\ p < m /\ p + 1 = m
          BY <2>2, <3>3, <3>5
        <4>2. Sum(all, 1 .. p) = q * p + Least(p, r)
          BY <3>2, <4>1
        <4>3. Sum(all, 1 .. m) = Sum(all, 1 .. p) + (q + IF m <= r THEN 1 ELSE 0)
          <5>1. m \in 1 .. count
            BY <2>2, <3>3, <3>5
          <5> QED
            BY <2>5, <2>6, <4>1, <5>1
        <4>4. q * m = q * p + q
          <5> HIDE DEF p
          <5>1. \A a, b \in Nat : a * (b + 1) = a * b + a
            OBVIOUS
          <5> QED
            BY <2>4, <4>1, <5>1
        <4>5. Least(m, r) = Least(p, r) + IF m <= r THEN 1 ELSE 0
          BY <2>2, <2>4, <4>1 DEF Least
        <4>6. q * p \in Nat /\ Least(p, r) \in Nat
          BY <2>2, <2>4, <4>1 DEF Least
        <4> QED
          BY <2>4, <3>3, <4>2, <4>3, <4>4, <4>5, <4>6
      <3> QED
        BY <3>4, <3>5
    <2>8. \A n \in 0 .. count : Sum(all, 1 .. n) = q * n + Least(n, r)
      BY <2>7
    <2>9. Sum(all, 1 .. count) = total
      <3>1. count \in 0 .. count /\ Least(count, r) = r
        BY <2>2, <2>4 DEF Least
      <3> QED
        BY <2>4, <2>8, <3>1
    <2>10. ASSUME NEW n \in 0 .. count PROVE Sum(all, 1 .. n) \in 0 .. total
      <3>1. q * n \in Nat /\ q * n <= q * count
        <4>1. \A a, b, c \in Nat : b <= c => a * b \in Nat /\ a * b <= a * c
          OBVIOUS
        <4> QED
          BY <2>2, <2>4, <4>1
      <3>2. Least(n, r) \in Nat /\ Least(n, r) <= r
        BY <2>2, <2>4 DEF Least
      <3>3. q * count \in Nat
        BY <2>2, <2>4
      <3> QED
        BY <1>2, <2>4, <2>8, <3>1, <3>2, <3>3
    <2> QED
      BY <2>2, <2>5, <2>9, <2>10 DEF all
  <1> QED
    BY <1>3, <1>4

\* PlannedMinutes of a run.
OfItem(run, k) == {i \in DOMAIN run : run[i].item = k}
Watered(run, k) ==
  SumFunctionOnSet([i \in OfItem(run, k) |-> run[i].dur], OfItem(run, k))

LEMMA PlannedIsWatered ==
  \A o, k : PlannedMinutes(o, k) = Watered(steps[o], k)
  BY DEF PlannedMinutes, Watered, OfItem

LEMMA WateredFacts ==
  ASSUME NEW run \in Seq(Steps), NEW k
  PROVE  /\ Watered(run, k) \in Nat
         /\ OfItem(run, k) = {} => Watered(run, k) = 0
         /\ \A s \in Steps :
              Watered(Append(run, s), k) = Watered(run, k) + IF s.item = k THEN s.dur ELSE 0
  <1> DEFINE own == OfItem(run, k)
             dur == [i \in own |-> run[i].dur]
  <1>1. DOMAIN run = 1 .. Len(run) /\ Len(run) \in Nat /\ \A i \in 1 .. Len(run) : run[i] \in Steps
    OBVIOUS
  <1>2. own \subseteq 1 .. Len(run) /\ IsFiniteSet(own)
    <2>1. IsFiniteSet(1 .. Len(run)) /\ own \in SUBSET (1 .. Len(run))
      BY <1>1, FS_Interval DEF OfItem
    <2> QED
      BY <2>1, FS_Subset
  <1>3. \A s \in Steps : s.dur \in Nat
    BY NumberAssumption DEF Steps
  <1>4. \A i \in own : dur[i] \in Nat
    BY <1>1, <1>2, <1>3
  <1>5. Watered(run, k) = Sum(dur, own)
    BY DEF Watered, Sum
  <1> HIDE DEF own, dur
  <1>6. Sum(dur, own) \in Nat /\ (own = {} => Sum(dur, own) = 0)
    BY <1>2, <1>4, SumType, SumStep
  <1>7. ASSUME NEW s \in Steps
        PROVE  Watered(Append(run, s), k) = Watered(run, k) + IF s.item = k THEN s.dur ELSE 0
    <2> DEFINE new  == Append(run, s)
               n    == Len(run) + 1
               all  == OfItem(new, k)
               durs == [i \in all |-> new[i].dur]
    <2>1. /\ DOMAIN new = 1 .. n /\ n \notin 1 .. Len(run) /\ n \in 1 .. n /\ new[n] = s
          /\ \A i \in 1 .. n : i = n \/ i \in 1 .. Len(run)
          /\ \A i \in 1 .. Len(run) : i \in 1 .. n /\ new[i] = run[i]
      BY <1>1
    <2>2. Watered(new, k) = Sum(durs, all)
      BY DEF Watered, Sum
    <2> HIDE DEF new, n
    <2>3. all = own \cup (IF s.item = k THEN {n} ELSE {}) /\ n \notin own
      BY <1>1, <1>2, <2>1 DEF OfItem, own
    <2>4. \A i \in own : i \in all /\ durs[i] = dur[i]
      BY <1>2, <2>1, <2>3 DEF dur
    <2> HIDE DEF all
    <2>5. IsFiniteSet(all)
      BY <1>2, <2>3, FS_AddElement, FS_EmptySet
    <2> HIDE DEF durs
    <2>6. Sum(durs, own) = Sum(dur, own)
      BY <1>2, <2>4, SumSame
    <2>7. CASE s.item = k
      <3>1. n \in all /\ all \ {n} = own
        BY <2>3, <2>7
      <3>2. durs[n] = s.dur
        BY <2>1, <3>1 DEF durs
      <3>3. \A i \in all : durs[i] \in Nat
        BY <1>3, <1>4, <2>3, <2>4, <2>7, <3>2
      <3>4. Sum(durs, all) = durs[n] + Sum(durs, all \ {n})
        BY <2>5, <3>1, <3>3, SumRemove
      <3>5. Sum(durs, all) = s.dur + Sum(dur, own)
        BY <2>6, <3>1, <3>2, <3>4
      <3>6. s.dur + Sum(dur, own) = Sum(dur, own) + s.dur
        BY <1>3, <1>6
      <3> QED
        BY <1>5, <2>2, <2>7, <3>5, <3>6 DEF new
    <2>8. CASE s.item # k
      <3>1. all = own
        BY <2>3, <2>8
      <3>2. Watered(new, k) = Watered(run, k)
        BY <1>5, <2>2, <2>6, <3>1
      <3> QED
        BY <1>5, <1>6, <2>8, <3>2 DEF new
    <2> QED
      BY <2>7, <2>8
  <1> QED
    BY <1>5, <1>6, <1>7 DEF own

Strict(o) == input[o].window.policy \in {"defer_occurrence", "require_intervention"}
Asked(o, k) == Minutes(input[o].steps[k])
Cycles(o, k) == WorkItem(o, k).cycles

\* An item that gets fewer minutes than it asked for is one the window may cut.
Settled(o, k) ==
  \/ PlannedMinutes(o, k) = Asked(o, k)
  \/ /\ PlannedMinutes(o, k) < Asked(o, k) /\ ~Strict(o)
     /\ k \in skipped[o] \/ CutByWindow(o, k)

Gone(o) == steps[o] = <<>> /\ dropped[o] # "no"

Accounted(o) == Gone(o) \/ \A k \in DOMAIN input[o].steps : Settled(o, k)

\* An open item has the cycles left that were not laid out.
Unfinished(k) ==
  LET all == Cycles(cur, k)
      nr  == item[k].nr
  IN  /\ nr < Len(all)
      /\ item[k].cycles = [i \in 1 .. (Len(all) - nr) |-> all[i + nr]]
      /\ PlannedMinutes(cur, k) = Sum(all, 1 .. nr)

MinutesInv ==
  /\ phase \in {"claim", "lay"} => \A o \in queue : dropped[o] = "no"
  /\ phase = "lay" =>
       /\ Open(item) # {} => dropped[cur] = "no"
       /\ \A k \in DOMAIN item :
            IF item[k].cycles = <<>> THEN Gone(cur) \/ Settled(cur, k) ELSE Unfinished(k)
  /\ \A o \in Occs :
       \/ phase \in {"claim", "lay"} /\ o \in queue
       \/ phase = "lay" /\ o = cur
       \/ Accounted(o)

\* The cycles of an item are numbers, and sum to what it asks for.
LEMMA CyclesFacts ==
  ASSUME input \in [Occs -> Occurrence], NEW o \in Occs, NEW k \in DOMAIN input[o].steps
  PROVE  LET all == Cycles(o, k)
         IN  /\ all \in Seq(1 .. MaxMinutes) /\ all \in Seq(Nat) /\ Asked(o, k) \in Nat
             /\ all = <<>> <=> Asked(o, k) = 0
             /\ all # <<>> => /\ Sum(all, 1 .. Len(all)) = Asked(o, k)
                              /\ \A n \in 0 .. Len(all) : Sum(all, 1 .. n) \in 0 .. Asked(o, k)
             /\ \A n \in 0 .. (Len(all) - 1) : Sum(all, 1 .. (n + 1)) = Sum(all, 1 .. n) + all[n + 1]
             /\ Sum(all, 1 .. 0) = 0
  <1> DEFINE s   == input[o].steps[k]
             all == Cycles(o, k)
  <1>1. s \in ZoneStep /\ Minutes(s) \in 0 .. MaxMinutes /\ s.max \in Nat
    <2>1. s \in ZoneStep
      BY InputFacts
    <2> QED
      BY <2>1, MinutesType DEF ZoneStep
  <1>2. /\ all = IF Minutes(s) = 0 THEN <<>> ELSE AllocateCycles(Minutes(s), s.max)
        /\ Asked(o, k) = Minutes(s)
    BY DEF Cycles, WorkItem, Asked
  <1> HIDE DEF s, all
  <1>3. Minutes(s) # 0 => Minutes(s) \in 1 .. MaxMinutes
    BY <1>1, NumberAssumption
  <1>4. ASSUME Minutes(s) # 0
        PROVE  /\ all \in Seq(1 .. MaxMinutes) /\ Len(all) \in Nat \ {0}
               /\ Sum(all, 1 .. Len(all)) = Minutes(s)
               /\ \A n \in 0 .. Len(all) : Sum(all, 1 .. n) \in 0 .. Minutes(s)
    BY <1>1, <1>2, <1>3, <1>4, CyclesType, AllocationSums
  <1>5. all \in Seq(1 .. MaxMinutes) /\ (all = <<>> <=> Minutes(s) = 0)
    <2>1. <<>> \in Seq(1 .. MaxMinutes) /\ Len(<<>>) = 0
      OBVIOUS
    <2> QED
      BY <1>2, <1>4, <2>1
  <1>6. all \in Seq(Nat)
    <2>1. \A c \in Seq(1 .. MaxMinutes) : c \in Seq(Nat)
      BY NumberAssumption
    <2> QED
      BY <1>5, <2>1
  <1>7. Minutes(s) \in Nat
    BY <1>1, NumberAssumption
  <1> QED
    BY <1>2, <1>4, <1>5, <1>6, <1>7, Prefixes DEF all

\* What emitting a cycle does to the cycles of its item, and to its minutes.
LEMMA EmitAccounts ==
  ASSUME IInv, NEW k \in DOMAIN item, Emit(k), NEW s, Emitted(k, s)
  PROVE  LET minutes == Head(item[k].cycles)
         IN  /\ s.dur = Allowed(Window, cursor, minutes)
             /\ item'[k].nr = item[k].nr + 1
             /\ item'[k].cycles = IF s.dur < minutes THEN <<>> ELSE Tail(item[k].cycles)
             /\ \A o \in Occs : skipped[o] \subseteq skipped'[o]
             /\ UNCHANGED dropped
  <1> DEFINE minutes == Head(item[k].cycles)
             allowed == Allowed(Window, cursor, minutes)
             left    == IF allowed < minutes THEN <<>> ELSE Tail(item[k].cycles)
             step    == RunStep(k, allowed)
  <1>1. /\ steps' = [steps EXCEPT ![cur] = Append(@, step)]
        /\ item' = Soaking(k, step.end, left) /\ UNCHANGED dropped
        /\ skipped' = [skipped EXCEPT ![cur] = IF allowed < minutes /\ Tail(item[k].cycles) # <<>>
                                               THEN @ \cup {k} ELSE @]
    BY DEF Emit
  <1>2. cur \in Occs /\ item \in Seq(Items) /\ steps \in [Occs -> Seq(Steps)]
    BY EmitFacts DEF IInv, TypeOK
  <1>3. step.dur = allowed
    BY DEF RunStep
  <1> HIDE DEF step, allowed, left
  <1>4. s = step
    <2>1. steps'[cur] = Append(steps[cur], step) /\ steps[cur] \in Seq(Steps)
      BY <1>1, <1>2
    <2>2. steps'[cur][Len(steps[cur]) + 1] = step
      BY <2>1
    <2> QED
      BY <2>2 DEF Emitted
  <1>5. item'[k] = [cycles |-> left, next |-> step.end + Soak(cur, k), nr |-> item[k].nr + 1]
    BY <1>1, <1>2 DEF Soaking
  <1>6. \A o \in Occs : skipped[o] \subseteq skipped'[o]
    BY <1>1 DEF IInv, TypeOK
  <1>7. item'[k].nr = item[k].nr + 1 /\ item'[k].cycles = left
    BY <1>5
  <1>8. s.dur = allowed
    BY <1>3, <1>4
  <1>9. left = IF s.dur < minutes THEN <<>> ELSE Tail(item[k].cycles)
    BY <1>8 DEF left
  <1>10. s.dur = Allowed(Window, cursor, minutes)
    BY <1>8 DEF allowed
  <1> HIDE DEF minutes
  <1> QED
    BY <1>1, <1>6, <1>7, <1>9, <1>10 DEF minutes

\* What is left of a sequence behind its first n elements.
LEMMA SuffixType ==
  ASSUME NEW S, NEW q \in Seq(S), NEW n \in Nat, n <= Len(q)
  PROVE  LET c == [i \in 1 .. (Len(q) - n) |-> q[i + n]]
         IN  c \in Seq(S) /\ Len(c) = Len(q) - n
  <1> DEFINE m == Len(q) - n
             c == [i \in 1 .. m |-> q[i + n]]
  <1>1. m \in Nat
    OBVIOUS
  <1>2. \A i \in 1 .. m : q[i + n] \in S
    <2>1. \A i \in 1 .. m : i + n \in 1 .. Len(q)
      OBVIOUS
    <2>2. \A i \in 1 .. Len(q) : q[i] \in S
      OBVIOUS
    <2> QED
      BY <2>1, <2>2
  <1> HIDE DEF m
  <1>3. \A i \in 1 .. m : c[i] \in S
    BY <1>2
  <1>4. DOMAIN c = 1 .. m /\ c \in [1 .. m -> S]
    BY <1>2
  <1> HIDE DEF c
  <1>5. c \in Seq(S)
    BY <1>1, <1>4
  <1>6. Len(c) = m
    BY <1>1, <1>4, <1>5
  <1> QED
    BY <1>5, <1>6 DEF m, c

LEMMA MinutesFixed ==
  ASSUME UNCHANGED input
  PROVE  /\ \A o : Strict(o)' = Strict(o)
         /\ \A o, k : Asked(o, k)' = Asked(o, k) /\ Cycles(o, k)' = Cycles(o, k)
         /\ \A o, k : steps'[o] = steps[o] /\ skipped[o] \subseteq skipped'[o] /\ Settled(o, k)
                        => Settled(o, k)'
         /\ \A o, k : steps'[o] = steps[o] => PlannedMinutes(o, k)' = PlannedMinutes(o, k)
  <1>1. /\ \A o : Strict(o)' = Strict(o)
        /\ \A o, k : Asked(o, k)' = Asked(o, k) /\ Cycles(o, k)' = Cycles(o, k)
    BY DEF Strict, Asked, Cycles, WorkItem
  <1>2. ASSUME NEW o, NEW k, steps'[o] = steps[o]
        PROVE  /\ PlannedMinutes(o, k)' = PlannedMinutes(o, k)
               /\ CutByWindow(o, k)' = CutByWindow(o, k)
    BY <1>2 DEF PlannedMinutes, CutByWindow
  <1> QED
    BY <1>1, <1>2 DEF Settled

\* After a cycle that was laid out whole, or cut at the end of the window.
LEMMA EmitSettles ==
  ASSUME IInv, MinutesInv, NEW k \in DOMAIN item, Emit(k)
  PROVE  IF item'[k].cycles = <<>> THEN Settled(cur, k)' ELSE Unfinished(k)'
  <1> DEFINE all     == Cycles(cur, k)
             nr      == item[k].nr
             minutes == Head(item[k].cycles)
             left    == MinutesUntilWindowEnd(Window, cursor)
  <1>1. PICK s : Emitted(k, s)
    BY EmitFacts
  <1>2. /\ cur \in Occs /\ DOMAIN item = DOMAIN input[cur].steps /\ k \in Open(item)
        /\ input \in [Occs -> Occurrence] /\ item[k] \in Items /\ cursor \in Nat
        /\ phase = "lay" /\ UNCHANGED <<input, cur>>
    BY EmitFacts DEF Emit
  <1>3. Unfinished(k)
    BY <1>2 DEF MinutesInv, Open
  <1>4. /\ all \in Seq(1 .. MaxMinutes) /\ Asked(cur, k) \in Nat
        /\ all # <<>> => /\ Sum(all, 1 .. Len(all)) = Asked(cur, k)
                         /\ \A n \in 0 .. Len(all) : Sum(all, 1 .. n) \in 0 .. Asked(cur, k)
        /\ \A n \in 0 .. (Len(all) - 1) : Sum(all, 1 .. (n + 1)) = Sum(all, 1 .. n) + all[n + 1]
    BY <1>2, CyclesFacts
  <1> HIDE DEF all
  <1>5. nr \in Nat /\ nr < Len(all) /\ Len(all) \in Nat
    BY <1>2, <1>3, <1>4 DEF Unfinished, Items, all
  <1>6. /\ minutes = all[nr + 1]
        /\ Tail(item[k].cycles) = [i \in 1 .. (Len(all) - (nr + 1)) |-> all[i + (nr + 1)]]
    <2>1. item[k].cycles = [i \in 1 .. (Len(all) - nr) |-> all[i + nr]]
      BY <1>3 DEF Unfinished, all
    <2> HIDE DEF nr
    <2> DEFINE c == [i \in 1 .. (Len(all) - nr) |-> all[i + nr]]
    <2>3. c \in Seq(1 .. MaxMinutes) /\ Len(c) = Len(all) - nr
      <3>1. all \in Seq(1 .. MaxMinutes) /\ nr <= Len(all)
        BY <1>4, <1>5
      <3> QED
        BY <1>5, <3>1, SuffixType
    <2>4. Head(c) = all[nr + 1]
      <3>1. c[1] = all[1 + nr] /\ 1 + nr = nr + 1
        BY <1>5
      <3> QED
        BY <1>5, <3>1
    <2>5. Tail(c) = [i \in 1 .. (Len(c) - 1) |-> c[i + 1]]
      BY <1>5, <2>3
    <2>6. /\ Len(c) - 1 = Len(all) - (nr + 1)
          /\ \A i \in 1 .. (Len(all) - (nr + 1)) : c[i + 1] = all[i + (nr + 1)]
      BY <1>5, <2>3
    <2> HIDE DEF c
    <2>7. Tail(c) = [i \in 1 .. (Len(all) - (nr + 1)) |-> all[i + (nr + 1)]]
      BY <2>5, <2>6
    <2> QED
      BY <2>1, <2>4, <2>7 DEF c, nr
  <1>7. /\ s.dur = Allowed(Window, cursor, minutes)
        /\ item'[k].nr = nr + 1
        /\ item'[k].cycles = IF s.dur < minutes THEN <<>> ELSE Tail(item[k].cycles)
    BY <1>1, EmitAccounts
  <1> HIDE DEF nr, minutes
  <1>8. minutes \in 1 .. MaxMinutes /\ minutes \in Nat /\ s.dur \in Nat
    <2>1. s \in Steps
      BY <1>1 DEF Emitted
    <2>2. s.dur \in 1 .. MaxMinutes
      BY <2>1 DEF Steps
    <2> QED
      BY <1>4, <1>5, <1>6, <2>2, NumberAssumption
  <1>9. /\ nr \in 0 .. (Len(all) - 1) /\ nr \in 0 .. Len(all) /\ nr + 1 \in 0 .. Len(all)
        /\ all # <<>>
    BY <1>4, <1>5
  <1>10. /\ Sum(all, 1 .. (nr + 1)) = Sum(all, 1 .. nr) + minutes
         /\ Sum(all, 1 .. nr) \in 0 .. Asked(cur, k) /\ Sum(all, 1 .. (nr + 1)) \in 0 .. Asked(cur, k)
    BY <1>4, <1>6, <1>9
  <1>11. PlannedMinutes(cur, k)' = Sum(all, 1 .. nr) + s.dur
    <2>1. /\ steps'[cur] = Append(steps[cur], s) /\ s \in Steps /\ s.item = k
          /\ steps[cur] \in Seq(Steps)
      BY <1>1, <1>2 DEF Emitted, IInv, TypeOK
    <2>2. Watered(Append(steps[cur], s), k) = Watered(steps[cur], k) + s.dur
      BY <2>1, WateredFacts
    <2>3. PlannedMinutes(cur, k)' = Watered(steps'[cur], k)
      BY <1>2 DEF PlannedMinutes, Watered, OfItem
    <2>4. Watered(steps[cur], k) = Sum(all, 1 .. nr)
      BY <1>3, PlannedIsWatered DEF Unfinished, all, nr
    <2> QED
      BY <2>1, <2>2, <2>3, <2>4
  <1>14. left \in Int
    <2>1. Window.to \in Nat
      BY <1>2, NumberAssumption DEF Window, Occurrence
    <2>2. \A a \in Int, b \in Nat \ {0} : a \div b \in Int /\ a % b \in Int
      OBVIOUS
    <2> DEFINE today == cursor - (cursor % Day) + Window.to
               end   == IF today <= cursor THEN today + Day ELSE today
    <2>3. cursor \in Int
      BY <1>2
    <2>4. cursor % Day \in Int
      BY <2>2, <2>3, NumberAssumption
    <2>5. today \in Int
      BY <2>1, <2>3, <2>4
    <2>6. end - cursor \in Int
      BY <2>3, <2>5, NumberAssumption
    <2>7. left = (end - cursor) \div Minute
      BY DEF MinutesUntilWindowEnd
    <2> HIDE DEF today, end, left
    <2> QED
      BY <2>2, <2>6, <2>7, NumberAssumption
  <1> DEFINE sum  == Sum(all, 1 .. nr)
             next == Sum(all, 1 .. (nr + 1))
  <1>12. CASE s.dur < minutes
    <2>1. item'[k].cycles = <<>>
      BY <1>7, <1>12
    <2>2. sum \in Nat /\ next = sum + minutes /\ next <= Asked(cur, k)
      BY <1>4, <1>10
    <2>3. PlannedMinutes(cur, k)' < Asked(cur, k)'
      <3>1. PlannedMinutes(cur, k)' = sum + s.dur /\ Asked(cur, k)' = Asked(cur, k)
        BY <1>2, <1>11, MinutesFixed
      <3> HIDE DEF sum, next
      <3> QED
        BY <1>4, <1>8, <1>12, <2>2, <3>1
    <2>4. Window.policy = "truncate_last" /\ s.dur = left
      <3> HIDE DEF left
      <3> QED
        BY <1>7, <1>8, <1>12, <1>14 DEF Allowed, Least, left
    <2>5. CutByWindow(cur, k)'
      <3>1. /\ Len(steps[cur]) + 1 \in DOMAIN steps'[cur]
            /\ steps'[cur][Len(steps[cur]) + 1] = s
            /\ s.item = k /\ s.start = cursor /\ s.end = cursor + s.dur * Minute /\ s.end \in Nat
        BY <1>1 DEF Emitted
      <3>2. s.end = s.start + MinutesUntilWindowEnd(Window, s.start) * Minute
        BY <2>4, <3>1
      <3>3. s.end + Minute > s.end
        BY <3>1, NumberAssumption
      <3>4. input'[cur'].window = Window /\ cur' = cur
        BY <1>2 DEF Window
      <3> QED
        BY <2>4, <3>1, <3>2, <3>3, <3>4 DEF CutByWindow, MinutesUntilWindowEnd
    <2>6. ~Strict(cur)'
      BY <1>2, <2>4 DEF Strict, Window
    <2> QED
      BY <1>2, <2>1, <2>3, <2>5, <2>6 DEF Settled
  <1>13. CASE ~(s.dur < minutes)
    <2>1. s.dur = minutes
      <3> HIDE DEF left
      <3> QED
        BY <1>7, <1>8, <1>13, <1>14 DEF Allowed, left, Least
    <2>2. PlannedMinutes(cur, k)' = next
      BY <1>10, <1>11, <2>1
    <2>3. item'[k].cycles = [i \in 1 .. (Len(all) - (nr + 1)) |-> all[i + (nr + 1)]]
      BY <1>6, <1>7, <1>13
    <2>4. CASE nr + 1 = Len(all)
      <3>1. item'[k].cycles = <<>>
        <4>1. 1 .. (Len(all) - (nr + 1)) = {}
          BY <1>5, <2>4
        <4> QED
          BY <2>3, <4>1
      <3>2. PlannedMinutes(cur, k)' = Asked(cur, k)'
        BY <1>2, <1>4, <1>9, <2>2, <2>4, MinutesFixed
      <3> QED
        BY <1>2, <3>1, <3>2 DEF Settled
    <2>5. CASE nr + 1 # Len(all)
      <3>1. nr + 1 < Len(all) /\ 1 \in 1 .. (Len(all) - (nr + 1))
        BY <1>5, <2>5
      <3>2. item'[k].cycles # <<>>
        <4>1. 1 \in DOMAIN item'[k].cycles
          BY <2>3, <3>1
        <4> QED
          BY <4>1
      <3>3. Unfinished(k)'
        <4>1. Cycles(cur, k)' = all /\ item'[k].nr = nr + 1
          BY <1>2, <1>7, MinutesFixed DEF all
        <4> QED
          BY <1>2, <2>2, <2>3, <3>1, <4>1 DEF Unfinished
      <3> QED
        BY <3>2, <3>3
    <2> QED
      BY <2>4, <2>5
  <1> QED
    BY <1>12, <1>13

LEMMA ElementType ==
  ASSUME NEW S, NEW q \in Seq(S), NEW n \in 1 .. Len(q)
  PROVE  q[n] \in S
  OBVIOUS

\* What a step does not touch stays accounted for.
LEMMA StaysAccounted ==
  ASSUME UNCHANGED input, NEW o, Accounted(o),
         \/ steps'[o] = steps[o] /\ dropped'[o] = dropped[o] /\ skipped[o] \subseteq skipped'[o]
         \/ Gone(o)'
  PROVE  Accounted(o)'
  <1>1. CASE Gone(o)'
    BY <1>1 DEF Accounted
  <1>2. CASE steps'[o] = steps[o] /\ dropped'[o] = dropped[o] /\ skipped[o] \subseteq skipped'[o]
    <2>1. Gone(o) => Gone(o)'
      BY <1>2 DEF Gone
    <2>2. \A k : Settled(o, k) => Settled(o, k)'
      BY <1>2, MinutesFixed
    <2> QED
      BY <2>1, <2>2 DEF Accounted
  <1> QED
    BY <1>1, <1>2

\* A cycle of one item leaves the minutes of the others as they are.
LEMMA EmitSpares ==
  ASSUME IInv, NEW k \in DOMAIN item, Emit(k), NEW m \in DOMAIN item \ {k}
  PROVE  /\ item'[m] = item[m]
         /\ PlannedMinutes(cur, m)' = PlannedMinutes(cur, m)
         /\ Settled(cur, m) => Settled(cur, m)'
  <1>1. PICK s : Emitted(k, s)
    BY EmitFacts
  <1>2. /\ cur \in Occs /\ UNCHANGED <<input, cur>> /\ steps[cur] \in Seq(Steps)
        /\ skipped[cur] \subseteq skipped'[cur]
    BY <1>1, EmitFacts, EmitAccounts DEF Emit, IInv, TypeOK
  <1>3. /\ steps'[cur] = Append(steps[cur], s) /\ s \in Steps /\ s.item = k /\ s.dur \in Nat
        /\ item'[m] = item[m] /\ \A i \in DOMAIN steps[cur] : steps'[cur][i] = steps[cur][i]
        /\ DOMAIN steps[cur] \subseteq DOMAIN steps'[cur]
    <2>1. DOMAIN steps[cur] = 1 .. Len(steps[cur]) /\ Len(steps[cur]) \in Nat
      BY <1>2
    <2>2. DOMAIN steps[cur] \subseteq DOMAIN steps'[cur]
      BY <1>1, <2>1 DEF Emitted
    <2>3. s.dur \in Nat
      BY <1>1, NumberAssumption DEF Emitted, Steps
    <2> QED
      BY <1>1, <2>2, <2>3 DEF Emitted
  <1>4. PlannedMinutes(cur, m)' = PlannedMinutes(cur, m)
    <2>1. Watered(steps[cur], m) \in Nat
      BY <1>2, WateredFacts
    <2>2. Watered(Append(steps[cur], s), m) = Watered(steps[cur], m) + IF s.item = m THEN s.dur ELSE 0
      BY <1>2, <1>3, WateredFacts
    <2>3. PlannedMinutes(cur, m)' = Watered(steps'[cur], m)
      BY <1>2 DEF PlannedMinutes, Watered, OfItem
    <2> QED
      BY <1>3, <2>1, <2>2, <2>3, PlannedIsWatered
  <1>5. CutByWindow(cur, m) => CutByWindow(cur, m)'
    BY <1>2, <1>3 DEF CutByWindow, MinutesUntilWindowEnd
  <1>6. Strict(cur)' = Strict(cur) /\ Asked(cur, m)' = Asked(cur, m)
    BY <1>2, MinutesFixed DEF Strict, Asked
  <1> QED
    BY <1>2, <1>3, <1>4, <1>5, <1>6 DEF Settled

\* An item whose next cycle the window blocks is short of minutes.
LEMMA LeaveOutSettles ==
  ASSUME IInv, MinutesInv, NEW k \in DOMAIN item, LeaveOut(k)
  PROVE  Settled(cur, k)'
  <1> DEFINE all == Cycles(cur, k)
             nr  == item[k].nr
  <1>1. /\ phase = "lay" /\ k \in Open(item) /\ k \in skipped'[cur] /\ ~Strict(cur)
        /\ UNCHANGED <<input, cur, steps>>
    BY DEF LeaveOut, First, Ready, IInv, TypeOK, LayInv, Strict, Window
  <1>2. /\ cur \in Occs /\ input \in [Occs -> Occurrence] /\ k \in DOMAIN input[cur].steps
        /\ item[k] \in Items
    BY <1>1 DEF IInv, TypeOK, LayInv
  <1>3. Unfinished(k)
    BY <1>1 DEF MinutesInv, Open
  <1>4. /\ all \in Seq(1 .. MaxMinutes) /\ Asked(cur, k) \in Nat
        /\ all # <<>> => \A n \in 0 .. Len(all) : Sum(all, 1 .. n) \in 0 .. Asked(cur, k)
        /\ \A n \in 0 .. (Len(all) - 1) : Sum(all, 1 .. (n + 1)) = Sum(all, 1 .. n) + all[n + 1]
    BY <1>2, CyclesFacts
  <1> HIDE DEF all
  <1>5. nr \in Nat /\ nr < Len(all) /\ Len(all) \in Nat /\ PlannedMinutes(cur, k) = Sum(all, 1 .. nr)
    BY <1>2, <1>3, <1>4 DEF Unfinished, Items, all
  <1> HIDE DEF nr
  <1>6. /\ nr \in 0 .. (Len(all) - 1) /\ nr \in 0 .. Len(all) /\ nr + 1 \in 0 .. Len(all)
        /\ nr + 1 \in 1 .. Len(all) /\ all # <<>>
    BY <1>4, <1>5
  <1>7. all[nr + 1] \in 1 .. MaxMinutes
    <2>1. all \in Seq(1 .. MaxMinutes)
      BY <1>4
    <2> QED
      BY <1>6, <2>1, ElementType
  <1>8. /\ Sum(all, 1 .. nr) \in 0 .. Asked(cur, k) /\ Sum(all, 1 .. (nr + 1)) \in 0 .. Asked(cur, k)
        /\ Sum(all, 1 .. (nr + 1)) = Sum(all, 1 .. nr) + all[nr + 1]
    BY <1>4, <1>6
  <1>9. PlannedMinutes(cur, k) < Asked(cur, k)
    BY <1>4, <1>5, <1>7, <1>8, NumberAssumption
  <1>10. /\ PlannedMinutes(cur, k)' = PlannedMinutes(cur, k) /\ Asked(cur, k)' = Asked(cur, k)
         /\ Strict(cur)' = Strict(cur)
    BY <1>1 DEF PlannedMinutes, Asked, Strict
  <1> QED
    BY <1>1, <1>9, <1>10 DEF Settled

LEMMA MinutesStep ==
  ASSUME IInv, MinutesInv, [Next]_vars
  PROVE  MinutesInv'
  <1>0. UNCHANGED input /\ input \in [Occs -> Occurrence] /\ queue \subseteq Occs
    BY InputFixed DEF IInv, TypeOK
  <1>1. ASSUME NEW o \in Occs, Claim(o)
        PROVE  MinutesInv'
    <2>1. /\ phase = "claim" /\ phase' = "lay" /\ o \in queue /\ cur' = o /\ queue' = queue \ {o}
          /\ item' = WorkItems(o) /\ UNCHANGED <<steps, skipped, dropped>> /\ steps[o] = <<>>
      BY <1>1 DEF Claim, IInv, ClaimInv
    <2>2. ASSUME NEW k \in DOMAIN item'
          PROVE  IF item'[k].cycles = <<>> THEN Settled(o, k)'
                 ELSE Unfinished(k)'
      <3>1. /\ k \in DOMAIN input[o].steps
            /\ item'[k].cycles = Cycles(o, k) /\ item'[k].nr = 0
        BY <2>1, <2>2 DEF WorkItems, WorkItem, Cycles
      <3>2. PlannedMinutes(o, k)' = 0
        <4>1. <<>> \in Seq(Steps) /\ OfItem(<<>>, k) = {}
          BY DEF OfItem
        <4>2. Watered(<<>>, k) = 0
          BY <4>1, WateredFacts
        <4>3. PlannedMinutes(o, k)' = Watered(steps'[o], k)
          BY DEF PlannedMinutes, Watered, OfItem
        <4> QED
          BY <2>1, <4>2, <4>3
      <3> DEFINE all == Cycles(o, k)
      <3>3. all \in Seq(Nat) /\ (all = <<>> <=> Asked(o, k) = 0) /\ Sum(all, 1 .. 0) = 0
        BY <1>0, <3>1, CyclesFacts
      <3>4. Asked(o, k)' = Asked(o, k) /\ Cycles(cur, k)' = all
        BY <1>0, <2>1, MinutesFixed
      <3> HIDE DEF all
      <3>5. CASE all = <<>>
        BY <3>1, <3>2, <3>3, <3>4, <3>5 DEF Settled, all
      <3>6. CASE all # <<>>
        <4>1. 0 < Len(all) /\ all = [i \in 1 .. (Len(all) - 0) |-> all[i + 0]]
          BY <3>3, <3>6
        <4>2. item'[k].cycles = all
          BY <3>1 DEF all
        <4>3. PlannedMinutes(cur, k)' = 0
          BY <2>1, <3>2
        <4>4. Unfinished(k)'
          BY <3>1, <3>3, <3>4, <4>1, <4>2, <4>3 DEF Unfinished
        <4> QED
          BY <3>6, <4>2, <4>4
      <3> QED
        BY <3>5, <3>6
    <2>3. dropped[o] = "no" /\ \A p \in queue : dropped[p] = "no"
      BY <2>1 DEF MinutesInv
    <2>4. ASSUME NEW p \in Occs, p # o PROVE p \in queue' \/ Accounted(p)'
      <3>1. p \in queue \/ Accounted(p)
        BY <2>1 DEF MinutesInv
      <3> QED
        BY <1>0, <2>1, <2>4, <3>1, StaysAccounted
    <2> QED
      BY <2>1, <2>2, <2>3, <2>4 DEF MinutesInv
  <1>2. ASSUME NEW k \in DOMAIN item, Emit(k)
        PROVE  MinutesInv'
    <2>1. PICK s : Emitted(k, s)
      BY <1>2, EmitFacts
    <2>2. /\ phase = "lay" /\ cur \in Occs /\ k \in Open(item) /\ DOMAIN item' = DOMAIN item
          /\ UNCHANGED <<phase, cur, queue, dropped>>
          /\ \A o \in Occs \ {cur} : steps'[o] = steps[o]
          /\ \A o \in Occs : skipped[o] \subseteq skipped'[o]
      BY <1>2, <2>1, EmitFacts, EmitAccounts DEF Emit, Emitted
    <2>3. dropped[cur] = "no"
      BY <2>2 DEF MinutesInv
    <2>4. ASSUME NEW m \in DOMAIN item, m # k
          PROVE  IF item'[m].cycles = <<>> THEN Settled(cur, m)' ELSE Unfinished(m)'
      <3>1. IF item[m].cycles = <<>> THEN Settled(cur, m) ELSE Unfinished(m)
        BY <2>2, <2>3 DEF MinutesInv, Gone
      <3>2. /\ item'[m] = item[m] /\ PlannedMinutes(cur, m)' = PlannedMinutes(cur, m)
            /\ Settled(cur, m) => Settled(cur, m)'
        BY <1>2, <2>4, EmitSpares
      <3>3. Cycles(cur, m)' = Cycles(cur, m)
        BY <1>0, <2>2, MinutesFixed DEF Cycles
      <3> QED
        BY <2>2, <3>1, <3>2, <3>3 DEF Unfinished
    <2>5. IF item'[k].cycles = <<>> THEN Settled(cur, k)' ELSE Unfinished(k)'
      BY <1>2, EmitSettles
    <2>6. ASSUME NEW p \in Occs, p # cur PROVE p \in queue' \/ Accounted(p)'
      <3>1. p \in queue \/ Accounted(p)
        BY <2>2, <2>6 DEF MinutesInv
      <3> QED
        BY <1>0, <2>2, <2>6, <3>1, StaysAccounted
    <2> QED
      BY <2>2, <2>3, <2>4, <2>5, <2>6 DEF MinutesInv
  <1>3. ASSUME NEW k \in DOMAIN item, LeaveOut(k)
        PROVE  MinutesInv'
    <2>1. /\ phase = "lay" /\ cur \in Occs /\ item \in Seq(Items) /\ skipped \in [Occs -> SUBSET (Nat \ {0})]
          /\ item' = WithoutCycles(k)
          /\ skipped' = [skipped EXCEPT ![cur] = @ \cup {k}]
          /\ UNCHANGED <<phase, cur, queue, steps, dropped>>
      BY <1>3 DEF LeaveOut, IInv, TypeOK, LayInv
    <2>2. /\ DOMAIN item' = DOMAIN item /\ item'[k].cycles = <<>>
          /\ \A m \in DOMAIN item \ {k} : item'[m] = item[m]
      <3>1. item[k] \in Items
        BY <2>1
      <3>2. [item[k] EXCEPT !.cycles = <<>>].cycles = <<>>
        BY <3>1 DEF Items
      <3> QED
        BY <2>1, <3>2 DEF WithoutCycles
    <2>3. \A o \in Occs : skipped[o] \subseteq skipped'[o]
      BY <2>1
    <2>4. Settled(cur, k)'
      BY <1>3, LeaveOutSettles
    <2>5. ASSUME NEW m \in DOMAIN item, m # k
          PROVE  (IF item[m].cycles = <<>> THEN Gone(cur) \/ Settled(cur, m) ELSE Unfinished(m))'
      <3>1. IF item[m].cycles = <<>> THEN Gone(cur) \/ Settled(cur, m) ELSE Unfinished(m)
        BY <2>1 DEF MinutesInv
      <3>2. /\ item'[m] = item[m] /\ PlannedMinutes(cur, m)' = PlannedMinutes(cur, m)
            /\ Gone(cur)' = Gone(cur) /\ Cycles(cur, m)' = Cycles(cur, m)
        BY <1>0, <2>1, <2>2, <2>5 DEF PlannedMinutes, Gone, Cycles, WorkItem
      <3>3. Settled(cur, m) => Settled(cur, m)'
        <4>1. /\ PlannedMinutes(cur, m)' = PlannedMinutes(cur, m) /\ Asked(cur, m)' = Asked(cur, m)
              /\ CutByWindow(cur, m)' = CutByWindow(cur, m) /\ Strict(cur)' = Strict(cur)
          BY <1>0, <2>1 DEF PlannedMinutes, Asked, Strict, CutByWindow
        <4>2. cur' = cur /\ skipped[cur] \subseteq skipped'[cur]
          BY <2>1, <2>3
        <4> QED
          BY <4>1, <4>2 DEF Settled
      <3> QED
        BY <3>1, <3>2, <3>3 DEF Unfinished
    <2>6. ASSUME NEW p \in Occs, p # cur PROVE p \in queue' \/ Accounted(p)'
      <3>1. p \in queue \/ Accounted(p)
        BY <2>1, <2>6 DEF MinutesInv
      <3> QED
        BY <1>0, <2>1, <2>3, <3>1, StaysAccounted
    <2>7. Open(item') \subseteq Open(item)
      BY <2>2 DEF Open
    <2>8. (Open(item) # {} => dropped[cur] = "no") /\ \A o \in queue : dropped[o] = "no"
      BY <2>1 DEF MinutesInv
    <2> QED
      BY <2>1, <2>2, <2>4, <2>5, <2>6, <2>7, <2>8 DEF MinutesInv
  <1>4. ASSUME NEW k \in DOMAIN item, Drop(k)
        PROVE  MinutesInv'
    <2>1. /\ phase = "lay" /\ cur \in Occs /\ cur \notin queue
          /\ dropped' = [dropped EXCEPT ![cur] = "out_of_window"]
          /\ steps' = [steps EXCEPT ![cur] = <<>>]
          /\ item' = [m \in DOMAIN item |-> [item[m] EXCEPT !.cycles = <<>>]]
          /\ item \in Seq(Items)
          /\ UNCHANGED <<phase, cur, queue, skipped>>
      BY <1>4 DEF Drop, StepsCleared, IInv, TypeOK, LayInv
    <2>2. steps \in [Occs -> Seq(Steps)] /\ DOMAIN dropped = Occs
      BY DEF IInv, TypeOK
    <2>3. /\ steps'[cur] = <<>> /\ dropped'[cur] = "out_of_window"
          /\ \A o \in Occs \ {cur} : steps'[o] = steps[o] /\ dropped'[o] = dropped[o]
      BY <2>1, <2>2
    <2>4. Gone(cur)'
      BY <2>1, <2>3 DEF Gone
    <2>5. \A m \in DOMAIN item' : item'[m].cycles = <<>>
      <3>1. \A m \in DOMAIN item : item[m] \in Items
        BY <2>1
      <3> QED
        BY <2>1, <3>1 DEF Items
    <2>6. Open(item') = {}
      BY <2>5 DEF Open
    <2>7. ASSUME NEW p \in Occs, p # cur PROVE p \in queue' \/ Accounted(p)'
      <3>1. p \in queue \/ Accounted(p)
        BY <2>1, <2>7 DEF MinutesInv
      <3> QED
        BY <1>0, <2>1, <2>3, <2>7, <3>1, StaysAccounted
    <2>8. \A o \in queue' : dropped'[o] = "no"
      BY <1>0, <2>1, <2>3 DEF MinutesInv
    <2> QED
      BY <2>1, <2>4, <2>5, <2>6, <2>7, <2>8 DEF MinutesInv
  <1>5. CASE Wait \/ UNCHANGED vars
    <2>1. UNCHANGED <<input, phase, queue, cur, item, steps, skipped, dropped>>
      BY <1>5 DEF Wait, vars
    <2>2. \A o : Accounted(o)' = Accounted(o)
      BY <2>1 DEF Accounted, Gone, Settled, PlannedMinutes, Asked, Strict, CutByWindow
    <2>3. \A k : Settled(cur, k)' = Settled(cur, k)
      BY <2>1 DEF Settled, PlannedMinutes, Asked, Strict, CutByWindow
    <2>4. \A k : Unfinished(k)' = Unfinished(k)
      BY <2>1 DEF Unfinished, Cycles, WorkItem, PlannedMinutes
    <2>5. Gone(cur)' = Gone(cur)
      BY <2>1 DEF Gone
    <2> QED
      BY <2>1, <2>2, <2>3, <2>4, <2>5 DEF MinutesInv, Open
  <1>6. CASE LaidOut
    <2>1. /\ phase = "lay" /\ phase' = "claim" /\ Open(item) = {} /\ cur \in Occs
          /\ DOMAIN item = DOMAIN input[cur].steps
          /\ UNCHANGED <<queue, steps, skipped, dropped>>
      BY <1>6 DEF LaidOut, IInv, LayInv
    <2>2. Accounted(cur)
      BY <2>1 DEF MinutesInv, Accounted, Open
    <2>3. ASSUME NEW p \in Occs PROVE p \in queue' \/ Accounted(p)'
      <3>1. p \in queue \/ Accounted(p)
        BY <2>1, <2>2 DEF MinutesInv
      <3> QED
        BY <1>0, <2>1, <3>1, StaysAccounted
    <2> QED
      BY <2>1, <2>3 DEF MinutesInv
  <1>7. CASE AllLaidOut \/ Compiled
    <2>1. /\ phase' \in {"late", "done"} /\ UNCHANGED <<steps, skipped, dropped>>
          /\ phase = "claim" => queue = {}
          /\ phase # "lay"
      BY <1>7 DEF AllLaidOut, Compiled
    <2>2. ASSUME NEW p \in Occs PROVE Accounted(p)'
      <3>1. Accounted(p)
        BY <2>1 DEF MinutesInv
      <3> QED
        BY <1>0, <2>1, <3>1, StaysAccounted
    <2> QED
      BY <2>1, <2>2 DEF MinutesInv
  <1>8. CASE EnforceLateness
    <2> DEFINE late == {o \in Planned : input[o].skipLate /\ Late(o)}
    <2>1. /\ phase = "late" /\ phase' = "verify" /\ UNCHANGED skipped
          /\ dropped' = [o \in Occs |-> IF o \in late THEN "missed_tolerance" ELSE dropped[o]]
          /\ steps' = [o \in Occs |-> IF o \in late THEN <<>> ELSE steps[o]]
      BY <1>8 DEF EnforceLateness
    <2> HIDE DEF late
    <2>2. ASSUME NEW p \in Occs PROVE Accounted(p)'
      <3>1. Accounted(p)
        BY <2>1 DEF MinutesInv
      <3>2. p \in late => Gone(p)'
        BY <2>1 DEF Gone
      <3> QED
        BY <1>0, <2>1, <3>1, <3>2, StaysAccounted
    <2> QED
      BY <2>1, <2>2 DEF MinutesInv
  <1>9. ASSUME NEW o \in Occs, Verify(o)
        PROVE  MinutesInv'
    <2>1. phase = "verify" /\ UNCHANGED <<phase, skipped>>
      BY <1>9 DEF Verify
    <2>2. steps \in [Occs -> Seq(Steps)] /\ DOMAIN dropped = Occs
      BY DEF IInv, TypeOK
    <2>3. \/ UNCHANGED <<steps, dropped>>
          \/ /\ dropped' = [dropped EXCEPT ![o] = "planner_collision"]
             /\ steps' = [steps EXCEPT ![o] = <<>>]
      BY <1>9 DEF Verify, StepsCleared
    <2>4. ASSUME NEW p \in Occs PROVE Accounted(p)'
      <3>1. Accounted(p)
        BY <2>1 DEF MinutesInv
      <3>2. Gone(p)' \/ (steps'[p] = steps[p] /\ dropped'[p] = dropped[p])
        BY <2>2, <2>3 DEF Gone
      <3> QED
        BY <1>0, <2>1, <3>1, <3>2, StaysAccounted
    <2> QED
      BY <2>1, <2>4 DEF MinutesInv
  <1> QED
    BY <1>1, <1>2, <1>3, <1>4, <1>5, <1>6, <1>7, <1>8, <1>9 DEF Next, LayOut

-----------------------------------------------------------------------------
(* The theorems *)

\* Nothing is laid out before the loops begin.
LEMMA InitEstablishes ==
  ASSUME Init
  PROVE  IInv
  <1>1. input \in [Occs -> Occurrence]
    BY InputAssumption DEF Init
  <1>2. steps \in [Occs -> Seq(Steps)] /\ \A o \in Occs : steps[o] = <<>>
    BY DEF Init
  <1>3. skipped \in [Occs -> SUBSET (Nat \ {0})]
    <2>1. ASSUME NEW o \in Occs PROVE DOMAIN input[o].steps \subseteq Nat \ {0}
      BY <1>1, InputFacts
    <2> QED
      BY <2>1 DEF Init
  <1>4. TypeOK
    BY <1>1, <1>2, <1>3 DEF Init, TypeOK
  <1>5. PlanInv
    BY <1>2 DEF PlanInv, RunOf, Before
  <1> QED
    BY <1>2, <1>4, <1>5
    DEF Init, IInv, ClaimInv, LayInv, VerifyInv, Unwithheld, HeldUntilFree, TypeOK

\* The invariant is inductive: it holds at the start and every step keeps it.
THEOREM PlannerInvariant == Spec => []IInv
  <1>1. Init => IInv
    BY InitEstablishes
  <1>2. IInv /\ [Next]_vars => IInv'
    <2>1. ASSUME IInv, Next PROVE IInv'
      BY <2>1, ClaimPreserves, VerifyPreserves, EmitPreserves, LeaveOutPreserves,
         DropPreserves, WaitPreserves, LaidOutPreserves, ReturnsPreserve, LatenessPreserves
      DEF Next, LayOut
    <2>2. ASSUME IInv, UNCHANGED vars PROVE IInv'
      <3>1. UNCHANGED <<input, phase, queue, cur, cursor, free, item, steps, skipped, dropped>>
        BY <2>2 DEF vars
      <3>2. PlanInv'
        BY <2>2, <3>1, Cleared DEF IInv
      <3> QED
        BY <2>2, <3>1, <3>2
        DEF IInv, TypeOK, ClaimInv, LayInv, ItemInv, VerifyInv, Unwithheld, HeldUntilFree,
            FirstStart, Requested, Soak
    <2> QED
      BY <2>1, <2>2
  <1> QED
    BY <1>1, <1>2, PTL DEF Spec

\* Every variable keeps its type: in particular every planned duration is one
\* to MaxMinutes whole minutes.
THEOREM PlannerTypeCorrect == Spec => []TypeOK
  <1>1. IInv => TypeOK
    BY DEF IInv
  <1> QED
    BY <1>1, PlannerInvariant, PTL

\* No plan waters two zones at a time or leaves out the gap between two cycles.
THEOREM PlanIsSerial == Spec => []NoOverlap
  <1>1. IInv => NoOverlap
    BY PlanSeparates DEF IInv
  <1> QED
    BY <1>1, PlannerInvariant, PTL

\* Runs never interleave, so the verifier never withholds one.
THEOREM VerifierIsIdle == Spec => []NeverWithheld
  <1>1. IInv => NeverWithheld
    BY DEF IInv, PlanInv, Unwithheld, NeverWithheld
  <1> QED
    BY <1>1, PlannerInvariant, PTL

\* The cycles of a step are at least its soak apart.
THEOREM SoaksAreKept == Spec => []SoakKept
  <1>1. IInv => SoakKept
    BY DEF IInv, PlanInv, RunOf, SoakKept
  <1> QED
    BY <1>1, PlannerInvariant, PTL

\* No step starts before it was asked for.
THEOREM NothingStartsEarly == Spec => []NeverEarly
  <1>1. IInv => NeverEarly
    BY DEF IInv, PlanInv, RunOf, NeverEarly
  <1> QED
    BY <1>1, PlannerInvariant, PTL

\* Every cycle starts inside its program's window, and a truncated one ends
\* there, windows across midnight included.
THEOREM WindowsAreKept == Spec => []InWindow
  <1>1. Init => InWindow
    BY DEF Init, InWindow
  <1>2. IInv /\ InWindow /\ [Next]_vars => InWindow'
    BY WindowStep
  <1> QED
    BY <1>1, <1>2, PlannerInvariant, PTL DEF Spec

\* Of two runs in the plan, the one that asks first waters first.
THEOREM PlanServesInOrder == Spec => []ServedInOrder
  <1>1. Init => OrderInv
    BY DEF Init, OrderInv, Unserved
  <1>2. IInv /\ OrderInv /\ [Next]_vars => OrderInv'
    BY OrderStep
  <1>3. OrderInv => ServedInOrder
    BY OrderServes
  <1> QED
    BY <1>1, <1>2, <1>3, PlannerInvariant, PTL DEF Spec

\* Only an occurrence behind another is ever dropped as too late.
THEOREM LatenessIsOfOthers == Spec => []LateOnlyBehindOthers
  <1>1. Init => LateInv
    <2> SUFFICES ASSUME Init PROVE LateInv
      OBVIOUS
    <2>1. /\ free = 0 /\ phase = "claim"
          /\ \A o \in queue : o \in Occs /\ Admitted(o) /\ Open(WorkItems(o)) # {}
          /\ \A o \in Occs : dropped[o] # "missed_tolerance" /\ steps[o] = <<>>
      BY DEF Init
    <2> QED
      BY <2>1 DEF LateInv, LateOnlyBehindOthers, Prompt
  <1>2. IInv /\ LateInv /\ [Next]_vars => LateInv'
    BY LateStep
  <1>3. LateInv => LateOnlyBehindOthers
    BY DEF LateInv
  <1> QED
    BY <1>1, <1>2, <1>3, PlannerInvariant, PTL DEF Spec

\* Inside a run the controller never idles while a cycle of it is due.
THEOREM ControllerNeverIdles == Spec => []NoIdling
  <1>1. Init => IdleInv
    BY DEF Init, IdleInv, Busy
  <1>2. IInv /\ IdleInv /\ [Next]_vars => IdleInv'
    BY IdleStep
  <1>3. IInv /\ IdleInv => NoIdling
    BY BusyMeans DEF IInv, IdleInv
  <1> QED
    BY <1>1, <1>2, <1>3, PlannerInvariant, PTL DEF Spec

LEMMA MinutesBegin ==
  ASSUME Init
  PROVE  MinutesInv
  <1>1. /\ phase = "claim" /\ input \in [Occs -> Occurrence]
        /\ queue = {o \in Occs : Admitted(o) /\ Open(WorkItems(o)) # {}}
        /\ steps = [o \in Occs |-> <<>>]
        /\ dropped = [o \in Occs |-> IF Admitted(o) THEN "no" ELSE "program_disabled"]
    BY InputAssumption DEF Init
  <1>2. ASSUME NEW o \in Occs, o \notin queue PROVE Accounted(o)
    <2>1. CASE ~Admitted(o)
      BY <1>1, <2>1 DEF Accounted, Gone
    <2>2. CASE Admitted(o)
      <3>1. Open(WorkItems(o)) = {}
        BY <1>1, <1>2, <2>2
      <3>2. ASSUME NEW k \in DOMAIN input[o].steps PROVE Settled(o, k)
        <4>1. Cycles(o, k) = <<>>
          BY <3>1, <3>2 DEF Open, WorkItems, Cycles
        <4>2. Asked(o, k) = 0
          BY <1>1, <3>2, <4>1, CyclesFacts
        <4>3. PlannedMinutes(o, k) = 0
          <5>1. <<>> \in Seq(Steps) /\ OfItem(<<>>, k) = {} /\ steps[o] = <<>>
            BY <1>1 DEF OfItem
          <5> QED
            BY <5>1, WateredFacts, PlannedIsWatered
        <4> QED
          BY <4>2, <4>3 DEF Settled
      <3> QED
        BY <3>2 DEF Accounted
    <2> QED
      BY <2>1, <2>2
  <1> QED
    BY <1>1, <1>2 DEF MinutesInv

LEMMA MinutesInvariant == Spec => []MinutesInv
  <1>1. Init => MinutesInv
    BY MinutesBegin
  <1>2. IInv /\ MinutesInv /\ [Next]_vars => MinutesInv'
    BY MinutesStep
  <1> QED
    BY <1>1, <1>2, PlannerInvariant, PTL DEF Spec

\* The cycles of every step in the plan sum to the minutes it asks for; whoever
\* gets fewer has a skip record or a cycle that ends with the window.
THEOREM MinutesAreAccounted == Spec => []MinutesAccounted
  <1>1. MinutesInv => MinutesAccounted
    <2> SUFFICES ASSUME MinutesInv, phase = "done", NEW o \in Occs, dropped[o] = "no",
                        NEW k \in DOMAIN input[o].steps
                 PROVE  \/ PlannedMinutes(o, k) = Asked(o, k)
                        \/ /\ PlannedMinutes(o, k) < Asked(o, k)
                           /\ k \in skipped[o] \/ CutByWindow(o, k)
      BY DEF MinutesAccounted, Asked
    <2> QED
      BY DEF MinutesInv, Accounted, Gone, Settled
  <1> QED
    BY <1>1, MinutesInvariant, PTL

\* An occurrence that its window would defer waters all of its minutes or none.
THEOREM AllOrNothingWatered == Spec => []AllOrNothing
  <1>1. MinutesInv => AllOrNothing
    <2> SUFFICES ASSUME MinutesInv, phase = "done", NEW o \in Occs, Strict(o), steps[o] # <<>>,
                        NEW k \in DOMAIN input[o].steps
                 PROVE  PlannedMinutes(o, k) = Asked(o, k)
      BY DEF AllOrNothing, Asked, Strict
    <2> QED
      BY DEF MinutesInv, Accounted, Gone, Settled
  <1> QED
    BY <1>1, MinutesInvariant, PTL

=============================================================================
