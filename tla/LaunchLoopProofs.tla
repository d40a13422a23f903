-------------------------- MODULE LaunchLoopProofs --------------------------
(* The launch loop, for every schedule, zone, calendar, policy and bound.   *)
(*                                                                          *)
(* No occurrence is claimed twice or after it was recorded as skipped: the  *)
(* timers may fire for one as often as they like, it is the journal that    *)
(* keeps its second launch from the controller.  The types and the windows  *)
(* come next, then that nothing is launched that was not on a schedule, and *)
(* that nothing on a schedule is left without a timer.                      *)
EXTENDS LaunchLoop, RecurrenceProofs, FiniteSums

\* The history is in the journal: what was launched or skipped is a finished
\* occurrence or the active one.
HistoryInv == (launched \cup skipped) \cap Occurrence \subseteq done \cup {active}

\* The run that is about to give up the controller is a finished one.
FinishingInv == lock = "finishing" => active \in done \cup {ManualRun}

JournalInv == HistoryInv /\ FinishingInv

\* How a step changes the journal without touching a claim: the finished
\* occurrences grow by those that are recorded as skipped, and some more.
Grows ==
  /\ active' = active /\ launched' = launched
  /\ done \subseteq done' /\ skipped' \subseteq skipped \cup done'
  /\ lock' = "finishing" => lock = "finishing"

-----------------------------------------------------------------------------
LEMMA ArmNextFacts ==
  ASSUME NEW plan, NEW d, NEW a, NEW w, NEW s, ArmNext(plan, d, a, w, s)
  PROVE  \E stale : done' = d \cup stale /\ skipped' = s \cup stale
  BY DEF ArmNext

LEMMA RecalculateFacts ==
  ASSUME NEW d, NEW a, NEW w, NEW s, Recalculate(d, a, w, s)
  PROVE  d \subseteq done' /\ skipped' \subseteq s \cup done'
  BY ArmNextFacts DEF Recalculate

LEMMA GrowsPreserves ==
  ASSUME JournalInv, Grows
  PROVE  JournalInv' /\ ClaimIsNew
  BY DEF JournalInv, HistoryInv, FinishingInv, Grows, ClaimIsNew

LEMMA ReturnGrows ==
  ASSUME Return, lock' = "finishing" => lock = "finishing"
  PROVE  Grows
  <1>1. done \subseteq done' /\ skipped' \subseteq skipped \cup done'
    BY RecalculateFacts DEF Return, Recompile
  <1> QED
    BY <1>1 DEF Return, Grows

LEMMA WaitOrSkipGrows ==
  ASSUME NEW o, NEW late, WaitOrSkip(o, late), lock' = lock
  PROVE  Grows
  <1>1. CASE ArmRetry(o)
    <2>1. done \subseteq done' /\ skipped' \subseteq skipped \cup done'
      BY <1>1, ArmNextFacts DEF ArmRetry
    <2> QED
      BY <1>1, <2>1 DEF ArmRetry, Grows
  <1>2. CASE Skip(o)
    <2>1. done \cup {o} \subseteq done' /\ skipped' \subseteq (skipped \cup {o}) \cup done'
      BY <1>2, RecalculateFacts DEF Skip
    <2> QED
      BY <1>2, <2>1 DEF Skip, Grows
  <1> QED
    BY <1>1, <1>2 DEF WaitOrSkip

\* The controller is free and the occurrence is not a finished one.
LEMMA ClaimPreserves ==
  ASSUME JournalInv, NEW o, NEW queue, Claim(o, queue)
  PROVE  JournalInv' /\ ClaimIsNew
  BY LaunchAssumption
  DEF Claim, IsActive, JournalInv, HistoryInv, FinishingInv, ClaimIsNew

LEMMA ManualClaimPreserves ==
  ASSUME JournalInv, NEW queue, ClaimManually(queue), ~IsActive
  PROVE  JournalInv' /\ ClaimIsNew
  BY LaunchAssumption
  DEF ClaimManually, IsActive, JournalInv, HistoryInv, FinishingInv, ClaimIsNew

\* A step that leaves the claim and the history alone.
LEMMA QuietPreserves ==
  ASSUME JournalInv, UNCHANGED journal, lock' = "finishing" => lock = "finishing"
  PROVE  JournalInv' /\ ClaimIsNew
  <1>1. Grows
    BY DEF journal, Grows
  <1> QED
    BY <1>1, GrowsPreserves

LEMMA LaunchPreserves ==
  ASSUME JournalInv, NEW o, NEW verdict, NEW t, Launch(o, verdict, t)
  PROVE  JournalInv' /\ ClaimIsNew
  <1> DEFINE late == now > DeadlineOf(o)
  <1>1. CASE Return /\ UNCHANGED locking
    BY <1>1, ReturnGrows, GrowsPreserves DEF locking
  <1>2. CASE WaitOrSkip(o, late) /\ UNCHANGED locking
    BY <1>2, WaitOrSkipGrows, GrowsPreserves DEF locking
  <1>3. CASE Skip(o) /\ UNCHANGED locking
    <2>1. WaitOrSkip(o, TRUE)
      BY <1>3 DEF WaitOrSkip
    <2> QED
      BY <1>3, <2>1, WaitOrSkipGrows, GrowsPreserves DEF locking
  <1>4. CASE Claim(o, waiters)
    BY <1>4, ClaimPreserves
  <1>5. CASE UNCHANGED <<journal, lock>>
    BY <1>5, QuietPreserves
  <1> QED
    BY <1>1, <1>2, <1>3, <1>4, <1>5 DEF Launch

-----------------------------------------------------------------------------
LEMMA LoopPreserves ==
  ASSUME JournalInv, Loop
  PROVE  JournalInv' /\ ClaimIsNew
  <1>1. CASE JournalWritten \/ StopReturns \/ RetryFires
    <2>1. UNCHANGED journal /\ lock' \in {lock, Free}
      BY <1>1 DEF JournalWritten, StopReturns, RetryFires, locking
    <2> QED
      BY <2>1, QuietPreserves DEF Free
  <1>2. CASE GrantedToRequest
    <2>1. CASE ~IsActive /\ ClaimManually(Tail(waiters))
      BY <2>1, ManualClaimPreserves
    <2>2. CASE UNCHANGED <<journal, lock>>
      BY <2>2, QuietPreserves
    <2> QED
      BY <1>2, <2>1, <2>2 DEF GrantedToRequest
  <1>3. CASE Setup \/ ConfigSaved \/ DailyRecompile
    <2>1. Return /\ UNCHANGED lock
      BY <1>3 DEF Setup, ConfigSaved, DailyRecompile, locking
    <2> QED
      BY <2>1, ReturnGrows, GrowsPreserves
  <1>4. CASE Fire
    BY <1>4, LaunchPreserves DEF Fire
  <1>5. CASE Relaunch
    BY <1>5, LaunchPreserves DEF Relaunch
  <1>6. CASE GrantedToLaunch
    <2> DEFINE w == Head(waiters)
    <2>1. CASE WaitOrSkip(w.occ, w.late) /\ UNCHANGED lock
      BY <2>1, WaitOrSkipGrows, GrowsPreserves
    <2>2. CASE Return /\ UNCHANGED lock
      BY <2>2, ReturnGrows, GrowsPreserves
    <2>3. CASE Claim(w.occ, Tail(waiters))
      BY <2>3, ClaimPreserves
    <2> QED
      BY <1>6, <2>1, <2>2, <2>3 DEF GrantedToLaunch
  <1>7. CASE Started \/ TailWritten
    <2>1. lock' = Free /\ (Return \/ UNCHANGED journal)
      BY <1>7 DEF Started, TailWritten, Returned
    <2> QED
      BY <2>1, ReturnGrows, GrowsPreserves, QuietPreserves DEF Free
  <1>8. CASE RunReleased
    <2>1. active \in done \cup {ManualRun} /\ active' = NoRun /\ lock' = "tail"
      BY <1>8 DEF RunReleased, JournalInv, FinishingInv
    <2>2. /\ launched' = launched /\ done \subseteq done'
          /\ skipped' \subseteq skipped \cup done'
      BY <1>8, RecalculateFacts DEF RunReleased, Recompile
    <2> QED
      BY <2>1, <2>2, LaunchAssumption DEF JournalInv, HistoryInv, FinishingInv, ClaimIsNew
  <1> QED
    BY <1>1, <1>2, <1>3, <1>4, <1>5, <1>6, <1>7, <1>8 DEF Loop

LEMMA OutsidePreserves ==
  ASSUME JournalInv, Outside
  PROVE  JournalInv' /\ ClaimIsNew
  <1>1. CASE RunEnds
    BY <1>1 DEF RunEnds, JournalInv, HistoryInv, FinishingInv, ClaimIsNew
  <1>2. CASE Request
    <2>1. CASE ~IsActive /\ ClaimManually(waiters)
      BY <2>1, ManualClaimPreserves
    <2>2. CASE UNCHANGED <<journal, lock>>
      BY <2>2, QuietPreserves
    <2> QED
      BY <1>2, <2>1, <2>2 DEF Request
  <1>3. CASE StopIdle
    BY <1>3, QuietPreserves DEF StopIdle
  <1>4. CASE RecalculateNow
    BY <1>4, ReturnGrows, GrowsPreserves DEF RecalculateNow, locking
  <1>5. ASSUME Changed PROVE JournalInv' /\ ClaimIsNew
    BY <1>5, QuietPreserves DEF Changed, locking
  <1>6. CASE \/ SetEnabled
             \/ \E p \in Programs, e \in Edits : UpdateProgram(p, e) \/ CreateProgram(p, e)
             \/ \E p \in Programs : DeleteProgram(p)
    BY <1>5, <1>6 DEF SetEnabled, UpdateProgram, CreateProgram, DeleteProgram
  <1>7. CASE Crash
    BY <1>7 DEF Crash, JournalInv, HistoryInv, FinishingInv, ClaimIsNew, Free
  <1> QED
    BY <1>1, <1>2, <1>3, <1>4, <1>6, <1>7 DEF Outside

LEMMA StepPreserves ==
  ASSUME JournalInv, [Next]_vars
  PROVE  JournalInv' /\ ClaimIsNew
  <1>1. CASE Tick
    BY <1>1, QuietPreserves DEF Tick, locking
  <1>2. CASE UNCHANGED launch
    BY <1>2, QuietPreserves DEF launch, locking
  <1> QED
    BY <1>1, <1>2, LoopPreserves, OutsidePreserves DEF Next, vars

-----------------------------------------------------------------------------
\* What was launched or skipped stays in the journal, over crashes too.
THEOREM HistoryInJournal == Spec => []JournalInv
  <1>1. Init => JournalInv
    BY DEF Init, JournalInv, HistoryInv, FinishingInv, Free
  <1>2. JournalInv /\ [Next]_vars => JournalInv'
    BY StepPreserves
  <1> QED
    BY <1>1, <1>2, PTL DEF Spec

\* An occurrence gets the controller at most once, and not after it was
\* recorded as skipped (completed_occurrences, async_start_run).
THEOREM ClaimedAtMostOnce == Spec => ClaimedOnce
  <1>1. JournalInv /\ [Next]_vars => [ClaimIsNew]_vars
    BY StepPreserves
  <1> QED
    BY <1>1, HistoryInJournal, PTL DEF Spec, ClaimedOnce

-----------------------------------------------------------------------------
(* The plan *)

PlannedRun == [occ : Occurrence, planned : Int]
Timer      == [kind : {"launch"}, occ : Occurrence, at : Int]

\* A greatest element is chosen by Max.
LEMMA MaxFacts ==
  ASSUME NEW T, IsFiniteSet(T), T \subseteq Int, T # {}
  PROVE  Max(T) \in T /\ \A y \in T : Max(T) >= y
  BY GreatestExists DEF Max

LEMMA ClaimOrder ==
  ASSUME NEW o \in Occurrence, NEW q \in Occurrence, NEW r \in Occurrence
  PROVE  /\ ~ClaimsBefore(o, o)
         /\ ClaimsBefore(o, q) /\ ClaimsBefore(q, r) => ClaimsBefore(o, r)
         /\ o # q => ClaimsBefore(o, q) \/ ClaimsBefore(q, o)
         /\ ~(ClaimsBefore(o, q) /\ ClaimsBefore(q, o))
  <1>1. /\ o.at \in Int /\ q.at \in Int /\ r.at \in Int
        /\ o.prog \in Int /\ q.prog \in Int /\ r.prog \in Int
        /\ Priority[o.prog] \in Int /\ Priority[q.prog] \in Int /\ Priority[r.prog] \in Int
    BY LaunchAssumption DEF Occurrence
  <1>2. o # q => o.at # q.at \/ o.prog # q.prog
    BY DEF Occurrence
  <1> QED
    BY <1>1, <1>2 DEF ClaimsBefore

LEMMA ListOrder ==
  ASSUME NEW o \in Occurrence, NEW q \in Occurrence, NEW r \in Occurrence
  PROVE  /\ ~ListedBefore(o, o)
         /\ ListedBefore(o, q) /\ ListedBefore(q, r) => ListedBefore(o, r)
         /\ o # q => ListedBefore(o, q) \/ ListedBefore(q, o)
  <1>1. /\ o.at \in Int /\ q.at \in Int /\ r.at \in Int
        /\ o.prog \in Int /\ q.prog \in Int /\ r.prog \in Int
    BY LaunchAssumption DEF Occurrence
  <1>2. o # q => o.at # q.at \/ o.prog # q.prog
    BY DEF Occurrence
  <1> QED
    BY <1>1, <1>2 DEF ListedBefore

LEMMA CandidatesFacts ==
  ASSUME IsFiniteSet(instants), instants \subseteq [key : Keys, at : Int], NEW from, NEW to
  PROVE  Candidates(from, to) \subseteq Occurrence /\ IsFiniteSet(Candidates(from, to))
  <1> DEFINE P == Programs \X instants
             f == [x \in P |-> [prog |-> x[1], at |-> x[2].at]]
  <1>1. ASSUME NEW o \in Candidates(from, to)
        PROVE  \E x \in P : o = [prog |-> x[1], at |-> x[2].at] /\ x[2].at \in Int
    <2>1. PICK p \in Programs : \E t \in OccurrencesBetween(programs[p].rule, from, to) :
            o = [prog |-> p, at |-> t]
      BY <1>1 DEF Candidates
    <2>2. PICK i \in instants : o = [prog |-> p, at |-> i.at]
      BY <2>1 DEF OccurrencesBetween
    <2>3. <<p, i>> \in P /\ i.at \in Int
      BY <2>2
    <2> QED
      BY <2>1, <2>2, <2>3
  <1>2. Candidates(from, to) \subseteq Occurrence
    BY <1>1 DEF Occurrence
  <1>3. Candidates(from, to) \subseteq {f[x] : x \in P}
    BY <1>1
  <1>4. IsFiniteSet(P)
    BY FS_Product, LaunchAssumption
  <1> HIDE DEF f, P
  <1> QED
    BY <1>2, <1>3, <1>4, ImageFinite

\* What a run waits for, as a sum of one function.
Blocks(occs) == [r \in occs |-> Block[r.prog]]
LEMMA BlockedAs ==
  ASSUME NEW occs, occs \subseteq Occurrence, IsFiniteSet(occs), NEW q, NEW o
  PROVE  /\ BlockedFrom(q, o, occs) =
              Sum(Blocks(occs), {r \in occs : ~ClaimsBefore(r, q) /\ ClaimsBefore(r, o)})
         /\ \A r \in occs : Blocks(occs)[r] \in Nat
         /\ BlockedFrom(q, o, occs) \in Nat
  <1> DEFINE between == {r \in occs : ~ClaimsBefore(r, q) /\ ClaimsBefore(r, o)}
             f == [r \in between |-> Block[r.prog]]
  <1>1. BlockedFrom(q, o, occs) = Sum(f, between)
    BY DEF BlockedFrom, Sum
  <1>2. IsFiniteSet(between) /\ between \subseteq occs
    BY FS_Subset
  <1>3. \A r \in occs : Blocks(occs)[r] \in Nat
    BY LaunchAssumption DEF Blocks, Occurrence
  <1>4. \A r \in between : f[r] = Blocks(occs)[r]
    BY DEF Blocks
  <1> HIDE DEF f
  <1>5. Sum(f, between) = Sum(Blocks(occs), between)
    BY <1>2, <1>4, SumSame
  <1>6. Sum(Blocks(occs), between) \in Nat
    BY <1>2, <1>3, SumType
  <1> QED
    BY <1>1, <1>3, <1>5, <1>6

\* The run that decides when another may start.
LEMMA PlannedFacts ==
  ASSUME NEW occs, occs \subseteq Occurrence, IsFiniteSet(occs), NEW o \in occs
  PROVE  /\ PlannedStart(o, occs) \in Int
         /\ PlannedStart(o, occs) >= o.at
         /\ \E q \in occs : ~ClaimsBefore(o, q)
                            /\ PlannedStart(o, occs) = q.at + BlockedFrom(q, o, occs)
         /\ \A q \in occs : ~ClaimsBefore(o, q)
                            => q.at + BlockedFrom(q, o, occs) <= PlannedStart(o, occs)
  <1> DEFINE S == {r \in occs : ~ClaimsBefore(o, r)}
             f == [q \in S |-> q.at + BlockedFrom(q, o, occs)]
             T == {q.at + BlockedFrom(q, o, occs) : q \in S}
  <1>1. \A q \in occs : q.at \in Int /\ BlockedFrom(q, o, occs) \in Nat
    BY BlockedAs DEF Occurrence
  <1>2. o \in S
    BY ClaimOrder
  <1>3. IsFiniteSet(S)
    BY FS_Subset
  <1>4. T \subseteq {f[x] : x \in S}
    OBVIOUS
  <1>5. IsFiniteSet(T)
    <2> HIDE DEF f, S, T
    <2> QED
      BY <1>3, <1>4, ImageFinite
  <1>6. T \subseteq Int /\ T # {}
    BY <1>1, <1>2
  <1>7. Max(T) \in T /\ \A y \in T : Max(T) >= y
    <2> HIDE DEF T
    <2> QED
      BY <1>5, <1>6, MaxFacts
  <1>8. PlannedStart(o, occs) = Max(T)
    BY DEF PlannedStart
  <1> DEFINE m == Max(T)
  <1>9. m \in T /\ \A q \in S : m >= q.at + BlockedFrom(q, o, occs)
    BY <1>7
  <1> HIDE DEF m
  <1>10. PICK q \in S : m = q.at + BlockedFrom(q, o, occs)
    BY <1>9
  <1>11. m \in Int
    BY <1>1, <1>10
  <1>12. m >= o.at
    BY <1>1, <1>2, <1>9, <1>11
  <1> QED
    BY <1>1, <1>8, <1>9, <1>10, <1>11, <1>12 DEF m

LEMMA PlanIs == Plan = Compile(Candidates(DayStart, now + Horizon))
  BY DEF Plan

LEMMA CompileFacts ==
  ASSUME NEW occs, occs \subseteq Occurrence, IsFiniteSet(occs)
  PROVE  /\ Compile(occs) \subseteq PlannedRun /\ IsFiniteSet(Compile(occs))
         /\ \A run \in Compile(occs) : /\ run.occ \in occs
                                       /\ run.planned = PlannedStart(run.occ, occs)
                                       /\ run.occ.at <= run.planned
  <1> DEFINE f == [o \in occs |-> [occ |-> o, planned |-> PlannedStart(o, occs)]]
  <1>1. Compile(occs) \subseteq {f[o] : o \in occs}
    BY DEF Compile
  <1>2. ASSUME NEW run \in Compile(occs)
        PROVE  /\ run \in PlannedRun /\ run.occ \in occs
               /\ run.planned = PlannedStart(run.occ, occs)
               /\ run.occ.at <= run.planned
    <2>1. PICK o \in occs : run = [occ |-> o, planned |-> PlannedStart(o, occs)]
      BY <1>2 DEF Compile
    <2>2. o.at \in Int
      BY DEF Occurrence
    <2> QED
      BY <2>1, <2>2, PlannedFacts DEF PlannedRun
  <1> HIDE DEF f
  <1>3. IsFiniteSet(Compile(occs))
    BY <1>1, ImageFinite
  <1> QED
    BY <1>2, <1>3

\* A timeline has a first run, in the order in which it is listed.
LEMMA FirstListed ==
  ASSUME NEW S, IsFiniteSet(S), NEW pending \in SUBSET S, S \subseteq PlannedRun, pending # {}
  PROVE  \E run \in pending : \A other \in pending : ~ListedBefore(other.occ, run.occ)
  <1> DEFINE B == {s \in SUBSET pending : s # {} /\ \A x \in s : \A y \in pending :
                                                   ListedBefore(y.occ, x.occ) => y \in s}
  <1>1. pending \in B
    OBVIOUS
  <1>2. PICK m \in B : \A s \in B : s \subseteq m => s = m
    <2>1. B \subseteq SUBSET pending /\ B # {} /\ IsFiniteSet(pending)
      BY <1>1, FS_Subset
    <2> HIDE DEF B
    <2> QED
      BY <2>1, MinimalSubset
  <1>3. m \subseteq pending /\ m # {}
    BY <1>2
  <1>4. PICK run \in m : TRUE
    BY <1>3
  <1>5. \A other \in pending : other.occ \in Occurrence
    BY DEF PlannedRun
  <1> DEFINE earlier == {y \in pending : ListedBefore(y.occ, run.occ)}
  <1>6. earlier \subseteq m /\ run \notin earlier
    <2>1. ~ListedBefore(run.occ, run.occ)
      BY <1>3, <1>4, <1>5, ListOrder
    <2> QED
      BY <1>2, <1>4, <2>1
  <1>7. earlier # {} => earlier \in B
    <2>1. ASSUME NEW x \in earlier, NEW y \in pending, ListedBefore(y.occ, x.occ)
          PROVE  y \in earlier
      BY <1>3, <1>4, <1>5, <2>1, ListOrder
    <2> QED
      BY <2>1
  <1>8. earlier = {}
    BY <1>2, <1>4, <1>6, <1>7
  <1> QED
    BY <1>3, <1>4, <1>8
-----------------------------------------------------------------------------
(* Types *)

Waiter == [occ : Occurrence \cup {ManualRun}, late : BOOLEAN]

ClockTypes   == now \in 0 .. MaxTime /\ left \in 0 .. MaxDisturbances
                /\ {up, midnight} \subseteq BOOLEAN
Schedules    == [Programs -> [life : {"new", "live", "deleted"}, rule : Rules \cup {0},
                              enabled : BOOLEAN, stamp : SUBSET Int]]
ConfigTypes  == /\ {enabled, dirty} \subseteq BOOLEAN /\ programs \in Schedules
                /\ stored \in [enabled : BOOLEAN, programs : Schedules]
                /\ ~dirty => stored = [enabled |-> enabled, programs |-> programs]
ArmTypes     == /\ timeline \subseteq PlannedRun /\ IsFiniteSet(timeline)
                /\ armed = NoTimer \/ (armed \in Timer /\ armed.at >= now)
                /\ retry \subseteq Occurrence
RetryTypes   == retryAt \in {Never} \cup (now .. now + Retry)
JournalTypes == /\ active \in Occurrence \cup {NoRun, ManualRun}
                /\ {done, launched, skipped} \subseteq SUBSET Occurrence
LockTypes    == /\ waiters \in Seq(Waiter) /\ launching \in BOOLEAN
                /\ lock \in {"free", "start", "finishing", "tail", "stop"}
OtherTypes   == /\ due \subseteq [occ : Occurrence, verdict : {"skip", "wait", "launch"}]
                /\ asked \subseteq Occurrence
                /\ saved \in [active : Occurrence \cup {NoRun, ManualRun}, done : SUBSET Occurrence]

Typed == /\ ClockTypes /\ ConfigTypes /\ ArmTypes /\ RetryTypes
         /\ JournalTypes /\ LockTypes /\ OtherTypes

\* What is in memory is lost while Home Assistant is down, and it comes up
\* when the zone is known.
DownInv ==
  /\ up => Expanded
  /\ ~up => /\ timeline = {} /\ armed = NoTimer /\ retry = {} /\ retryAt = Never
            /\ due = {} /\ waiters = <<>> /\ ~launching /\ ~dirty

ExpandedInv == ExpansionInv /\ SolarInv
FrameInv    == ExpandedInv /\ Typed /\ DownInv

LEMMA TypedIsTypeOK ==
  ASSUME FrameInv
  PROVE  TypeOK
  <1>1. ExpansionTypeOK
    BY DEF FrameInv, ExpandedInv, ExpansionInv
  <1>2. armed \in Timer => armed # NoTimer
    BY DEF Timer, NoTimer
  <1> QED
    BY <1>1, <1>2
    DEF FrameInv, Typed, ClockTypes, ConfigTypes, Schedules, ArmTypes, RetryTypes, JournalTypes,
        LockTypes, OtherTypes, TypeOK, PlannedRun, Timer, Waiter

LEMMA DayStartType ==
  ASSUME FrameInv
  PROVE  DayStart \in Int
  <1>1. now \in Int /\ tz.trans \in Int /\ tz.before \in Int /\ tz.after \in Int
        /\ DayLength \in Nat \ {0}
    BY ZoneFacts, CalendarAssumption
    DEF FrameInv, Typed, ClockTypes, ExpandedInv, ExpansionInv, ExpansionTypeOK
  <1>2. LocalDay(now) \in Int
    BY <1>1 DEF LocalDay, Wall, Offset
  <1>3. LocalDay(now) * DayLength \in Int
    BY <1>1, <1>2, ProductIsInt
  <1> QED
    BY <1>1, <1>3 DEF DayStart, Utc, Larger, Smaller

LEMMA PlanFacts ==
  ASSUME FrameInv
  PROVE  /\ Plan \subseteq PlannedRun /\ IsFiniteSet(Plan)
         /\ \A run \in Plan : run.occ.at <= run.planned
  <1>1. IsFiniteSet(instants) /\ instants \subseteq [key : Keys, at : Int]
    BY DEF FrameInv, ExpandedInv, SolarInv, ExpansionInv, ExpansionTypeOK
  <1> QED
    BY <1>1, CandidatesFacts, CompileFacts, PlanIs

\* The timer is for one of the runs it is given, the first of the list.
LEMMA ArmedFacts ==
  ASSUME NEW S, IsFiniteSet(S), S \subseteq PlannedRun, NEW pending \in SUBSET S
  PROVE  \/ Armed(pending) = NoTimer /\ (~Automatic \/ pending = {})
         \/ /\ Automatic
            /\ \E run \in pending : /\ Armed(pending) = TimerFor(run)
                                    /\ \A other \in pending : ~ListedBefore(other.occ, run.occ)
  <1>1. CASE Automatic /\ pending # {}
    <2> DEFINE first == CHOOSE run \in pending :
                          \A other \in pending : ~ListedBefore(other.occ, run.occ)
    <2>1. first \in pending /\ \A other \in pending : ~ListedBefore(other.occ, first.occ)
      BY <1>1, FirstListed
    <2>2. Armed(pending) = TimerFor(first)
      BY <1>1 DEF Armed
    <2> QED
      BY <1>1, <2>1, <2>2
  <1> QED
    BY <1>1 DEF Armed

LEMMA ArmNextTypes ==
  ASSUME FrameInv, now' = now,
         NEW plan, plan \subseteq PlannedRun, IsFiniteSet(plan),
         NEW d \in SUBSET Occurrence, NEW a, NEW w \in SUBSET Occurrence,
         NEW s \in SUBSET Occurrence, ArmNext(plan, d, a, w, s)
  PROVE  ArmTypes' /\ {done', skipped'} \subseteq SUBSET Occurrence
  <1>1. PICK fresh, stale :
          /\ fresh \in {plan, Plan} /\ stale = Recorded(Stale(plan, d, a)) \cup Stale(fresh, d, a)
          /\ timeline' = fresh /\ done' = d \cup stale /\ skipped' = s \cup stale
          /\ retry' = w \ stale
          /\ armed' = Armed(Pending(fresh, d \cup stale, a, w \ stale))
    BY DEF ArmNext
  <1>2. fresh \subseteq PlannedRun /\ IsFiniteSet(fresh)
    BY <1>1, PlanFacts
  <1>3. stale \subseteq Occurrence
    BY <1>1, <1>2 DEF Stale, Recorded, PlannedRun
  <1> DEFINE pending == Pending(fresh, d \cup stale, a, w \ stale)
  <1>4. pending \in SUBSET fresh
    BY DEF Pending
  <1>5. \/ armed' = NoTimer
        \/ \E run \in pending : armed' = TimerFor(run)
    <2> HIDE DEF pending
    <2> QED
      BY <1>1, <1>2, <1>4, ArmedFacts DEF pending
  <1>6. armed' = NoTimer \/ (armed' \in Timer /\ armed'.at >= now)
    <2>1. ASSUME NEW run \in PlannedRun
          PROVE  TimerFor(run) \in Timer /\ TimerFor(run).at >= now
      BY DEF PlannedRun, TimerFor, Timer, Larger, FrameInv, Typed, ClockTypes
    <2> HIDE DEF pending
    <2> QED
      BY <1>2, <1>4, <1>5, <2>1
  <1> QED
    BY <1>1, <1>2, <1>3, <1>6 DEF ArmTypes

LEMMA ReturnTypes ==
  ASSUME FrameInv, now' = now, Return
  PROVE  ArmTypes' /\ RetryTypes' /\ JournalTypes'
  <1>1. ArmTypes' /\ {done', skipped'} \subseteq SUBSET Occurrence
    BY PlanFacts, ArmNextTypes
    DEF Return, Recompile, Recalculate, FrameInv, Typed, JournalTypes, ArmTypes
  <1> QED
    BY <1>1 DEF Return, FrameInv, Typed, JournalTypes, RetryTypes

LEMMA WaitOrSkipTypes ==
  ASSUME FrameInv, now' = now, NEW o \in Occurrence, NEW late, WaitOrSkip(o, late)
  PROVE  ArmTypes' /\ RetryTypes' /\ JournalTypes'
  <1>1. CASE ArmRetry(o)
    <2>1. ArmTypes' /\ {done', skipped'} \subseteq SUBSET Occurrence
      BY <1>1, ArmNextTypes DEF ArmRetry, FrameInv, Typed, JournalTypes, ArmTypes
    <2>2. RetryTypes'
      BY <1>1, LaunchAssumption DEF ArmRetry, FrameInv, Typed, RetryTypes, ClockTypes
    <2> QED
      BY <1>1, <2>1, <2>2 DEF ArmRetry, FrameInv, Typed, JournalTypes
  <1>2. CASE Skip(o)
    <2>1. ArmTypes' /\ {done', skipped'} \subseteq SUBSET Occurrence
      BY <1>2, PlanFacts, ArmNextTypes
      DEF Skip, Recalculate, FrameInv, Typed, JournalTypes, ArmTypes
    <2> QED
      BY <1>2, <2>1 DEF Skip, FrameInv, Typed, JournalTypes, RetryTypes
  <1> QED
    BY <1>1, <1>2 DEF WaitOrSkip

LEMMA LaunchTypes ==
  ASSUME FrameInv, now' = now, NEW o \in Occurrence, NEW verdict, NEW t, t \in {NoTimer, armed},
         Launch(o, verdict, t)
  PROVE  ArmTypes' /\ RetryTypes' /\ JournalTypes' /\ LockTypes'
  <1> DEFINE late == now > DeadlineOf(o)
  <1>1. CASE Return /\ UNCHANGED locking
    BY <1>1, ReturnTypes DEF locking, FrameInv, Typed, LockTypes
  <1>2. CASE WaitOrSkip(o, late) /\ UNCHANGED locking
    BY <1>2, WaitOrSkipTypes DEF locking, FrameInv, Typed, LockTypes
  <1>3. CASE Skip(o) /\ UNCHANGED locking
    <2>1. WaitOrSkip(o, TRUE)
      BY <1>3 DEF WaitOrSkip
    <2> QED
      BY <1>3, <2>1, WaitOrSkipTypes DEF locking, FrameInv, Typed, LockTypes
  <1>4. CASE Claim(o, waiters) /\ armed' = t
    BY <1>4 DEF Claim, FrameInv, Typed, ArmTypes, RetryTypes, JournalTypes, LockTypes
  <1>5. CASE /\ waiters' = Append(waiters, [occ |-> o, late |-> late])
             /\ armed' = t
             /\ UNCHANGED <<journal, timeline, retry, retryAt, lock, launching>>
    <2>1. [occ |-> o, late |-> late] \in Waiter
      BY DEF Waiter
    <2>2. waiters' \in Seq(Waiter)
      BY <1>5, <2>1 DEF FrameInv, Typed, LockTypes
    <2> QED
      BY <1>5, <2>2 DEF journal, FrameInv, Typed, ArmTypes, RetryTypes, JournalTypes, LockTypes
  <1> QED
    BY <1>1, <1>2, <1>3, <1>4, <1>5 DEF Launch
\* The types of a step that leaves a group of the variables alone.
LEMMA SameTypes ==
  ASSUME FrameInv
  PROVE  /\ UNCHANGED <<now, up, midnight, left>> => ClockTypes'
         /\ UNCHANGED config => ConfigTypes'
         /\ UNCHANGED <<timers, now>> => ArmTypes' /\ RetryTypes'
         /\ UNCHANGED journal => JournalTypes'
         /\ UNCHANGED locking => LockTypes'
         /\ UNCHANGED <<due, asked, saved>> => OtherTypes'
  BY DEF FrameInv, Typed, ClockTypes, ConfigTypes, ArmTypes, RetryTypes, JournalTypes, LockTypes,
         OtherTypes, config, timers, journal, locking

LEMMA EmptyQueue == <<>> \in Seq(Waiter)
  OBVIOUS

LEMMA HeadAndTail ==
  ASSUME FrameInv, waiters # <<>>
  PROVE  /\ Head(waiters) \in Waiter /\ Tail(waiters) \in Seq(Waiter)
         /\ Head(waiters).occ # ManualRun => Head(waiters).occ \in Occurrence
  <1>1. Head(waiters) \in Waiter /\ Tail(waiters) \in Seq(Waiter)
    BY DEF FrameInv, Typed, LockTypes
  <1> QED
    BY <1>1 DEF Waiter

LEMMA ArmedOccurrence ==
  ASSUME FrameInv, armed.kind = "launch"
  PROVE  armed \in Timer /\ armed.occ \in Occurrence
  BY DEF FrameInv, Typed, ArmTypes, Timer, NoTimer

LEMMA LoopTypes ==
  ASSUME FrameInv, Loop
  PROVE  Typed'
  <1>1. CASE JournalWritten
    <2>1. saved' \in [active : Occurrence \cup {NoRun, ManualRun}, done : SUBSET Occurrence]
      BY <1>1 DEF JournalWritten, FrameInv, Typed, JournalTypes
    <2>2. OtherTypes'
      BY <1>1, <2>1 DEF JournalWritten, FrameInv, Typed, OtherTypes
    <2> QED
      BY <1>1, <2>2, SameTypes DEF JournalWritten, outside, Typed
  <1>2. CASE StopReturns
    <2>1. LockTypes'
      BY <1>2 DEF StopReturns, FrameInv, Typed, LockTypes, Free
    <2> QED
      BY <1>2, <2>1, SameTypes DEF StopReturns, outside, Typed
  <1>3. CASE RetryFires
    <2>1. OtherTypes'
      <3>1. PICK verdict \in Verdicts : due' = {[occ |-> o, verdict |-> verdict] : o \in retry}
        BY <1>3 DEF RetryFires
      <3>2. verdict \in {"skip", "wait", "launch"}
        BY DEF Verdicts, Verdict
      <3>3. retry \subseteq Occurrence
        BY DEF FrameInv, Typed, ArmTypes
      <3>4. due' \subseteq [occ : Occurrence, verdict : {"skip", "wait", "launch"}]
        BY <3>1, <3>2, <3>3
      <3> QED
        BY <1>3, <3>4 DEF RetryFires, FrameInv, Typed, OtherTypes
    <2>2. ArmTypes' /\ RetryTypes'
      BY <1>3 DEF RetryFires, FrameInv, Typed, ArmTypes, RetryTypes, outside
    <2> QED
      BY <1>3, <2>1, <2>2, SameTypes DEF RetryFires, outside, Typed
  <1>4. CASE GrantedToRequest
    <2>1. CASE ClaimManually(Tail(waiters))
      <3>1. JournalTypes' /\ LockTypes'
        BY <1>4, <2>1, HeadAndTail
        DEF GrantedToRequest, ClaimManually, FrameInv, Typed, JournalTypes, LockTypes
      <3> QED
        BY <1>4, <2>1, <3>1, SameTypes DEF GrantedToRequest, ClaimManually, outside, Typed
    <2>2. CASE waiters' = Tail(waiters) /\ UNCHANGED <<journal, timers, lock, launching>>
      <3>1. LockTypes'
        BY <1>4, <2>2, HeadAndTail DEF GrantedToRequest, FrameInv, Typed, LockTypes
      <3> QED
        BY <1>4, <2>2, <3>1, SameTypes DEF GrantedToRequest, outside, Typed
    <2> QED
      BY <1>4, <2>1, <2>2 DEF GrantedToRequest
  <1>5. CASE Setup
    BY <1>5, ReturnTypes, SameTypes DEF Setup, Typed, ClockTypes, FrameInv
  <1>6. CASE Fire
    <2>1. ArmTypes' /\ RetryTypes' /\ JournalTypes' /\ LockTypes'
      BY <1>6, LaunchTypes, ArmedOccurrence DEF Fire, outside
    <2> QED
      BY <1>6, <2>1, SameTypes DEF Fire, outside, Typed
  <1>7. CASE Relaunch
    <2>1. PICK d \in due : Launch(d.occ, d.verdict, armed) /\ due' = due \ {d}
      BY <1>7 DEF Relaunch
    <2>2. d.occ \in Occurrence
      BY <2>1 DEF FrameInv, Typed, OtherTypes
    <2>3. ArmTypes' /\ RetryTypes' /\ JournalTypes' /\ LockTypes'
      BY <1>7, <2>1, <2>2, LaunchTypes DEF Relaunch, outside
    <2>4. OtherTypes'
      BY <1>7, <2>1 DEF Relaunch, FrameInv, Typed, OtherTypes
    <2> QED
      BY <1>7, <2>3, <2>4, SameTypes DEF Relaunch, outside, Typed
  <1>8. CASE GrantedToLaunch
    <2> DEFINE w == Head(waiters)
    <2>0. now' = now /\ w.occ \in Occurrence /\ Tail(waiters) \in Seq(Waiter)
      BY <1>8, HeadAndTail DEF GrantedToLaunch, outside
    <2>1. CASE WaitOrSkip(w.occ, w.late) /\ waiters' = Tail(waiters) /\ UNCHANGED <<lock, launching>>
      BY <1>8, <2>0, <2>1, WaitOrSkipTypes, SameTypes
      DEF GrantedToLaunch, outside, Typed, LockTypes, FrameInv
    <2>2. CASE Return /\ waiters' = Tail(waiters) /\ UNCHANGED <<lock, launching>>
      BY <1>8, <2>0, <2>2, ReturnTypes, SameTypes
      DEF GrantedToLaunch, outside, Typed, LockTypes, FrameInv
    <2>3. CASE Claim(w.occ, Tail(waiters)) /\ UNCHANGED armed
      <3>1. ArmTypes' /\ RetryTypes' /\ JournalTypes' /\ LockTypes'
        BY <2>0, <2>3
        DEF Claim, FrameInv, Typed, ArmTypes, RetryTypes, JournalTypes, LockTypes
      <3> QED
        BY <1>8, <3>1, SameTypes DEF GrantedToLaunch, outside, Typed
    <2> QED
      BY <1>8, <2>1, <2>2, <2>3 DEF GrantedToLaunch
  <1>9. CASE Started \/ TailWritten
    <2>1. LockTypes'
      BY <1>9 DEF Started, TailWritten, Returned, FrameInv, Typed, LockTypes, Free
    <2>2. ArmTypes' /\ RetryTypes' /\ JournalTypes'
      BY <1>9, ReturnTypes, SameTypes DEF Started, TailWritten, Returned, outside
    <2> QED
      BY <1>9, <2>1, <2>2, SameTypes DEF Started, TailWritten, outside, Typed
  <1>10. CASE RunReleased
    <2>1. LockTypes'
      BY <1>10 DEF RunReleased, FrameInv, Typed, LockTypes
    <2>2. now' = now /\ active' = NoRun
      BY <1>10 DEF RunReleased, outside
    <2>3. CASE Recompile /\ UNCHANGED <<launched, retryAt>>
      <3>1. ArmTypes' /\ {done', skipped'} \subseteq SUBSET Occurrence
        BY <2>2, <2>3, PlanFacts, ArmNextTypes
        DEF Recompile, Recalculate, FrameInv, Typed, JournalTypes, ArmTypes
      <3>2. RetryTypes' /\ JournalTypes'
        BY <2>2, <2>3, <3>1 DEF FrameInv, Typed, JournalTypes, RetryTypes
      <3> QED
        BY <1>10, <2>1, <3>1, <3>2, SameTypes DEF RunReleased, outside, Typed
    <2>4. CASE UNCHANGED <<done, launched, skipped, timers>>
      <3>1. JournalTypes'
        BY <2>2, <2>4 DEF FrameInv, Typed, JournalTypes
      <3> QED
        BY <1>10, <2>1, <2>4, <3>1, SameTypes DEF RunReleased, outside, Typed
    <2> QED
      BY <1>10, <2>3, <2>4 DEF RunReleased
  <1>11. CASE ConfigSaved
    <2>1. ConfigTypes'
      <3>1. enabled \in BOOLEAN /\ programs \in Schedules
        BY DEF FrameInv, Typed, ConfigTypes
      <3>2. [enabled |-> enabled, programs |-> programs] \in [enabled : BOOLEAN, programs : Schedules]
        BY <3>1
      <3> QED
        BY <1>11, <3>1, <3>2 DEF ConfigSaved, ConfigTypes
    <2> QED
      BY <1>11, <2>1, ReturnTypes, SameTypes DEF ConfigSaved, outside, Typed
  <1>12. CASE DailyRecompile
    BY <1>12, ReturnTypes, SameTypes DEF DailyRecompile, Typed, ClockTypes, FrameInv
  <1> QED
    BY <1>1, <1>2, <1>3, <1>4, <1>5, <1>6, <1>7, <1>8, <1>9, <1>10, <1>11, <1>12 DEF Loop

LEMMA AsksType ==
  ASSUME FrameInv, NEW p \in Programs, NEW rule, NEW when
  PROVE  Asks(p, rule, when) \subseteq Occurrence
  BY DEF Asks, Occurrence, FrameInv, ExpandedInv, ExpansionInv, ExpansionTypeOK

LEMMA OutsideTypes ==
  ASSUME FrameInv, Outside
  PROVE  Typed'
  <1>0. ASSUME NEW op, Disturbs(op), UNCHANGED outside PROVE ClockTypes'
    BY <1>0, LaunchAssumption DEF Disturbs, outside, FrameInv, Typed, ClockTypes
  <1>1. CASE RunEnds
    <2>1. JournalTypes' /\ LockTypes'
      BY <1>1 DEF RunEnds, FrameInv, Typed, JournalTypes, LockTypes, IsActive
    <2> QED
      BY <1>1, <2>1, SameTypes DEF RunEnds, outside, Typed
  <1>2. CASE Request
    <2>0. ClockTypes'
      BY <1>0, <1>2 DEF Request
    <2>1. CASE ClaimManually(waiters)
      <3>1. JournalTypes' /\ LockTypes'
        BY <2>1 DEF ClaimManually, FrameInv, Typed, JournalTypes, LockTypes
      <3> QED
        BY <1>2, <2>0, <2>1, <3>1, SameTypes DEF Request, ClaimManually, outside, Typed
    <2>2. CASE /\ waiters' = Append(waiters, [occ |-> ManualRun, late |-> FALSE])
               /\ UNCHANGED <<journal, timers, lock, launching>>
      <3>1. [occ |-> ManualRun, late |-> FALSE] \in Waiter
        BY DEF Waiter
      <3>2. LockTypes'
        BY <2>2, <3>1 DEF FrameInv, Typed, LockTypes
      <3> QED
        BY <1>2, <2>0, <2>2, <3>2, SameTypes DEF Request, outside, Typed
    <2> QED
      BY <1>2, <2>1, <2>2 DEF Request
  <1>3. CASE StopIdle
    <2>1. LockTypes'
      BY <1>3 DEF StopIdle, FrameInv, Typed, LockTypes
    <2> QED
      BY <1>0, <1>3, <2>1, SameTypes DEF StopIdle, outside, Typed
  <1>4. CASE RecalculateNow
    BY <1>0, <1>4, ReturnTypes, SameTypes DEF RecalculateNow, outside, Typed
  <1>5. ASSUME Changed, ConfigTypes', asked' \subseteq Occurrence, NEW op, Disturbs(op)
        PROVE  Typed'
    <2>1. OtherTypes'
      BY <1>5 DEF Changed, FrameInv, Typed, OtherTypes
    <2> QED
      BY <1>0, <1>5, <2>1, SameTypes DEF Changed, outside, Typed
  <1>6. CASE SetEnabled
    <2>1. stored' = stored /\ dirty' /\ enabled' \in BOOLEAN /\ programs' = programs /\ asked' = asked
      BY <1>6 DEF SetEnabled, Changed, FrameInv, Typed, ConfigTypes
    <2>2. ConfigTypes' /\ asked' \subseteq Occurrence
      BY <1>6, <2>1 DEF SetEnabled, Changed, FrameInv, Typed, ConfigTypes, OtherTypes
    <2> QED
      BY <1>5, <1>6, <2>2 DEF SetEnabled
  <1>7. ASSUME NEW p \in Programs, NEW e \in Edits, UpdateProgram(p, e) \/ CreateProgram(p, e)
        PROVE  Typed'
    <2>1. e \in [rule : Rules, enabled : BOOLEAN]
      BY LaunchAssumption
    <2>2. Stamp(p, e) \subseteq Int
      BY DEF Stamp, FrameInv, Typed, ConfigTypes, Schedules, ClockTypes
    <2>3. ConfigTypes'
      <3> DEFINE Schedule == [life : {"new", "live", "deleted"}, rule : Rules \cup {0},
                              enabled : BOOLEAN, stamp : SUBSET Int]
      <3>1. PICK x \in SUBSET Int :
              programs' = [programs EXCEPT ![p] = [life |-> "live", rule |-> e.rule,
                                                   enabled |-> e.enabled, stamp |-> x]]
        BY <1>7, <2>2 DEF UpdateProgram, CreateProgram
      <3>2. [life |-> "live", rule |-> e.rule, enabled |-> e.enabled, stamp |-> x] \in Schedule
        BY <2>1
      <3>3. programs \in [Programs -> Schedule] /\ enabled \in BOOLEAN
        BY DEF FrameInv, Typed, ConfigTypes, Schedules
      <3> HIDE DEF Schedule
      <3>4. programs' \in [Programs -> Schedule]
        BY <3>1, <3>2, <3>3
      <3>5. programs' \in Schedules
        BY <3>4 DEF Schedule, Schedules
      <3>6. enabled' = enabled /\ dirty' = TRUE /\ stored' = stored
        BY <1>7 DEF UpdateProgram, CreateProgram, Changed
      <3>7. stored' \in [enabled : BOOLEAN, programs : Schedules]
        BY <3>6 DEF FrameInv, Typed, ConfigTypes
      <3> QED
        BY <3>3, <3>5, <3>6, <3>7 DEF ConfigTypes
    <2>4. asked' \subseteq Occurrence
      BY <1>7, AsksType DEF UpdateProgram, CreateProgram, FrameInv, Typed, OtherTypes
    <2> QED
      BY <1>5, <1>7, <2>3, <2>4 DEF UpdateProgram, CreateProgram
  <1>8. ASSUME NEW p \in Programs, DeleteProgram(p) PROVE Typed'
    <2>1. programs' \in Schedules
      BY <1>8 DEF DeleteProgram, FrameInv, Typed, ConfigTypes, Schedules
    <2>2. stored' = stored /\ dirty' /\ enabled' = enabled /\ asked' = asked
      BY <1>8 DEF DeleteProgram, Changed
    <2>3. ConfigTypes' /\ asked' \subseteq Occurrence
      BY <2>1, <2>2 DEF FrameInv, Typed, ConfigTypes, OtherTypes
    <2> QED
      BY <1>5, <1>8, <2>3 DEF DeleteProgram
  <1>9. CASE Crash
    <2>0. saved \in [active : Occurrence \cup {NoRun, ManualRun}, done : SUBSET Occurrence]
          /\ launched \subseteq Occurrence /\ skipped \subseteq Occurrence
      BY DEF FrameInv, Typed, OtherTypes, JournalTypes
    <2>1. ClockTypes' /\ ConfigTypes' /\ OtherTypes'
      <3>1. ClockTypes'
        <4>1. MaxDisturbances \in Nat /\ left \in 0 .. MaxDisturbances /\ left > 0 /\ left' = left - 1
          BY <1>9, LaunchAssumption DEF Crash, Disturbs, FrameInv, Typed, ClockTypes
        <4>2. left' \in 0 .. MaxDisturbances
          BY <4>1
        <4>3. now' = now /\ up' = FALSE /\ midnight' = FALSE
          BY <1>9 DEF Crash
        <4> QED
          BY <4>2, <4>3 DEF FrameInv, Typed, ClockTypes
      <3>2. ConfigTypes'
        <4>1. stored \in [enabled : BOOLEAN, programs : Schedules]
          BY DEF FrameInv, Typed, ConfigTypes
        <4>2. /\ stored' = stored /\ enabled' = stored.enabled /\ programs' = stored.programs
              /\ dirty' = FALSE
          BY <1>9 DEF Crash
        <4>3. stored = [enabled |-> stored.enabled, programs |-> stored.programs]
              /\ stored.enabled \in BOOLEAN /\ stored.programs \in Schedules
          BY <4>1
        <4> QED
          BY <4>1, <4>2, <4>3 DEF ConfigTypes
      <3>3. OtherTypes'
        BY <1>9 DEF Crash, FrameInv, Typed, OtherTypes
      <3> QED
        BY <3>1, <3>2, <3>3
    <2>2. ArmTypes' /\ RetryTypes'
      BY <1>9, FS_EmptySet DEF Crash, ArmTypes, RetryTypes
    <2>3. JournalTypes' /\ LockTypes'
      <3>1. saved.active \in Occurrence \cup {NoRun, ManualRun} /\ saved.done \subseteq Occurrence
        BY <2>0
      <3>2. JournalTypes'
        <4>1. /\ active' = saved.active /\ done' = saved.done
              /\ launched' \subseteq launched /\ skipped' \subseteq skipped
          BY <1>9 DEF Crash
        <4>2. active' \in Occurrence \cup {NoRun, ManualRun}
          BY <3>1, <4>1
        <4>3. done' \subseteq Occurrence /\ launched' \subseteq Occurrence /\ skipped' \subseteq Occurrence
          BY <2>0, <3>1, <4>1
        <4> QED
          BY <4>2, <4>3 DEF JournalTypes
      <3>3. LockTypes'
        BY <1>9, EmptyQueue DEF Crash, LockTypes, Free
      <3> QED
        BY <3>2, <3>3
    <2> QED
      BY <2>1, <2>2, <2>3 DEF Typed
  <1> QED
    BY <1>1, <1>2, <1>3, <1>4, <1>6, <1>7, <1>8, <1>9 DEF Outside

LEMMA TickTypes ==
  ASSUME FrameInv, Tick
  PROVE  Typed'
  <1>1. now \in 0 .. MaxTime /\ MaxTime \in Nat /\ now' = now + 1 /\ now < MaxTime
    BY LaunchAssumption DEF Tick, FrameInv, Typed, ClockTypes
  <1>2. ClockTypes'
    BY <1>1 DEF Tick, FrameInv, Typed, ClockTypes
  <1>3. ArmTypes' /\ RetryTypes'
    <2>1. \/ armed = NoTimer /\ retryAt = Never
          \/ ~(armed.kind = "launch" /\ armed.at <= now) /\ (retryAt = Never \/ retryAt > now)
      BY DEF Tick, Settled, FrameInv, DownInv
    <2>2. armed = NoTimer \/ (armed \in Timer /\ armed.at >= now + 1)
      BY <1>1, <2>1 DEF FrameInv, Typed, ArmTypes, Timer
    <2>3. retryAt \in {Never} \cup ((now + 1) .. (now + 1 + Retry))
      BY <1>1, <2>1, LaunchAssumption DEF FrameInv, Typed, RetryTypes
    <2> QED
      BY <1>1, <2>2, <2>3 DEF Tick, timers, FrameInv, Typed, ArmTypes, RetryTypes
  <1>4. OtherTypes'
    BY AsksType DEF Tick, FrameInv, Typed, OtherTypes
  <1> QED
    BY <1>2, <1>3, <1>4, SameTypes DEF Tick, Typed
-----------------------------------------------------------------------------
(* The expansion goes on while Home Assistant is down *)

LEMMA NothingToExpand ==
  ASSUME Expanded
  PROVE  ~Expand
  BY DEF Expanded, Expand, Turn, Halve, EndSearch

LEMMA FrameBegins ==
  ASSUME Init
  PROVE  FrameInv
  <1>1. ExpandedInv
    <2>1. ExpansionInit
      BY DEF Init
    <2>2. SolarInv
      BY <2>1, FS_EmptySet DEF ExpansionInit, SolarInv
    <2> QED
      BY <2>1, <2>2, ExpansionBegins DEF ExpandedInv
  <1>2. ConfigTypes
    <2>1. \A p \in DOMAIN Initial : Initial[p].rule \in Rules /\ Initial[p].enabled \in BOOLEAN
      BY LaunchAssumption
    <2>2. programs \in Schedules
      BY <2>1 DEF Init, Schedules
    <2>3. enabled = TRUE /\ dirty = FALSE /\ stored = [enabled |-> enabled, programs |-> programs]
      BY DEF Init
    <2> QED
      BY <2>2, <2>3 DEF ConfigTypes
  <1>3. ClockTypes /\ ArmTypes /\ RetryTypes /\ JournalTypes /\ LockTypes /\ OtherTypes
    <2>1. ClockTypes
      <3>1. MaxTime \in Nat /\ MaxDisturbances \in Nat
        BY LaunchAssumption
      <3>2. 0 \in 0 .. MaxTime /\ MaxDisturbances \in 0 .. MaxDisturbances
        BY <3>1
      <3>3. now = 0 /\ left = MaxDisturbances /\ up = FALSE /\ midnight = FALSE
        BY DEF Init
      <3> QED
        BY <3>2, <3>3 DEF ClockTypes
    <2>2. ArmTypes /\ RetryTypes
      BY FS_EmptySet DEF Init, ArmTypes, RetryTypes
    <2>3. JournalTypes /\ OtherTypes
      BY DEF Init, JournalTypes, OtherTypes
    <2>4. LockTypes
      BY EmptyQueue DEF Init, LockTypes, Free
    <2> QED
      BY <2>1, <2>2, <2>3, <2>4
  <1>4. DownInv
    BY DEF Init, DownInv
  <1> QED
    BY <1>1, <1>2, <1>3, <1>4 DEF FrameInv, Typed

LEMMA ExpandedStep ==
  ASSUME ExpandedInv, [Next]_vars
  PROVE  ExpandedInv'
  <1>1. [Expand]_expansion
    BY DEF Next, vars
  <1> QED
    BY <1>1, ExpansionStep, SolarStep DEF ExpandedInv

LEMMA FrameStep ==
  ASSUME FrameInv, [Next]_vars
  PROVE  FrameInv'
  <1>1. ExpandedInv'
    BY ExpandedStep DEF FrameInv
  <1>2. CASE UNCHANGED launch
    <2>1. Typed'
      BY <1>2, SameTypes DEF launch, outside, Typed
    <2>2. up => ~Expand
      BY NothingToExpand DEF FrameInv, DownInv
    <2>3. up => Expanded /\ UNCHANGED expansion
      BY <2>2 DEF FrameInv, DownInv, Next, vars
    <2>4. up => Expanded'
      BY <2>3 DEF expansion, Expanded
    <2>5. DownInv'
      BY <1>2, <2>4 DEF FrameInv, DownInv, launch, outside, locking, timers, config
    <2> QED
      BY <1>1, <2>1, <2>5 DEF FrameInv
  <1>3. CASE Loop /\ UNCHANGED expansion
    <2>1. Expanded' = Expanded
      BY <1>3 DEF expansion, Expanded
    <2>2. up' /\ Expanded
      BY <1>3
      DEF Loop, Ready, FrameInv, DownInv, JournalWritten, StopReturns, RetryFires,
          GrantedToRequest, Setup, Fire, Relaunch, GrantedToLaunch, Started, RunReleased,
          TailWritten, ConfigSaved, DailyRecompile, outside
    <2>3. DownInv'
      BY <2>1, <2>2 DEF DownInv
    <2> QED
      BY <1>1, <1>3, <2>3, LoopTypes DEF FrameInv
  <1>4. CASE Outside /\ UNCHANGED expansion
    <2>1. Expanded' = Expanded
      BY <1>4 DEF expansion, Expanded
    <2>2. CASE Crash
      <3>1. DownInv'
        BY <2>2 DEF Crash, DownInv
      <3> QED
        BY <1>1, <1>4, <3>1, OutsideTypes DEF FrameInv
    <2>3. CASE ~Crash
      <3>1. up' /\ Expanded
        BY <1>4, <2>3
        DEF Outside, Ready, RunEnds, Request, StopIdle, RecalculateNow, SetEnabled,
            UpdateProgram, CreateProgram, DeleteProgram, Changed, outside
      <3>2. DownInv'
        BY <2>1, <3>1 DEF DownInv
      <3> QED
        BY <1>1, <1>4, <3>2, OutsideTypes DEF FrameInv
    <2> QED
      BY <2>2, <2>3
  <1>5. CASE Tick /\ UNCHANGED expansion
    <2>1. DownInv'
      BY <1>5 DEF FrameInv, DownInv, Tick, expansion, Expanded, timers, locking, config
    <2> QED
      BY <1>1, <1>5, <2>1, TickTypes DEF FrameInv
  <1> QED
    BY <1>2, <1>3, <1>4, <1>5 DEF Next, vars

\* The types, the expansion's invariant and what is lost while it is down.
THEOREM Frame == Spec => []FrameInv
  <1>1. Init => FrameInv
    BY FrameBegins
  <1>2. FrameInv /\ [Next]_vars => FrameInv'
    BY FrameStep
  <1> QED
    BY <1>1, <1>2, PTL DEF Spec

\* Type correctness, with the timers never set to a time that has passed and
\* the retry timer at most one retry ahead.
THEOREM TypeCorrect == Spec => []TypeOK
  <1>1. FrameInv => TypeOK
    BY TypedIsTypeOK
  <1> QED
    BY <1>1, Frame, PTL

\* The launch loop's starts are the first readings of their wall-clock times.
THEOREM LaunchesAtFirstReading == Spec => []FirstReading
  <1>1. FrameInv => FirstReading
    BY FirstIsReading DEF FrameInv, ExpandedInv
  <1> QED
    BY <1>1, Frame, PTL

\* Whatever the zone, the sun and the day, the window that is compiled holds
\* every start of each rule that falls in it.
THEOREM WindowsAreComplete == Spec => []WindowIsComplete
  <1>1. FrameInv => WindowIsComplete
    <2> SUFFICES ASSUME FrameInv, NEW r \in Rules
                 PROVE  OccurrencesBetween(r, DayStart, now + Horizon) =
                          {i.at : i \in {j \in instants : /\ j.key.rule = r
                                                          /\ DayStart <= j.at /\ j.at < now + Horizon}}
      BY DEF WindowIsComplete
    <2>1. DayStart \in Int /\ now + Horizon \in Int
      BY DayStartType, LaunchAssumption DEF FrameInv, Typed, ClockTypes
    <2> QED
      BY <2>1, WindowComplete DEF FrameInv, ExpandedInv
  <1> QED
    BY <1>1, Frame, PTL
-----------------------------------------------------------------------------
(* No phantoms                                                             *)
(*                                                                         *)
(* Whatever the loop holds of an occurrence, in the timeline, a timer or a *)
(* queue, its time is either still to come, and then it is on a schedule   *)
(* unless a change of the schedules is just being saved; or it has come,   *)
(* and then it was on a schedule when it did.                              *)

Known == asked \cup AskedBefore

\* The program has a start at this time.
Scheduled(o) ==
  /\ Exists(o.prog) /\ AfterStamp(o.prog, o.at)
  /\ \E j \in instants : j.key.rule = programs[o.prog].rule /\ j.at = o.at

Foreseen(run) ==
  /\ run.occ.at <= run.planned
  /\ run.occ.at <= now => run.occ \in Known
  /\ run.occ.at > now => dirty \/ Scheduled(run.occ)

\* Before the zone is known nothing happens.
StillInv ==
  ~Expanded =>
    /\ now = 0 /\ launched = {} /\ skipped = {}
    /\ \A p \in Programs : Exists(p) => p \in DOMAIN Initial /\ programs[p].rule = Initial[p].rule

\* Every start is asked for when its time comes.
AskedInv ==
  Expanded => \A p \in Programs, t \in Int :
                t <= now /\ Scheduled([prog |-> p, at |-> t]) => [prog |-> p, at |-> t] \in Known

\* What a crash would leave of the schedules asks for nothing more.
ScheduledOnDisk(o) ==
  LET p == stored.programs[o.prog]
  IN  /\ p.life = "live" /\ \A s \in p.stamp : o.at >= s
      /\ \E j \in instants : j.key.rule = p.rule /\ j.at = o.at
StoredInv ==
  Expanded => \A p \in Programs, t \in Int :
                t <= now /\ ScheduledOnDisk([prog |-> p, at |-> t]) => [prog |-> p, at |-> t] \in Known

TimelineInv == \A run \in timeline : Foreseen(run)
ArmedInv    == armed.kind = "launch" => \E run \in timeline : armed.occ = run.occ
                                                            /\ run.planned <= armed.at
QueuedInv   == /\ retry \subseteq Known /\ \A d \in due : d.occ \in Known
               /\ \A n \in DOMAIN waiters : waiters[n].occ \in Known \cup {ManualRun}
RecordInv   == launched \cup skipped \subseteq Known

KnownInv == /\ StillInv /\ AskedInv /\ StoredInv
            /\ TimelineInv /\ ArmedInv /\ QueuedInv /\ RecordInv

LEMMA PlanForeseen ==
  ASSUME FrameInv, AskedInv, Expanded, NEW run \in Plan
  PROVE  /\ Scheduled(run.occ) /\ run.occ.at <= run.planned
         /\ run.occ.at <= now => run.occ \in Known
  <1>1. IsFiniteSet(instants) /\ instants \subseteq [key : Keys, at : Int]
    BY DEF FrameInv, ExpandedInv, SolarInv, ExpansionInv, ExpansionTypeOK
  <1> DEFINE occs == Candidates(DayStart, now + Horizon)
  <1>2. run.occ \in occs /\ run.occ.at <= run.planned /\ run.occ \in Occurrence
    BY <1>1, CandidatesFacts, CompileFacts, PlanIs
  <1>3. PICK p \in Programs :
          /\ Exists(p)
          /\ \E t \in OccurrencesBetween(programs[p].rule, DayStart, now + Horizon) :
               AfterStamp(p, t) /\ run.occ = [prog |-> p, at |-> t]
    BY <1>2 DEF Candidates
  <1>4. PICK i \in instants : /\ i.key.rule = programs[p].rule
                              /\ AfterStamp(p, i.at) /\ run.occ = [prog |-> p, at |-> i.at]
    BY <1>3 DEF OccurrencesBetween
  <1>5. Scheduled(run.occ)
    BY <1>3, <1>4 DEF Scheduled
  <1>6. i.at \in Int
    BY <1>1
  <1>7. run.occ.at <= now => run.occ \in Known
    BY <1>3, <1>4, <1>5, <1>6 DEF AskedInv
  <1> QED
    BY <1>2, <1>5, <1>7

\* What Return, a retry and a skip do to the timers.
LEMMA ArmNextKnown ==
  ASSUME FrameInv, KnownInv, Expanded, UNCHANGED <<now, programs, asked, expansion>>,
         NEW plan, plan \subseteq PlannedRun, IsFiniteSet(plan), \A run \in plan : Foreseen(run)',
         NEW d, NEW a, NEW w \in SUBSET Known, NEW s \in SUBSET Known,
         ArmNext(plan, d, a, w, s)
  PROVE  TimelineInv' /\ ArmedInv' /\ retry' \subseteq Known /\ skipped' \subseteq Known
  <1>1. PICK fresh, stale :
          /\ fresh \in {plan, Plan} /\ stale = Recorded(Stale(plan, d, a)) \cup Stale(fresh, d, a)
          /\ timeline' = fresh /\ done' = d \cup stale /\ skipped' = s \cup stale
          /\ retry' = w \ stale
          /\ armed' = Armed(Pending(fresh, d \cup stale, a, w \ stale))
    BY DEF ArmNext
  <1>2. fresh \subseteq PlannedRun /\ IsFiniteSet(fresh)
    BY <1>1, PlanFacts
  <1>3. Known' = Known /\ \A o : Scheduled(o)' = Scheduled(o)
    BY DEF Known, AskedBefore, Asks, expansion, Scheduled, Exists, AfterStamp
  <1>4. \A run \in fresh : Foreseen(run)'
    <2>1. \A run \in Plan : Foreseen(run)'
      BY <1>3, PlanForeseen DEF KnownInv, Foreseen
    <2> QED
      BY <1>1, <2>1
  <1>5. TimelineInv'
    BY <1>1, <1>4 DEF TimelineInv
  <1>6. stale \subseteq Known
    <2>1. ASSUME NEW r \in plan \cup fresh, now > Deadline(r)
          PROVE  r.occ \in Known
      <3>1. r.occ.at \in Int /\ r.planned \in Int /\ now \in Int /\ Tolerance \in Nat
        BY <1>2, LaunchAssumption DEF PlannedRun, Occurrence, FrameInv, Typed, ClockTypes
      <3>2. r.occ.at <= r.planned /\ (r.occ.at <= now => r.occ \in Known)
        BY <1>3, <1>4 DEF Foreseen
      <3>3. Deadline(r) \in {Tolerance + r.occ.at, Tolerance + r.planned}
        BY DEF Deadline
      <3> QED
        BY <2>1, <3>1, <3>2, <3>3
    <2> QED
      BY <1>1, <2>1 DEF Stale, Recorded
  <1>7. ArmedInv'
    <2> DEFINE pending == Pending(fresh, d \cup stale, a, w \ stale)
    <2>1. pending \in SUBSET fresh
      BY DEF Pending
    <2>2. armed' = NoTimer \/ \E run \in pending : armed' = TimerFor(run)
      <3> HIDE DEF pending
      <3> QED
        BY <1>1, <1>2, <2>1, ArmedFacts DEF pending
    <2>3. ASSUME NEW run \in PlannedRun
          PROVE  TimerFor(run).occ = run.occ /\ run.planned <= TimerFor(run).at
      BY DEF PlannedRun, TimerFor, Larger, FrameInv, Typed, ClockTypes
    <2> HIDE DEF pending
    <2>4. armed' = NoTimer \/ \E run \in timeline' : armed'.occ = run.occ /\ run.planned <= armed'.at
      BY <1>1, <1>2, <2>1, <2>2, <2>3
    <2> QED
      BY <2>4 DEF ArmedInv, NoTimer
  <1> QED
    BY <1>1, <1>5, <1>6, <1>7 DEF KnownInv
\* What a step of the loop leaves alone.
Apart == UNCHANGED <<now, programs, asked, expansion>>

LEMMA KnownApart ==
  ASSUME KnownInv, Expanded, Apart
  PROVE  /\ Known' = Known /\ Expanded' /\ StillInv' /\ AskedInv'
         /\ stored' = stored => StoredInv'
         /\ stored'.programs = programs => StoredInv'
         /\ \A run : dirty' = dirty => Foreseen(run)' = Foreseen(run)
  <1>1. Known' = Known /\ Expanded' /\ \A o : Scheduled(o)' = Scheduled(o)
    BY DEF Apart, Known, AskedBefore, Asks, expansion, Scheduled, Exists, AfterStamp, Expanded
  <1>2. stored' = stored => StoredInv'
    BY <1>1 DEF Apart, KnownInv, StoredInv, ScheduledOnDisk, expansion
  <1>3. stored'.programs = programs => StoredInv'
    <2>1. stored'.programs = programs => \A o : ScheduledOnDisk(o)' => Scheduled(o)
      BY DEF ScheduledOnDisk, Scheduled, Exists, AfterStamp, Apart, expansion
    <2> QED
      BY <1>1, <2>1 DEF Apart, KnownInv, AskedInv, StoredInv
  <1> QED
    BY <1>1, <1>2, <1>3 DEF Apart, KnownInv, StillInv, AskedInv, Foreseen

LEMMA RecompileKnown ==
  ASSUME FrameInv, KnownInv, Expanded, Apart, Recompile, launched' = launched
  PROVE  TimelineInv' /\ ArmedInv' /\ retry' \subseteq Known /\ RecordInv'
  <1>1. Known' = Known /\ \A o : Scheduled(o)' = Scheduled(o)
    BY DEF Apart, Known, AskedBefore, Asks, expansion, Scheduled, Exists, AfterStamp
  <1>2. \A run \in Plan : Foreseen(run)'
    BY <1>1, PlanForeseen DEF KnownInv, Foreseen, Apart
  <1>3. retry \in SUBSET Known /\ skipped \in SUBSET Known /\ launched \subseteq Known
    BY DEF KnownInv, QueuedInv, RecordInv
  <1>4. TimelineInv' /\ ArmedInv' /\ retry' \subseteq Known /\ skipped' \subseteq Known
    BY <1>2, <1>3, PlanFacts, ArmNextKnown DEF Recompile, Recalculate, Apart
  <1> QED
    BY <1>1, <1>3, <1>4 DEF RecordInv

LEMMA WaitOrSkipKnown ==
  ASSUME FrameInv, KnownInv, Expanded, Apart, dirty' = dirty,
         NEW o \in Known, NEW late, WaitOrSkip(o, late)
  PROVE  TimelineInv' /\ ArmedInv' /\ retry' \subseteq Known /\ RecordInv'
  <1>1. /\ Known' = Known /\ \A r : Scheduled(r)' = Scheduled(r)
        /\ \A run : Foreseen(run)' = Foreseen(run)
    BY KnownApart DEF Apart, Scheduled, Exists, AfterStamp, expansion
  <1>2. retry \in SUBSET Known /\ skipped \in SUBSET Known /\ launched \subseteq Known
    BY DEF KnownInv, QueuedInv, RecordInv
  <1>3. CASE ArmRetry(o)
    <2>1. \A run \in timeline : Foreseen(run)'
      BY <1>1 DEF KnownInv, TimelineInv
    <2>2. timeline \subseteq PlannedRun /\ IsFiniteSet(timeline)
      BY DEF FrameInv, Typed, ArmTypes
    <2>3. TimelineInv' /\ ArmedInv' /\ retry' \subseteq Known /\ skipped' \subseteq Known
      BY <1>2, <1>3, <2>1, <2>2, ArmNextKnown DEF ArmRetry, Apart
    <2> QED
      BY <1>1, <1>2, <1>3, <2>3 DEF RecordInv, ArmRetry
  <1>4. CASE Skip(o)
    <2>1. \A run \in Plan : Foreseen(run)'
      BY <1>1, PlanForeseen DEF KnownInv, Foreseen, Apart
    <2>2. TimelineInv' /\ ArmedInv' /\ retry' \subseteq Known /\ skipped' \subseteq Known
      BY <1>2, <1>4, <2>1, PlanFacts, ArmNextKnown DEF Skip, Recalculate, Apart
    <2> QED
      BY <1>1, <1>2, <1>4, <2>2 DEF RecordInv, Skip
  <1> QED
    BY <1>3, <1>4 DEF WaitOrSkip

\* A step that leaves the timeline alone and keeps, or turns off, the timer.
LEMMA TimersKnown ==
  ASSUME KnownInv, Expanded, Apart, dirty => dirty', timeline' = timeline,
         armed' \in {NoTimer, armed}
  PROVE  TimelineInv' /\ ArmedInv'
  <1>1. Known' = Known /\ \A o : Scheduled(o)' = Scheduled(o)
    BY DEF Apart, Known, AskedBefore, Asks, expansion, Scheduled, Exists, AfterStamp
  <1>2. ASSUME NEW run \in timeline PROVE Foreseen(run)'
    <2>1. Foreseen(run)
      BY DEF KnownInv, TimelineInv
    <2>2. now' = now /\ (dirty => dirty')
      BY DEF Apart
    <2> QED
      BY <1>1, <2>1, <2>2 DEF Foreseen
  <1> QED
    BY <1>2 DEF KnownInv, TimelineInv, ArmedInv, NoTimer

QueueKnown(q) == \A n \in DOMAIN q : q[n].occ \in Known \cup {ManualRun}

LEMMA AppendKnown ==
  ASSUME FrameInv, QueueKnown(waiters), NEW w \in Waiter, w.occ \in Known \cup {ManualRun}
  PROVE  QueueKnown(Append(waiters, w))
  <1>1. waiters \in Seq(Waiter)
    BY DEF FrameInv, Typed, LockTypes
  <1> QED
    BY <1>1 DEF QueueKnown

LEMMA TailKnown ==
  ASSUME FrameInv, QueueKnown(waiters), waiters # <<>>
  PROVE  QueueKnown(Tail(waiters)) /\ Head(waiters).occ \in Known \cup {ManualRun}
  <1>1. waiters \in Seq(Waiter)
    BY DEF FrameInv, Typed, LockTypes
  <1>2. QueueKnown(Tail(waiters))
    <2> SUFFICES ASSUME NEW n \in DOMAIN Tail(waiters)
                 PROVE  Tail(waiters)[n].occ \in Known \cup {ManualRun}
      BY DEF QueueKnown
    <2>1. n + 1 \in DOMAIN waiters /\ Tail(waiters)[n] = waiters[n + 1]
      BY <1>1
    <2> QED
      BY <2>1 DEF QueueKnown
  <1>3. Head(waiters) = waiters[1] /\ 1 \in DOMAIN waiters
    BY <1>1
  <1> QED
    BY <1>2, <1>3 DEF QueueKnown

LEMMA LaunchKnown ==
  ASSUME FrameInv, KnownInv, Expanded, Apart, dirty' = dirty,
         NEW o \in Known, o \in Occurrence, NEW verdict, NEW t, t \in {NoTimer, armed}, Launch(o, verdict, t)
  PROVE  /\ TimelineInv' /\ ArmedInv' /\ retry' \subseteq Known /\ RecordInv'
         /\ QueueKnown(waiters')
  <1> DEFINE late == now > DeadlineOf(o)
  <1>0. QueueKnown(waiters) /\ Known' = Known /\ retry \subseteq Known
        /\ launched \cup skipped \subseteq Known
    BY KnownApart DEF KnownInv, QueuedInv, QueueKnown, RecordInv
  <1>1. CASE Return /\ UNCHANGED locking
    BY <1>0, <1>1, RecompileKnown DEF locking, Return
  <1>2. CASE WaitOrSkip(o, late) /\ UNCHANGED locking
    BY <1>0, <1>2, WaitOrSkipKnown DEF locking
  <1>3. CASE Skip(o) /\ UNCHANGED locking
    <2>1. WaitOrSkip(o, TRUE)
      BY <1>3 DEF WaitOrSkip
    <2> QED
      BY <1>0, <1>3, <2>1, WaitOrSkipKnown DEF locking
  <1>4. CASE Claim(o, waiters) /\ armed' = t
    <2>1. TimelineInv' /\ ArmedInv'
      BY <1>4, TimersKnown DEF Claim
    <2> QED
      BY <1>0, <1>4, <2>1 DEF Claim, RecordInv
  <1>5. CASE /\ waiters' = Append(waiters, [occ |-> o, late |-> late])
             /\ armed' = t
             /\ UNCHANGED <<journal, timeline, retry, retryAt, lock, launching>>
    <2>1. TimelineInv' /\ ArmedInv'
      BY <1>5, TimersKnown
    <2>2. [occ |-> o, late |-> late] \in Waiter
      BY DEF Waiter
    <2>3. QueueKnown(waiters')
      BY <1>0, <1>5, <2>2, AppendKnown
    <2> QED
      BY <1>0, <1>5, <2>1, <2>3 DEF journal, RecordInv
  <1> QED
    BY <1>1, <1>2, <1>3, <1>4, <1>5 DEF Launch
\* The parts of KnownInv that a step of the loop can disturb.
LEMMA KnownParts ==
  ASSUME KnownInv, Expanded, Apart, stored' = stored \/ stored'.programs = programs,
         TimelineInv', ArmedInv', RecordInv',
         retry' \subseteq Known, \A d \in due' : d.occ \in Known, QueueKnown(waiters')
  PROVE  KnownInv'
  BY KnownApart DEF KnownInv, QueuedInv, QueueKnown

LEMMA LoopKnown ==
  ASSUME FrameInv, KnownInv, Loop, UNCHANGED expansion
  PROVE  KnownInv'
  <1>1. Apart /\ Expanded
    <2>1. Expanded
      BY DEF Loop, Ready, FrameInv, DownInv, JournalWritten, StopReturns, RetryFires,
          GrantedToRequest, Setup, Fire, Relaunch, GrantedToLaunch, Started, RunReleased,
          TailWritten, ConfigSaved, DailyRecompile
    <2>2. UNCHANGED <<now, programs, asked>>
      BY DEF Loop, JournalWritten, StopReturns, RetryFires,
          GrantedToRequest, Setup, Fire, Relaunch, GrantedToLaunch, Started, RunReleased,
          TailWritten, ConfigSaved, DailyRecompile, outside, config
    <2> QED
      BY <2>1, <2>2 DEF Apart
  <1>0. stored' = stored \/ stored'.programs = programs
    BY DEF Loop, JournalWritten, StopReturns, RetryFires, GrantedToRequest, Setup, Fire, Relaunch,
           GrantedToLaunch, Started, RunReleased, TailWritten, ConfigSaved, DailyRecompile, config
  <1>2. /\ Known' = Known /\ QueueKnown(waiters) /\ retry \subseteq Known
        /\ (\A d \in due : d.occ \in Known) /\ launched \cup skipped \subseteq Known
    BY <1>1, KnownApart DEF KnownInv, QueuedInv, QueueKnown, RecordInv
  <1>3. CASE JournalWritten \/ StopReturns
    <2>1. UNCHANGED <<timers, dirty, due, waiters, launched, skipped>>
      BY <1>3 DEF JournalWritten, StopReturns, config, locking, journal
    <2>2. TimelineInv' /\ ArmedInv' /\ RecordInv'
      BY <1>1, <1>2, <2>1, TimersKnown DEF timers, RecordInv
    <2> QED
      BY <1>0, <1>1, <1>2, <2>1, <2>2, KnownParts DEF timers
  <1>4. CASE RetryFires
    <2>1. UNCHANGED <<timeline, armed, dirty, waiters, launched, skipped>> /\ retry' = {}
          /\ \A d \in due' : d.occ \in retry
      BY <1>4 DEF RetryFires, config, locking, journal
    <2>2. TimelineInv' /\ ArmedInv' /\ RecordInv'
      BY <1>1, <1>2, <2>1, TimersKnown DEF RecordInv
    <2> QED
      BY <1>0, <1>1, <1>2, <2>1, <2>2, KnownParts
  <1>5. CASE GrantedToRequest
    <2>1. UNCHANGED <<timers, dirty, due, launched, skipped>> /\ waiters' = Tail(waiters)
          /\ waiters # <<>>
      BY <1>5 DEF GrantedToRequest, ClaimManually, config, journal
    <2>2. TimelineInv' /\ ArmedInv' /\ RecordInv' /\ QueueKnown(waiters')
      BY <1>1, <1>2, <2>1, TimersKnown, TailKnown DEF timers, RecordInv
    <2> QED
      BY <1>0, <1>1, <1>2, <2>1, <2>2, KnownParts DEF timers
  <1>6. CASE Setup \/ ConfigSaved \/ DailyRecompile
    <2>1. Return /\ UNCHANGED <<waiters, due>>
      BY <1>6 DEF Setup, ConfigSaved, DailyRecompile, locking
    <2> QED
      BY <1>0, <1>1, <1>2, <2>1, RecompileKnown, KnownParts DEF Return
  <1>7. CASE Fire
    <2>1. PICK verdict \in Verdicts : Launch(armed.occ, verdict, NoTimer)
      BY <1>7 DEF Fire
    <2>2. armed \in Timer /\ armed.occ \in Occurrence /\ armed.at <= now
      BY <1>7, ArmedOccurrence DEF Fire
    <2>3. PICK run \in timeline : armed.occ = run.occ /\ run.planned <= armed.at
      BY <1>7 DEF Fire, KnownInv, ArmedInv
    <2>4. armed.occ \in Known
      <3>1. Foreseen(run) /\ run \in PlannedRun
        BY <2>3 DEF KnownInv, TimelineInv, FrameInv, Typed, ArmTypes
      <3>2. run.occ.at \in Int /\ run.planned \in Int /\ armed.at \in Int /\ now \in Int
        BY <2>2, <3>1 DEF PlannedRun, Occurrence, Timer, FrameInv, Typed, ClockTypes
      <3>3. run.occ.at <= now
        BY <2>2, <2>3, <3>1, <3>2 DEF Foreseen
      <3> QED
        BY <2>3, <3>1, <3>3 DEF Foreseen
    <2>5. dirty' = dirty /\ due' = due
      BY <1>7 DEF Fire, config
    <2>6. /\ TimelineInv' /\ ArmedInv' /\ retry' \subseteq Known /\ RecordInv'
          /\ QueueKnown(waiters')
      BY <1>1, <2>1, <2>2, <2>4, <2>5, LaunchKnown
    <2> QED
      BY <1>0, <1>1, <1>2, <2>5, <2>6, KnownParts
  <1>8. CASE Relaunch
    <2>1. PICK d \in due : Launch(d.occ, d.verdict, armed) /\ due' = due \ {d}
      BY <1>8 DEF Relaunch
    <2>2. d.occ \in Occurrence /\ d.occ \in Known
      BY <1>2, <2>1 DEF FrameInv, Typed, OtherTypes
    <2>3. dirty' = dirty
      BY <1>8 DEF Relaunch, config
    <2>4. /\ TimelineInv' /\ ArmedInv' /\ retry' \subseteq Known /\ RecordInv'
          /\ QueueKnown(waiters')
      BY <1>1, <2>1, <2>2, <2>3, LaunchKnown
    <2> QED
      BY <1>0, <1>1, <1>2, <2>1, <2>4, KnownParts
  <1>9. CASE GrantedToLaunch
    <2> DEFINE w == Head(waiters)
    <2>1. w.occ \in Known /\ QueueKnown(Tail(waiters)) /\ dirty' = dirty /\ due' = due
      BY <1>2, <1>9, TailKnown DEF GrantedToLaunch, config
    <2>2. CASE WaitOrSkip(w.occ, w.late) /\ waiters' = Tail(waiters)
      BY <1>0, <1>1, <1>2, <2>1, <2>2, WaitOrSkipKnown, KnownParts
    <2>3. CASE Return /\ waiters' = Tail(waiters)
      BY <1>0, <1>1, <1>2, <2>1, <2>3, RecompileKnown, KnownParts DEF Return
    <2>4. CASE Claim(w.occ, Tail(waiters)) /\ UNCHANGED armed
      <3>1. TimelineInv' /\ ArmedInv'
        BY <1>1, <2>1, <2>4, TimersKnown DEF Claim
      <3>2. RecordInv'
        BY <1>2, <2>1, <2>4 DEF Claim, RecordInv
      <3> QED
        BY <1>0, <1>1, <1>2, <2>1, <2>4, <3>1, <3>2, KnownParts DEF Claim
    <2> QED
      BY <1>9, <2>2, <2>3, <2>4 DEF GrantedToLaunch
  <1>10. CASE Started \/ TailWritten \/ RunReleased
    <2>1. UNCHANGED <<waiters, due, dirty>>
      BY <1>10 DEF Started, TailWritten, RunReleased, config
    <2>2. CASE Recompile /\ launched' = launched
      BY <1>0, <1>1, <1>2, <2>1, <2>2, RecompileKnown, KnownParts
    <2>3. CASE UNCHANGED <<timers, launched, skipped>>
      <3>1. TimelineInv' /\ ArmedInv' /\ RecordInv'
        BY <1>1, <1>2, <2>1, <2>3, TimersKnown DEF timers, RecordInv
      <3> QED
        BY <1>0, <1>1, <1>2, <2>1, <2>3, <3>1, KnownParts DEF timers
    <2> QED
      BY <1>10, <2>2, <2>3 DEF Started, TailWritten, RunReleased, Returned, Return, journal
  <1> QED
    BY <1>3, <1>4, <1>5, <1>6, <1>7, <1>8, <1>9, <1>10 DEF Loop
\* A change of the schedules: the starts of now, and for a new program those
\* that have passed, are asked for with it.
LEMMA EditAsked ==
  ASSUME FrameInv, KnownInv, Expanded, UNCHANGED expansion, now' = now,
         NEW p \in Programs, NEW e \in Edits, UpdateProgram(p, e) \/ CreateProgram(p, e)
  PROVE  AskedInv' /\ Known \subseteq Known'
  <1>1. Known \subseteq Known' /\ now \in Int
    BY DEF UpdateProgram, CreateProgram, Known, AskedBefore, Asks, expansion,
           FrameInv, Typed, ClockTypes
  <1>2. programs \in [Programs -> [life : {"new", "live", "deleted"}, rule : Rules \cup {0},
                                   enabled : BOOLEAN, stamp : SUBSET Int]]
    BY DEF FrameInv, Typed, ConfigTypes, Schedules
  <1>3. ASSUME NEW m \in Programs, NEW t \in Int, t <= now, Scheduled([prog |-> m, at |-> t])'
        PROVE  [prog |-> m, at |-> t] \in Known'
    <2>1. PICK j \in instants : j.key.rule = programs'[m].rule /\ j.at = t
      BY <1>3 DEF Scheduled, expansion
    <2>2. programs'[m].life = "live" /\ \A s \in programs'[m].stamp : t >= s
      BY <1>3 DEF Scheduled, Exists, AfterStamp
    <2>3. CASE programs'[m] = programs[m]
      <3>1. Scheduled([prog |-> m, at |-> t])
        BY <2>1, <2>2, <2>3 DEF Scheduled, Exists, AfterStamp
      <3> QED
        BY <1>1, <1>3, <3>1 DEF KnownInv, AskedInv
    <2>4. CASE m = p /\ UpdateProgram(p, e)
      <3>1. /\ programs'[p].rule = e.rule /\ programs'[p].stamp = Stamp(p, e) /\ Exists(p)
            /\ asked' = asked \cup Asks(p, e.rule, {now})
        BY <1>2, <2>4 DEF UpdateProgram
      <3>2. CASE e.rule = programs[p].rule
        <4>1. Scheduled([prog |-> m, at |-> t])
          BY <2>1, <2>2, <2>4, <3>1, <3>2 DEF Scheduled, Exists, AfterStamp, Stamp
        <4> QED
          BY <1>1, <1>3, <4>1 DEF KnownInv, AskedInv
      <3>3. CASE e.rule # programs[p].rule
        <4>1. t >= now
          BY <2>2, <2>4, <3>1, <3>3 DEF Stamp
        <4>2. t = now
          BY <1>1, <1>3, <4>1
        <4>3. [prog |-> p, at |-> j.at] \in Asks(p, e.rule, {now})
          BY <2>1, <2>4, <3>1, <4>2 DEF Asks
        <4> QED
          BY <2>1, <2>4, <3>1, <4>3 DEF Known
      <3> QED
        BY <3>2, <3>3
    <2>5. CASE m = p /\ CreateProgram(p, e)
      <3>1. /\ programs'[p].rule = e.rule
            /\ asked' = asked \cup Asks(p, e.rule, {i.at : i \in {k \in instants : k.at <= now}})
        BY <1>2, <2>5 DEF CreateProgram
      <3>2. j.at \in {i.at : i \in {k \in instants : k.at <= now}}
        BY <1>3, <2>1
      <3>3. [prog |-> p, at |-> j.at] \in Asks(p, e.rule, {i.at : i \in {k \in instants : k.at <= now}})
        BY <2>1, <2>5, <3>1, <3>2 DEF Asks
      <3> QED
        BY <2>1, <2>5, <3>1, <3>3 DEF Known
    <2>6. m = p \/ programs'[m] = programs[m]
      BY <1>2, <1>3 DEF UpdateProgram, CreateProgram
    <2> QED
      BY <1>3, <2>3, <2>4, <2>5, <2>6
  <1> QED
    BY <1>1, <1>3 DEF AskedInv

LEMMA DeleteAsked ==
  ASSUME FrameInv, KnownInv, Expanded, UNCHANGED expansion, now' = now,
         NEW p \in Programs, DeleteProgram(p)
  PROVE  AskedInv' /\ Known \subseteq Known'
  <1>1. Known = Known'
    BY DEF DeleteProgram, Known, AskedBefore, Asks, expansion
  <1>2. programs \in [Programs -> [life : {"new", "live", "deleted"}, rule : Rules \cup {0},
                                   enabled : BOOLEAN, stamp : SUBSET Int]]
    BY DEF FrameInv, Typed, ConfigTypes, Schedules
  <1>3. ASSUME NEW m \in Programs, NEW t \in Int, t <= now, Scheduled([prog |-> m, at |-> t])'
        PROVE  [prog |-> m, at |-> t] \in Known'
    <2>1. programs'[m].life = "live"
      BY <1>3 DEF Scheduled, Exists
    <2>2. programs'[m] = programs[m]
      BY <1>2, <2>1 DEF DeleteProgram
    <2>3. Scheduled([prog |-> m, at |-> t])
      BY <1>3, <2>2 DEF Scheduled, Exists, AfterStamp, expansion
    <2> QED
      BY <1>1, <1>3, <2>3 DEF KnownInv, AskedInv
  <1> QED
    BY <1>1, <1>3 DEF AskedInv

\* While a change is being saved the timeline may be one of the old schedules.
LEMMA ChangedKnown ==
  ASSUME FrameInv, KnownInv, Expanded, UNCHANGED expansion, Changed, Known \subseteq Known', AskedInv'
  PROVE  KnownInv'
  <1>1. Expanded' /\ now' = now /\ dirty' /\ UNCHANGED <<timers, due, waiters, launched, skipped>>
    BY DEF Changed, expansion, Expanded, outside, locking, journal
  <1>2. StillInv' /\ StoredInv'
    BY <1>1 DEF StillInv, Changed, KnownInv, StoredInv, ScheduledOnDisk, expansion
  <1>3. ASSUME NEW run \in timeline PROVE Foreseen(run)'
    BY <1>1 DEF KnownInv, TimelineInv, Foreseen
  <1>4. TimelineInv' /\ ArmedInv'
    BY <1>1, <1>3 DEF timers, TimelineInv, ArmedInv, KnownInv
  <1>5. QueuedInv' /\ RecordInv'
    BY <1>1 DEF KnownInv, QueuedInv, RecordInv, timers
  <1> QED
    BY <1>2, <1>4, <1>5 DEF KnownInv

LEMMA OutsideKnown ==
  ASSUME FrameInv, KnownInv, Outside, UNCHANGED expansion
  PROVE  KnownInv'
  <1>1. Expanded
    BY DEF Outside, Ready, RunEnds, Request, StopIdle, RecalculateNow, SetEnabled, UpdateProgram,
           CreateProgram, DeleteProgram, Crash
  <1>2. /\ QueueKnown(waiters) /\ retry \subseteq Known
        /\ (\A d \in due : d.occ \in Known) /\ launched \cup skipped \subseteq Known
    BY DEF KnownInv, QueuedInv, QueueKnown, RecordInv
  <1>3. CASE RunEnds \/ StopIdle
    <2>1. Apart /\ UNCHANGED <<timers, dirty, stored, due, waiters, launched, skipped>>
      BY <1>3 DEF RunEnds, StopIdle, Apart, config, outside, journal
    <2>2. TimelineInv' /\ ArmedInv' /\ RecordInv'
      BY <1>1, <1>2, <2>1, TimersKnown, KnownApart DEF timers, RecordInv
    <2> QED
      BY <1>1, <1>2, <2>1, <2>2, KnownParts DEF timers
  <1>4. CASE Request
    <2>1. Apart /\ UNCHANGED <<timers, dirty, stored, due, launched, skipped>>
          /\ waiters' \in {waiters, Append(waiters, [occ |-> ManualRun, late |-> FALSE])}
      BY <1>4 DEF Request, ClaimManually, Apart, config, outside, journal
    <2>2. [occ |-> ManualRun, late |-> FALSE] \in Waiter
      BY DEF Waiter
    <2>3. QueueKnown(waiters')
      BY <1>2, <2>1, <2>2, AppendKnown
    <2>4. TimelineInv' /\ ArmedInv' /\ RecordInv'
      BY <1>1, <1>2, <2>1, TimersKnown, KnownApart DEF timers, RecordInv
    <2> QED
      BY <1>1, <1>2, <2>1, <2>3, <2>4, KnownParts DEF timers
  <1>5. CASE RecalculateNow
    <2>1. Apart /\ Return /\ UNCHANGED <<waiters, due, stored>>
      BY <1>5 DEF RecalculateNow, Apart, config, outside, locking
    <2> QED
      BY <1>1, <1>2, <2>1, RecompileKnown, KnownParts DEF Return
  <1>6. CASE SetEnabled
    <2>1. Apart /\ Changed
      BY <1>6 DEF SetEnabled, Changed, Apart, outside
    <2> QED
      BY <1>1, <2>1, KnownApart, ChangedKnown
  <1>7. ASSUME NEW p \in Programs, NEW e \in Edits, UpdateProgram(p, e) \/ CreateProgram(p, e)
        PROVE  KnownInv'
    <2>1. Changed /\ now' = now
      BY <1>7 DEF UpdateProgram, CreateProgram, Changed, outside
    <2> QED
      BY <1>1, <1>7, <2>1, EditAsked, ChangedKnown
  <1>8. ASSUME NEW p \in Programs, DeleteProgram(p) PROVE KnownInv'
    <2>1. Changed /\ now' = now
      BY <1>8 DEF DeleteProgram, Changed, outside
    <2> QED
      BY <1>1, <1>8, <2>1, DeleteAsked, ChangedKnown
  <1>9. CASE Crash
    <2>1. /\ UNCHANGED <<now, stored, asked, expansion>> /\ programs' = stored.programs
          /\ Known' = Known /\ Expanded'
      BY <1>1, <1>9 DEF Crash, Known, AskedBefore, Asks, expansion, Expanded
    <2>2. StillInv' /\ AskedInv' /\ StoredInv'
      <3>1. \A o : Scheduled(o)' <=> ScheduledOnDisk(o)
        BY <2>1 DEF Scheduled, ScheduledOnDisk, Exists, AfterStamp, expansion
      <3>2. \A o : ScheduledOnDisk(o)' <=> ScheduledOnDisk(o)
        BY <2>1 DEF ScheduledOnDisk, expansion
      <3> QED
        BY <1>1, <2>1, <3>1, <3>2 DEF KnownInv, StillInv, AskedInv, StoredInv
    <2>3. TimelineInv' /\ ArmedInv' /\ QueuedInv'
      BY <1>9 DEF Crash, TimelineInv, ArmedInv, QueuedInv, NoTimer
    <2>4. RecordInv'
      BY <1>2, <1>9, <2>1 DEF Crash, RecordInv
    <2> QED
      BY <2>2, <2>3, <2>4 DEF KnownInv
  <1> QED
    BY <1>3, <1>4, <1>5, <1>6, <1>7, <1>8, <1>9 DEF Outside

\* What starts now is on the schedules of now; the timeline is up to date when
\* the clock goes on.
LEMMA TickKnown ==
  ASSUME FrameInv, KnownInv, Tick, UNCHANGED expansion
  PROVE  KnownInv'
  <1>1. /\ Expanded /\ Expanded' /\ now' = now + 1 /\ now \in Int
        /\ UNCHANGED <<programs, dirty, timers, due, waiters, launched, skipped>>
    BY DEF Tick, expansion, Expanded, FrameInv, Typed, ClockTypes, config, journal, locking
  <1>2. Known \subseteq Known' /\ \A o : Scheduled(o)' = Scheduled(o)
    BY <1>1 DEF Tick, Known, AskedBefore, Asks, expansion, Scheduled, Exists, AfterStamp
  <1>3. ASSUME NEW o \in Occurrence, Scheduled(o), o.at = now + 1
        PROVE  o \in Known'
    <2>1. PICK j \in instants : j.key.rule = programs[o.prog].rule /\ j.at = o.at
      BY <1>3 DEF Scheduled
    <2>2. o.prog \in Programs /\ Exists(o.prog) /\ o = [prog |-> o.prog, at |-> j.at]
      BY <1>3, <2>1 DEF Scheduled, Occurrence
    <2>3. o \in Asks(o.prog, programs[o.prog].rule, {now + 1})
      BY <1>3, <2>1, <2>2 DEF Asks
    <2>4. o \in asked'
      BY <2>2, <2>3 DEF Tick
    <2> QED
      BY <2>4 DEF Known
  <1>4. AskedInv'
    <2> SUFFICES ASSUME NEW p \in Programs, NEW t \in Int, t <= now + 1,
                        Scheduled([prog |-> p, at |-> t])
                 PROVE  [prog |-> p, at |-> t] \in Known'
      BY <1>1, <1>2 DEF AskedInv
    <2>1. CASE t <= now
      BY <1>1, <1>2, <2>1 DEF KnownInv, AskedInv
    <2>2. CASE t = now + 1
      BY <1>3, <2>2 DEF Occurrence
    <2> QED
      BY <1>1, <2>1, <2>2
  <1>5. ASSUME NEW run \in timeline PROVE Foreseen(run)'
    <2>1. up /\ ~dirty
      BY DEF Tick, Settled, FrameInv, DownInv
    <2>2. Foreseen(run) /\ run.occ \in Occurrence
      BY DEF KnownInv, TimelineInv, FrameInv, Typed, ArmTypes, PlannedRun
    <2>3. run.occ.at \in Int
      BY <2>2 DEF Occurrence
    <2>4. run.occ.at > now => Scheduled(run.occ)
      BY <2>1, <2>2 DEF Foreseen
    <2>5. run.occ.at <= now + 1 => run.occ \in Known'
      BY <1>1, <1>2, <1>3, <2>2, <2>3, <2>4 DEF Foreseen
    <2>6. run.occ.at > now + 1 => Scheduled(run.occ)
      BY <1>1, <2>3, <2>4
    <2> QED
      BY <1>1, <1>2, <2>2, <2>5, <2>6 DEF Foreseen
  <1>6. TimelineInv' /\ ArmedInv'
    BY <1>1, <1>5 DEF timers, TimelineInv, ArmedInv, KnownInv
  <1>7. QueuedInv' /\ RecordInv'
    BY <1>1, <1>2 DEF KnownInv, QueuedInv, RecordInv, timers
  <1>8. StillInv'
    BY <1>1 DEF StillInv
  <1>9. StoredInv'
    <2>1. ~dirty
      BY DEF Tick, Settled, FrameInv, DownInv
    <2>2. stored'.programs = programs'
      BY <1>1, <2>1 DEF FrameInv, Typed, ConfigTypes, Tick, config
    <2>3. \A o : ScheduledOnDisk(o)' => Scheduled(o)'
      BY <2>2 DEF ScheduledOnDisk, Scheduled, Exists, AfterStamp
    <2> QED
      BY <1>1, <1>4, <2>3 DEF AskedInv, StoredInv
  <1> QED
    BY <1>4, <1>6, <1>7, <1>8, <1>9 DEF KnownInv

\* Until the zone is known only the expansion goes on; the starts it finds
\* that have passed already are those that were asked for before.
LEMMA ExpandKnown ==
  ASSUME FrameInv, KnownInv, UNCHANGED launch, [Expand]_expansion
  PROVE  KnownInv'
  <1>1. CASE Expanded
    <2>1. UNCHANGED expansion
      BY <1>1, NothingToExpand
    <2>2. Apart /\ UNCHANGED <<timers, dirty, stored, due, waiters, launched, skipped>>
      BY <2>1 DEF launch, Apart, config, outside, locking, journal
    <2>3. TimelineInv' /\ ArmedInv' /\ RecordInv'
      BY <1>1, <2>2, TimersKnown, KnownApart DEF timers, RecordInv, KnownInv
    <2> QED
      BY <1>1, <2>2, <2>3, KnownParts DEF timers, KnownInv, QueuedInv, QueueKnown
  <1>2. CASE ~Expanded
    <2>1. /\ ~up /\ now = 0 /\ launched = {} /\ skipped = {}
          /\ timeline = {} /\ armed = NoTimer /\ retry = {} /\ due = {} /\ waiters = <<>>
      BY <1>2 DEF FrameInv, DownInv, KnownInv, StillInv
    <2>2. UNCHANGED <<now, timers, due, waiters, launched, skipped, programs, asked>>
      BY DEF launch, config, outside, locking, journal
    <2>3. StillInv'
      BY <1>2, <2>2 DEF KnownInv, StillInv, Exists
    <2>4. TimelineInv' /\ ArmedInv' /\ QueuedInv' /\ RecordInv'
      BY <2>1, <2>2 DEF timers, TimelineInv, ArmedInv, QueuedInv, RecordInv, NoTimer
    <2>5. AskedInv'
      <3> SUFFICES ASSUME NEW p \in Programs, NEW t \in Int, t <= now',
                          Scheduled([prog |-> p, at |-> t])'
                   PROVE  [prog |-> p, at |-> t] \in AskedBefore'
        BY DEF AskedInv, Known
      <3>1. PICK j \in instants' : j.key.rule = programs[p].rule /\ j.at = t
        BY <2>2 DEF Scheduled
      <3>2. p \in DOMAIN Initial /\ programs[p].rule = Initial[p].rule
        BY <1>2, <2>2 DEF KnownInv, StillInv, Scheduled, Exists
      <3>3. t <= 0
        BY <2>1, <2>2
      <3>4. [prog |-> p, at |-> j.at] \in
              Asks(p, Initial[p].rule, {i.at : i \in {k \in instants : k.at <= 0}})'
        BY <3>1, <3>2, <3>3 DEF Asks
      <3> QED
        BY <3>1, <3>2, <3>4 DEF AskedBefore
    <2>6. StoredInv'
      <3>1. stored'.programs = programs'
        BY <1>2 DEF FrameInv, DownInv, Typed, ConfigTypes, launch, config
      <3>2. \A o : ScheduledOnDisk(o)' => Scheduled(o)'
        BY <3>1 DEF ScheduledOnDisk, Scheduled, Exists, AfterStamp
      <3> QED
        BY <2>5, <3>2 DEF AskedInv, StoredInv
    <2> QED
      BY <2>3, <2>4, <2>5, <2>6 DEF KnownInv
  <1> QED
    BY <1>1, <1>2

LEMMA KnownBegins ==
  ASSUME Init
  PROVE  KnownInv
  <1>1. TimelineInv /\ ArmedInv /\ QueuedInv /\ RecordInv
    BY DEF Init, TimelineInv, ArmedInv, QueuedInv, RecordInv, NoTimer
  <1>2. ASSUME NEW p \in Programs, Exists(p)
        PROVE  p \in DOMAIN Initial /\ programs[p].rule = Initial[p].rule
    BY <1>2 DEF Init, Exists
  <1>3. StillInv
    BY <1>2 DEF Init, StillInv
  <1>4. AskedInv
    BY DEF Init, ExpansionInit, AskedInv, Scheduled
  <1>5. StoredInv
    BY DEF Init, ExpansionInit, StoredInv, ScheduledOnDisk
  <1> QED
    BY <1>1, <1>3, <1>4, <1>5 DEF KnownInv

LEMMA KnownStep ==
  ASSUME FrameInv, KnownInv, [Next]_vars
  PROVE  KnownInv'
  <1>1. CASE Loop /\ UNCHANGED expansion
    BY <1>1, LoopKnown
  <1>2. CASE Outside /\ UNCHANGED expansion
    BY <1>2, OutsideKnown
  <1>3. CASE Tick /\ UNCHANGED expansion
    BY <1>3, TickKnown
  <1>4. CASE UNCHANGED launch /\ [Expand]_expansion
    BY <1>4, ExpandKnown
  <1> QED
    BY <1>1, <1>2, <1>3, <1>4 DEF Next, vars

\* The invariant: what the loop holds was on a schedule when its time came, or
\* will be then, unless it is taken back by a change that is being saved.
THEOREM KnownOccurrences == Spec => []KnownInv
  <1>1. Init => KnownInv
    BY KnownBegins
  <1>2. FrameInv /\ KnownInv /\ [Next]_vars => KnownInv'
    BY KnownStep
  <1> QED
    BY <1>1, <1>2, Frame, PTL DEF Spec

\* No launch and no skip is made up: an edit or a new program brings nothing
\* from before it, whatever the timeline, a timer or a queue still held.
THEOREM NoPhantomLaunches == Spec => []NoPhantoms
  <1>1. KnownInv => NoPhantoms
    BY DEF KnownInv, RecordInv, Known, NoPhantoms
  <1> QED
    BY <1>1, KnownOccurrences, PTL
-----------------------------------------------------------------------------
(* What the plan depends on *)

\* A run that claims the controller later is not planned earlier.
LEMMA PlannedMonotone ==
  ASSUME NEW occs, occs \subseteq Occurrence, IsFiniteSet(occs),
         NEW o \in occs, NEW p \in occs, ClaimsBefore(o, p)
  PROVE  PlannedStart(o, occs) <= PlannedStart(p, occs)
  <1>1. PICK q \in occs : /\ ~ClaimsBefore(o, q)
                          /\ PlannedStart(o, occs) = q.at + BlockedFrom(q, o, occs)
    BY PlannedFacts
  <1>2. o \in Occurrence /\ p \in Occurrence /\ q \in Occurrence /\ q.at \in Int
    BY DEF Occurrence
  <1>3. ~ClaimsBefore(p, q)
    BY <1>1, <1>2, ClaimOrder
  <1> DEFINE S(x) == {r \in occs : ~ClaimsBefore(r, q) /\ ClaimsBefore(r, x)}
  <1>4. S(o) \in SUBSET S(p)
    BY <1>2, ClaimOrder
  <1>5. IsFiniteSet(S(p)) /\ \A x \in S(p) : Blocks(occs)[x] \in Nat
    BY BlockedAs, FS_Subset
  <1>6. /\ BlockedFrom(q, o, occs) = Sum(Blocks(occs), S(o))
        /\ BlockedFrom(q, p, occs) = Sum(Blocks(occs), S(p))
        /\ BlockedFrom(q, o, occs) \in Nat /\ BlockedFrom(q, p, occs) \in Nat
    BY BlockedAs
  <1> HIDE DEF S
  <1>7. Sum(Blocks(occs), S(o)) <= Sum(Blocks(occs), S(p))
    BY <1>4, <1>5, SumMonotone
  <1>8. q.at + BlockedFrom(q, p, occs) <= PlannedStart(p, occs) /\ PlannedStart(p, occs) \in Int
    BY <1>3, PlannedFacts
  <1> QED
    BY <1>1, <1>2, <1>6, <1>7, <1>8

\* Only runs that claim the controller no later count for a run's start.
LEMMA PlannedLocal ==
  ASSUME NEW A, NEW B, A \subseteq B, B \subseteq Occurrence, IsFiniteSet(B), NEW o \in A,
         \A r \in B : ~ClaimsBefore(o, r) => r \in A
  PROVE  PlannedStart(o, A) = PlannedStart(o, B)
  <1>1. IsFiniteSet(A) /\ A \subseteq Occurrence
    BY FS_Subset
  <1>2. \A r \in B : ClaimsBefore(r, o) => r \in A
    BY ClaimOrder
  <1>3. ASSUME NEW q \in A
        PROVE  BlockedFrom(q, o, A) = BlockedFrom(q, o, B) /\ BlockedFrom(q, o, A) \in Nat
    <2> DEFINE S == {r \in A : ~ClaimsBefore(r, q) /\ ClaimsBefore(r, o)}
    <2>1. {r \in B : ~ClaimsBefore(r, q) /\ ClaimsBefore(r, o)} = S
      BY <1>2
    <2>2. /\ BlockedFrom(q, o, A) = Sum(Blocks(A), S) /\ BlockedFrom(q, o, A) \in Nat
          /\ BlockedFrom(q, o, B) = Sum(Blocks(B), S)
      BY <1>1, <2>1, BlockedAs
    <2>3. IsFiniteSet(S) /\ \A r \in S : Blocks(A)[r] = Blocks(B)[r]
      BY <1>1, FS_Subset DEF Blocks
    <2> HIDE DEF S
    <2> QED
      BY <2>2, <2>3, SumSame
  <1>4. PlannedStart(o, A) \in Int /\ PlannedStart(o, B) \in Int /\ o \in B
    BY <1>1, PlannedFacts
  <1>5. PlannedStart(o, A) <= PlannedStart(o, B)
    <2>1. PICK q \in A : ~ClaimsBefore(o, q) /\ PlannedStart(o, A) = q.at + BlockedFrom(q, o, A)
      BY <1>1, PlannedFacts
    <2>2. q \in B /\ q.at + BlockedFrom(q, o, B) <= PlannedStart(o, B)
      BY <2>1, <1>4, PlannedFacts
    <2> QED
      BY <1>3, <2>1, <2>2
  <1>6. PlannedStart(o, B) <= PlannedStart(o, A)
    <2>1. PICK q \in B : ~ClaimsBefore(o, q) /\ PlannedStart(o, B) = q.at + BlockedFrom(q, o, B)
      BY <1>4, PlannedFacts
    <2>2. q \in A
      BY <2>1
    <2>3. q.at + BlockedFrom(q, o, A) <= PlannedStart(o, A)
      BY <1>1, <2>1, <2>2, PlannedFacts
    <2> QED
      BY <1>3, <2>1, <2>2, <2>3
  <1> QED
    BY <1>4, <1>5, <1>6

\* The candidates are all starts of the window.
LEMMA CandidatesAre ==
  ASSUME FrameInv, NEW from \in Int, NEW to \in Int
  PROVE  /\ Candidates(from, to) \subseteq Occurrence /\ IsFiniteSet(Candidates(from, to))
         /\ \A o \in Occurrence :
              o \in Candidates(from, to) <=>
                Scheduled(o) /\ programs[o.prog].enabled /\ from <= o.at /\ o.at < to
  <1>1. IsFiniteSet(instants) /\ instants \subseteq [key : Keys, at : Int]
    BY DEF FrameInv, ExpandedInv, SolarInv, ExpansionInv, ExpansionTypeOK
  <1>2. \A r : OccurrencesBetween(r, from, to) =
                 {i.at : i \in {j \in instants : j.key.rule = r /\ from <= j.at /\ j.at < to}}
    BY WindowComplete DEF FrameInv, ExpandedInv
  <1>3. ASSUME NEW o \in Candidates(from, to)
        PROVE  Scheduled(o) /\ programs[o.prog].enabled /\ from <= o.at /\ o.at < to
    <2>1. PICK p \in Programs :
            /\ Exists(p) /\ programs[p].enabled
            /\ \E t \in OccurrencesBetween(programs[p].rule, from, to) :
                 AfterStamp(p, t) /\ o = [prog |-> p, at |-> t]
      BY <1>3 DEF Candidates
    <2>2. PICK i \in instants : /\ i.key.rule = programs[p].rule /\ from <= i.at /\ i.at < to
                                /\ AfterStamp(p, i.at) /\ o = [prog |-> p, at |-> i.at]
      BY <2>1 DEF OccurrencesBetween
    <2> QED
      BY <2>1, <2>2 DEF Scheduled
  <1>4. ASSUME NEW o \in Occurrence, Scheduled(o), programs[o.prog].enabled, from <= o.at, o.at < to
        PROVE  o \in Candidates(from, to)
    <2>1. o.prog \in Programs /\ o = [prog |-> o.prog, at |-> o.at]
      BY DEF Occurrence
    <2>2. o.at \in OccurrencesBetween(programs[o.prog].rule, from, to)
      BY <1>2, <1>4 DEF Scheduled
    <2>3. Exists(o.prog) /\ AfterStamp(o.prog, o.at)
      BY <1>4 DEF Scheduled
    <2> QED
      BY <1>4, <2>1, <2>2, <2>3 DEF Candidates
  <1> QED
    BY <1>1, <1>3, <1>4, CandidatesFacts
-----------------------------------------------------------------------------
(* No occurrence is left behind                                            *)
(*                                                                         *)
(* Two things have to hold of the constants.  The order of the list, which *)
(* is by the programs' ids, must not contradict their priorities: the      *)
(* launch timer is for the first of the list, the runs are laid out by     *)
(* priority.  And no gap of the clock may take in a midnight: where it     *)
(* does the day starts later than the window of its first timeline.        *)

ListInOrder    == \A p, q \in Programs : p < q => Priority[p] <= Priority[q]
MidnightExists ==
  \A z \in TimeZones, d \in Int :
    ~(z.trans + z.before <= d * DayLength /\ d * DayLength < z.trans + z.after)

\* A day, on which the clock is set back too, is no longer than the horizon.
DayInHorizon ==
  DayLength <= Horizon /\ \A z \in TimeZones : DayLength + z.before - z.after <= Horizon

LEMMA Division ==
  ASSUME NEW a \in Int, NEW d \in Nat \ {0}
  PROVE  /\ (a \div d) * d \in Int
         /\ (a \div d) * d <= a /\ a < (a \div d) * d + d
  <1> DEFINE n == a \div d
  <1>1. n \in Int /\ a % d \in 0 .. (d - 1) /\ a = n * d + (a % d) /\ n * d \in Int
    OBVIOUS
  <1> HIDE DEF n
  <1>2. n * d <= a /\ a < n * d + d
    BY <1>1
  <1> QED
    BY <1>1, <1>2 DEF n

\* The day has begun, and ends within the horizon.
LEMMA DayBounds ==
  ASSUME FrameInv, MidnightExists
  PROVE  /\ DayStart \in Int /\ now \in Int /\ DayStart <= now
         /\ DayInHorizon => now < DayStart + Horizon
  <1> DEFINE n == LocalDay(now) * DayLength
  <1>1. /\ now \in Int /\ tz \in TimeZones /\ tz.trans \in Int /\ tz.before \in Int /\ tz.after \in Int
        /\ DayLength \in Nat \ {0} /\ Horizon \in Nat
    BY ZoneFacts, CalendarAssumption, LaunchAssumption
    DEF FrameInv, Typed, ClockTypes, ExpandedInv, ExpansionInv, ExpansionTypeOK
  <1>2. Wall(now) \in Int /\ Wall(now) = now + (IF now < tz.trans THEN tz.before ELSE tz.after)
    BY <1>1 DEF Wall, Offset
  <1>3. n \in Int /\ n <= Wall(now) /\ Wall(now) < n + DayLength
    BY <1>1, <1>2, Division DEF LocalDay
  <1>4. ~(tz.trans + tz.before <= n /\ n < tz.trans + tz.after)
    <2>1. LocalDay(now) \in Int
      BY <1>1, <1>2 DEF LocalDay
    <2> QED
      BY <1>1, <2>1 DEF MidnightExists
  <1>5. DayStart = n - (IF n < tz.trans + Larger(tz.before, tz.after) THEN tz.before ELSE tz.after)
    BY DEF DayStart, Utc
  <1> HIDE DEF n
  <1>6. DayStart \in Int /\ DayStart <= now
    BY <1>1, <1>2, <1>3, <1>4, <1>5 DEF Larger
  <1>7. ASSUME DayInHorizon PROVE now < DayStart + Horizon
    <2>1. DayLength <= Horizon /\ DayLength + tz.before - tz.after <= Horizon
      BY <1>1, <1>7 DEF DayInHorizon
    <2> QED
      BY <1>1, <1>2, <1>3, <1>4, <1>5, <2>1 DEF Larger
  <1> QED
    BY <1>1, <1>6, <1>7

\* The runs that are due before the horizon of the day.
Relevant == {run \in Plan : run.occ.at < DayStart + Horizon}

\* The first of the list is planned first.
Ordered(plan) ==
  \A first, run \in plan : ~ListedBefore(run.occ, first.occ) => first.planned <= run.planned

LEMMA PlanOrdered ==
  ASSUME FrameInv, ListInOrder
  PROVE  Ordered(Plan)
  <1> DEFINE occs == Candidates(DayStart, now + Horizon)
  <1>1. occs \subseteq Occurrence /\ IsFiniteSet(occs)
    BY CandidatesFacts DEF FrameInv, ExpandedInv, SolarInv, ExpansionInv, ExpansionTypeOK
  <1> SUFFICES ASSUME NEW first \in Plan, NEW run \in Plan, ~ListedBefore(run.occ, first.occ)
               PROVE  first.planned <= run.planned
    BY DEF Ordered
  <1>2. /\ first.occ \in occs /\ first.planned = PlannedStart(first.occ, occs)
        /\ run.occ \in occs /\ run.planned = PlannedStart(run.occ, occs)
    BY <1>1, CompileFacts, PlanIs
  <1>3. first.occ \in Occurrence /\ run.occ \in Occurrence
    BY <1>1, <1>2
  <1>4. first.occ = run.occ \/ ListedBefore(first.occ, run.occ)
    BY <1>3, ListOrder
  <1>5. ListedBefore(first.occ, run.occ) => ClaimsBefore(first.occ, run.occ)
    <2> DEFINE o == first.occ
               q == run.occ
    <2>1. /\ o.prog \in Programs /\ q.prog \in Programs
          /\ Priority[o.prog] \in Int /\ Priority[q.prog] \in Int
      BY <1>3, LaunchAssumption DEF Occurrence
    <2>2. o.prog < q.prog => Priority[o.prog] <= Priority[q.prog]
      BY <2>1 DEF ListInOrder
    <2> HIDE DEF o, q
    <2>3. ListedBefore(o, q) => ClaimsBefore(o, q)
      BY <2>1, <2>2 DEF ListedBefore, ClaimsBefore
    <2> QED
      BY <2>3 DEF o, q
  <1> HIDE DEF occs
  <1>6. first.occ = run.occ => first.planned <= run.planned
    BY <1>1, <1>2, PlannedFacts
  <1> QED
    BY <1>1, <1>2, <1>4, <1>5, <1>6, PlannedMonotone

\* While the day and the schedules are the same the plan only grows, and by
\* runs beyond the horizon of the day.
LEMMA RelevantStays ==
  ASSUME FrameInv, FrameInv', MidnightExists, UNCHANGED <<programs, expansion>>,
         now' \in {now, now + 1}, LocalDay(now)' = LocalDay(now)
  PROVE  Relevant' = Relevant /\ DayStart' = DayStart
  <1>1. now \in Int /\ now' \in Int /\ now <= now' /\ Horizon \in Nat /\ DayStart \in Int
        /\ DayStart <= now
    BY DayBounds, LaunchAssumption DEF FrameInv, Typed, ClockTypes
  <1>2. DayStart' = DayStart
    BY DEF DayStart, Utc, expansion
  <1> DEFINE A == Candidates(DayStart, now + Horizon)
             B == Candidates(DayStart, now' + Horizon)
  <1>3. Candidates(DayStart, now + Horizon)' = B
    BY <1>2 DEF Candidates, OccurrencesBetween, PaddedDays, LocalDay, Wall, Offset, Exists,
                AfterStamp, expansion
  <1>4. /\ B \subseteq Occurrence /\ IsFiniteSet(B) /\ A \subseteq Occurrence
        /\ \A o \in Occurrence : o \in A <=> o \in B /\ o.at < now + Horizon
    <2>1. now + Horizon \in Int /\ now' + Horizon \in Int
      BY <1>1
    <2>2. \A o \in Occurrence : /\ o \in A <=> Scheduled(o) /\ programs[o.prog].enabled
                                               /\ DayStart <= o.at /\ o.at < now + Horizon
                                /\ o \in B <=> Scheduled(o) /\ programs[o.prog].enabled
                                               /\ DayStart <= o.at /\ o.at < now' + Horizon
      BY <1>1, <2>1, CandidatesAre
    <2>3. \A o \in Occurrence : o.at < now + Horizon => o.at < now' + Horizon
      BY <1>1 DEF Occurrence
    <2>4. A \subseteq Occurrence /\ B \subseteq Occurrence /\ IsFiniteSet(B)
      BY <1>1, <2>1, CandidatesAre
    <2> HIDE DEF A, B
    <2> QED
      BY <2>2, <2>3, <2>4
  <1> HIDE DEF A, B
  <1>5. ASSUME NEW o \in A PROVE PlannedStart(o, A) = PlannedStart(o, B)
    <2>1. A \subseteq B /\ o \in Occurrence
      BY <1>4
    <2>2. ASSUME NEW r \in B, ~ClaimsBefore(o, r) PROVE r \in A
      <3>1. r \in Occurrence /\ o.at \in Int /\ r.at \in Int /\ o.at < now + Horizon
        BY <1>4, <2>1 DEF Occurrence
      <3>2. ~(o.at < r.at)
        BY <2>2 DEF ClaimsBefore
      <3>3. r.at < now + Horizon
        BY <1>1, <3>1, <3>2
      <3> QED
        BY <1>4, <3>1, <3>3
    <2> QED
      BY <1>4, <2>1, <2>2, PlannedLocal
  <1>6. Plan = Compile(A) /\ Plan' = Compile(B)
    <2>1. Plan' = Compile(Candidates(DayStart, now + Horizon))'
      BY DEF Plan
    <2>2. \A occs : Compile(occs)' = Compile(occs)
      OBVIOUS
    <2> QED
      BY <1>3, <2>1, <2>2, PlanIs DEF A
  <1>7. \A o \in B : o.at < DayStart + Horizon => o \in A
    <2>1. \A o \in B : o.at \in Int /\ o \in Occurrence
      BY <1>4 DEF Occurrence
    <2> QED
      BY <1>1, <1>4, <2>1
  <1>8. \A o \in A : o \in B
    BY <1>4
  <1>9. Relevant = {run \in Compile(A) : run.occ.at < DayStart + Horizon}
        /\ Relevant' = {run \in Compile(B) : run.occ.at < DayStart + Horizon}
    BY <1>2, <1>6 DEF Relevant
  <1>10. \A run : run \in Compile(A) /\ run.occ.at < DayStart + Horizon
               => run \in Compile(B)
    BY <1>5, <1>8 DEF Compile
  <1>11. \A run : run \in Compile(B) /\ run.occ.at < DayStart + Horizon
               => run \in Compile(A)
    BY <1>5, <1>7 DEF Compile
  <1> QED
    BY <1>2, <1>9, <1>10, <1>11
-----------------------------------------------------------------------------
(* What the loop keeps of the plan.  While nothing is under way that ends   *)
(* with a recompile, the timeline has the runs of the day; and while no     *)
(* launch is under way, the timer and the queues cover those.               *)

Quiet    == up /\ ~dirty /\ ~midnight
Promised == launching \/ due # {} \/ \E n \in DOMAIN waiters : waiters[n].occ # ManualRun

Covered(run) ==
  \/ run.occ \in done \cup retry \cup {active}
  \/ armed.kind = "launch" /\ armed.at <= Larger(run.planned, now)

\* The retry timer does not let a run wait for long behind its deadline.
InTime(run) ==
  \/ run.occ \in done \cup {active} \/ run.occ \notin retry
  \/ retryAt <= Deadline(run) + Retry

OrderedInv == Ordered(timeline)
RetryInv   == retry # {} => retryAt # Never
CurrentInv == Quiet => Relevant \subseteq timeline
CoverInv   == Quiet /\ Automatic /\ ~Promised => \A run \in Relevant : Covered(run)
TimelyInv  == Quiet /\ Automatic => \A run \in Relevant : InTime(run)

KeptInv == OrderedInv /\ RetryInv /\ CurrentInv /\ CoverInv /\ TimelyInv

LEMMA RelevantFacts ==
  ASSUME FrameInv
  PROVE  \A run \in Relevant : /\ run \in PlannedRun /\ run \in Plan
                               /\ run.occ \in Occurrence /\ run.planned \in Int
                               /\ Exists(run.occ.prog) /\ run.occ.at <= run.planned
                               /\ Deadline(run) \in Int
  <1> SUFFICES ASSUME NEW run \in Relevant
               PROVE  /\ run \in PlannedRun /\ run \in Plan
                      /\ run.occ \in Occurrence /\ run.planned \in Int
                      /\ Exists(run.occ.prog) /\ run.occ.at <= run.planned
                      /\ Deadline(run) \in Int
    OBVIOUS
  <1>1. run \in PlannedRun /\ run \in Plan /\ run.occ.at <= run.planned
    BY PlanFacts DEF Relevant
  <1>2. run.occ \in Occurrence /\ run.planned \in Int /\ run.occ.at \in Int /\ Tolerance \in Nat
    BY <1>1, LaunchAssumption DEF PlannedRun, Occurrence
  <1>3. Scheduled(run.occ)
    <2>1. DayStart \in Int /\ now + Horizon \in Int
      BY DayStartType, LaunchAssumption DEF FrameInv, Typed, ClockTypes
    <2>2. run.occ \in Candidates(DayStart, now + Horizon)
      BY <1>1, <2>1, CandidatesAre, CompileFacts, PlanIs
    <2> QED
      BY <1>2, <2>1, <2>2, CandidatesAre
  <1> QED
    BY <1>1, <1>2, <1>3 DEF Scheduled, Deadline

\* What _arm_next_occurrence makes sure of.
LEMMA Recomputed ==
  ASSUME FrameInv, ListInOrder,
         NEW plan, plan \subseteq PlannedRun, IsFiniteSet(plan), Ordered(plan), Relevant \subseteq plan,
         NEW d, NEW a, NEW w, NEW s, ArmNext(plan, d, a, w, s), Automatic, NEW run \in Relevant
  PROVE  /\ run.occ \in done' \cup {a} \/ now <= Deadline(run)
         /\ \/ run.occ \in done' \cup retry' \cup {a}
            \/ armed'.kind = "launch" /\ armed'.at <= Larger(run.planned, now)
  <1>1. PICK fresh, stale :
          /\ fresh \in {plan, Plan} /\ stale = Recorded(Stale(plan, d, a)) \cup Stale(fresh, d, a)
          /\ timeline' = fresh /\ done' = d \cup stale /\ skipped' = s \cup stale
          /\ retry' = w \ stale
          /\ armed' = Armed(Pending(fresh, d \cup stale, a, w \ stale))
    BY DEF ArmNext
  <1>2. fresh \subseteq PlannedRun /\ IsFiniteSet(fresh) /\ Ordered(fresh) /\ run \in fresh
    BY <1>1, PlanFacts, PlanOrdered DEF Relevant
  <1>3. /\ Exists(run.occ.prog) /\ run.planned \in Int /\ Deadline(run) \in Int
        /\ now \in Int
    BY RelevantFacts DEF FrameInv, Typed, ClockTypes
  <1>4. run.occ \in done' \cup {a} \/ now <= Deadline(run)
    <2> SUFFICES ASSUME now > Deadline(run), run.occ \notin d \cup {a}
                 PROVE  run.occ \in Stale(fresh, d, a)
      BY <1>1, <1>3
    <2> QED
      BY <1>2, <1>3 DEF Stale
  <1>5. ASSUME run.occ \notin done' \cup retry' \cup {a}
        PROVE  armed'.kind = "launch" /\ armed'.at <= Larger(run.planned, now)
    <2> DEFINE pending == Pending(fresh, d \cup stale, a, w \ stale)
    <2>1. pending \in SUBSET fresh /\ run \in pending
      BY <1>1, <1>2, <1>4, <1>5 DEF Pending
    <2> HIDE DEF pending
    <2>2. PICK first \in pending :
            armed' = TimerFor(first) /\ \A other \in pending : ~ListedBefore(other.occ, first.occ)
      BY <1>1, <1>2, <2>1, ArmedFacts DEF pending
    <2>3. first.planned <= run.planned
      BY <1>2, <2>1, <2>2 DEF Ordered
    <2>4. first.planned \in Int
      BY <1>2, <2>1, <2>2 DEF PlannedRun
    <2>5. armed'.kind = "launch" /\ armed'.at = Larger(first.planned, now)
      BY <2>2 DEF TimerFor
    <2> QED
      BY <1>3, <2>3, <2>4, <2>5 DEF Larger
  <1> QED
    BY <1>4, <1>5

LEMMA RecomputedTimeline ==
  ASSUME FrameInv, ListInOrder, NEW plan, Ordered(plan),
         NEW d, NEW a, NEW w, NEW s, ArmNext(plan, d, a, w, s)
  PROVE  /\ Ordered(timeline') /\ retry' \subseteq w
         /\ Relevant \subseteq plan => Relevant \subseteq timeline'
  BY PlanOrdered DEF ArmNext, Relevant

\* What of the state the covering depends on beside the timers.
Still == UNCHANGED <<now, programs, enabled, expansion>>

LEMMA StillFacts ==
  ASSUME FrameInv, FrameInv', MidnightExists, Still
  PROVE  /\ Relevant' = Relevant /\ Automatic' = Automatic
         /\ \A run : Deadline(run)' = Deadline(run)
  <1>1. Relevant' = Relevant
    BY RelevantStays DEF Still, LocalDay, Wall, Offset, expansion
  <1> QED
    BY <1>1 DEF Still, Automatic, Deadline, Exists

\* A step that recomputes, from a new timeline or from the one there is.
LEMMA KeptByRecompute ==
  ASSUME FrameInv, FrameInv', KeptInv, ListInOrder, MidnightExists, Still,
         NEW plan, plan \in {timeline, Plan}, plan = Plan \/ (Quiet' => Quiet),
         NEW d, NEW a, NEW w, NEW s, ArmNext(plan, d, a, w, s),
         a \in Occurrence => a \in done' \cup {active'}, RetryInv'
  PROVE  KeptInv'
  <1>1. plan \subseteq PlannedRun /\ IsFiniteSet(plan) /\ Ordered(plan)
    BY PlanFacts, PlanOrdered DEF FrameInv, Typed, ArmTypes, KeptInv, OrderedInv
  <1>2. Quiet' => Relevant \subseteq plan
    BY DEF KeptInv, CurrentInv, Relevant
  <1>3. /\ Relevant' = Relevant /\ Automatic' = Automatic /\ now' = now
        /\ \A run : Deadline(run)' = Deadline(run)
    BY StillFacts DEF Still
  <1>4. OrderedInv' /\ CurrentInv'
    BY <1>1, <1>2, <1>3, RecomputedTimeline DEF OrderedInv, CurrentInv, Ordered, ListedBefore
  <1>5. ASSUME Quiet', Automatic, NEW run \in Relevant
        PROVE  Covered(run)' /\ InTime(run)'
    <2>1. /\ run.occ \in done' \cup {a} \/ now <= Deadline(run)
          /\ \/ run.occ \in done' \cup retry' \cup {a}
             \/ armed'.kind = "launch" /\ armed'.at <= Larger(run.planned, now)
      BY <1>1, <1>2, <1>5, Recomputed
    <2>2. run.occ \in Occurrence /\ Deadline(run) \in Int
      BY RelevantFacts
    <2>3. Covered(run)'
      BY <1>3, <2>1, <2>2 DEF Covered
    <2>4. now \in Nat /\ Retry \in Nat /\ (retryAt' = Never \/ (retryAt' \in Int /\ retryAt' <= now + Retry))
      BY <1>3, LaunchAssumption DEF FrameInv, Typed, ClockTypes, RetryTypes
    <2>5. now <= Deadline(run) => retryAt' <= Deadline(run) + Retry
      BY <2>2, <2>4 DEF Never
    <2>6. InTime(run)'
      BY <1>3, <2>1, <2>2, <2>5 DEF InTime
    <2> QED
      BY <2>3, <2>6
  <1>6. CoverInv' /\ TimelyInv'
    BY <1>3, <1>5 DEF CoverInv, TimelyInv
  <1> QED
    BY <1>4, <1>6 DEF KeptInv

\* A step that leaves the timeline alone.
LEMMA KeptByOther ==
  ASSUME FrameInv, FrameInv', KeptInv, MidnightExists,
         UNCHANGED <<programs, enabled, expansion, timeline>>, Quiet' => Quiet,
         now' \in {now, now + 1}, Quiet' => LocalDay(now)' = LocalDay(now),
         done \subseteq done', active \in Occurrence => active \in done' \cup {active'},
         retry' = {} \/ UNCHANGED <<retry, retryAt>>,
         Quiet' /\ ~Promised' => ~Promised /\ UNCHANGED <<armed, retry>>
  PROVE  KeptInv'
  <1>1. OrderedInv'
    BY DEF KeptInv, OrderedInv, Ordered, ListedBefore
  <1>2. RetryInv'
    BY DEF KeptInv, RetryInv
  <1>3. ASSUME Quiet'
        PROVE  Relevant' = Relevant /\ Automatic' = Automatic /\ \A run : Deadline(run)' = Deadline(run)
    BY <1>3, RelevantStays DEF Automatic, Deadline, Exists
  <1>4. CurrentInv'
    BY <1>3 DEF KeptInv, CurrentInv
  <1>5. ASSUME Quiet', Automatic, NEW run \in Relevant PROVE InTime(run)'
    <2>1. InTime(run) /\ run.occ \in Occurrence
      BY <1>5, RelevantFacts DEF KeptInv, TimelyInv
    <2> QED
      BY <1>3, <1>5, <2>1 DEF InTime
  <1>6. ASSUME Quiet', Automatic, ~Promised', NEW run \in Relevant PROVE Covered(run)'
    <2>1. Covered(run) /\ run.occ \in Occurrence /\ run.planned \in Int
      BY <1>6, RelevantFacts DEF KeptInv, CoverInv
    <2>2. CASE run.occ \in done \cup retry \cup {active}
      BY <1>6, <2>1, <2>2 DEF Covered
    <2>3. CASE armed.kind = "launch" /\ armed.at <= Larger(run.planned, now)
      <3>1. armed.at \in Int /\ now \in Int
        BY <2>3, ArmedOccurrence DEF FrameInv, Typed, ClockTypes, Timer
      <3>2. armed' = armed /\ armed.at <= Larger(run.planned, now')
        BY <1>6, <2>1, <2>3, <3>1 DEF Larger
      <3> QED
        BY <2>3, <3>2 DEF Covered
    <2> QED
      BY <2>1, <2>2, <2>3 DEF Covered
  <1>7. CoverInv' /\ TimelyInv'
    BY <1>3, <1>5, <1>6 DEF CoverInv, TimelyInv
  <1> QED
    BY <1>1, <1>2, <1>4, <1>7 DEF KeptInv
LEMMA ReturnKept ==
  ASSUME FrameInv, FrameInv', KeptInv, ListInOrder, MidnightExists, Still,
         Recompile, retryAt' = retryAt, active \in Occurrence => active \in done' \cup {active'}
  PROVE  KeptInv'
  <1>1. ArmNext(Plan, done, active, retry, skipped)
    BY DEF Recompile, Recalculate
  <1>2. retry' \subseteq retry
    BY <1>1 DEF ArmNext
  <1>3. RetryInv'
    BY <1>2 DEF KeptInv, RetryInv
  <1> QED
    BY <1>1, <1>3, KeptByRecompute

LEMMA WaitOrSkipKept ==
  ASSUME FrameInv, FrameInv', KeptInv, ListInOrder, MidnightExists, Still,
         UNCHANGED <<up, dirty, midnight>>, NEW o, NEW late, WaitOrSkip(o, late)
  PROVE  KeptInv'
  <1>1. Quiet' => Quiet
    BY DEF Quiet
  <1>2. CASE ArmRetry(o)
    <2>1. ArmNext(timeline, done, active, retry \cup {o}, skipped) /\ active' = active
      BY <1>2 DEF ArmRetry
    <2>2. now \in Nat /\ Retry \in Nat
      BY LaunchAssumption DEF FrameInv, Typed, ClockTypes
    <2>3. retryAt' # Never
      BY <1>2, <2>2 DEF ArmRetry, Never
    <2>4. RetryInv'
      BY <2>3 DEF RetryInv
    <2> QED
      BY <1>1, <2>1, <2>4, KeptByRecompute
  <1>3. CASE Skip(o)
    <2>1. ArmNext(Plan, done \cup {o}, active, retry, skipped \cup {o}) /\ active' = active
          /\ retryAt' = retryAt
      BY <1>3 DEF Skip, Recalculate
    <2>2. retry' \subseteq retry
      BY <2>1 DEF ArmNext
    <2>3. RetryInv'
      BY <2>1, <2>2 DEF KeptInv, RetryInv
    <2> QED
      BY <2>1, <2>3, KeptByRecompute
  <1> QED
    BY <1>2, <1>3 DEF WaitOrSkip

\* An occurrence that gets the controller, or waits for the lock, is one whose
\* launch ends with a recompile.
LEMMA PromisedKept ==
  ASSUME FrameInv, FrameInv', KeptInv, MidnightExists, Still, UNCHANGED <<up, dirty, midnight>>,
         UNCHANGED <<timeline, retry, retryAt, done>>, Promised',
         active \in Occurrence => active' = active
  PROVE  KeptInv'
  <1>1. Quiet' => Quiet
    BY DEF Quiet
  <1>2. LocalDay(now)' = LocalDay(now)
    BY DEF Still, LocalDay, Wall, Offset, expansion
  <1> QED
    BY <1>1, <1>2, KeptByOther DEF Still

LEMMA NotARun == \A o \in Occurrence : o # NoRun /\ o # ManualRun
  BY LaunchAssumption

LEMMA LaunchKept ==
  ASSUME FrameInv, FrameInv', KeptInv, ListInOrder, MidnightExists, Still,
         UNCHANGED <<up, dirty, midnight>>, NEW o \in Occurrence, NEW verdict, NEW t, Launch(o, verdict, t)
  PROVE  KeptInv'
  <1> DEFINE late == now > DeadlineOf(o)
  <1>1. CASE Return
    BY <1>1, ReturnKept DEF Return
  <1>2. CASE WaitOrSkip(o, late)
    BY <1>2, WaitOrSkipKept
  <1>3. CASE Skip(o)
    <2>1. WaitOrSkip(o, TRUE)
      BY <1>3 DEF WaitOrSkip
    <2> QED
      BY <2>1, WaitOrSkipKept
  <1>4. CASE Claim(o, waiters)
    BY <1>4, NotARun, PromisedKept DEF Claim, IsActive, Promised
  <1>5. CASE /\ waiters' = Append(waiters, [occ |-> o, late |-> late])
             /\ UNCHANGED <<journal, timeline, retry, retryAt, lock, launching>>
    <2>1. waiters \in Seq(Waiter)
      BY DEF FrameInv, Typed, LockTypes
    <2>2. Len(waiters) + 1 \in DOMAIN waiters' /\ waiters'[Len(waiters) + 1].occ = o
      BY <1>5, <2>1
    <2>3. Promised'
      BY <2>2, NotARun DEF Promised
    <2> QED
      BY <1>5, <2>3, PromisedKept DEF journal
  <1> QED
    BY <1>1, <1>2, <1>3, <1>4, <1>5 DEF Launch

\* A step that neither touches the timers nor the launches under way.
LEMMA AsideKept ==
  ASSUME FrameInv, FrameInv', KeptInv, MidnightExists, Still, UNCHANGED <<up, dirty, midnight>>,
         UNCHANGED timers, done \subseteq done',
         active \in Occurrence => active \in done' \cup {active'}, ~Promised' => ~Promised
  PROVE  KeptInv'
  <1>1. Quiet' => Quiet
    BY DEF Quiet
  <1>2. LocalDay(now)' = LocalDay(now)
    BY DEF Still, LocalDay, Wall, Offset, expansion
  <1>3. UNCHANGED <<timeline, armed, retry, retryAt>>
    BY DEF timers
  <1> QED
    BY <1>1, <1>2, <1>3, KeptByOther DEF Still

LEMMA TailPromised ==
  ASSUME FrameInv, waiters # <<>>, Head(waiters).occ = ManualRun, waiters' = Tail(waiters),
         UNCHANGED <<launching, due>>, ~Promised'
  PROVE  ~Promised
  <1>1. waiters \in Seq(Waiter)
    BY DEF FrameInv, Typed, LockTypes
  <1> SUFFICES ASSUME NEW n \in DOMAIN waiters, waiters[n].occ # ManualRun PROVE FALSE
    BY DEF Promised
  <1>2. Head(waiters) = waiters[1] /\ n \in 1 .. Len(waiters)
    BY <1>1
  <1>3. n # 1
    BY <1>2
  <1>4. n - 1 \in DOMAIN Tail(waiters) /\ Tail(waiters)[n - 1] = waiters[n]
    BY <1>1, <1>2, <1>3
  <1> QED
    BY <1>4 DEF Promised

LEMMA LoopKept ==
  ASSUME FrameInv, FrameInv', JournalInv, KeptInv, ListInOrder, MidnightExists,
         Loop, UNCHANGED expansion
  PROVE  KeptInv'
  <1>1. Still
    BY DEF Loop, JournalWritten, StopReturns, RetryFires,
        GrantedToRequest, Setup, Fire, Relaunch, GrantedToLaunch, Started, RunReleased,
        TailWritten, ConfigSaved, DailyRecompile, outside, config, Still
  <1>2. CASE JournalWritten \/ StopReturns
    <2>1. UNCHANGED <<up, dirty, midnight, timers, done, active, launching, due, waiters>>
      BY <1>2 DEF JournalWritten, StopReturns, config, locking, journal, outside
    <2> QED
      BY <1>1, <2>1, AsideKept DEF Promised
  <1>3. CASE RetryFires
    <2>1. /\ UNCHANGED <<up, dirty, midnight, timeline, armed, done, active, launching, waiters>>
          /\ due = {} /\ retry' = {} /\ (due' = {} => retry = {})
      BY <1>3 DEF RetryFires, Ready, config, locking, journal, outside
    <2>2. Quiet' => Quiet
      BY <2>1 DEF Quiet
    <2>3. ~Promised' => ~Promised /\ UNCHANGED <<armed, retry>>
      BY <2>1 DEF Promised
    <2>4. LocalDay(now)' = LocalDay(now)
      BY <1>1 DEF Still, LocalDay, Wall, Offset, expansion
    <2> QED
      BY <1>1, <2>1, <2>2, <2>3, <2>4, KeptByOther DEF Still
  <1>4. CASE GrantedToRequest
    <2>1. /\ UNCHANGED <<up, dirty, midnight, timers, done, launching, due>>
          /\ waiters' = Tail(waiters) /\ waiters # <<>> /\ Head(waiters).occ = ManualRun
          /\ active' = active \/ active = NoRun
      BY <1>4 DEF GrantedToRequest, ClaimManually, config, journal, outside, IsActive
    <2> QED
      BY <1>1, <2>1, TailPromised, NotARun, AsideKept
  <1>5. CASE Setup \/ ConfigSaved \/ DailyRecompile
    BY <1>1, <1>5, ReturnKept DEF Setup, ConfigSaved, DailyRecompile, Return
  <1>6. CASE Fire
    BY <1>1, <1>6, ArmedOccurrence, LaunchKept DEF Fire, outside, config
  <1>7. CASE Relaunch
    <2>1. PICK d \in due : Launch(d.occ, d.verdict, armed)
      BY <1>7 DEF Relaunch
    <2>2. d.occ \in Occurrence
      BY <2>1 DEF FrameInv, Typed, OtherTypes
    <2> QED
      BY <1>1, <1>7, <2>1, <2>2, LaunchKept DEF Relaunch, outside, config
  <1>8. CASE GrantedToLaunch
    <2> DEFINE w == Head(waiters)
    <2>1. UNCHANGED <<up, dirty, midnight>>
      BY <1>8 DEF GrantedToLaunch, config, outside
    <2>2. CASE WaitOrSkip(w.occ, w.late)
      BY <1>1, <2>1, <2>2, WaitOrSkipKept
    <2>3. CASE Return
      BY <1>1, <2>3, ReturnKept DEF Return
    <2>4. CASE Claim(w.occ, Tail(waiters))
      BY <1>1, <2>1, <2>4, NotARun, PromisedKept DEF Claim, IsActive, Promised
    <2> QED
      BY <1>8, <2>2, <2>3, <2>4 DEF GrantedToLaunch
  <1>9. CASE Started \/ TailWritten
    <2>1. UNCHANGED <<up, dirty, midnight, waiters, due>>
      BY <1>9 DEF Started, TailWritten, config, outside
    <2>2. CASE Return
      BY <1>1, <2>2, ReturnKept DEF Return
    <2>3. CASE ~launching /\ UNCHANGED <<journal, timers>>
      BY <1>1, <2>1, <2>3, AsideKept DEF journal, Promised
    <2> QED
      BY <1>9, <2>2, <2>3 DEF Started, TailWritten, Returned
  <1>10. CASE RunReleased
    <2>1. UNCHANGED <<up, dirty, midnight, waiters, due, launching>> /\ active \in done \cup {ManualRun}
      BY <1>10 DEF RunReleased, config, outside, JournalInv, FinishingInv
    <2>2. CASE Recompile /\ UNCHANGED <<launched, retryAt>>
      <3>1. done \subseteq done'
        BY <2>2, RecalculateFacts DEF Recompile
      <3> QED
        BY <1>1, <2>1, <2>2, <3>1, NotARun, ReturnKept
    <2>3. CASE UNCHANGED <<done, launched, skipped, timers>>
      BY <1>1, <2>1, <2>3, NotARun, AsideKept DEF Promised
    <2> QED
      BY <1>10, <2>2, <2>3 DEF RunReleased
  <1> QED
    BY <1>2, <1>3, <1>4, <1>5, <1>6, <1>7, <1>8, <1>9, <1>10 DEF Loop

\* A change that is being saved, and a crash, end the quiet.
LEMMA LoudKept ==
  ASSUME KeptInv, ~Quiet', timeline' \in {timeline, {}}, retry' = {} \/ UNCHANGED <<retry, retryAt>>
  PROVE  KeptInv'
  BY DEF KeptInv, OrderedInv, Ordered, ListedBefore, RetryInv, CurrentInv, CoverInv, TimelyInv

LEMMA OutsideKept ==
  ASSUME FrameInv, FrameInv', KeptInv, ListInOrder, MidnightExists, Outside, UNCHANGED expansion
  PROVE  KeptInv'
  <1>1. CASE RunEnds \/ StopIdle
    <2>1. /\ Still /\ UNCHANGED <<up, dirty, midnight, timers, launching, due, waiters>>
          /\ done \subseteq done' /\ active' = active
      BY <1>1 DEF RunEnds, StopIdle, config, outside, journal, Still
    <2> QED
      BY <2>1, AsideKept DEF Promised
  <1>2. CASE Request
    <2>1. /\ Still /\ UNCHANGED <<up, dirty, midnight, timers, launching, due, done>>
          /\ waiters' \in {waiters, Append(waiters, [occ |-> ManualRun, late |-> FALSE])}
          /\ active' = active \/ active = NoRun
      BY <1>2 DEF Request, ClaimManually, config, outside, journal, Still, IsActive
    <2>2. waiters \in Seq(Waiter)
      BY DEF FrameInv, Typed, LockTypes
    <2>3. \A n \in DOMAIN waiters : n \in DOMAIN waiters' /\ waiters'[n] = waiters[n]
      BY <2>1, <2>2
    <2>4. ~Promised' => ~Promised
      BY <2>1, <2>3 DEF Promised
    <2> QED
      BY <2>1, <2>4, NotARun, AsideKept
  <1>3. CASE RecalculateNow
    <2>1. Still
      BY <1>3 DEF RecalculateNow, config, outside, Still
    <2> QED
      BY <1>3, <2>1, ReturnKept DEF RecalculateNow, Return
  <1>4. ASSUME Changed PROVE KeptInv'
    BY <1>4, LoudKept DEF Changed, Quiet, timers
  <1>5. CASE \/ SetEnabled
             \/ \E p \in Programs, e \in Edits : UpdateProgram(p, e) \/ CreateProgram(p, e)
             \/ \E p \in Programs : DeleteProgram(p)
    BY <1>4, <1>5 DEF SetEnabled, UpdateProgram, CreateProgram, DeleteProgram
  <1>6. CASE Crash
    BY <1>6, LoudKept DEF Crash, Quiet
  <1> QED
    BY <1>1, <1>2, <1>3, <1>5, <1>6 DEF Outside

LEMMA TickKept ==
  ASSUME FrameInv, FrameInv', KeptInv, MidnightExists, Tick, UNCHANGED expansion
  PROVE  KeptInv'
  <1>1. /\ now' = now + 1 /\ up' = up
        /\ UNCHANGED <<programs, enabled, dirty, timers, done, active, launching, due, waiters>>
        /\ midnight' = (up /\ LocalDay(now + 1) # LocalDay(now))
    BY DEF Tick, config, journal, locking
  <1>2. CASE ~Quiet'
    BY <1>1, <1>2, LoudKept DEF timers
  <1>3. CASE Quiet'
    <2>1. up /\ ~midnight' /\ Quiet
      BY <1>1, <1>3 DEF Quiet, Tick, Settled
    <2>2. LocalDay(now)' = LocalDay(now)
      BY <1>1, <2>1 DEF LocalDay, Wall, Offset, expansion
    <2>3. Promised' = Promised
      BY <1>1 DEF Promised
    <2>4. UNCHANGED <<timeline, armed, retry, retryAt>>
      BY <1>1 DEF timers
    <2> QED
      BY <1>1, <2>1, <2>2, <2>3, <2>4, KeptByOther
  <1> QED
    BY <1>2, <1>3

LEMMA KeptStep ==
  ASSUME FrameInv, FrameInv', JournalInv, KeptInv, ListInOrder, MidnightExists, [Next]_vars
  PROVE  KeptInv'
  <1>1. CASE UNCHANGED launch
    <2>1. UNCHANGED <<now, up, dirty, midnight, timers, programs, enabled, done, active, launching,
                      due, waiters>>
      BY <1>1 DEF launch, config, outside, locking, journal
    <2>2. CASE ~up
      BY <2>1, <2>2, LoudKept DEF Quiet, timers
    <2>3. CASE up
      <3>1. UNCHANGED expansion
        BY <1>1, <2>3, NothingToExpand DEF Next, vars, FrameInv, DownInv
      <3> QED
        BY <2>1, <3>1, AsideKept DEF Still, Promised
    <2> QED
      BY <2>2, <2>3
  <1> QED
    BY <1>1, LoopKept, OutsideKept, TickKept DEF Next, vars

LEMMA KeptBegins ==
  ASSUME Init
  PROVE  KeptInv
  BY DEF Init, KeptInv, OrderedInv, Ordered, RetryInv, CurrentInv, CoverInv, TimelyInv, Quiet

-----------------------------------------------------------------------------
\* The invariant: the timeline has the day's runs, and a timer or a queue has
\* each of them, whatever was edited, skipped, retried, restarted or compiled
\* anew.
THEOREM PlanIsKept ==
  ASSUME ListInOrder, MidnightExists
  PROVE  Spec => []KeptInv
  <1>1. Init => KeptInv
    BY KeptBegins
  <1>2. FrameInv /\ FrameInv' /\ JournalInv /\ KeptInv /\ [Next]_vars => KeptInv'
    BY KeptStep, ListInOrder, MidnightExists
  <1> QED
    BY <1>1, <1>2, Frame, HistoryInJournal, PTL DEF Spec

LEMMA InLoopIsQuiet ==
  ASSUME FrameInv, InLoop
  PROVE  /\ Quiet /\ Automatic /\ ~Promised
         /\ ~(armed.kind = "launch" /\ armed.at <= now)
         /\ retryAt = Never \/ retryAt > now
  BY DEF InLoop, Settled, Ready, Quiet, Promised

\* At rest no occurrence of the day is left behind without a timer.
THEOREM NoneIsForgotten ==
  ASSUME ListInOrder, MidnightExists
  PROVE  Spec => []NothingIsForgotten
  <1>1. ASSUME FrameInv, KeptInv PROVE NothingIsForgotten
    <2> SUFFICES ASSUME InLoop PROVE
            /\ retry # {} => retryAt # Never
            /\ \A run \in Plan : run.occ.at < DayStart + Horizon =>
                 \/ run.occ \in done \cup retry \cup {active}
                 \/ now < run.planned /\ armed.kind = "launch" /\ armed.at <= run.planned
      BY DEF NothingIsForgotten
    <2>1. ASSUME NEW run \in Plan, run.occ.at < DayStart + Horizon,
                 run.occ \notin done \cup retry \cup {active}
          PROVE  now < run.planned /\ armed.kind = "launch" /\ armed.at <= run.planned
      <3>1. run \in Relevant
        BY <2>1 DEF Relevant
      <3>2. armed.kind = "launch" /\ armed.at <= Larger(run.planned, now) /\ ~(armed.at <= now)
        BY <1>1, <2>1, <3>1, InLoopIsQuiet DEF KeptInv, CoverInv, Covered
      <3>3. armed.at \in Int /\ now \in Int /\ run.planned \in Int
        BY <1>1, <3>1, <3>2, ArmedOccurrence, RelevantFacts DEF FrameInv, Typed, ClockTypes, Timer
      <3> QED
        BY <3>2, <3>3 DEF Larger
    <2> QED
      BY <1>1, <2>1 DEF KeptInv, RetryInv
  <1> QED
    BY <1>1, PlanIsKept, ListInOrder, MidnightExists, Frame, PTL

\* One retry after its deadline every occurrence of the day has been launched
\* or recorded as skipped.
THEOREM AllAreSettled ==
  ASSUME ListInOrder, MidnightExists, DayInHorizon
  PROVE  Spec => []SettledInTime
  <1>1. ASSUME FrameInv, KeptInv PROVE SettledInTime
    <2> SUFFICES ASSUME InLoop, NEW run \in Plan, now > Deadline(run) + Retry,
                        run.occ \notin done \cup {active}
                 PROVE  FALSE
      BY DEF SettledInTime
    <2>1. /\ run.occ.at <= run.planned /\ run.occ.at \in Int /\ run.planned \in Int
          /\ Deadline(run) \in {Tolerance + run.occ.at, Tolerance + run.planned}
          /\ Tolerance \in Nat /\ Retry \in Nat /\ now \in Int /\ DayStart \in Int /\ Horizon \in Nat
      BY <1>1, PlanFacts, DayStartType, LaunchAssumption
      DEF PlannedRun, Occurrence, Deadline, FrameInv, Typed, ClockTypes
    <2>2. now < DayStart + Horizon
      BY <1>1, DayBounds, DayInHorizon, MidnightExists
    <2>3. run \in Relevant
      BY <2>1, <2>2 DEF Relevant
    <2>4. run.planned <= Deadline(run)
      <3>1. Exists(run.occ.prog)
        BY <1>1, <2>3, RelevantFacts
      <3>2. run.occ.prog \in SkipLate => run.planned <= run.occ.at + Tolerance
        BY PlanIs DEF Compile
      <3> QED
        BY <2>1, <3>1, <3>2 DEF Deadline
    <2>5. /\ Covered(run) /\ InTime(run) /\ ~(armed.kind = "launch" /\ armed.at <= now)
          /\ retryAt = Never \/ retryAt > now
          /\ retry # {} => retryAt # Never
      BY <1>1, <2>3, InLoopIsQuiet DEF KeptInv, CoverInv, TimelyInv, RetryInv
    <2>6. CASE run.occ \in retry
      <3>1. retryAt > now /\ retryAt <= Deadline(run) + Retry
        BY <2>5, <2>6 DEF InTime
      <3>2. retryAt \in Int
        BY <1>1, <2>1 DEF FrameInv, Typed, RetryTypes, Never
      <3> QED
        BY <2>1, <3>1, <3>2
    <2>7. CASE armed.kind = "launch" /\ armed.at <= Larger(run.planned, now)
      <3>1. armed.at \in Int
        BY <1>1, <2>7, ArmedOccurrence DEF Timer
      <3> QED
        BY <2>1, <2>4, <2>5, <2>7, <3>1 DEF Larger
    <2> QED
      BY <2>5, <2>6, <2>7 DEF Covered
  <1> QED
    BY <1>1, PlanIsKept, ListInOrder, MidnightExists, DayInHorizon, Frame, PTL
=============================================================================
