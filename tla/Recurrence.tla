----------------------------- MODULE Recurrence -----------------------------
(***************************************************************************)
(* The recurrence engine (recurrence.py): which instants the starts of a   *)
(* rule, kept as wall-clock times, stand for in a time zone whose offset   *)
(* changes at one instant of the period looked at.                         *)
(*                                                                         *)
(* The expansion walks the days and the starts of each rule as             *)
(* occurrences_between does; a start inside the gap of a spring change is  *)
(* found by the binary search of _first_valid_instant_after_gap, one       *)
(* halving a step.  Time is counted in whole minutes: clock starts and the *)
(* changes of a zone's offset fall on whole minutes, so the truncation of  *)
(* the midpoint to a minute is the integer division, and its exit "mid <=  *)
(* lo" is never taken.                                                     *)
(*                                                                         *)
(* An operator marked "seeded fault" is no part of the specification.      *)
(***************************************************************************)
EXTENDS Integers, Sequences, FiniteSets

CONSTANTS
  TimeZones,   \* possible zones: [trans, before, after]
  Days,        \* local days that are expanded
  DayLength,   \* minutes of wall clock in a day
  Calendar,    \* day -> [weekday, dom, month]
  Sun,         \* day -> the instants of its solar event: one, or none
  Rules,       \* rule numbers
  RuleOf,      \* rule number -> the rule and its start times
  Instants     \* instants the properties look at

StartRec == [kind : {"clock", "sun"}, at : Int]
RuleRec  ==
  [kind : {"weekly", "odd", "even", "interval"}, weekdays : SUBSET Int,
   anchor : Int, interval : Nat, from : Int, until : Int, months : SUBSET Int,
   shift : BOOLEAN, starts : Seq(StartRec)]

ASSUME ZoneAssumption ==
  TimeZones \subseteq [trans : Int, before : Int, after : Int]
ASSUME CalendarAssumption ==
  /\ Days \subseteq Int /\ DayLength \in Nat \ {0} /\ Instants \subseteq Int
  /\ Calendar \in [Days -> [weekday : Int, dom : Int, month : Int]]
  /\ DOMAIN Sun = Days /\ \A d \in Days : Sun[d] \subseteq Int
ASSUME RuleAssumption ==
  Rules \subseteq Int /\ RuleOf \in [Rules -> RuleRec]

\* A clock start is a time of the day, and the offset of a zone changes by a day
\* at most.  The sun's event falls on its day, and MAX_SOLAR_OFFSET_MINUTES keeps
\* its start, whichever offset is in force, within the day before and after.
ASSUME NearAssumption ==
  /\ \A z \in TimeZones : z.after - z.before \in -DayLength .. DayLength
  /\ \A r \in Rules : \A n \in DOMAIN RuleOf[r].starts :
       LET s == RuleOf[r].starts[n]
       IN  IF s.kind = "clock" THEN s.at \in 0 .. (DayLength - 1)
           ELSE \A d \in Days : \A t \in Sun[d] : \A z \in TimeZones :
                  \A offset \in {z.before, z.after} :
                    /\ (d - 1) * DayLength <= t + s.at + offset
                    /\ t + s.at + offset < (d + 2) * DayLength

\* A start of a rule on a day.
Keys == UNION {[rule : {r}, day : Days, start : DOMAIN RuleOf[r].starts] : r \in Rules}
NoKey == [rule |-> 0, day |-> 0, start |-> 0]

VARIABLES
  tz,        \* the time zone
  todo,      \* starts that are not expanded yet
  cur,       \* the start whose gap is being searched
  lo, hi,    \* the search: before and not before the change
  instants   \* what the expansion has found: a start's instant

expansion == <<tz, todo, cur, lo, hi, instants>>

-----------------------------------------------------------------------------
(* The time zone *)

Larger(a, b)  == IF a >= b THEN a ELSE b
Smaller(a, b) == IF a <= b THEN a ELSE b

Offset(t)   == IF t < tz.trans THEN tz.before ELSE tz.after
Wall(t)     == t + Offset(t)
LocalDay(t) == Wall(t) \div DayLength

\* A wall-clock time read with a fold (PEP 495): in a gap fold 0 takes the
\* offset before the change, in a repeated hour fold 0 is the first instance.
Utc(naive, fold) ==
  LET bound == IF fold = 0 THEN Larger(tz.before, tz.after)
                           ELSE Smaller(tz.before, tz.after)
  IN  naive - (IF naive < tz.trans + bound THEN tz.before ELSE tz.after)

Roundtrips(naive) == Wall(Utc(naive, 0)) = naive

-----------------------------------------------------------------------------
(* Rules *)

DateQualifies(rule, day) ==
  /\ rule.from <= day /\ day <= rule.until
  /\ Calendar[day].month \in rule.months
  /\ \/ rule.kind = "weekly" /\ Calendar[day].weekday \in rule.weekdays
     \/ rule.kind = "odd"    /\ Calendar[day].dom % 2 = 1
     \/ rule.kind = "even"   /\ Calendar[day].dom % 2 = 0
     \/ /\ rule.kind = "interval" /\ rule.interval > 0
        /\ day >= rule.anchor /\ (day - rule.anchor) % rule.interval = 0

Start(k)     == RuleOf[k.rule].starts[k.start]
Naive(k)     == k.day * DayLength + Start(k).at
Qualifies(k) == DateQualifies(RuleOf[k.rule], k.day)
IsClock(k)   == Start(k).kind = "clock"

\* The loops over days and starts take one rule after the other.
Precedes(k, m) ==
  \/ k.rule < m.rule
  \/ k.rule = m.rule /\ k.day < m.day
  \/ k.rule = m.rule /\ k.day = m.day /\ k.start < m.start

Turn == {k \in todo : \A m \in todo : ~Precedes(m, k)}

Found(k, t) == instants' = instants \cup {[key |-> k, at |-> t]}

-----------------------------------------------------------------------------
(* The expansion *)

ExpansionInit ==
  /\ tz \in TimeZones
  /\ todo = Keys
  /\ cur = NoKey /\ lo = 0 /\ hi = 0
  /\ instants = {}

Expanded == todo = {} /\ cur = NoKey

Take(k) ==
  /\ cur = NoKey
  /\ todo' = todo \ {k}
  /\ UNCHANGED tz

\* The day is none of the rule's, or the sun does not rise or set.
NoStart(k) ==
  /\ Take(k)
  /\ ~Qualifies(k) \/ (~IsClock(k) /\ Sun[k.day] = {})
  /\ UNCHANGED <<cur, lo, hi, instants>>

\* resolve_solar_start
SolarStart(k) ==
  /\ Take(k) /\ Qualifies(k) /\ ~IsClock(k)
  /\ \E t \in Sun[k.day] : Found(k, t + Start(k).at)
  /\ UNCHANGED <<cur, lo, hi>>

\* Seeded fault: a repeated time runs at its second instance.
ClockStartSecond(k) ==
  /\ Take(k) /\ Qualifies(k) /\ IsClock(k) /\ Roundtrips(Naive(k))
  /\ Found(k, Utc(Naive(k), 1))
  /\ UNCHANGED <<cur, lo, hi>>

\* resolve_local_start of a time that exists
ClockStart(k) ==
  /\ Take(k) /\ Qualifies(k) /\ IsClock(k) /\ Roundtrips(Naive(k))
  /\ Found(k, Utc(Naive(k), 0))
  /\ UNCHANGED <<cur, lo, hi>>

\* ... of one that does not, under the policy that skips it
SkippedStart(k) ==
  /\ Take(k) /\ Qualifies(k) /\ IsClock(k) /\ ~Roundtrips(Naive(k))
  /\ ~RuleOf[k.rule].shift
  /\ UNCHANGED <<cur, lo, hi, instants>>

\* ... or under the one that moves it behind the gap
SearchStart(k) ==
  /\ Take(k) /\ Qualifies(k) /\ IsClock(k) /\ ~Roundtrips(Naive(k))
  /\ RuleOf[k.rule].shift
  /\ cur' = k
  /\ lo' = Smaller(Utc(Naive(k), 1), Utc(Naive(k), 0))
  /\ hi' = Larger(Utc(Naive(k), 1), Utc(Naive(k), 0))
  /\ UNCHANGED instants

\* hi keeps the offset it starts with, which is the target of the search.
Halve ==
  /\ cur # NoKey /\ hi - lo > 1
  /\ LET mid == (lo + hi) \div 2
     IN  \/ Offset(mid) = Offset(hi) /\ hi' = mid /\ UNCHANGED lo
         \/ Offset(mid) # Offset(hi) /\ lo' = mid /\ UNCHANGED hi
  /\ UNCHANGED <<tz, todo, cur, instants>>

EndSearch ==
  /\ cur # NoKey /\ hi - lo <= 1
  /\ Found(cur, hi)
  /\ cur' = NoKey /\ lo' = 0 /\ hi' = 0
  /\ UNCHANGED <<tz, todo>>

Expand ==
  \/ \E k \in Turn : \/ NoStart(k) \/ SolarStart(k) \/ ClockStart(k)
                     \/ SkippedStart(k) \/ SearchStart(k)
  \/ Halve
  \/ EndSearch

ExpansionSpec == ExpansionInit /\ [][Expand]_expansion

-----------------------------------------------------------------------------
(* The window of occurrences_between *)

\* Seeded fault: the days are not padded.
UnpaddedDays(from, to) == LocalDay(from) .. LocalDay(to)

\* A local day's starts can fall on the days beside it.
PaddedDays(from, to) == (LocalDay(from) - 1) .. (LocalDay(to) + 1)

\* Occurrence ids are made of the instant, so starts that meet are one.
OccurrencesBetween(rule, from, to) ==
  {i.at : i \in {j \in instants : /\ j.key.rule = rule
                                  /\ from <= j.at /\ j.at < to
                                  /\ j.key.day \in PaddedDays(from, to)}}

-----------------------------------------------------------------------------
(* Properties *)

ClockInstants == {i \in instants : IsClock(i.key)}

ExpansionTypeOK ==
  /\ tz \in TimeZones
  /\ todo \subseteq Keys
  /\ cur \in Keys \cup {NoKey}
  /\ lo \in Int /\ hi \in Int
  /\ instants \subseteq [key : Keys, at : Int]

\* A wall-clock start runs at the first instant at which a clock on the wall
\* shows its time or a later one, so once in a repeated hour and at the end
\* of the gap in a skipped one (resolve_local_start); only where no clock ever
\* shows it may the skip policy leave it out.
FirstReading ==
  /\ \A i \in ClockInstants : /\ Wall(i.at) >= Naive(i.key)
                              /\ \A t \in Instants : t < i.at => Wall(t) < Naive(i.key)
  /\ \A k \in Keys \ (todo \cup {cur}) :
       IsClock(k) /\ Qualifies(k) /\ (\A i \in instants : i.key # k)
         => \A t \in Instants : Wall(t) # Naive(k)

=============================================================================
