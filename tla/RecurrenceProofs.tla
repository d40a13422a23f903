-------------------------- MODULE RecurrenceProofs --------------------------
(***************************************************************************)
(* For every calendar, every time zone with one change of its offset and   *)
(* every set of rules: a wall-clock start is expanded to the first instant *)
(* at which a clock on the wall shows its time or a later one, and a start *)
(* is left out only if no clock ever shows it.                             *)
(*                                                                         *)
(* The invariant carries what the search for the end of a gap needs: a     *)
(* start that does not roundtrip lies in the gap, and the change of the    *)
(* offset stays between the search's two bounds.                           *)
(***************************************************************************)
EXTENDS Recurrence, FiniteSetTheorems, TLAPS

\* The wall clock skips the time of the start.
InGap(k) == tz.trans + tz.before <= Naive(k) /\ Naive(k) < tz.trans + tz.after

\* The start's time is first reached at t.
First(k, t) == Wall(t) >= Naive(k) /\ \A u \in Int : u < t => Wall(u) < Naive(k)

SearchInv  == cur # NoKey => InGap(cur) /\ lo < tz.trans /\ tz.trans <= hi
FoundInv   == \A i \in instants : IsClock(i.key) => First(i.key, i.at)
LeftOutInv == \A k \in Keys \ (todo \cup {cur}) :
                IsClock(k) /\ Qualifies(k) => InGap(k) \/ \E i \in instants : i.key = k

ExpansionInv == ExpansionTypeOK /\ SearchInv /\ FoundInv /\ LeftOutInv

-----------------------------------------------------------------------------
(* Keys and zones *)

LEMMA ProductIsInt ==
  ASSUME NEW a \in Int, NEW b \in Int
  PROVE  a * b \in Int
OBVIOUS

\* Starts are numbered from one, so no key is NoKey.
LEMMA KeyFacts ==
  ASSUME NEW k \in Keys
  PROVE  /\ k # NoKey
         /\ k.day \in Days
         /\ Start(k) \in StartRec
         /\ Naive(k) \in Int
<1>1. PICK r \in Rules : k \in [rule : {r}, day : Days, start : DOMAIN RuleOf[r].starts]
  BY DEF Keys
<1>2. k.rule = r /\ k.day \in Days /\ k.start \in DOMAIN RuleOf[r].starts
  BY <1>1
<1>3. RuleOf[r].starts \in Seq(StartRec)
  BY RuleAssumption DEF RuleRec
<1>4. k.start \in 1 .. Len(RuleOf[r].starts) /\ RuleOf[r].starts[k.start] \in StartRec
  BY <1>2, <1>3
<1>5. k # NoKey
  BY <1>4 DEF NoKey
<1>6. Start(k) \in StartRec
  BY <1>2, <1>4 DEF Start
<1>7. k.day * DayLength \in Int
  <2>1. Days \subseteq Int /\ DayLength \in Int
    BY CalendarAssumption
  <2>2. k.day \in Int
    BY <1>2, <2>1
  <2> QED
    BY <2>1, <2>2, ProductIsInt
<1> QED
  BY <1>2, <1>5, <1>6, <1>7 DEF Naive, StartRec

LEMMA ZoneFacts ==
  ASSUME tz \in TimeZones
  PROVE  tz.trans \in Int /\ tz.before \in Int /\ tz.after \in Int
BY ZoneAssumption

\* A time that exists is read as the first instant that shows it ...
LEMMA RoundtripIsFirst ==
  ASSUME tz \in TimeZones, NEW k \in Keys, Roundtrips(Naive(k))
  PROVE  Utc(Naive(k), 0) \in Int /\ First(k, Utc(Naive(k), 0))
<1> DEFINE n == Naive(k)
<1>1. n \in Int
  BY KeyFacts
<1>2. tz.trans \in Int /\ tz.before \in Int /\ tz.after \in Int
  BY ZoneFacts
<1> QED
  BY <1>1, <1>2 DEF First, Roundtrips, Utc, Wall, Offset, Larger, Smaller

\* ... and one that does not exist lies in the gap, its two readings on
\* either side of the change.
LEMMA NoRoundtripIsGap ==
  ASSUME tz \in TimeZones, NEW k \in Keys, ~Roundtrips(Naive(k))
  PROVE  /\ InGap(k)
         /\ Utc(Naive(k), 1) \in Int /\ Utc(Naive(k), 0) \in Int
         /\ Smaller(Utc(Naive(k), 1), Utc(Naive(k), 0)) < tz.trans
         /\ tz.trans <= Larger(Utc(Naive(k), 1), Utc(Naive(k), 0))
<1> DEFINE n == Naive(k)
<1>1. n \in Int
  BY KeyFacts
<1>2. tz.trans \in Int /\ tz.before \in Int /\ tz.after \in Int
  BY ZoneFacts
<1>3. InGap(k)
  BY <1>1, <1>2 DEF InGap, Roundtrips, Utc, Wall, Offset, Larger, Smaller
<1>4. Utc(n, 1) = n - tz.after /\ Utc(n, 0) = n - tz.before
  BY <1>1, <1>2, <1>3 DEF InGap, Utc, Larger, Smaller
<1> QED
  BY <1>1, <1>2, <1>3, <1>4 DEF InGap, Larger, Smaller

\* The end of the gap is where a skipped time is first reached.
LEMMA GapEndIsFirst ==
  ASSUME tz \in TimeZones, NEW k \in Keys, InGap(k)
  PROVE  First(k, tz.trans)
<1>1. Naive(k) \in Int
  BY KeyFacts
<1>2. tz.trans \in Int /\ tz.before \in Int /\ tz.after \in Int
  BY ZoneFacts
<1> QED
  BY <1>1, <1>2 DEF First, InGap, Wall, Offset

LEMMA GapIsNeverShown ==
  ASSUME tz \in TimeZones, NEW k \in Keys, InGap(k), NEW t \in Int
  PROVE  Wall(t) # Naive(k)
<1>1. Naive(k) \in Int
  BY KeyFacts
<1>2. tz.trans \in Int /\ tz.before \in Int /\ tz.after \in Int
  BY ZoneFacts
<1> QED
  BY <1>1, <1>2 DEF InGap, Wall, Offset

-----------------------------------------------------------------------------
(* The steps *)

\* Finding one more instant, of a start that is expanded with it.
LEMMA FoundKeeps ==
  ASSUME ExpansionInv, tz' = tz, NEW k \in Keys, NEW t \in Int, Found(k, t),
         IsClock(k) => First(k, t)
  PROVE  /\ instants' \subseteq [key : Keys, at : Int]
         /\ FoundInv'
         /\ instants \subseteq instants' /\ \E i \in instants' : i.key = k
<1>1. instants' = instants \cup {[key |-> k, at |-> t]}
  BY DEF Found
<1>2. instants' \subseteq [key : Keys, at : Int]
  BY <1>1 DEF ExpansionInv, ExpansionTypeOK
<1>3. ASSUME NEW i \in instants', IsClock(i.key)
      PROVE  First(i.key, i.at)
  BY <1>1, <1>3 DEF ExpansionInv, FoundInv
<1>4. FoundInv'
  BY <1>3 DEF FoundInv, First, Wall, Offset, IsClock, Start, Naive
<1>5. \E i \in instants' : i.key = k
  <2> DEFINE new == [key |-> k, at |-> t]
  <2>1. new \in instants' /\ new.key = k
    BY <1>1
  <2> QED
    BY <2>1
<1> QED
  BY <1>1, <1>2, <1>4, <1>5

\* A start is expanded, or left out for a reason; the others stay as they are.
LEMMA LeftOutKeeps ==
  ASSUME ExpansionInv, tz' = tz, NEW k \in Keys,
         Keys \ (todo' \cup {cur'}) \subseteq (Keys \ (todo \cup {cur})) \cup {k},
         instants \subseteq instants',
         IsClock(k) /\ Qualifies(k) => InGap(k) \/ \E i \in instants' : i.key = k
  PROVE  LeftOutInv'
<1>1. ASSUME NEW m \in Keys \ (todo' \cup {cur'}), IsClock(m), Qualifies(m)
      PROVE  InGap(m) \/ \E i \in instants' : i.key = m
  BY <1>1 DEF ExpansionInv, LeftOutInv
<1> QED
  BY <1>1 DEF LeftOutInv, InGap, IsClock, Start, Qualifies, Naive

LEMMA TakeKeeps ==
  ASSUME ExpansionInv, NEW k \in Turn, Take(k)
  PROVE  /\ k \in Keys /\ cur = NoKey /\ tz' = tz
         /\ todo' \subseteq Keys
         /\ k # NoKey
         /\ cur' = NoKey \/ cur' = k =>
              Keys \ (todo' \cup {cur'}) \subseteq (Keys \ (todo \cup {cur})) \cup {k}
         /\ cur' = k => Keys \ (todo' \cup {cur'}) \subseteq Keys \ (todo \cup {cur})
<1>1. k \in Keys /\ todo \subseteq Keys
  BY DEF Turn, ExpansionInv, ExpansionTypeOK
<1>2. \A m \in Keys : m # NoKey
  BY KeyFacts
<1> QED
  BY <1>1, <1>2 DEF Take

LEMMA FoundStep ==
  ASSUME ExpansionInv, NEW k \in Turn, Take(k), NEW t \in Int, Found(k, t),
         IsClock(k) => First(k, t), UNCHANGED <<cur, lo, hi>>
  PROVE  ExpansionInv'
<1>1. k \in Keys /\ cur = NoKey /\ tz' = tz /\ todo' \subseteq Keys
  BY TakeKeeps
<1>2. Keys \ (todo' \cup {cur'}) \subseteq (Keys \ (todo \cup {cur})) \cup {k}
  BY TakeKeeps, <1>1
<1>3. /\ instants' \subseteq [key : Keys, at : Int] /\ FoundInv'
      /\ instants \subseteq instants' /\ \E i \in instants' : i.key = k
  BY <1>1, FoundKeeps
<1>4. LeftOutInv'
  BY <1>1, <1>2, <1>3, LeftOutKeeps
<1>5. ExpansionTypeOK'
  BY <1>1, <1>3 DEF ExpansionInv, ExpansionTypeOK
<1>6. SearchInv'
  BY <1>1 DEF SearchInv
<1> QED
  BY <1>3, <1>4, <1>5, <1>6 DEF ExpansionInv

LEMMA NoInstantStep ==
  ASSUME ExpansionInv, NEW k \in Turn, Take(k), UNCHANGED <<cur, lo, hi, instants>>,
         IsClock(k) /\ Qualifies(k) => InGap(k)
  PROVE  ExpansionInv'
<1>1. k \in Keys /\ cur = NoKey /\ tz' = tz /\ todo' \subseteq Keys
  BY TakeKeeps
<1>2. Keys \ (todo' \cup {cur'}) \subseteq (Keys \ (todo \cup {cur})) \cup {k}
  BY TakeKeeps, <1>1
<1>3. LeftOutInv'
  BY <1>1, <1>2, LeftOutKeeps
<1>4. ExpansionTypeOK'
  BY <1>1 DEF ExpansionInv, ExpansionTypeOK
<1>5. SearchInv' /\ FoundInv'
  BY <1>1 DEF ExpansionInv, SearchInv, FoundInv, First, Wall, Offset, IsClock, Start, Naive
<1> QED
  BY <1>3, <1>4, <1>5 DEF ExpansionInv

LEMMA SearchStep ==
  ASSUME ExpansionInv, NEW k \in Turn, SearchStart(k)
  PROVE  ExpansionInv'
<1>1. Take(k) /\ ~Roundtrips(Naive(k)) /\ cur' = k /\ instants' = instants
  BY DEF SearchStart
<1>2. k \in Keys /\ cur = NoKey /\ tz' = tz /\ todo' \subseteq Keys /\ tz \in TimeZones
  BY <1>1, TakeKeeps DEF ExpansionInv, ExpansionTypeOK
<1>3. Keys \ (todo' \cup {cur'}) \subseteq Keys \ (todo \cup {cur})
  BY <1>1, TakeKeeps
<1>4. /\ InGap(k) /\ Utc(Naive(k), 1) \in Int /\ Utc(Naive(k), 0) \in Int
      /\ lo' < tz.trans /\ tz.trans <= hi'
  BY <1>1, <1>2, NoRoundtripIsGap DEF SearchStart
<1>5. lo' \in Int /\ hi' \in Int
  BY <1>4 DEF SearchStart, Smaller, Larger
<1>6. ExpansionTypeOK'
  BY <1>1, <1>2, <1>5 DEF ExpansionInv, ExpansionTypeOK
<1>7. SearchInv'
  BY <1>1, <1>2, <1>4 DEF SearchInv, InGap, Naive, Start
<1>8. FoundInv'
  BY <1>1, <1>2 DEF ExpansionInv, FoundInv, First, Wall, Offset, IsClock, Start, Naive
<1>9. LeftOutInv'
  BY <1>1, <1>2, <1>3 DEF ExpansionInv, LeftOutInv, InGap, IsClock, Start, Qualifies, Naive
<1> QED
  BY <1>6, <1>7, <1>8, <1>9 DEF ExpansionInv

\* The change of the offset stays between the bounds: hi is behind it, so an
\* instant has hi's offset only if it is behind it too, or the offsets agree,
\* which they do not around a gap.
LEMMA HalveStep ==
  ASSUME ExpansionInv, Halve
  PROVE  ExpansionInv'
<1> DEFINE mid == (lo + hi) \div 2
<1>1. UNCHANGED <<tz, todo, cur, instants>> /\ cur # NoKey /\ hi - lo > 1
  BY DEF Halve
<1>2. cur \in Keys /\ lo \in Int /\ hi \in Int /\ tz \in TimeZones
  BY <1>1 DEF ExpansionInv, ExpansionTypeOK
<1>3. InGap(cur) /\ lo < tz.trans /\ tz.trans <= hi
  BY <1>1 DEF ExpansionInv, SearchInv
<1>4. tz.trans \in Int /\ tz.before \in Int /\ tz.after \in Int /\ Naive(cur) \in Int
  BY <1>2, ZoneFacts, KeyFacts
<1>5. mid \in Int
  BY <1>2
<1>6. tz.before # tz.after
  BY <1>3, <1>4 DEF InGap
<1>7. \/ Offset(mid) = Offset(hi) /\ hi' = mid /\ lo' = lo
      \/ Offset(mid) # Offset(hi) /\ lo' = mid /\ hi' = hi
  BY DEF Halve
<1>8. lo' \in Int /\ hi' \in Int /\ lo' < tz.trans /\ tz.trans <= hi'
  BY <1>2, <1>3, <1>4, <1>5, <1>6, <1>7 DEF Offset
<1>9. ExpansionTypeOK'
  BY <1>1, <1>8 DEF ExpansionInv, ExpansionTypeOK
<1>10. SearchInv'
  BY <1>1, <1>3, <1>8 DEF SearchInv, InGap, Naive, Start
<1>11. FoundInv' /\ LeftOutInv'
  BY <1>1 DEF ExpansionInv, FoundInv, LeftOutInv, First, Wall, Offset, InGap, IsClock, Start,
              Qualifies, Naive
<1> QED
  BY <1>9, <1>10, <1>11 DEF ExpansionInv

LEMMA EndSearchStep ==
  ASSUME ExpansionInv, EndSearch
  PROVE  ExpansionInv'
<1>1. tz' = tz /\ todo' = todo /\ cur # NoKey /\ hi - lo <= 1 /\ Found(cur, hi)
      /\ cur' = NoKey /\ lo' = 0 /\ hi' = 0
  BY DEF EndSearch
<1>2. cur \in Keys /\ lo \in Int /\ hi \in Int /\ tz \in TimeZones
  BY <1>1 DEF ExpansionInv, ExpansionTypeOK
<1>3. InGap(cur) /\ lo < tz.trans /\ tz.trans <= hi
  BY <1>1 DEF ExpansionInv, SearchInv
<1>4. hi = tz.trans
  BY <1>1, <1>2, <1>3, ZoneFacts
<1>5. First(cur, hi)
  BY <1>2, <1>3, <1>4, GapEndIsFirst
<1>6. /\ instants' \subseteq [key : Keys, at : Int] /\ FoundInv'
      /\ instants \subseteq instants' /\ \E i \in instants' : i.key = cur
  BY <1>1, <1>2, <1>5, FoundKeeps
<1>7. Keys \ (todo' \cup {cur'}) \subseteq (Keys \ (todo \cup {cur})) \cup {cur}
  BY <1>1
<1>8. LeftOutInv'
  BY <1>1, <1>2, <1>6, <1>7, LeftOutKeeps
<1>9. ExpansionTypeOK' /\ SearchInv'
  BY <1>1, <1>2, <1>6 DEF ExpansionInv, ExpansionTypeOK, SearchInv
<1> QED
  BY <1>6, <1>8, <1>9 DEF ExpansionInv

LEMMA StartStep ==
  ASSUME ExpansionInv, NEW k \in Turn,
         NoStart(k) \/ SolarStart(k) \/ ClockStart(k) \/ SkippedStart(k) \/ SearchStart(k)
  PROVE  ExpansionInv'
<1>1. Take(k)
  BY DEF NoStart, SolarStart, ClockStart, SkippedStart, SearchStart
<1>2. k \in Keys /\ tz \in TimeZones
  BY <1>1, TakeKeeps DEF ExpansionInv, ExpansionTypeOK
<1>3. CASE NoStart(k)
  BY <1>1, <1>3, NoInstantStep DEF NoStart
<1>4. CASE SolarStart(k)
  <2>1. PICK t \in Sun[k.day] : Found(k, t + Start(k).at)
    BY <1>4 DEF SolarStart
  <2>2. t \in Int /\ Start(k).at \in Int
    BY <1>2, KeyFacts, CalendarAssumption DEF StartRec
  <2> QED
    BY <1>1, <1>4, <2>1, <2>2, FoundStep DEF SolarStart
<1>5. CASE ClockStart(k)
  <2>1. Utc(Naive(k), 0) \in Int /\ First(k, Utc(Naive(k), 0))
    BY <1>2, <1>5, RoundtripIsFirst DEF ClockStart
  <2> QED
    BY <1>1, <1>5, <2>1, FoundStep DEF ClockStart
<1>6. CASE SkippedStart(k)
  <2>1. InGap(k)
    BY <1>2, <1>6, NoRoundtripIsGap DEF SkippedStart
  <2> QED
    BY <1>1, <1>6, <2>1, NoInstantStep DEF SkippedStart
<1>7. CASE SearchStart(k)
  BY <1>7, SearchStep
<1> QED
  BY <1>3, <1>4, <1>5, <1>6, <1>7

LEMMA ExpansionBegins ==
  ASSUME ExpansionInit
  PROVE  ExpansionInv
<1>1. ExpansionTypeOK
  BY DEF ExpansionInit, ExpansionTypeOK
<1>2. SearchInv /\ FoundInv /\ LeftOutInv
  BY DEF ExpansionInit, SearchInv, FoundInv, LeftOutInv
<1> QED
  BY <1>1, <1>2 DEF ExpansionInv

LEMMA ExpansionStep ==
  ASSUME ExpansionInv, [Expand]_expansion
  PROVE  ExpansionInv'
<1>1. CASE Expand
  BY <1>1, StartStep, HalveStep, EndSearchStep DEF Expand
<1>2. CASE UNCHANGED expansion
  BY <1>2 DEF expansion, ExpansionInv, ExpansionTypeOK, SearchInv, FoundInv, LeftOutInv, First,
              Wall, Offset, InGap, IsClock, Start, Qualifies, Naive
<1> QED
  BY <1>1, <1>2

LEMMA FirstIsReading ==
  ASSUME ExpansionInv
  PROVE  FirstReading
<1>1. Instants \subseteq Int /\ tz \in TimeZones
  BY CalendarAssumption DEF ExpansionInv, ExpansionTypeOK
<1>2. ASSUME NEW i \in ClockInstants
      PROVE  /\ Wall(i.at) >= Naive(i.key)
             /\ \A t \in Instants : t < i.at => Wall(t) < Naive(i.key)
  BY <1>1 DEF ClockInstants, ExpansionInv, FoundInv, First
<1>3. ASSUME NEW k \in Keys \ (todo \cup {cur}), IsClock(k), Qualifies(k),
             \A i \in instants : i.key # k, NEW t \in Instants
      PROVE  Wall(t) # Naive(k)
  <2>1. InGap(k)
    BY <1>3 DEF ExpansionInv, LeftOutInv
  <2> QED
    BY <1>1, <2>1, GapIsNeverShown
<1> QED
  BY <1>2, <1>3 DEF FirstReading

-----------------------------------------------------------------------------
(* The window                                                              *)
(*                                                                         *)
(* A start's instant lies within a day of its own, whichever offset it is  *)
(* read with, so no day beyond the padded ones has a start in the window.  *)

Near(day, t) ==
  \A offset \in {tz.before, tz.after} :
    (day - 1) * DayLength <= t + offset /\ t + offset < (day + 2) * DayLength

\* Only clock starts are searched for; the sun's are near their day, and there
\* are finitely many of all.
SolarInv ==
  /\ cur # NoKey => cur \in Keys /\ IsClock(cur)
  /\ \A i \in instants : ~IsClock(i.key) => Near(i.key.day, i.at)
  /\ IsFiniteSet(instants)

LEMMA Floor ==
  ASSUME NEW a \in Int, NEW d \in Nat \ {0}, NEW q \in Int
  PROVE  /\ a \div d \in Int /\ q * d \in Int
         /\ q * d <= a => q <= a \div d
         /\ a < q * d => a \div d < q
<1> DEFINE n == a \div d
<1>1. n \in Int /\ n * d <= a /\ a < (n + 1) * d /\ q * d \in Int
  <2>1. n \in Int /\ a % d \in 0 .. (d - 1) /\ a = n * d + (a % d)
    OBVIOUS
  <2>2. n * d \in Int /\ (n + 1) * d = n * d + d /\ q * d \in Int
    OBVIOUS
  <2> HIDE DEF n
  <2> QED
    BY <2>1, <2>2
<1> HIDE DEF n
<1>2. \A x, y \in Int : x <= y => x * d <= y * d
  OBVIOUS
<1>3. ASSUME q * d <= a, ~(q <= n) PROVE FALSE
  <2>1. n + 1 \in Int /\ n + 1 <= q
    BY <1>1, <1>3
  <2>2. (n + 1) * d <= q * d /\ (n + 1) * d \in Int
    BY <1>1, <1>2, <2>1, ProductIsInt
  <2> QED
    BY <1>1, <1>3, <2>2
<1>4. ASSUME a < q * d, ~(n < q) PROVE FALSE
  <2>1. q <= n
    BY <1>1, <1>4
  <2>2. q * d <= n * d /\ n * d \in Int
    BY <1>1, <1>2, <2>1, ProductIsInt
  <2> QED
    BY <1>1, <1>4, <2>2
<1> QED
  BY <1>1, <1>3, <1>4 DEF n

LEMMA KeyStart ==
  ASSUME NEW k \in Keys
  PROVE  /\ k.day \in Int /\ Naive(k) = k.day * DayLength + Start(k).at
         /\ IsClock(k) => Start(k).at \in 0 .. (DayLength - 1)
         /\ ~IsClock(k) => \A t \in Sun[k.day] : \A z \in TimeZones : \A offset \in {z.before, z.after} :
              /\ (k.day - 1) * DayLength <= t + Start(k).at + offset
              /\ t + Start(k).at + offset < (k.day + 2) * DayLength
<1>1. PICK r \in Rules : k \in [rule : {r}, day : Days, start : DOMAIN RuleOf[r].starts]
  BY DEF Keys
<1>2. k.rule = r /\ k.day \in Days /\ k.start \in DOMAIN RuleOf[r].starts
  BY <1>1
<1>3. Start(k) = RuleOf[r].starts[k.start]
  BY <1>2 DEF Start
<1>4. k.day \in Int
  BY <1>2, CalendarAssumption
<1>5. LET s == RuleOf[r].starts[k.start]
      IN  IF s.kind = "clock" THEN s.at \in 0 .. (DayLength - 1)
          ELSE \A t \in Sun[k.day] : \A z \in TimeZones : \A offset \in {z.before, z.after} :
                 /\ (k.day - 1) * DayLength <= t + s.at + offset
                 /\ t + s.at + offset < (k.day + 2) * DayLength
  BY <1>2, NearAssumption
<1> QED
  BY <1>3, <1>4, <1>5 DEF IsClock, Naive

\* The first reading of a wall-clock start is near its day.
LEMMA ClockIsNear ==
  ASSUME tz \in TimeZones, NEW k \in Keys, IsClock(k), NEW t \in Int, First(k, t)
  PROVE  Near(k.day, t)
<1> DEFINE n == Naive(k)
           s == Start(k).at
           m == k.day * DayLength
<1>1. /\ tz.trans \in Int /\ tz.before \in Int /\ tz.after \in Int
      /\ tz.after - tz.before \in -DayLength .. DayLength /\ DayLength \in Nat \ {0}
  BY ZoneFacts, NearAssumption, CalendarAssumption
<1>2. k.day \in Int /\ n = m + s /\ s \in 0 .. (DayLength - 1)
  BY KeyStart
<1>3. /\ m \in Int /\ (k.day - 1) * DayLength = m - DayLength
      /\ (k.day + 2) * DayLength = m + 2 * DayLength
  <2>1. \A a \in Int, b \in Nat : a * b \in Int /\ (a - 1) * b = a * b - b /\ (a + 2) * b = a * b + 2 * b
    OBVIOUS
  <2> QED
    BY <1>1, <1>2, <2>1
<1> HIDE DEF n, s, m
<1>4. t + Offset(t) >= n /\ (t - 1) + Offset(t - 1) < n
  <2>1. t - 1 \in Int /\ t - 1 < t
    OBVIOUS
  <2> QED
    BY <2>1 DEF First, Wall, n
<1>5. Offset(t) \in {tz.before, tz.after} /\ Offset(t - 1) \in {tz.before, tz.after}
  BY DEF Offset
<1>6. ASSUME NEW offset \in {tz.before, tz.after}
      PROVE  m - DayLength <= t + offset /\ t + offset < m + 2 * DayLength
  BY <1>1, <1>2, <1>3, <1>4, <1>5
<1> QED
  BY <1>3, <1>6 DEF Near

LEMMA SolarStep ==
  ASSUME ExpansionInv, SolarInv, [Expand]_expansion
  PROVE  SolarInv'
<1>0. tz \in TimeZones /\ todo \subseteq Keys
  BY DEF ExpansionInv, ExpansionTypeOK
<1>1. ASSUME NEW k \in Keys, NEW t, Found(k, t), UNCHANGED tz,
             ~IsClock(k) => Near(k.day, t)
      PROVE  /\ \A i \in instants' : ~IsClock(i.key) => Near(i.key.day, i.at)'
             /\ IsFiniteSet(instants')
  <2>1. IsFiniteSet(instants')
    BY <1>1, FS_AddElement DEF Found, SolarInv
  <2>2. \A d, u : Near(d, u)' = Near(d, u)
    BY <1>1 DEF Near
  <2> QED
    BY <1>1, <2>1, <2>2 DEF Found, SolarInv
<1>2. \A k : IsClock(k)' = IsClock(k)
  BY DEF IsClock, Start
<1>3. ASSUME NEW k \in Turn, SolarStart(k) \/ ClockStart(k)
      PROVE  SolarInv'
  <2>1. k \in Keys /\ UNCHANGED <<cur, tz>>
    BY <1>0, <1>3 DEF Turn, SolarStart, ClockStart, Take
  <2>2. PICK t : Found(k, t) /\ (~IsClock(k) => Near(k.day, t))
    <3>1. CASE ClockStart(k)
      BY <3>1 DEF ClockStart
    <3>2. CASE SolarStart(k)
      <4>1. PICK t \in Sun[k.day] : Found(k, t + Start(k).at)
        BY <3>2 DEF SolarStart
      <4>2. ~IsClock(k) /\ Near(k.day, t + Start(k).at)
        BY <1>0, <2>1, <3>2, KeyStart DEF SolarStart, Near
      <4> QED
        BY <4>1, <4>2
    <3> QED
      BY <1>3, <3>1, <3>2
  <2> QED
    BY <1>1, <1>2, <2>1, <2>2 DEF SolarInv
<1>4. CASE EndSearch
  <2>1. cur \in Keys /\ IsClock(cur) /\ Found(cur, hi) /\ UNCHANGED tz /\ cur' = NoKey
    BY <1>4 DEF EndSearch, SolarInv
  <2> QED
    BY <1>1, <1>2, <2>1 DEF SolarInv
<1>5. ASSUME NEW k \in Turn, SearchStart(k)
      PROVE  SolarInv'
  <2>1. k \in Keys /\ IsClock(k) /\ cur' = k /\ UNCHANGED <<instants, tz>>
    BY <1>0, <1>5 DEF Turn, SearchStart, Take
  <2> QED
    BY <1>2, <2>1 DEF SolarInv, Near
<1>6. CASE UNCHANGED <<cur, tz, instants>>
  BY <1>2, <1>6 DEF SolarInv, Near
<1>7. ASSUME NEW k \in Turn, NoStart(k) \/ SkippedStart(k)
      PROVE  UNCHANGED <<cur, tz, instants>>
  BY <1>7 DEF NoStart, SkippedStart, Take
<1>8. CASE Halve
  BY <1>6, <1>8 DEF Halve
<1> QED
  BY <1>3, <1>4, <1>5, <1>6, <1>7, <1>8 DEF Expand, expansion

LEMMA EveryInstantIsNear ==
  ASSUME ExpansionInv, SolarInv, NEW i \in instants
  PROVE  Near(i.key.day, i.at) /\ i.key.day \in Int /\ i.at \in Int
<1>1. tz \in TimeZones /\ i.key \in Keys /\ i.at \in Int
  BY DEF ExpansionInv, ExpansionTypeOK
<1>2. CASE IsClock(i.key)
  BY <1>1, <1>2, ClockIsNear, KeyStart DEF ExpansionInv, FoundInv
<1>3. CASE ~IsClock(i.key)
  BY <1>1, <1>3, KeyStart DEF SolarInv
<1> QED
  BY <1>2, <1>3

\* The padded days are all the days with a start in the window.
LEMMA WindowComplete ==
  ASSUME ExpansionInv, SolarInv, NEW r, NEW from \in Int, NEW to \in Int
  PROVE  OccurrencesBetween(r, from, to) =
           {i.at : i \in {j \in instants : j.key.rule = r /\ from <= j.at /\ j.at < to}}
<1>1. ASSUME NEW j \in instants, from <= j.at, j.at < to
      PROVE  j.key.day \in PaddedDays(from, to)
  <2>1. tz.before \in Int /\ tz.after \in Int /\ DayLength \in Nat \ {0}
    BY ZoneFacts, CalendarAssumption DEF ExpansionInv, ExpansionTypeOK
  <2>2. Near(j.key.day, j.at) /\ j.key.day \in Int /\ j.at \in Int
    BY EveryInstantIsNear
  <2> DEFINE d == j.key.day
  <2>3. Offset(from) \in {tz.before, tz.after} /\ Offset(to) \in {tz.before, tz.after}
    BY DEF Offset
  <2>4. Wall(from) \in Int /\ Wall(to) \in Int /\ d - 1 \in Int /\ d + 2 \in Int
    BY <2>1, <2>2, <2>3 DEF Wall
  <2>5. (d - 1) * DayLength \in Int /\ (d + 2) * DayLength \in Int
    BY <2>1, <2>4, ProductIsInt
  <2>6. (d - 1) * DayLength <= Wall(to)
    <3>1. (d - 1) * DayLength <= j.at + Offset(to)
      BY <2>2, <2>3 DEF Near
    <3> QED
      BY <1>1, <2>1, <2>2, <2>3, <2>5, <3>1 DEF Wall
  <2>7. Wall(from) < (d + 2) * DayLength
    <3>1. j.at + Offset(from) < (d + 2) * DayLength
      BY <2>2, <2>3 DEF Near
    <3> QED
      BY <1>1, <2>1, <2>2, <2>3, <2>5, <3>1 DEF Wall
  <2>8. LocalDay(to) \in Int /\ d - 1 <= LocalDay(to)
    BY <2>1, <2>4, <2>6, Floor DEF LocalDay
  <2>9. LocalDay(from) \in Int /\ LocalDay(from) < d + 2
    BY <2>1, <2>4, <2>7, Floor DEF LocalDay
  <2> QED
    BY <2>2, <2>8, <2>9 DEF PaddedDays
<1> QED
  BY <1>1 DEF OccurrencesBetween

-----------------------------------------------------------------------------
(* The theorems *)

\* The inductive invariant.
THEOREM ExpansionInvariant == ExpansionSpec => []ExpansionInv
<1>1. ExpansionInit => ExpansionInv
  BY ExpansionBegins
<1>2. ExpansionInv /\ [Expand]_expansion => ExpansionInv'
  BY ExpansionStep
<1> QED
  BY <1>1, <1>2, PTL DEF ExpansionSpec

\* Every instant that is found is a whole number and belongs to a start of a
\* rule on one of the days, whatever the zone and the rules.
THEOREM ExpansionTypeCorrect == ExpansionSpec => []ExpansionTypeOK
<1>1. ExpansionInv => ExpansionTypeOK
  BY DEF ExpansionInv
<1> QED
  BY <1>1, ExpansionInvariant, PTL

\* A repeated wall-clock time runs at its first instance, a skipped one at the
\* end of the gap or, under the skip policy, not at all, and every other at
\* the one instant that shows it.
THEOREM StartsAtFirstReading == ExpansionSpec => []FirstReading
<1>1. ExpansionInv => FirstReading
  BY FirstIsReading
<1> QED
  BY <1>1, ExpansionInvariant, PTL
=============================================================================
