---------------------------- MODULE MCLaunchLoop ----------------------------
(* The launch loop on a calendar of short days: a day has six minutes, the   *)
(* clock of a zone jumps by two of them, and a run may be two minutes late.  *)
EXTENDS LaunchLoop

MCZones == {[trans |-> 2, before |-> 0, after |-> 3],
            [trans |-> 4, before |-> 0, after |-> -2]}
MCDays == -1 .. 4
MCCalendar == [d \in MCDays |-> [weekday |-> d % 7, dom |-> d + 1, month |-> 1]]
MCSun == [d \in MCDays |-> IF d = 4 THEN {} ELSE {5 * d + 1}]
Rule(kind, weekdays, shift, starts) ==
  [kind |-> kind, weekdays |-> weekdays, anchor |-> 0, interval |-> 2, from |-> -9,
   until |-> 9, months |-> {1}, shift |-> shift, starts |-> starts]
Clock(t) == [kind |-> "clock", at |-> t]
Solar(t) == [kind |-> "sun", at |-> t]
MCRules == [r \in 1 .. 2 |->
  CASE r = 1 -> Rule("weekly", {0, 1}, TRUE, <<Clock(3)>>)
    [] r = 2 -> Rule("odd", {}, FALSE, <<Clock(2), Solar(1)>>)]
MCInstants == -6 .. 28

MCInitial == [p \in {1, 2} |-> [rule |-> p, enabled |-> TRUE]]
MCEdits == {[rule |-> 2, enabled |-> TRUE], [rule |-> 1, enabled |-> FALSE]}
MCBlock == [p \in Programs |-> 2]
MCPriority == [p \in Programs |-> 100]

\* Two programs with one schedule, and priorities against the order of their ids.
MCSameSchedule == [p \in {1, 2} |-> [rule |-> 1, enabled |-> TRUE]]
MCPriorityReversed == [p \in Programs |-> 10 - p]

Clear == [avail |-> TRUE, delay |-> FALSE, rain |-> "dry", temp |-> "warm", on |-> FALSE]
MCObservations ==
  {Clear, [Clear EXCEPT !.on = TRUE], [Clear EXCEPT !.rain = "wet"],
   [Clear EXCEPT !.delay = TRUE, !.temp = "unknown"],
   [Clear EXCEPT !.temp = "unknown"], [Clear EXCEPT !.temp = "cold", !.on = TRUE],
   [Clear EXCEPT !.avail = FALSE, !.rain = "wet"]}
=============================================================================
