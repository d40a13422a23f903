----------------------------- MODULE MCPlanner -----------------------------
(* The planner on small inputs.  A minute is two units, the gap half a       *)
(* minute; a local day has twelve minutes, a command at most five.           *)
EXTENDS Planner, TLC

Zone(z, exact, max, soak, offset) ==
  [zone |-> z, enabled |-> TRUE, offset |-> offset, exact |-> exact, clamp |-> TRUE,
   max |-> max, soak |-> soak]

\* Exact runtimes in thirds of a minute.
Plain    == Zone("z1", 6, 0, 0, 0)                          \* two minutes
Cycled   == Zone("z2", 12, 2, 2, 0)                         \* two and two
Uneven   == Zone("z1", 14, 2, 1, 0)                         \* two, two and one
Later    == Zone("z3", 3, 0, 0, 10)                         \* five minutes later
TooLong  == Zone("z3", 24, 0, 0, 0)                         \* eight: cut to five
Sliver   == Zone("z1", 1, 0, 0, 0)                          \* a third, made one
Tiny     == [Sliver EXCEPT !.clamp = FALSE]                 \* a third, skipped
Off      == [Plain EXCEPT !.enabled = FALSE]
Quick    == Zone("z1", 12, 1, 0, 0)                         \* four ones without a soak

Programs == {<<Plain>>, <<Cycled, Uneven>>, <<Uneven, Later>>, <<Later, Cycled>>,
             <<TooLong, Sliver>>, <<Tiny, Off>>, <<Cycled, Quick>>}

Always   == [policy |-> "none", from |-> 0, to |-> 0]
Windows  == {Always} \cup
            [policy : Policies, from : {2}, to : {11}] \cup
            [policy : Policies, from : {20}, to : {7}] \cup
            [policy : {"truncate_last"}, from : {8}, to : {8}]

Occ(zones, start, priority, window, skipLate) ==
  [program |-> "enabled", manual |-> FALSE, start |-> start, priority |-> priority,
   created |-> 0, steps |-> zones, skipLate |-> skipLate, window |-> window]

Firsts  == {Occ(s, 2, 1, w, FALSE) : s \in Programs, w \in Windows}
Seconds == {Occ(s, t, 0, w, l) : s \in Programs, t \in {2, 5}, w \in Windows, l \in BOOLEAN}
Thirds  == {Occ(<<Plain>>, 4, 0, Always, TRUE), Occ(<<Sliver>>, 0, 1, Always, FALSE)}
           \cup {[Occ(<<Plain>>, 2, 0, Always, FALSE) EXCEPT !.program = p, !.manual = m] :
                   p \in {"gone", "disabled"}, m \in BOOLEAN}

Idle == Occ(<<>>, 0, 0, Always, FALSE)

MCInputs == {<<a, b, Idle>> : a \in Firsts, b \in Seconds}
            \cup {<<a, b, c>> : a \in {f \in Firsts : f.window.from # 20},
                                b \in {s \in Seconds : s.window = Always}, c \in Thirds}
            \cup {<<Occ(s, t, 0, w, TRUE), Idle, Idle>> :
                    s \in Programs \cup {<<Later>>}, t \in {0, 2}, w \in Windows}
=============================================================================
