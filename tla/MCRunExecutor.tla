--------------------------- MODULE MCRunExecutor ---------------------------
(* The executor on small instances.  One time unit stands for the gap, the  *)
(* timeouts and the retry delays; a zone waters for two units.              *)
EXTENDS RunExecutor, TLC

CONSTANTS z1, z2, A, B

MCZones == {z1, z2}

Step(z, soak, planned) == [zone |-> z, dur |-> 2, soak |-> soak, planned |-> planned]

\* Two zones, one after the other.
TwoZones == [requested |-> 0, steps |-> <<Step(z1, FALSE, 0), Step(z2, FALSE, 3)>>]
\* One zone in two cycles with a soak between them.
Soaking  == [requested |-> 0, steps |-> <<Step(z1, FALSE, 0), Step(z1, TRUE, 5)>>]
\* A short run later on, and one that resolves to nothing.
OneZone  == [requested |-> 3, steps |-> <<Step(z2, FALSE, 3)>>]
NoSteps  == [requested |-> 3, steps |-> <<>>]

PlansTwoZones == (A :> TwoZones @@ B :> NoSteps)
PlansSoaking  == (A :> Soaking @@ B :> OneZone)
Delays        == <<1, 1>>

W(r, t, d) == [rain |-> r, temp |-> t, delay |-> d]
Fair       == W("dry", "warm", FALSE)
FairOnly   == {Fair}
RainOrFrost == {Fair, W("wet", "cool", FALSE), W("dry", "cold", TRUE)}
AllWeather == {Fair, W("wet", "warm", FALSE), W("dry", "cold", FALSE),
               W("dry", "cool", FALSE), W("dry", "unknown", FALSE),
               W("dry", "warm", TRUE)}
=============================================================================
