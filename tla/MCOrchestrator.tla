--------------------------- MODULE MCOrchestrator ---------------------------
EXTENDS Orchestrator

Agent(n) == [kind |-> "agent", build |-> FALSE, legs |-> n]
Build(n) == [kind |-> "agent", build |-> TRUE, legs |-> n]
Test == [kind |-> "test", build |-> FALSE, legs |-> 0]
LandStation == [kind |-> "land", build |-> FALSE, legs |-> 0]

BuildTest == { << Build(2), Test >> }
BuildOnly == { << Build(2) >> }
BuildTestLand == { << Build(2), Test, LandStation >> }
OneOrThree == BuildOnly \cup { << Build(1), Test, LandStation >> }

\* Two questions in one run. A card of one station has one driver, any fault and a human; a card of
\* three has two drivers that compete for it, and twice one of them or the machine dies.
Contested == Len(card.pipeline) = 3
OneTrouble ==
  IF Contested THEN presses' = 0 /\ (faults' # faults => HostDies \/ \E d \in Drivers : DriverDies(d))
  ELSE faults' < 2 /\ \A d \in Drivers \ {Board} : driver'[d] = driver[d] \/ HostDies
=============================================================================
