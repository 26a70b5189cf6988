------------------------------- MODULE MCCard -------------------------------
(* Card on the shipped presets with short chains, and on the legal         *)
(* pipelines whose order is unusual: a test before its only agent station, *)
(* human stations first and last, an agent station not named build.        *)
EXTENDS Card

Agent(n) == [kind |-> "agent", build |-> FALSE, legs |-> n]
Build(n) == [kind |-> "agent", build |-> TRUE, legs |-> n]
Test == [kind |-> "test", build |-> FALSE, legs |-> 0]
Human1 == [kind |-> "human", build |-> FALSE, legs |-> 0]
Land == [kind |-> "land", build |-> FALSE, legs |-> 0]

MCPipelines ==
  { << Agent(1), Build(2), Agent(2), Test, Land >>,
    << Build(3), Test, Land >>,
    << Build(2) >>,
    << Test, Agent(2), Land >>,
    << Human1, Agent(2), Test, Agent(1), Human1 >>,
    << Agent(1), Agent(1), Test, Build(1), Land >> }

MCGatePipelines == { << Build(3), Test, Land >>, << Human1, Agent(3), Land >> }
=============================================================================
