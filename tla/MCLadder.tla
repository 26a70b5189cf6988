------------------------------ MODULE MCLadder ------------------------------
EXTENDS Ladder

MCNames == [claude |-> {"work"}, codex |-> {}, agy |-> {}, grok |-> {}]
OnlyDefaults == [MCNames EXCEPT !.claude = {}]
MCDefault == [claude |-> "fable", codex |-> "none", agy |-> "none", grok |-> "none"]
MCCredits == <<"claude", "fable">>
MCFirst == Rung("claude", "default", "none", "always")

Claude(model, when) == Rung("claude", "default", model, when)
Agent(agent, when) == Rung(agent, "default", "none", when)
Work == Rung("claude", "work", "none", "always")
MCDefaultLadder == <<Claude("fable", "always"), Claude("opus", "always"), Agent("codex", "always"), Agent("agy", "always")>>
\* With a metered last resort; one that prefers the second login, then Codex while it is fresh, and
\* keeps Opus for the end; one that downshifts and climbs.
WithGrok == <<Claude("opus", "always"), Agent("codex", "always"), Agent("grok", "walled-only")>>
WorkFirst == <<Work, Agent("codex", "below"), Claude("opus", "walled-only")>>
Shifts == <<Claude("opus", "walled-only"), Agent("codex", "always"), Claude("fable", "walled-only")>>
\* A model nobody has, and a name twice.
Mistyped == <<Claude("opux", "always"), Agent("codex", "always"), Claude("opus", "always"), Agent("codex", "below")>>

NoReserve == [a \in DOMAIN MCNames |-> 0]
File(l, order, spend, climb, reserve) ==
  [ladder |-> l, order |-> order, may_spend |-> spend, climb_back |-> climb, reserve |-> reserve]
MCFiles ==
  { File(WithGrok, <<"claude", "codex", "grok", "agy">>, FALSE, "never", NoReserve),
    File(<<>>, <<>>, FALSE, "next-handoff", [NoReserve EXCEPT !["codex"] = 10]) }
OnlyDefault == {File(MCDefaultLadder, HandoffAgents, FALSE, "next-handoff", NoReserve)}
\* The second login stands around the first rung already.
Around == <<Claude("opus", "always"), Rung("claude", "work", "opus", "walled-only")>>
MCSaves == {WorkFirst, Shifts, Around, <<Work>>}
MCTypes == {Mistyped}
MCRungs == {Work}
None == {}
MCOrders == {<<"codex", "claude", "agy">>}

Reading(five, seven, buckets, avail) == [five |-> five, seven |-> seven, buckets |-> buckets, avail |-> avail]
Window(pct, resets) == [pct |-> pct, resets |-> resets]
Bucket(kind, model, pct, resets) ==
  [kind |-> kind, model |-> model, pct |-> pct, resets |-> resets, active |-> FALSE]
\* Two models with windows of their own; the week nearly used; out.
MCReadings ==
  LET models == Reading(Window(10, 2), Window(20, 3),
                        {Bucket("weekly_scoped", "fable", 60, 3), Bucket("weekly_scoped", "opus", 40, 2)}, "unknown")
      week == Reading(Window(10, 2), Window(95, 3), {}, "unknown")
      out == Reading(Window(100, 2), Window(50, 3), {}, "no")
  IN [claude |-> {models, out}, codex |-> {week}, agy |-> {}, grok |-> {}]
=============================================================================
