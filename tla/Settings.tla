------------------------------- MODULE Settings -------------------------------
(***************************************************************************)
(* What a terminal is told to do at its limit: preferences.json with its   *)
(* two spellings of one wish, the ladder of rungs and the older order of   *)
(* agents (preferences.mjs), accounts.json (accounts.mjs), and the copy of *)
(* both spellings a terminal takes when it starts (attach.mjs).            *)
(*                                                                         *)
(* The board, the `leg ladder' and `leg accounts' commands, a text editor  *)
(* and an older Leg write them, each when it likes.                        *)
(***************************************************************************)
EXTENDS Subsequences

CONSTANTS
  Names,         \* the names of the extra accounts, for each agent
  Closed,        \* the agents whose list of models is closed
  Models,        \* the models Leg knows of
  DefaultLadder, \* the ladder of a fresh install
  FirstFiles,    \* preferences.json at the beginning: one of these
  Saves,         \* the ladders a human saves on the board, or for a terminal
  Types,         \* the ladders a human types into the file
  Orders,        \* the orders of agents a human or an older Leg saves
  Rungs,         \* the rungs given to `leg ladder set'
  MaxEvents

HandoffAgents == <<"claude", "codex", "agy">>
AllHandoffAgents == Append(HandoffAgents, "grok")

ASSUME SettingsAssumption ==
  /\ DOMAIN Names = ToSet(AllHandoffAgents) /\ Closed \subseteq DOMAIN Names
  /\ \A a \in DOMAIN Names : IsFiniteSet(Names[a]) /\ "default" \notin Names[a]

VARIABLES
  accounts,      \* accounts.json: the accounts of each agent, "default" first
  file,          \* preferences.json: ladder, order (<<>> if the key is not there), may_spend, climb_back, reserve
  cmd,           \* a `leg ladder' command: the ladder it has read, or <<>>
  start,         \* attach: "none", "read" the preferences, "created" the record, "runs"
  copy,          \* the preferences it read
  rec,           \* the terminal's record: [ladder, order]
  given,         \* the ladder last given to the terminal, by its start or by the board
  events

quiet == <<accounts, file, cmd, start, copy, rec, given>>
settings == <<quiet, events>>

Rung(agent, account, model, when) == [agent |-> agent, account |-> account, model |-> model, when |-> when]
Key(r) == <<r.agent, r.account, r.model>>

-----------------------------------------------------------------------------
(* The two spellings.                                                      *)

validHandoffOrder(o) ==
  \/ Len(o) = 3 /\ ToSet(o) = ToSet(HandoffAgents)
  \/ Len(o) = 4 /\ ToSet(o) = ToSet(AllHandoffAgents)

normalizeHandoffOrder(o) == IF validHandoffOrder(o) THEN o ELSE HandoffAgents

\* A rung Leg can read: its agent known, its account one of this machine, its model possible.
ValidRung(r) ==
  /\ r.agent \in ToSet(AllHandoffAgents)
  /\ r.account \in ToSet(accounts[r.agent])
  /\ r.model = "none" \/ r.agent \notin Closed \/ r.model \in Models

\* Each rung once, where it comes first.
Distinct(l) == Kept(l, {i \in DOMAIN l : \A j \in 1..(i - 1) : Key(l[j]) # Key(l[i])})

Valid(l) == Kept(l, {i \in DOMAIN l : ValidRung(l[i])})

\* requireHandoffLadder: what a save is checked with.
validHandoffLadder(l) == l # <<>> /\ Distinct(Valid(l)) = l

\* salvageHandoffLadder: one bad rung is one bad rung.
salvage(l) == Distinct(Valid(l))

ladderFromOrder(o) ==
  LET order == normalizeHandoffOrder(o)
  IN [i \in DOMAIN order |-> Rung(order[i], "default", "none", "always")]

\* The distinct agents of a ladder, and after them those it does not name.
orderFromLadder(l) ==
  LET agents == [i \in DOMAIN l |-> l[i].agent]
      wanted == IF "grok" \in ToSet(agents) THEN AllHandoffAgents ELSE HandoffAgents
  IN Kept(agents, {i \in DOMAIN l : \A j \in 1..(i - 1) : agents[j] # agents[i]})
       \o Kept(wanted, {i \in DOMAIN wanted : wanted[i] \notin ToSet(agents)})

IsPreferences(f) ==
  /\ DOMAIN f = {"ladder", "order", "may_spend", "climb_back", "reserve"}
  /\ IsSequence(f.ladder) /\ IsSequence(f.order) /\ f.may_spend \in BOOLEAN

\* The default ladder names the agents of the default order, on their own logins.
ASSUME LaddersAssumption ==
  /\ IsSequence(DefaultLadder) /\ DefaultLadder # <<>> /\ orderFromLadder(DefaultLadder) = HandoffAgents
  /\ \A i \in DOMAIN DefaultLadder : DefaultLadder[i].agent \in DOMAIN Names /\ DefaultLadder[i].account = "default"
  /\ (\A l \in Saves \cup Types : IsSequence(l)) /\ \A o \in Orders : IsSequence(o)
  /\ \A f \in FirstFiles : IsPreferences(f)

normalizeHandoffLadder(l, o) ==
  IF salvage(l) # <<>> THEN salvage(l)
  ELSE IF validHandoffOrder(o) THEN ladderFromOrder(o) ELSE DefaultLadder

\* The ladder a record means: its order wins where the two disagree.
ladderFor(r) ==
  LET l == normalizeHandoffLadder(r.ladder, r.order)
  IN IF r.ladder # <<>> /\ validHandoffOrder(r.order) /\ orderFromLadder(l) # r.order
     THEN ladderFromOrder(r.order) ELSE l

\* The preferences the file means: here the ladder decides the order.
readPreferences ==
  LET l == normalizeHandoffLadder(file.ladder, file.order)
  IN [file EXCEPT !.ladder = l,
                  !.order = IF file.ladder # <<>> THEN orderFromLadder(l) ELSE normalizeHandoffOrder(@)]

-----------------------------------------------------------------------------
(* preferences.json.  Every writer of Leg's holds its lock.                *)

Event == events < MaxEvents /\ events' = events + 1

\* What a save starts from: the file as it is read, but a ladder that can be read only in
\* part stays as the human wrote it.
Current ==
  IF file.ladder # <<>> /\ ~validHandoffLadder(file.ladder)
  THEN [readPreferences EXCEPT !.ladder = file.ladder,
                               !.order = IF validHandoffOrder(file.order) THEN file.order ELSE @]
  ELSE readPreferences

\* (mutant) A save writes back what it has read.
writePreferences_Read(ladder, order, spend) ==
  file' = [readPreferences EXCEPT
             !.ladder = IF ladder # <<>> THEN ladder ELSE IF order # <<>> THEN ladderFromOrder(order) ELSE @,
             !.order = IF order # <<>> THEN order ELSE IF ladder # <<>> THEN orderFromLadder(ladder) ELSE @,
             !.may_spend = IF spend = "as it is" THEN @ ELSE spend = "on"]

\* writePreferences: each of the two spellings rewrites the other.
writePreferences(ladder, order, spend) ==
  LET base == IF ladder = <<>> /\ order = <<>> THEN Current ELSE readPreferences
  IN file' = [base EXCEPT
                !.ladder = IF ladder # <<>> THEN ladder ELSE IF order # <<>> THEN ladderFromOrder(order) ELSE @,
                !.order = IF order # <<>> THEN order ELSE IF ladder # <<>> THEN orderFromLadder(ladder) ELSE @,
                !.may_spend = IF spend = "as it is" THEN @ ELSE spend = "on"]

SaveLadder ==
  /\ Event
  /\ \E l \in Saves : validHandoffLadder(l) /\ writePreferences(l, <<>>, "as it is")
  /\ UNCHANGED <<accounts, cmd, start, copy, rec, given>>

SaveOrder ==
  /\ Event
  /\ \E o \in Orders : validHandoffOrder(o) /\ writePreferences(<<>>, o, "as it is")
  /\ UNCHANGED <<accounts, cmd, start, copy, rec, given>>

\* The board's switch and `leg ladder spend'.
SaveSpend ==
  /\ Event
  /\ \E spend \in {"on", "off"} : writePreferences(<<>>, <<>>, spend)
  /\ UNCHANGED <<accounts, cmd, start, copy, rec, given>>

\* `leg ladder set' and `rm' read the ladder and save it with one rung changed.
LadderReads ==
  /\ cmd = <<>> /\ Event /\ cmd' = readPreferences.ladder
  /\ UNCHANGED <<accounts, file, start, copy, rec, given>>

Changed ==
  {RemoveAt(cmd, i) : i \in IF Len(cmd) > 1 THEN DOMAIN cmd ELSE {}}
    \cup {IF i > Len(cmd) THEN Append(cmd, r) ELSE ReplaceAt(cmd, i, r) : r \in Rungs, i \in 1..(Len(cmd) + 1)}

LadderWrites ==
  /\ cmd # <<>> /\ cmd' = <<>>
  /\ \E l \in Changed :
       \/ validHandoffLadder(l) /\ writePreferences(l, <<>>, "as it is")
       \/ ~validHandoffLadder(l) /\ UNCHANGED file
  /\ UNCHANGED <<accounts, start, copy, rec, given, events>>

\* The file is open to a text editor, and to a Leg that knows only the order.
Type ==
  /\ Event
  /\ \E l \in Types : file' = [file EXCEPT !.ladder = l]
  /\ UNCHANGED <<accounts, cmd, start, copy, rec, given>>

OlderLeg ==
  /\ Event
  /\ \E o \in Orders : file' = [file EXCEPT !.order = o]
  /\ UNCHANGED <<accounts, cmd, start, copy, rec, given>>

-----------------------------------------------------------------------------
(* accounts.json.                                                          *)

addAccount(agent, name) ==
  /\ Event /\ name \notin ToSet(accounts[agent])
  /\ accounts' = [accounts EXCEPT ![agent] = Append(@, name)]
  /\ UNCHANGED <<file, cmd, start, copy, rec, given>>

removeAccount(agent, name) ==
  /\ Event
  /\ accounts' = [accounts EXCEPT ![agent] = Kept(@, {i \in DOMAIN @ : @[i] # name})]
  /\ UNCHANGED <<file, cmd, start, copy, rec, given>>

-----------------------------------------------------------------------------
(* The terminal.                                                           *)

StartReads ==
  /\ start = "none" /\ start' = "read" /\ copy' = readPreferences
  /\ UNCHANGED <<accounts, file, cmd, rec, given, events>>

\* The record is created with the order; the ladder follows in an update of its own.
CreateRecord ==
  /\ start = "read" /\ start' = "created"
  /\ rec' = [ladder |-> <<>>, order |-> copy.order] /\ given' = copy.ladder
  /\ UNCHANGED <<accounts, file, cmd, copy, events>>

CopyLadder ==
  /\ start = "created" /\ start' = "runs"
  /\ rec' = [rec EXCEPT !.ladder = copy.ladder] /\ copy' = <<>>
  /\ UNCHANGED <<accounts, file, cmd, given, events>>

\* (mutant) A ladder that is sent is written, and the older order left as it is.
EditTerminal_LadderOnly ==
  /\ Event /\ start \in {"created", "runs"}
  /\ \/ \E l \in Saves : validHandoffLadder(l) /\ rec' = [rec EXCEPT !.ladder = l] /\ given' = l
     \/ \E o \in Orders : /\ validHandoffOrder(o)
                          /\ rec' = [ladder |-> ladderFromOrder(o), order |-> o] /\ given' = ladderFromOrder(o)
  /\ UNCHANGED <<accounts, file, cmd, start, copy>>

\* The board's editor of one terminal writes both spellings, whichever it is sent.
EditTerminal ==
  /\ Event /\ start \in {"created", "runs"}
  /\ \/ \E l \in Saves : /\ validHandoffLadder(l)
                         /\ rec' = [ladder |-> l, order |-> orderFromLadder(l)] /\ given' = l
     \/ \E o \in Orders : /\ validHandoffOrder(o)
                          /\ rec' = [ladder |-> ladderFromOrder(o), order |-> o] /\ given' = ladderFromOrder(o)
  /\ UNCHANGED <<accounts, file, cmd, start, copy>>

-----------------------------------------------------------------------------
SettingsInit ==
  /\ accounts = [a \in DOMAIN Names |-> <<"default">> \o SetToSeq(Names[a])]
  /\ file \in FirstFiles
  /\ cmd = <<>> /\ start = "none" /\ copy = <<>> /\ rec = [ladder |-> <<>>, order |-> <<>>] /\ given = <<>>
  /\ events = 0

Writes ==
  \/ SaveLadder \/ SaveOrder \/ SaveSpend \/ LadderReads \/ LadderWrites \/ Type \/ OlderLeg \/ EditTerminal
  \/ \E a \in DOMAIN Names : \E n \in Names[a] : addAccount(a, n) \/ removeAccount(a, n)

SettingsNext == StartReads \/ CreateRecord \/ CopyLadder \/ Writes

SettingsSpec == SettingsInit /\ [][SettingsNext]_settings
-----------------------------------------------------------------------------
(* Properties.                                                             *)

SettingsTypeOK ==
  /\ \A a \in DOMAIN Names : ToSet(accounts[a]) \subseteq Names[a] \cup {"default"}
  /\ start \in {"none", "read", "created", "runs"} /\ file.may_spend \in BOOLEAN
  /\ rec.order = <<>> \/ validHandoffOrder(rec.order)
  /\ events \in 0..MaxEvents

\* A terminal walks the ladder it was last given, by its start or by the board, without the rungs
\* it can no longer read; unless the board's editor came between the record and its ladder, which
\* then overwrites the edit, or nothing is left, or what is left names the agents in another order
\* (attach.mjs:1030-1033, preferences.mjs:211-219).
WalkIsGiven ==
  start = "runs" /\ rec.ladder = given /\ ladderFor(rec) # salvage(given)
    => salvage(given) = <<>> \/ orderFromLadder(salvage(given)) # orderFromLadder(given)
=============================================================================
