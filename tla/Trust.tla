-------------------------------- MODULE Trust --------------------------------
(***************************************************************************)
(* The folder-trust answers Leg records before it starts an agent          *)
(* (trust.mjs), in files that are the agents' own.  A terminal that starts *)
(* an agent reads each file and writes it back under a lock that only Leg  *)
(* honours; the agent answers its user's questions in the same files.  The *)
(* agents have no file in common, so a behaviour has launches of one.      *)
(***************************************************************************)
EXTENDS Naturals, FiniteSets, Sequences, Functions

CONSTANTS Launches,       \* terminals that start an agent, once each
          Dirs, RootOf,   \* folders, and the one with the .git each lies in
          ImportsOut,     \* folders under a CLAUDE.md that imports from outside
          MaxAnswers      \* bound: answers of the user while terminals start

VARIABLES
  agent,
  there,     \* per file: "missing", "unreadable" or "ok"
  says,      \* per file: what it says of each question
  fileLock,  \* per file: "free", the launch that holds it, or "dead": left by one that died
  launch,    \* per launch: its folder, the files to come, what it read, if it holds the lock
  answered,
  noes,      \* (history) the questions the user answered with no, as the files spell it
  outrun,    \* (history) those answered while a launch held an older copy
  recorded   \* (history) what launches wrote and nobody answered since

trustVars == <<agent, there, says, fileLock, launch, answered, noes, outrun, recorded>>

Roots == {RootOf[d] : d \in Dirs}
Agents == {"claude", "codex", "agy"}
FilesOf(a) == IF a = "agy" THEN <<"settings", "project", "folders">> ELSE <<a>>
\* Claude keeps a folder under a spelling of today and perhaps one of older versions.
Spellings == {"now", "old"}
Questions(f) ==
  CASE f = "claude" -> {"trust", "imports"} \X Roots \X Spellings
    [] f = "codex" -> {"trust"} \X Roots \X {"now"}
    [] OTHER -> {"trust"} \X Dirs \X {"now"}
Refusals == {"no", "no, in other words"}

-----------------------------------------------------------------------------
(* What Leg would write.                                                   *)

\* (mutant) Not true is not asked.
Unasked_NotTrue(answer) == answer # "yes"
\* Only an absent key is an unanswered question.
Unasked(answer) == answer = "unasked"

\* projectKeys: an older spelling is brought up to date where it is, and never created.
\* A spelling is in the file if either question has an answer under it.
Spelled(old, d) == {s \in Spellings : s = "now" \/ \E q \in {"trust", "imports"} : old[<<q, d, s>>] # "unasked"}
ClaudeWrites(old, d) ==
  LET keys == Spelled(old, RootOf[d])
      declined == \E s \in keys : ~Unasked(old[<<"trust", RootOf[d], s>>]) /\ old[<<"trust", RootOf[d], s>>] # "yes"
      asks == {"trust"} \cup (IF d \in ImportsOut THEN {"imports"} ELSE {})
  IN IF declined THEN old
     ELSE [x \in DOMAIN old |->
             IF x[1] \in asks /\ x[2] = RootOf[d] /\ x[3] \in keys /\ Unasked(old[x]) THEN "yes" ELSE old[x]]

\* A folder config.toml names, trusted or not, is left alone.
CodexWrites(old, d) ==
  [x \in DOMAIN old |-> IF x[2] = RootOf[d] /\ Unasked(old[x]) THEN "yes" ELSE old[x]]

Targets(d) == {RootOf[d], d}
AgyWrites(f, old, d) ==
  [x \in DOMAIN old |-> IF x[2] \in Targets(d) /\ (f = "folders" \/ old[x] = "unasked") THEN "yes" ELSE old[x]]

Writes(f, old, d) ==
  IF f = "claude" THEN ClaudeWrites(old, d) ELSE IF f = "codex" THEN CodexWrites(old, d) ELSE AgyWrites(f, old, d)

\* (mutant) The refusals are not looked for.
Declined_Never(d) == FALSE
\* ensureAgyTrust looks for a refusal, of the words it knows, before it takes any lock.
Declined(d) ==
  \E f \in {"project", "folders"}, t \in Targets(d) : there[f] = "ok" /\ says[f][<<"trust", t, "now">>] = "no"

-----------------------------------------------------------------------------
(* A launch.                                                               *)

Idle == [at |-> "new", dir |-> "none", todo |-> <<>>, saw |-> <<>>, held |-> FALSE]

\* ensureTrust under LEG_TRUST=auto.  A config that is not there is not Leg's to begin, but agy's
\* files are written where their directory is.
ensureTrust(l, d) ==
  /\ launch[l].at = "new"
  /\ LET stays == IF agent = "agy" THEN Declined(d) ELSE there[agent] = "missing"
     IN launch' = [launch EXCEPT ![l] = [Idle EXCEPT !.at = IF stays THEN "done" ELSE "locks",
                                          !.dir = d, !.todo = FilesOf(agent)]]
  /\ UNCHANGED <<agent, there, says, fileLock, answered, noes, outrun, recorded>>

Done == [Idle EXCEPT !.at = "done"]
File(l) == Head(launch[l].todo)
After(p) == IF Len(p.todo) <= 1 THEN Done ELSE [p EXCEPT !.at = "locks", !.todo = Tail(@), !.saw = <<>>, !.held = FALSE]

\* (mutant) The lock is not taken.
TakesLock_Never(l) == UNCHANGED fileLock /\ launch' = [launch EXCEPT ![l].at = "reads"]
\* withFileLock: a lock whose holder died is waited for, and then run past.
TakesLock(l) ==
  IF fileLock[File(l)] = "dead" THEN UNCHANGED fileLock /\ launch' = [launch EXCEPT ![l].at = "reads"]
  ELSE /\ fileLock[File(l)] = "free" /\ fileLock' = [fileLock EXCEPT ![File(l)] = l]
       /\ launch' = [launch EXCEPT ![l].at = "reads", ![l].held = TRUE]
Locks(l) ==
  /\ launch[l].at = "locks" /\ (File(l) = "folders" => there["folders"] # "missing")
  /\ TakesLock(l)
  /\ UNCHANGED <<agent, there, says, answered, noes, outrun, recorded>>
\* The legacy file is only written where it is.
NoFolders(l) ==
  /\ launch[l].at = "locks" /\ File(l) = "folders" /\ there["folders"] = "missing"
  /\ launch' = [launch EXCEPT ![l] = After(@)]
  /\ UNCHANGED <<agent, there, says, fileLock, answered, noes, outrun, recorded>>

Nothing(f) == [x \in Questions(f) |-> "unasked"]
Freed(l) == IF launch[l].held THEN [fileLock EXCEPT ![File(l)] = "free"] ELSE fileLock
\* What cannot be read is left, and ends agy's round, but trustedFolders.json is taken for empty.
Reads(l) ==
  LET f == File(l) IN
  /\ launch[l].at = "reads"
  /\ IF there[f] = "unreadable" /\ f # "folders"
     THEN /\ fileLock' = Freed(l)
          /\ launch' = [launch EXCEPT ![l] = IF f = "settings" THEN Done ELSE After(@)]
     ELSE /\ launch' = [launch EXCEPT ![l].at = "writes",
               ![l].saw = IF there[f] = "ok" THEN says[f] ELSE Nothing(f)]
          /\ UNCHANGED fileLock
  /\ UNCHANGED <<agent, there, says, answered, noes, outrun, recorded>>

\* A lock whose holder died keeps nobody apart: another launch holds an older copy.
LockedOut(f, l) ==
  fileLock[f] = "dead" /\ \E k \in Launches \ {l} : launch[k].at = "writes" /\ File(k) = f

\* Nothing is written that the file says already.
WritesFile(l) ==
  LET f == File(l)
      p == launch[l]
      new == Writes(f, p.saw, p.dir)
  IN /\ p.at = "writes"
     /\ IF new = p.saw THEN UNCHANGED <<there, says, recorded>>
        ELSE /\ says' = [says EXCEPT ![f] = new] /\ there' = [there EXCEPT ![f] = "ok"]
             /\ recorded' = recorded \cup {<<f, x>> : x \in {y \in Questions(f) : p.saw[y] # new[y]}}
     /\ outrun' = IF there[f] = "unreadable" THEN outrun \cup ({f} \X Questions(f))
                  ELSE IF LockedOut(f, l) THEN outrun \cup {<<f, x>> : x \in {y \in Questions(f) : p.saw[y] # new[y]}}
                  ELSE outrun
     /\ fileLock' = Freed(l)
     /\ launch' = [launch EXCEPT ![l] = After(@)]
     /\ UNCHANGED <<agent, answered, noes>>

-----------------------------------------------------------------------------
(* The agents (external): their users answer.                              *)

\* A launch has an older copy: it read the file; or, for agy, it looked for refusals before.
Behind(f) ==
  \E l \in Launches : launch[l].at # "new" /\ launch[l].at # "done"
    /\ \/ File(l) = f /\ launch[l].at = "writes"
       \/ f = "folders"
Answer(f, x, how) ==
  /\ answered < MaxAnswers /\ answered' = answered + 1
  /\ there[f] # "unreadable" /\ x \in Questions(f) /\ says[f][x] # how
  /\ f # "settings" /\ (how = "no, in other words" => f = "folders")
  /\ says' = [says EXCEPT ![f][x] = how] /\ there' = [there EXCEPT ![f] = "ok"]
  /\ noes' = IF how = "no" THEN noes \cup {<<f, x>>} ELSE noes \ {<<f, x>>}
  /\ outrun' = IF Behind(f) THEN outrun \cup {<<f, x>>} ELSE outrun \ {<<f, x>>}
  /\ recorded' = recorded \ {<<f, x>>}
  /\ UNCHANGED <<agent, fileLock, launch>>

\* One of the files may be missing, unreadable, or have a no in it; trustedFolders.json mostly is missing.
TrustInit ==
  /\ agent \in Agents
  /\ LET files == Range(FilesOf(agent))
     IN \E f \in files :
          /\ there \in {[g \in files |-> IF g = f THEN h ELSE IF g = "folders" THEN "missing" ELSE "ok"] :
                          h \in {"missing", "unreadable", "ok"}}
          /\ says \in {[g \in files |-> Nothing(g)]} \cup
               {[g \in files |-> IF g = f THEN [Nothing(f) EXCEPT ![x] = "no"] ELSE Nothing(g)] :
                  x \in IF there[f] = "missing" \/ f = "settings" THEN {} ELSE Questions(f)}
          /\ \E left \in {"free", "dead"} : fileLock = [g \in files |-> IF g = f THEN left ELSE "free"]
          /\ noes = {n \in {f} \X Questions(f) : says[f][n[2]] = "no"}
  /\ launch = [l \in Launches |-> Idle]
  /\ answered = 0 /\ outrun = {} /\ recorded = {}

TrustNext ==
  \/ \E l \in Launches, d \in Dirs : ensureTrust(l, d)
  \/ \E l \in Launches : Locks(l) \/ NoFolders(l) \/ Reads(l) \/ WritesFile(l)
  \/ \E f \in DOMAIN says : \E x \in Questions(f), how \in Refusals \cup {"yes"} : Answer(f, x, how)

TrustSpec == TrustInit /\ [][TrustNext]_trustVars

-----------------------------------------------------------------------------
(* The invariant behind it: a launch that is about to write holds a copy that differs from the file  *)
(* only where it was outrun, and a refusal in the file it would write over is one it saw.            *)
Files == Range(FilesOf(agent))
Words == {"unasked", "yes"} \cup Refusals
Copies(f) == [Questions(f) -> Words]
Todos == IF agent = "agy" THEN {<<"settings", "project", "folders">>, <<"project", "folders">>, <<"folders">>}
         ELSE {<<agent>>}
AllCopies == UNION {Copies(f) : f \in Files}
AllLaunches ==
  [at : {"new", "locks", "reads", "writes", "done"}, dir : Dirs \cup {"none"}, todo : Todos \cup {<<>>},
   saw : AllCopies \cup {<<>>}, held : BOOLEAN]
TrustTypeOK ==
  /\ agent \in Agents
  /\ there \in [Files -> {"missing", "unreadable", "ok"}]
  /\ DOMAIN says = Files /\ \A f \in Files : says[f] \in Copies(f)
  /\ fileLock \in [Files -> Launches \cup {"free", "dead"}]
  /\ launch \in [Launches -> AllLaunches]
  /\ \A n \in noes \cup recorded : \E f \in Files : \E x \in Questions(f) : n = <<f, x>>
Runs(l) == launch[l].at \in {"locks", "reads", "writes"}
LaunchInv(l) ==
  /\ Runs(l) => launch[l].dir \in Dirs /\ launch[l].todo \in Todos
  /\ launch[l].at \in {"reads", "writes"} => fileLock[File(l)] = IF launch[l].held THEN l ELSE "dead"
  /\ launch[l].at \notin {"reads", "writes"} => ~launch[l].held
  /\ launch[l].at = "writes" =>
       /\ launch[l].saw \in Copies(File(l))
       /\ \A x \in Questions(File(l)) :
            \/ launch[l].saw[x] = says[File(l)][x] \/ <<File(l), x>> \in outrun
            \/ there[File(l)] = "unreadable"
  /\ Runs(l) => \A x \in Questions("folders") :
       <<"folders", x>> \in noes /\ x[2] \in Targets(launch[l].dir) =>
         <<"folders", x>> \in outrun \/ there["folders"] = "unreadable"
Stands(f, x) ==
  /\ <<f, x>> \in noes => says[f][x] = "no"
  /\ <<f, x>> \in recorded => says[f][x] = "yes"
TrustInv ==
  /\ TrustTypeOK
  /\ \A f \in Files : there[f] = "missing" => \A x \in Questions(f) : says[f][x] = "unasked"
  /\ \A l \in Launches : LaunchInv(l)
  /\ \A f \in Files : \A x \in Questions(f) : <<f, x>> \in outrun \/ Stands(f, x)

(* A no stays a no, but for one given while a launch held an older copy of  *)
(* the file, one in a file that could not be read, and one in words Leg     *)
(* does not know.  And what a launch recorded stays on file, but where the  *)
(* lock of one that died made launches write past each other.               *)
AnswersStand ==
  /\ \A n \in noes : n \in outrun \/ says[n[1]][n[2]] = "no"
  /\ \A r \in recorded : r \in outrun \/ says[r[1]][r[2]] = "yes"
=============================================================================
