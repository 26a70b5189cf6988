--------------------------- MODULE TerminalsProofs ---------------------------
(***************************************************************************)
(* What TLAPS proves of a terminal and of the landing of terminals, for    *)
(* any number of logins and of terminals, and with no bound on what is     *)
(* done outside: an agent is shown, and stopped by, what is true of it; a  *)
(* terminal that ended stays ended; landings exclude each other and lose   *)
(* nothing that was committed; the base only loses a commit to an          *)
(* update-ref of a landing under which it had moved.                       *)
(***************************************************************************)
EXTENDS MCTerminals, FiniteSetTheorems, TLAPS

-----------------------------------------------------------------------------
(* The loop of legs.                                                       *)

LEMMA LegInit == Init => LegInv
<1> SUFFICES ASSUME Init PROVE LegInv
  OBVIOUS
<1> USE LoginsAssumption DEF Init
<1>1. LegTypeOK
  BY DEF LegTypeOK, Pcs, ActiveStatuses
<1>2. CardIsOwn
  BY DEF CardIsOwn, PercentagesFollowLogin, LimitIsOwn
<1>3. Grounded(sess) /\ Grounded(seen)
  BY DEF Grounded, Nothing
<1> HIDE DEF LegInv, LegTypeOK
<1> QED
  BY <1>1, <1>2, <1>3 DEF LegInv

\* What a step does to the record, and what it may do to the rest of the invariant, is looked at
\* action by action.
LEMMA LegNext == LegInv /\ [Next]_vars => LegInv'
<1> SUFFICES ASSUME LegInv, [Next]_vars PROVE LegInv'
  OBVIOUS
<1> USE LoginsAssumption, BoundsAssumption
        DEF LegInv, LegTypeOK, CardIsOwn, PercentagesFollowLogin, LimitIsOwn, Grounded, Over, Pcs
<1>1. CASE UNCHANGED vars
  BY <1>1 DEF vars, runner, tick, choice, child, board, history
<1>2. CASE Spawn
  <2>1. /\ sess'.login = login /\ sess'.limit = FALSE /\ sess'.limits = "none"
        /\ sess'.status \in {"starting", "running"}
        /\ sess'.waiting = sess.waiting /\ sess'.order = sess.order
        /\ sess' \in [status : ActiveStatuses \cup {"ended", "lost"}, login : Logins, limit : BOOLEAN,
                     limits : Logins \cup {"none"}, waiting : {"none", "ask", "resume", "reset"}, order : Nat]
    BY <1>2 DEF Spawn, ActiveStatuses
  <2>2. /\ pc = "spawn" /\ pc' = "idle" /\ leg' = leg + 1 /\ unread' = FALSE /\ reason' = "none"
        /\ grounds' = FALSE /\ late' = late /\ hooks' = hooks /\ login' = login /\ editing' = editing
        /\ seen' = seen /\ seen = Nothing
    BY <1>2 DEF Spawn, board
  <2>3. \A h \in hooks' : h.leg \in Nat /\ h.leg < leg'
    BY <2>2 DEF Hooks
  <2> QED
    <3>1. leg' \in Nat /\ leg' # leg /\ \A h \in hooks' : h.leg <= leg' /\ h.leg # leg'
      BY <2>2, <2>3
    <3>2. seen'.limit = FALSE /\ seen'.status = "none"
      BY <2>2 DEF Nothing
    <3>3. Grounded(sess)' /\ Grounded(seen)'
      BY <2>1, <3>2
    <3> QED
      BY <2>1, <2>2, <3>1, <3>3
<1>3. CASE TickRead
  BY <1>3 DEF TickRead, Known, child, board, history
<1>4. ASSUME NEW limited \in BOOLEAN, NEW warns \in BOOLEAN, TickWrite(limited, warns) PROVE LegInv'
  <2>1. /\ pc = "read" /\ pc' = "take" /\ limited = unread
        /\ UNCHANGED <<control, leg, login, reason, stoodDown, choice, agent, hooks, board, history>>
        /\ unread' = FALSE
    BY <1>4 DEF TickWrite
  <2>2. limited => grounds
    BY <2>1
  <2>3. CASE ~(limited \/ warns)
    <3>1. sess' = sess /\ seen' = seen
      BY <1>4, <2>3 DEF TickWrite
    <3> QED
      BY <2>1, <3>1 DEF board, history
  <2>4. CASE limited \/ warns
    <3>1. /\ sess'.login = sess.login /\ sess'.limits = sess.limits /\ sess'.waiting = sess.waiting
          /\ sess'.order = sess.order /\ sess'.limit = (sess.limit \/ limited)
          /\ sess'.status = IF limited THEN "limit"
                            ELSE IF warns /\ seen.status = "running" THEN "warning" ELSE sess.status
          /\ sess' \in [status : ActiveStatuses \cup {"ended", "lost"}, login : Logins, limit : BOOLEAN,
                       limits : Logins \cup {"none"}, waiting : {"none", "ask", "resume", "reset"}, order : Nat]
      <4> DEFINE r == IF limited THEN "limit"
                      ELSE IF warns /\ seen.status = "running" THEN "warning" ELSE sess.status
      <4>1. sess' = [sess EXCEPT !.limit = @ \/ limited, !.status = r]
        BY <1>4, <2>4 DEF TickWrite
      <4>2. r \in ActiveStatuses \cup {"ended", "lost"} /\ (sess.limit \/ limited) \in BOOLEAN
        BY DEF ActiveStatuses
      <4> HIDE DEF r
      <4>3. /\ sess'.login = sess.login /\ sess'.limits = sess.limits /\ sess'.waiting = sess.waiting
            /\ sess'.order = sess.order /\ sess'.limit = (sess.limit \/ limited) /\ sess'.status = r
        BY <4>1
      <4> QED
        BY <4>1, <4>2, <4>3 DEF r
    <3>2. seen'.status = sess'.status /\ seen'.limit = sess'.limit
      <4>1. seen' = [status |-> sess'.status, limit |-> sess'.limit,
                     limits |-> sess'.limits, waiting |-> sess'.waiting]
        BY <1>4, <2>4 DEF TickWrite, Known
      <4> QED
        BY <4>1
    <3> QED
      BY <2>1, <2>2, <3>1, <3>2 DEF board, history
  <2> QED
    BY <2>3, <2>4
<1>5. CASE TickEnd
  BY <1>5 DEF TickEnd, Kill, Nothing, board, history
<1>6. CASE TickHandOff
  BY <1>6 DEF TickHandOff, Kill, Nothing, ActiveStatuses, board, history
<1>7. CASE TickLimit
  BY <1>7 DEF TickLimit, Limited, Kill, Nothing, board, history
<1>8. CASE TickOver
  BY <1>8 DEF TickOver, Nothing, child, board, history
<1>9. CASE SeesExit
  BY <1>9 DEF SeesExit, tick, child, board, history
<1>10. CASE SaveBundle
  BY <1>10 DEF SaveBundle, tick, child, board, history
<1>11. ASSUME NEW l \in Logins, Claim(l) PROVE LegInv'
  BY <1>11 DEF Claim, ActiveStatuses, tick, child, board, history
<1>12. CASE NothingLeft
  BY <1>12 DEF NothingLeft, tick, child, board, history
<1>13. CASE AllOut
  BY <1>13 DEF AllOut, ActiveStatuses, tick, child, board, history
<1>14. CASE WaitTick
  BY <1>14 DEF WaitTick, tick, child, board, history
<1>15. CASE Harness
  BY <1>15 DEF Harness, tick, child, board, history
<1>16. CASE Go
  BY <1>16 DEF Go, tick, child, board, history
<1>17. CASE Finish
  BY <1>17 DEF Finish, tick, child, board, history
<1>18. CASE Clear
  BY <1>18 DEF Clear, tick, child, board, history
<1>19. CASE Die
  BY <1>19 DEF Die, Alive, tick, board, history
<1>20. CASE AgentWalls
  <2> DEFINE H == [kind |-> "failure", warn |-> FALSE, leg |-> leg, login |-> login]
  <2>1. H \in Hooks /\ H.leg = leg /\ H.login = login
    BY DEF Hooks
  <2>2. /\ UNCHANGED <<sess, runner, wall, board, late>> /\ grounds' = TRUE /\ agent = "works"
        /\ agent' # "none" /\ unread' \in BOOLEAN /\ hooks' \subseteq hooks \cup {H}
    BY <1>20 DEF AgentWalls, Report
  <2> HIDE DEF H
  <2>3. hooks' \subseteq Hooks /\ \A h \in hooks' : h.leg <= leg /\ (h.leg = leg => h.login = login)
    BY <2>1, <2>2
  <2> QED
    BY <2>2, <2>3 DEF runner, tick, board
<1>21. CASE AgentRests
  <2> DEFINE H == [kind |-> "resume", warn |-> FALSE, leg |-> leg, login |-> login]
  <2>1. H \in Hooks /\ H.leg = leg /\ H.login = login /\ H.kind = "resume"
    BY DEF Hooks
  <2>2. /\ UNCHANGED <<sess, runner, wall, board, late, grounds, unread>> /\ agent # "none"
        /\ agent' # "none" /\ hooks' = hooks \cup {H}
    BY <1>21 DEF AgentRests, Report
  <2> HIDE DEF H
  <2>3. hooks' \subseteq Hooks /\ \A h \in hooks' : /\ h.leg <= leg /\ (h.leg = leg => h.login = login)
                                                    /\ h.leg = leg /\ h.kind = "failure" => grounds
    BY <2>1, <2>2
  <2> QED
    BY <2>2, <2>3 DEF runner, tick, board
<1>22. CASE AgentResumes
  BY <1>22 DEF AgentResumes, runner, tick, board, history
<1>23. ASSUME NEW kind \in {"turn", "ask", "line"}, NEW warn \in BOOLEAN, AgentReports(kind, warn)
       PROVE LegInv'
  BY <1>23 DEF AgentReports, Report, Hooks, runner, tick, board
<1>24. CASE AgentExits
  BY <1>24 DEF AgentExits, runner, tick, board, history
<1>25. ASSUME NEW h \in hooks, HookWrites(h) PROVE LegInv'
  <2>1. /\ UNCHANGED <<runner, agent, unread, board, grounds>> /\ hooks' \subseteq hooks
        /\ late' = (late \/ h.leg # leg \/ agent = "none") /\ sess' = Hooked(h)
    BY <1>25 DEF HookWrites
  <2>2. /\ h \in Hooks /\ h.kind \in {"turn", "ask", "line", "resume", "failure"} /\ h.login \in Logins
        /\ h.warn \in BOOLEAN
    BY DEF Hooks
  <2>3. /\ sess'.login = sess.login /\ sess'.limits \in {sess.limits, h.login}
        /\ sess'.limit = sess.limit \/ h.kind = "failure"
        /\ sess'.status = "limit" => sess.status = "limit" \/ h.kind = "failure"
        /\ sess'.status \in {"ended", "lost"} => sess.status \in {"ended", "lost"}
        /\ sess' \in [status : ActiveStatuses \cup {"ended", "lost"}, login : Logins, limit : BOOLEAN,
                     limits : Logins \cup {"none"}, waiting : {"none", "ask", "resume", "reset"}, order : Nat]
    <3>1. CASE h.kind = "turn"
      BY <2>1, <2>2, <3>1 DEF Hooked, ActiveStatuses
    <3>2. CASE h.kind \in {"ask", "resume"}
      BY <2>1, <2>2, <3>2 DEF Hooked
    <3>3. CASE h.kind = "line"
      BY <2>1, <2>2, <3>3 DEF Hooked, ActiveStatuses
    <3>4. CASE h.kind = "failure"
      BY <2>1, <2>2, <3>4 DEF Hooked, ActiveStatuses
    <3> QED
      BY <2>2, <3>1, <3>2, <3>3, <3>4
  <2>4. ~late' => ~late /\ h.leg = leg /\ agent # "none" /\ h.login = sess.login
                 /\ (h.kind = "failure" => grounds)
    BY <2>1
  <2> QED
    BY <2>1, <2>3, <2>4 DEF runner, tick, choice, board
<1>26. ASSUME NEW l \in Logins, PollReads(l) PROVE LegInv'
  BY <1>26 DEF PollReads, runner, tick, choice, child
<1>27. ASSUME NEW l \in Logins, NEW isOut \in BOOLEAN, PollPushes(l, isOut) PROVE LegInv'
  <2>1. UNCHANGED <<runner, child, editing, late>>
    BY <1>27 DEF PollPushes
  <2>2. CASE ~(sess.login = l /\ isActive)
    <3>1. sess' = sess /\ grounds' = grounds
      BY <1>27, <2>2 DEF PollPushes
    <3> QED
      BY <2>1, <3>1 DEF runner, tick, choice, child
  <2>3. CASE sess.login = l /\ isActive
    <3>1. /\ sess'.login = sess.login /\ sess'.limits = l /\ sess'.limit = (sess.limit \/ isOut)
          /\ sess'.status = (IF isOut THEN "limit" ELSE sess.status) /\ grounds' = (grounds \/ isOut)
          /\ sess'.status \in ActiveStatuses /\ ~(sess'.status \in {"ended", "lost"})
          /\ sess' \in [status : ActiveStatuses \cup {"ended", "lost"}, login : Logins, limit : BOOLEAN,
                       limits : Logins \cup {"none"}, waiting : {"none", "ask", "resume", "reset"}, order : Nat]
      BY <1>27, <2>3 DEF PollPushes, isActive, ActiveStatuses
    <3> QED
      BY <2>1, <2>3, <3>1 DEF runner, tick, choice, child
  <2> QED
    BY <2>2, <2>3
<1>28. ASSUME NEW what \in {"end", "handoff"}, Request(what) PROVE LegInv'
  BY <1>28 DEF Request, runner, tick, choice, child, board
<1>29. CASE EditOrder
  BY <1>29 DEF EditOrder, runner, tick, choice, child
<1>30. CASE SaveOrder
  BY <1>30 DEF SaveOrder, runner, tick, choice, child, history
<1>31. CASE List
  BY <1>31 DEF List, runner, tick, choice, child
<1>32. CASE Reap
  BY <1>32 DEF Reap, Alive, runner, tick, choice, child, history
<1>33. ASSUME NEW l \in Logins, WallEnds(l) PROVE LegInv'
  BY <1>33 DEF WallEnds, runner, tick, choice, child, board, history
<1> HIDE DEF LegInv, LegTypeOK
<1> QED
  BY <1>1, <1>2, <1>3, <1>4, <1>5, <1>6, <1>7, <1>8, <1>9, <1>10, <1>11, <1>12, <1>13, <1>14, <1>15,
     <1>16, <1>17, <1>18, <1>19, <1>20, <1>21, <1>22, <1>23, <1>24, <1>25, <1>26, <1>27, <1>28, <1>29,
     <1>30, <1>31, <1>32, <1>33
  DEF Next, Runner

\* Of a terminal that ended the record is only called lost, or ended again, or written by a hook
\* of the agent that is gone.
LEMMA LegFinal ==
  LegInv /\ [Next]_vars =>
    (sess.status \in {"ended", "lost"} => late' \/ sess'.status \in {"ended", "lost"})
<1> SUFFICES ASSUME LegInv, [Next]_vars, sess.status \in {"ended", "lost"}, ~late'
             PROVE sess'.status \in {"ended", "lost"}
  OBVIOUS
<1>1. CASE UNCHANGED vars
  BY <1>1 DEF vars
<1>2. ASSUME NEW h \in hooks, HookWrites(h) PROVE sess'.status \in {"ended", "lost"}
  <2>1. ~late /\ agent # "none"
    BY <1>2 DEF HookWrites
  <2>2. pc \in {"idle", "read", "take"} /\ pc \in Over
    BY <2>1 DEF LegInv
  <2> QED
    BY <2>2 DEF Over
<1>3. CASE ~\E h \in hooks : HookWrites(h)
  <2>1. ~(UNCHANGED vars) => late' = late
    BY <1>3 DEF Next, Runner, Spawn, TickRead, TickWrite, TickEnd, TickHandOff, TickLimit, TickOver,
           SeesExit, SaveBundle, Claim, NothingLeft, AllOut, WaitTick, Harness, Go, Finish, Clear, Die,
           AgentWalls, AgentRests, AgentResumes, AgentReports, AgentExits, PollReads, PollPushes,
           Request, EditOrder, SaveOrder, List, Reap, WallEnds, history
  <2>2. CASE UNCHANGED vars
    BY <1>1, <2>2
  <2>3. CASE ~(UNCHANGED vars)
    <3>1. pc \in Over
      BY <2>1, <2>3 DEF LegInv
    <3>2. pc \notin {"spawn", "read", "take", "claim", "wait", "go"}
      BY <3>1 DEF Over
    <3>3. ASSUME SaveOrder PROVE sess'.status = sess.status
      BY <3>3 DEF SaveOrder, LegInv, LegTypeOK
    <3>4. ASSUME Reap PROVE sess'.status \in {sess.status, "lost"}
      BY <3>4 DEF Reap, LegInv, LegTypeOK
    <3>5. ASSUME Finish PROVE sess'.status = "ended"
      BY <3>5 DEF Finish, LegInv, LegTypeOK
    <3>6. ASSUME NEW l \in Logins, NEW isOut \in BOOLEAN, PollPushes(l, isOut) PROVE sess' = sess
      BY <3>6 DEF PollPushes, isActive, ActiveStatuses
    <3> QED
      BY <1>3, <2>3, <3>2, <3>3, <3>4, <3>5, <3>6
      DEF Next, Runner, Spawn, TickRead, TickWrite, TickEnd, TickHandOff, TickLimit, TickOver,
          SeesExit, SaveBundle, Claim, NothingLeft, AllOut, WaitTick, Harness, Go, Clear, Die,
          AgentWalls, AgentRests, AgentResumes, AgentReports, AgentExits, PollReads,
          Request, EditOrder, List, WallEnds
  <2> QED
    BY <2>2, <2>3
<1> QED
  BY <1>2, <1>3

\* An agent's card shows, and an agent is stopped by, what is true of that agent: the percentages
\* are those of its login, and a limit it is killed for was met in its own leg (attach.mjs:576,
\* usage-poll.mjs:157-161).
THEOREM CardIsOwnThm == PartSafety => []CardIsOwn
<1>1. PartInit => LegInv
  BY LegInit DEF PartInit
<1>2. LegInv /\ [PartNext]_<<part, vars, lvars>> => LegInv'
  <2> SUFFICES ASSUME LegInv, [PartNext]_<<part, vars, lvars>> PROVE [Next]_vars
    BY LegNext
  <2> QED
    BY DEF PartNext
<1>3. LegInv => CardIsOwn
  BY DEF LegInv
<1> QED
  BY <1>1, <1>2, <1>3, PTL DEF PartSafety

\* A terminal that ended stays ended, whatever the poller of its login was still reading
\* (usage-poll.mjs:157-161).
THEOREM FinalStaysThm == PartSafety => FinalStays
<1>1. PartInit => LegInv
  BY LegInit DEF PartInit
<1>2. [PartNext]_<<part, vars, lvars>> => [Next]_vars
  BY DEF PartNext
<1>3. LegInv /\ [Next]_vars => LegInv'
  BY LegNext
<1>4. LegInv /\ [Next]_vars =>
        [sess.status \in {"ended", "lost"} => late' \/ sess'.status \in {"ended", "lost"}]_vars
  BY LegFinal
<1> QED
  BY <1>1, <1>2, <1>3, <1>4, PTL DEF PartSafety, FinalStays

-----------------------------------------------------------------------------
(* Commits.                                                                *)

LEMMA SameCardinality == ASSUME NEW S PROVE L!Cardinality(S) = Cardinality(S)
  BY DEF L!Cardinality, Cardinality

LEMMA Interval == ASSUME NEW n \in Nat PROVE IsFiniteSet(1 .. n) /\ Cardinality(1 .. n) = n
<1>1. 1 \in Int /\ n \in Int
  OBVIOUS
<1>2. IsFiniteSet(1 .. n) /\ Cardinality(1 .. n) = IF 1 > n THEN 0 ELSE n - 1 + 1
  BY <1>1, FS_Interval
<1> QED
  BY <1>2

\* A commit is a prefix of another where that one has the same changes.
Starts(p, q) == Len(p) <= Len(q) /\ \A i \in 1 .. Len(p) : p[i] = q[i]

LEMMA PrefixIs ==
  ASSUME NEW S, NEW p \in Seq(S), NEW q \in Seq(S)
  PROVE  L!IsPrefix(p, q) <=> Starts(p, q)
<1>1. ASSUME Starts(p, q) PROVE L!IsPrefix(p, q)
  BY <1>1 DEF L!IsPrefix, Starts
<1>2. ASSUME L!IsPrefix(p, q) PROVE Starts(p, q)
  <2>1. Len(p) <= Len(q) /\ SubSeq(p, 1, Len(p)) = SubSeq(q, 1, Len(p))
    BY <1>2 DEF L!IsPrefix
  <2>2. ASSUME NEW i \in 1 .. Len(p) PROVE p[i] = q[i]
    <3>1. SubSeq(p, 1, Len(p))[i] = p[i] /\ SubSeq(q, 1, Len(p))[i] = q[i]
      BY <2>1
    <3> QED
      BY <2>1, <3>1
  <2> QED
    BY <2>1, <2>2 DEF Starts
<1> QED
  BY <1>1, <1>2

LEMMA PartIs ==
  ASSUME NEW S, NEW p \in Seq(S), NEW m \in 0 .. Len(p)
  PROVE  /\ SubSeq(p, 1, m) \in Seq(S) /\ Len(SubSeq(p, 1, m)) = m
         /\ \A i \in 1 .. m : SubSeq(p, 1, m)[i] = p[i]
         /\ SubSeq(p, m + 1, Len(p)) \in Seq(S) /\ Len(SubSeq(p, m + 1, Len(p))) = Len(p) - m
         /\ \A i \in m + 1 .. Len(p) : /\ i - m \in 1 .. Len(p) - m
                                       /\ SubSeq(p, m + 1, Len(p))[i - m] = p[i]
         /\ \A i \in 1 .. Len(p) - m : SubSeq(p, m + 1, Len(p))[i] = p[i + m]
<1>1. m \in Nat /\ Len(p) \in Nat /\ m <= Len(p)
  OBVIOUS
<1>2. /\ SubSeq(p, 1, m) \in Seq(S) /\ Len(SubSeq(p, 1, m)) = m
      /\ \A i \in 1 .. m : SubSeq(p, 1, m)[i] = p[i]
  BY <1>1
<1>3. SubSeq(p, m + 1, Len(p)) \in Seq(S) /\ Len(SubSeq(p, m + 1, Len(p))) = Len(p) - m
  BY <1>1
<1>4. ASSUME NEW i \in 1 .. Len(p) - m PROVE SubSeq(p, m + 1, Len(p))[i] = p[i + m]
  <2>1. i \in 1 .. (Len(p) + 1 - (m + 1)) /\ i + (m + 1) - 1 = i + m
    BY <1>1
  <2> QED
    BY <1>1, <2>1
<1>5. ASSUME NEW i \in m + 1 .. Len(p)
      PROVE  i - m \in 1 .. Len(p) - m /\ SubSeq(p, m + 1, Len(p))[i - m] = p[i]
  <2>1. i - m \in 1 .. Len(p) - m /\ (i - m) + m = i
    BY <1>1
  <2> QED
    BY <1>4, <2>1
<1> QED
  BY <1>2, <1>3, <1>4, <1>5

LEMMA JoinIs ==
  ASSUME NEW S, NEW p \in Seq(S), NEW q \in Seq(S)
  PROVE  /\ p \o q \in Seq(S) /\ Len(p \o q) = Len(p) + Len(q)
         /\ \A i \in 1 .. Len(p) : i \in 1 .. Len(p \o q) /\ (p \o q)[i] = p[i]
         /\ \A i \in 1 .. Len(q) : Len(p) + i \in 1 .. Len(p \o q) /\ (p \o q)[Len(p) + i] = q[i]
<1>1. p \o q \in Seq(S) /\ Len(p \o q) = Len(p) + Len(q)
  OBVIOUS
<1>2. Len(p) \in Nat /\ Len(q) \in Nat
  OBVIOUS
<1>3. ASSUME NEW i \in 1 .. Len(p) PROVE i \in 1 .. Len(p \o q) /\ (p \o q)[i] = p[i]
  <2>1. i \in 1 .. Len(p) + Len(q) /\ i <= Len(p)
    BY <1>2
  <2> QED
    BY <1>1, <2>1
<1>4. ASSUME NEW i \in 1 .. Len(q) PROVE Len(p) + i \in 1 .. Len(p \o q) /\ (p \o q)[Len(p) + i] = q[i]
  <2>1. Len(p) + i \in 1 .. Len(p) + Len(q) /\ ~(Len(p) + i <= Len(p)) /\ Len(p) + i - Len(p) = i
    BY <1>2
  <2> QED
    BY <1>1, <2>1
<1> QED
  BY <1>1, <1>3, <1>4

\* What a branch has up to where it forked is what the base has there.
LEMMA ForkIs ==
  ASSUME NEW S, trunk \in Seq(S), NEW s, tip[s] \in Seq(S)
  PROVE  /\ L!Fork(s) \in 0 .. Len(tip[s])
         /\ \A i \in 1 .. L!Fork(s) : i \in 1 .. Len(trunk) /\ tip[s][i] = trunk[i]
<1> DEFINE b == tip[s]
           both == {i \in DOMAIN b : L!IsPrefix(SubSeq(b, 1, i), trunk)}
<1>1. /\ b \in Seq(S) /\ Len(b) \in Nat /\ DOMAIN b = 1 .. Len(b) /\ Len(trunk) \in Nat
      /\ L!Fork(s) = Cardinality(both)
  BY SameCardinality DEF L!Fork
<1> HIDE DEF b
<1>2. ASSUME NEW i \in both
      PROVE  i \in 1 .. Len(b) /\ i <= Len(trunk) /\ \A j \in 1 .. i : b[j] = trunk[j]
  <2>1. i \in 1 .. Len(b) /\ i \in 0 .. Len(b) /\ L!IsPrefix(SubSeq(b, 1, i), trunk)
    BY <1>1
  <2>2. SubSeq(b, 1, i) \in Seq(S) /\ Len(SubSeq(b, 1, i)) = i /\ \A j \in 1 .. i : SubSeq(b, 1, i)[j] = b[j]
    BY <1>1, <2>1, PartIs
  <2>3. Starts(SubSeq(b, 1, i), trunk)
    BY <2>1, <2>2, PrefixIs
  <2> QED
    BY <2>1, <2>2, <2>3 DEF Starts
<1>3. ASSUME NEW i \in both, NEW j \in 1 .. i PROVE j \in both
  <2>1. i \in 1 .. Len(b) /\ i <= Len(trunk) /\ \A n \in 1 .. i : b[n] = trunk[n]
    BY <1>2
  <2>2. j \in 1 .. Len(b) /\ j \in 0 .. Len(b) /\ j <= Len(trunk) /\ \A n \in 1 .. j : b[n] = trunk[n]
    BY <1>1, <2>1
  <2>3. SubSeq(b, 1, j) \in Seq(S) /\ Len(SubSeq(b, 1, j)) = j /\ \A n \in 1 .. j : SubSeq(b, 1, j)[n] = b[n]
    BY <1>1, <2>2, PartIs
  <2>4. Starts(SubSeq(b, 1, j), trunk)
    BY <2>2, <2>3 DEF Starts
  <2> QED
    BY <1>1, <2>2, <2>3, <2>4, PrefixIs
<1> DEFINE k == Cardinality(both)
<1>4. both \in SUBSET (1 .. Len(b)) /\ IsFiniteSet(1 .. Len(b)) /\ Cardinality(1 .. Len(b)) = Len(b)
  <2>1. both \subseteq 1 .. Len(b)
    BY <1>1
  <2> HIDE DEF both
  <2> QED
    BY <1>1, <2>1, Interval
<1>5. IsFiniteSet(both) /\ k \in Nat /\ k <= Len(b)
  BY <1>4, FS_Subset, FS_CardinalityType
<1> HIDE DEF both
<1>6. ASSUME NEW i \in both PROVE i \in 1 .. k
  <2>1. i \in Nat /\ i >= 1 /\ 1 .. i \in SUBSET both
    BY <1>2, <1>3
  <2>2. Cardinality(1 .. i) = i /\ Cardinality(1 .. i) <= k
    BY <1>5, <2>1, Interval, FS_Subset
  <2> QED
    BY <1>5, <2>1, <2>2
<1>7. both = 1 .. k
  <2>1. both \in SUBSET (1 .. k) /\ IsFiniteSet(1 .. k) /\ Cardinality(1 .. k) = k
    BY <1>5, <1>6, Interval
  <2> QED
    BY <2>1, FS_Subset
<1>8. ASSUME NEW i \in 1 .. k PROVE i \in 1 .. Len(trunk) /\ b[i] = trunk[i]
  <2>1. i \in 1 .. Len(b) /\ i <= Len(trunk) /\ \A j \in 1 .. i : b[j] = trunk[j]
    BY <1>2, <1>7
  <2>2. i \in 1 .. i /\ i \in 1 .. Len(trunk)
    BY <1>1, <2>1
  <2> QED
    BY <2>1, <2>2
<1> QED
  BY <1>1, <1>5, <1>8 DEF b

\* To count a set of positions up to each of them is to number them.
LEMMA Ranks ==
  ASSUME NEW m \in Nat, NEW T \in SUBSET (1 .. m)
  PROVE  /\ Cardinality(T) \in Nat
         /\ \A i \in T : Cardinality(T \cap 1 .. i) \in 1 .. Cardinality(T)
         /\ \A i, j \in T : Cardinality(T \cap 1 .. i) = Cardinality(T \cap 1 .. j) => i = j
         /\ \A n \in 1 .. Cardinality(T) : \E i \in T : Cardinality(T \cap 1 .. i) = n
<1> DEFINE k == Cardinality(T)
           f == [i \in T |-> Cardinality(T \cap 1 .. i)]
<1>1. IsFiniteSet(T) /\ k \in Nat
  BY Interval, FS_Subset, FS_CardinalityType
<1>2. ASSUME NEW i \in T PROVE IsFiniteSet(T \cap 1 .. i) /\ Cardinality(T \cap 1 .. i) \in 1 .. k
  <2>1. T \cap 1 .. i \in SUBSET T /\ i \in T \cap 1 .. i
    BY SMT
  <2> DEFINE c == T \cap 1 .. i
  <2>2. IsFiniteSet(c) /\ Cardinality(c) \in Nat /\ Cardinality(c) <= k
    BY <1>1, <2>1, FS_Subset, FS_CardinalityType
  <2>3. Cardinality(c) # 0
    BY <2>1, <2>2, FS_EmptySet
  <2> HIDE DEF c, k
  <2>4. Cardinality(c) \in 1 .. k
    BY <1>1, <2>2, <2>3
  <2> QED
    BY <2>2, <2>4 DEF c
<1>3. ASSUME NEW i \in T, NEW j \in T, i < j PROVE Cardinality(T \cap 1 .. i) # Cardinality(T \cap 1 .. j)
  <2>1. T \cap 1 .. i \in SUBSET (T \cap 1 .. j) /\ j \in T \cap 1 .. j /\ j \notin T \cap 1 .. i
    BY <1>3
  <2> QED
    BY <1>2, <2>1, FS_Subset
<1>4. ASSUME NEW i \in T, NEW j \in T, Cardinality(T \cap 1 .. i) = Cardinality(T \cap 1 .. j) PROVE i = j
  <2>1. i < j \/ j < i \/ i = j
    OBVIOUS
  <2> QED
    BY <1>3, <1>4, <2>1
<1> HIDE DEF k
<1>5. f \in Injection(T, 1 .. k)
  <2>1. f \in [T -> 1 .. k]
    BY <1>2
  <2>2. \A i, j \in T : f[i] = f[j] => i = j
    BY <1>4
  <2> HIDE DEF f
  <2> QED
    BY <2>1, <2>2 DEF Injection, IsInjective
<1>6. f \in Surjection(T, 1 .. k)
  <2>1. IsFiniteSet(1 .. k) /\ Cardinality(1 .. k) = k /\ Cardinality(T) = k
    BY <1>1, Interval DEF k
  <2> HIDE DEF f
  <2> QED
    BY <1>5, <2>1, FS_Injection
<1>7. ASSUME NEW n \in 1 .. k PROVE \E i \in T : Cardinality(T \cap 1 .. i) = n
  <2>1. PICK i \in T : f[i] = n
    <3> HIDE DEF f
    <3> QED
      BY <1>6 DEF Surjection
  <2> QED
    BY <2>1
<1> QED
  BY <1>1, <1>2, <1>4, <1>7 DEF k

\* What was picked in the scratch worktree is ahead of the base, and has all of the branch.
LEMMA ScratchKeeps ==
  ASSUME NEW S, trunk \in Seq(S), NEW s, tip[s] \in Seq(S)
  PROVE  /\ L!Rebased(s) \in Seq(S) /\ L!IsPrefix(trunk, L!Rebased(s))
         /\ \A e : L!Contains(tip[s], e) => L!Contains(L!Rebased(s), e)
<1>1. CASE L!IsPrefix(trunk, tip[s])
  BY <1>1 DEF L!Rebased
<1>2. CASE ~L!IsPrefix(trunk, tip[s])
  <2> DEFINE k == L!Fork(s)
             own == SubSeq(tip[s], k + 1, Len(tip[s]))
             r == trunk \o own
  <2>1. L!Rebased(s) = r
    BY <1>2 DEF L!Rebased, L!Picks
  <2>2. /\ k \in 0 .. Len(tip[s])
        /\ \A i \in 1 .. k : i \in 1 .. Len(trunk) /\ tip[s][i] = trunk[i]
    BY ForkIs
  <2> HIDE DEF k
  <2>3. own \in Seq(S) /\ Len(own) = Len(tip[s]) - k
        /\ \A i \in k + 1 .. Len(tip[s]) : i - k \in 1 .. Len(own) /\ own[i - k] = tip[s][i]
    BY <2>2, PartIs
  <2> HIDE DEF own
  <2>4. /\ r \in Seq(S) /\ Len(r) = Len(trunk) + Len(own)
        /\ \A i \in 1 .. Len(trunk) : i \in 1 .. Len(r) /\ r[i] = trunk[i]
        /\ \A i \in 1 .. Len(own) : Len(trunk) + i \in 1 .. Len(r) /\ r[Len(trunk) + i] = own[i]
    <3>1. trunk \in Seq(S) /\ own \in Seq(S)
      BY <2>3
    <3> QED
      BY <3>1, JoinIs
  <2> HIDE DEF r
  <2>5. L!IsPrefix(trunk, r)
    <3>1. Len(trunk) \in Nat /\ Len(own) \in Nat /\ Len(r) = Len(trunk) + Len(own)
      BY <2>3, <2>4
    <3>2. Len(trunk) <= Len(r)
      BY <3>1
    <3> QED
      BY <2>4, <3>2, PrefixIs DEF Starts
  <2>6. ASSUME NEW e, L!Contains(tip[s], e) PROVE L!Contains(r, e)
    <3>1. PICK i \in 1 .. Len(tip[s]) : tip[s][i] = e
      BY <2>6 DEF L!Contains
    <3>2. i \in 1 .. k \/ i \in k + 1 .. Len(tip[s])
      BY <2>2
    <3>3. CASE i \in 1 .. k
      BY <2>2, <2>4, <3>1, <3>3 DEF L!Contains
    <3>4. CASE i \in k + 1 .. Len(tip[s])
      BY <2>3, <2>4, <3>1, <3>4 DEF L!Contains
    <3> QED
      BY <3>2, <3>3, <3>4
  <2> QED
    BY <2>1, <2>4, <2>5, <2>6
<1> QED
  BY <1>1, <1>2

\* git rebase: what is on the branch is on the base, or is replayed onto it.
LEMMA RebaseKeeps ==
  ASSUME NEW S, trunk \in Seq(S), NEW s, tip[s] \in Seq(S)
  PROVE  /\ trunk \o L!Replayed(s) \in Seq(S)
         /\ \A e : L!Contains(tip[s], e) => L!Contains(trunk \o L!Replayed(s), e)
         /\ \A e : L!Contains(trunk \o L!Replayed(s), e) => L!Contains(trunk, e) \/ L!Contains(tip[s], e)
<1> DEFINE k == L!Fork(s)
           T == L!Lacking(s)
           pick(n) == CHOOSE i \in T : L!Cardinality(T \cap 1 .. i) = n
           own == [n \in 1 .. L!Cardinality(T) |-> tip[s][pick(n)]]
           r == trunk \o own
<1>1. k \in 0 .. Len(tip[s]) /\ \A i \in 1 .. k : i \in 1 .. Len(trunk) /\ tip[s][i] = trunk[i]
  BY ForkIs
<1>2. /\ T \in SUBSET (1 .. Len(tip[s])) /\ Len(tip[s]) \in Nat
      /\ \A i \in k + 1 .. Len(tip[s]) : i \in T \/ L!Contains(trunk, tip[s][i])
  <2>1. T = {i \in k + 1 .. Len(tip[s]) : ~L!Contains(trunk, tip[s][i])}
    BY DEF L!Lacking
  <2> HIDE DEF T, k
  <2> QED
    BY <1>1, <2>1
<1>3. L!Replayed(s) = own
  BY DEF L!Replayed
<1> HIDE DEF T, k
<1>4. /\ Cardinality(T) \in Nat
      /\ \A i \in T : Cardinality(T \cap 1 .. i) \in 1 .. Cardinality(T)
      /\ \A i, j \in T : Cardinality(T \cap 1 .. i) = Cardinality(T \cap 1 .. j) => i = j
      /\ \A n \in 1 .. Cardinality(T) : \E i \in T : Cardinality(T \cap 1 .. i) = n
  BY <1>2, Ranks
<1> DEFINE size == L!Cardinality(T)
           rank(i) == L!Cardinality(T \cap 1 .. i)
<1>4a. /\ size \in Nat /\ \A i \in T : rank(i) \in 1 .. size
       /\ \A i, j \in T : rank(i) = rank(j) => i = j
       /\ \A n \in 1 .. size : \E i \in T : rank(i) = n
  BY <1>4, SameCardinality
<1> HIDE DEF size, rank
<1>5. ASSUME NEW n \in 1 .. size PROVE pick(n) \in T /\ rank(pick(n)) = n
  <2>1. \E i \in T : L!Cardinality(T \cap 1 .. i) = n
    BY <1>4a DEF rank
  <2> QED
    BY <2>1 DEF rank
<1>6. ASSUME NEW i \in T PROVE pick(rank(i)) = i
  <2> HIDE DEF pick
  <2> QED
    BY <1>4a, <1>5
<1> HIDE DEF pick
<1>7. own \in Seq(S) /\ Len(own) = size /\ \A n \in 1 .. size : own[n] = tip[s][pick(n)]
  <2>1. ASSUME NEW n \in 1 .. size PROVE tip[s][pick(n)] \in S
    <3>1. pick(n) \in 1 .. Len(tip[s])
      BY <1>2, <1>5
    <3> QED
      BY <3>1
  <2>2. own = [n \in 1 .. size |-> tip[s][pick(n)]]
    BY DEF size
  <2> HIDE DEF own
  <2>3. own \in [1 .. size -> S] /\ \A n \in 1 .. size : own[n] = tip[s][pick(n)]
    BY <2>1, <2>2
  <2>4. own \in Seq(S) /\ Len(own) = size
    BY <1>4a, <2>3
  <2> QED
    BY <2>3, <2>4
<1>8. ASSUME NEW i \in T PROVE \E n \in 1 .. Len(own) : own[n] = tip[s][i]
  BY <1>4a, <1>6, <1>7
<1> HIDE DEF own
<1>9. /\ r \in Seq(S) /\ Len(r) = Len(trunk) + Len(own)
      /\ \A i \in 1 .. Len(trunk) : i \in 1 .. Len(r) /\ r[i] = trunk[i]
      /\ \A i \in 1 .. Len(own) : Len(trunk) + i \in 1 .. Len(r) /\ r[Len(trunk) + i] = own[i]
  <2>1. trunk \in Seq(S) /\ own \in Seq(S)
    BY <1>7
  <2> QED
    BY <2>1, JoinIs
<1> HIDE DEF r
<1>10. ASSUME NEW e, L!Contains(tip[s], e) PROVE L!Contains(r, e)
  <2>1. PICK i \in 1 .. Len(tip[s]) : tip[s][i] = e
    BY <1>10 DEF L!Contains
  <2>2. i \in 1 .. k \/ i \in T \/ L!Contains(trunk, e)
    BY <1>1, <1>2, <2>1
  <2>3. CASE i \in 1 .. k \/ L!Contains(trunk, e)
    BY <1>1, <1>9, <2>1, <2>3 DEF L!Contains
  <2>4. CASE i \in T
    BY <1>8, <1>9, <2>1, <2>4 DEF L!Contains
  <2> QED
    BY <2>2, <2>3, <2>4
<1>11. ASSUME NEW e, L!Contains(r, e) PROVE L!Contains(trunk, e) \/ L!Contains(tip[s], e)
  <2>1. PICK i \in 1 .. Len(r) : r[i] = e
    BY <1>11 DEF L!Contains
  <2>2. i \in 1 .. Len(trunk) \/ (i - Len(trunk) \in 1 .. Len(own) /\ Len(trunk) + (i - Len(trunk)) = i)
    <3>1. Len(trunk) \in Nat /\ Len(own) \in Nat
      BY <1>7
    <3> QED
      BY <1>9, <2>1, <3>1
  <2>3. CASE i \in 1 .. Len(trunk)
    BY <1>9, <2>1, <2>3 DEF L!Contains
  <2>4. CASE i - Len(trunk) \in 1 .. Len(own) /\ Len(trunk) + (i - Len(trunk)) = i
    <3>1. e = own[i - Len(trunk)]
      BY <1>9, <2>1, <2>4
    <3>2. e = tip[s][pick(i - Len(trunk))] /\ pick(i - Len(trunk)) \in 1 .. Len(tip[s])
      BY <1>2, <1>5, <1>7, <2>4, <3>1
    <3> QED
      BY <3>2 DEF L!Contains
  <2> QED
    BY <2>2, <2>3, <2>4
<1> QED
  BY <1>3, <1>9, <1>10, <1>11 DEF r

-----------------------------------------------------------------------------
(* Landings.                                                               *)

LandNext == L!Next \/ UNCHANGED lvars
Record == [pc : L!Pcs, head : L!CommitSet, onTrunk : BOOLEAN, moved : BOOLEAN]

\* The record of a landing whose program counter moves on, and of one under which the base moved.
LEMMA GoIs ==
  ASSUME L!LandTypeOK, NEW s \in Sessions, NEW p \in L!Pcs, L!Go(s, p)
  PROVE  /\ land' \in [Sessions -> Record] /\ land'[s].pc = p
         /\ land'[s].head = land[s].head /\ land'[s].moved = land[s].moved
         /\ \A t \in Sessions : t # s => land'[t] = land[t]
<1>1. land \in [Sessions -> Record] /\ land' = [land EXCEPT ![s].pc = p]
  BY DEF L!LandTypeOK, L!Go, Record
<1>2. land' = [land EXCEPT ![s] = [land[s] EXCEPT !.pc = p]]
  BY <1>1
<1>3. /\ [land[s] EXCEPT !.pc = p] \in Record /\ [land[s] EXCEPT !.pc = p].pc = p
      /\ [land[s] EXCEPT !.pc = p].head = land[s].head /\ [land[s] EXCEPT !.pc = p].moved = land[s].moved
  BY <1>1 DEF Record
<1> QED
  BY <1>1, <1>2, <1>3

LEMMA MovedIs ==
  ASSUME L!LandTypeOK, NEW s \in Sessions, land' = [L!Moved(s) EXCEPT ![s].pc = "reset"]
  PROVE  /\ land' \in [Sessions -> Record] /\ land'[s].pc = "reset" /\ land'[s].head = land[s].head
         /\ \A t \in Sessions : t # s => land'[t] \in Record /\ land'[t].pc = land[t].pc
                                        /\ land'[t].head = land[t].head /\ land'[t].moved = TRUE
<1> DEFINE m == [t \in Sessions |-> IF t = s THEN land[t] ELSE [land[t] EXCEPT !.moved = TRUE]]
<1>1. land \in [Sessions -> Record] /\ land' = [m EXCEPT ![s].pc = "reset"]
  BY DEF L!LandTypeOK, L!Moved, Record
<1>2. /\ DOMAIN m = Sessions /\ m[s] = land[s]
      /\ \A t \in Sessions : t # s => m[t] = [land[t] EXCEPT !.moved = TRUE]
  OBVIOUS
<1> HIDE DEF m
<1>3. \A t \in Sessions : t # s => /\ m[t] \in Record /\ m[t].pc = land[t].pc
                                   /\ m[t].head = land[t].head /\ m[t].moved = TRUE
  <2>1. ASSUME NEW q \in Record
        PROVE  /\ [q EXCEPT !.moved = TRUE] \in Record /\ [q EXCEPT !.moved = TRUE].pc = q.pc
               /\ [q EXCEPT !.moved = TRUE].head = q.head /\ [q EXCEPT !.moved = TRUE].moved = TRUE
    BY DEF Record
  <2>2. \A t \in Sessions : land[t] \in Record
    BY <1>1
  <2> QED
    BY <1>2, <2>1, <2>2
<1>4. /\ [land[s] EXCEPT !.pc = "reset"] \in Record /\ [land[s] EXCEPT !.pc = "reset"].pc = "reset"
      /\ [land[s] EXCEPT !.pc = "reset"].head = land[s].head
  BY <1>1 DEF Record, L!Pcs
<1>5. m \in [Sessions -> Record]
  <2>1. m = [t \in Sessions |-> m[t]]
    BY DEF m
  <2> QED
    BY <1>1, <1>2, <1>3, <2>1
<1>6. land' = [m EXCEPT ![s] = [land[s] EXCEPT !.pc = "reset"]]
  BY <1>1, <1>2, <1>5
<1> QED
  BY <1>3, <1>4, <1>5, <1>6

\* What is committed is one change more on the branch.
LEMMA CommitIs ==
  ASSUME L!LandTypeOK, NEW s \in Sessions, s \in dirty, L!CommitIn(s)
  PROVE  /\ tip' \in [Sessions -> L!CommitSet] /\ dirty' = dirty \ {s}
         /\ made[s] \in 1 .. MaxWork /\ \A t \in Sessions : t # s => tip'[t] = tip[t]
         /\ \A e : L!Contains(tip'[s], e) <=> L!Contains(tip[s], e) \/ e = <<s, made[s]>>
<1>1. tip' = [tip EXCEPT ![s] = Append(tip[s], <<s, made[s]>>)] /\ dirty' = dirty \ {s}
  BY DEF L!CommitIn, L!Work
<1>2. made[s] \in 1 .. MaxWork /\ tip \in [Sessions -> L!CommitSet] /\ tip[s] \in Seq(L!Changes)
  BY LandAssumption DEF L!LandTypeOK, L!BudgetAssumption, L!CommitSet
<1>3. <<s, made[s]>> \in L!Changes
  BY <1>2 DEF L!Changes
<1> DEFINE e0 == <<s, made[s]>>
           b == tip[s]
<1> HIDE DEF e0, b
<1>4. Append(b, e0) \in Seq(L!Changes) /\ Len(Append(b, e0)) = Len(b) + 1 /\ Len(b) \in Nat
      /\ Append(b, e0)[Len(b) + 1] = e0 /\ \A i \in 1 .. Len(b) : Append(b, e0)[i] = b[i]
  BY <1>2, <1>3 DEF e0, b
<1>5. \A e : L!Contains(Append(b, e0), e) <=> L!Contains(b, e) \/ e = e0
  <2>1. 1 .. Len(b) + 1 = 1 .. Len(b) \cup {Len(b) + 1}
    BY <1>4
  <2> QED
    BY <1>4, <2>1 DEF L!Contains
<1> QED
  BY <1>1, <1>2, <1>4, <1>5 DEF e0, b, L!CommitSet

LEMMA EnterIs ==
  ASSUME L!LandTypeOK, NEW s \in Sessions, L!Enter(s)
  PROVE  /\ land' \in [Sessions -> Record] /\ land'[s].pc \in {"check", "stuck"}
         /\ \A t \in Sessions : t # s => land'[t] = land[t] /\ tip'[t] = tip[t]
         /\ tip' \in [Sessions -> L!CommitSet] /\ dirty' \in {dirty, dirty \ {s}}
         /\ \A e : L!Contains(tip[s], e) => L!Contains(tip'[s], e)
         /\ s \in dirty \ dirty' => L!Contains(tip'[s], <<s, made[s]>>)
<1> DEFINE r(p) == [L!NotLanding EXCEPT !.pc = p]
<1>1. land \in [Sessions -> Record]
  BY DEF L!LandTypeOK, Record
<1>2. \A p \in {"check", "stuck"} : r(p) \in Record /\ r(p).pc = p
  <2>1. << >> \in Seq(L!Changes)
    OBVIOUS
  <2> QED
    BY <2>1 DEF L!NotLanding, Record, L!Pcs, L!CommitSet
<1>3. \/ land' = [land EXCEPT ![s] = r("check")] /\ L!Commit(s)
      \/ land' = [land EXCEPT ![s] = r("stuck")] /\ tip' = tip /\ dirty' = dirty
  BY DEF L!Enter
<1> HIDE DEF r
<1>4. land' \in [Sessions -> Record] /\ land'[s].pc \in {"check", "stuck"}
      /\ \A t \in Sessions : t # s => land'[t] = land[t]
  BY <1>1, <1>2, <1>3
<1>5. CASE s \in dirty /\ L!Commit(s)
  BY <1>4, <1>5, CommitIs DEF L!Commit
<1>6. CASE tip' = tip /\ dirty' = dirty
  BY <1>4, <1>6 DEF L!LandTypeOK
<1>7. CASE s \notin dirty /\ L!Commit(s)
  BY <1>6, <1>7 DEF L!Commit
<1> QED
  BY <1>3, <1>5, <1>6, <1>7

LEMMA LandTypes == L!LandTypeOK /\ LandNext => L!LandTypeOK'
<1> SUFFICES ASSUME L!LandTypeOK, LandNext PROVE L!LandTypeOK'
  OBVIOUS
<1>0. /\ trunk \in L!CommitSet /\ trunk \in landed /\ tip \in [Sessions -> L!CommitSet]
      /\ made \in [Sessions -> 0..MaxWork] /\ dirty \subseteq {s \in Sessions : made[s] > 0}
      /\ lock \in Sessions \cup {"none", "dead"} /\ prep \in [Sessions -> Nat]
      /\ land \in [Sessions -> Record] /\ shared \in BOOLEAN /\ used \in [L!Outside -> Nat]
  BY DEF L!LandTypeOK, Record
<1>a. \A k \in L!Outside : L!Spend(k) => used' \in [L!Outside -> Nat]
  BY <1>0 DEF L!Spend
<1>b. \A s \in Sessions : land[s] \in Record /\ land[s].head \in L!CommitSet
  BY <1>0 DEF Record
<1>c. {"commit", "checkout", "edit", "restart", "land", "prepare", "fix"} \subseteq L!Outside
  BY DEF L!Outside
<1>d. \A s \in Sessions, p \in L!Pcs : L!Go(s, p) => land' \in [Sessions -> Record]
  BY GoIs
<1>e. {"idle", "check", "stuck", "scratch", "test", "root", "move", "reset", "fail", "end"} \subseteq L!Pcs
  BY DEF L!Pcs
<1>f. ASSUME NEW c \in L!CommitSet, L!MoveTrunk(c) PROVE trunk' \in L!CommitSet /\ trunk' \in landed'
  BY <1>f DEF L!MoveTrunk
<1>g. dirty' \subseteq dirty /\ made' = made => dirty' \subseteq {s \in Sessions : made'[s] > 0}
  BY <1>0
<1> USE <1>0 DEF L!LandTypeOK, L!git, L!board, L!seen
<1>1. ASSUME NEW s \in Sessions, L!Check(s) PROVE L!LandTypeOK'
  BY <1>1, <1>d, <1>e DEF L!Check, Record
<1>2. ASSUME NEW s \in Sessions, L!Scratch(s) PROVE L!LandTypeOK'
  <2> DEFINE p == IF L!Picked(s) THEN IF NoTests THEN "root" ELSE "test" ELSE "fail"
             r == [[[land[s] EXCEPT !.head = L!Rebased(s)] EXCEPT !.moved = FALSE] EXCEPT !.pc = p]
  <2>1. L!Rebased(s) \in L!CommitSet
    BY ScratchKeeps DEF L!CommitSet
  <2>2. r \in Record
    BY <1>e, <2>1 DEF Record
  <2>3. land' = [land EXCEPT ![s] = r]
    BY <1>2 DEF L!Scratch
  <2> HIDE DEF r
  <2>4. land' \in [Sessions -> Record]
    BY <2>2, <2>3
  <2> QED
    BY <1>2, <2>4 DEF L!Scratch, Record
<1>3. ASSUME NEW s \in Sessions, L!TestsDone(s) PROVE L!LandTypeOK'
  BY <1>3, <1>d, <1>e DEF L!TestsDone, Record
<1>4. ASSUME NEW s \in Sessions, L!ReadRoot(s) PROVE L!LandTypeOK'
  <2> DEFINE r == [[land[s] EXCEPT !.onTrunk = (root = "trunk")] EXCEPT !.pc = "move"]
  <2>1. r \in Record
    BY <1>e DEF Record
  <2>2. land' = [land EXCEPT ![s] = r]
    BY <1>4 DEF L!ReadRoot
  <2> HIDE DEF r
  <2>3. land' \in [Sessions -> Record]
    BY <2>1, <2>2
  <2> QED
    BY <1>4, <2>3 DEF L!ReadRoot, Record
<1>5. ASSUME NEW s \in Sessions, L!Merge(s) PROVE L!LandTypeOK'
  <2>1. land' \in [Sessions -> Record]
    BY <1>5, <1>d, <1>e, MovedIs DEF L!Merge
  <2>2. trunk' \in L!CommitSet /\ trunk' \in landed'
    BY <1>5, <1>f DEF L!Merge
  <2> QED
    BY <1>5, <2>1, <2>2 DEF L!Merge, Record
<1>6. ASSUME NEW s \in Sessions, L!UpdateRef(s) PROVE L!LandTypeOK'
  <2>1. land' \in [Sessions -> Record]
    BY <1>6, MovedIs DEF L!UpdateRef
  <2>2. trunk' \in L!CommitSet /\ trunk' \in landed'
    BY <1>6, <1>f DEF L!UpdateRef
  <2> QED
    BY <1>6, <2>1, <2>2 DEF L!UpdateRef, Record
<1>7. ASSUME NEW s \in Sessions, L!Reset(s) PROVE L!LandTypeOK'
  <2>1. tip' \in [Sessions -> L!CommitSet]
    BY <1>7 DEF L!Reset
  <2> QED
    BY <1>7, <1>d, <1>e, <2>1 DEF L!Reset, Record
<1>8. ASSUME NEW s \in Sessions, L!GitFails(s) \/ L!Fail(s) PROVE L!LandTypeOK'
  BY <1>8, <1>d, <1>e DEF L!GitFails, L!Fail, Record
<1>9. ASSUME NEW s \in Sessions, L!End(s) PROVE L!LandTypeOK'
  BY <1>9, <1>d, <1>e DEF L!End, L!Unlock, Record
<1>10. ASSUME NEW s \in Sessions, L!Prepared(s) PROVE L!LandTypeOK'
  <2>1. prep' \in [Sessions -> Nat]
    BY <1>10 DEF L!Prepared
  <2> QED
    BY <1>10, <2>1 DEF L!Prepared, L!Unlock
<1>11. ASSUME NEW s \in Sessions, L!Press(s) PROVE L!LandTypeOK'
  <2>1. used' \in [L!Outside -> Nat]
    BY <1>11, <1>a, <1>c DEF L!Press
  <2>2. /\ land' \in [Sessions -> Record] /\ tip' \in [Sessions -> L!CommitSet] /\ dirty' \subseteq dirty
    BY <1>11, EnterIs DEF L!Press
  <2>3. shared' \in BOOLEAN
    BY <1>11 DEF L!Press
  <2> QED
    BY <1>11, <1>g, <2>1, <2>2, <2>3 DEF L!Press, Record
<1>12. ASSUME NEW s \in Sessions, L!Prepare(s) PROVE L!LandTypeOK'
  <2>1. used' \in [L!Outside -> Nat]
    BY <1>12, <1>a, <1>c DEF L!Prepare
  <2>2. shared' \in BOOLEAN
    BY <1>12 DEF L!Prepare
  <2>3. prep' \in [Sessions -> Nat] /\ lock' \in {s, "none"}
    BY <1>12 DEF L!Prepare
  <2> QED
    BY <1>12, <2>1, <2>2, <2>3 DEF L!Prepare
<1>13. ASSUME NEW s \in Sessions, L!FixCommit(s) PROVE L!LandTypeOK'
  <2>1. used' \in [L!Outside -> Nat]
    BY <1>13, <1>a, <1>c DEF L!FixCommit, L!Fix
  <2>2. tip' \in [Sessions -> L!CommitSet] /\ dirty' \subseteq dirty
    BY <1>13, CommitIs DEF L!FixCommit
  <2> QED
    BY <1>13, <1>g, <2>1, <2>2 DEF L!FixCommit
<1>14. ASSUME NEW s \in Sessions, L!FixStash(s) PROVE L!LandTypeOK'
  <2>1. used' \in [L!Outside -> Nat]
    BY <1>14, <1>a, <1>c DEF L!FixStash, L!Fix
  <2> QED
    BY <1>14, <1>g, <2>1 DEF L!FixStash
<1>15. ASSUME NEW s \in Sessions, L!FixRebase(s) PROVE L!LandTypeOK'
  <2>1. used' \in [L!Outside -> Nat]
    BY <1>15, <1>a, <1>c DEF L!FixRebase, L!Fix
  <2>2. trunk \o L!Replayed(s) \in L!CommitSet
    BY RebaseKeeps DEF L!CommitSet
  <2>3. tip' \in [Sessions -> L!CommitSet]
    BY <1>15, <2>2 DEF L!FixRebase
  <2> QED
    BY <1>15, <2>1, <2>3 DEF L!FixRebase
<1>16. ASSUME NEW s \in Sessions, L!FixQueue(s) PROVE L!LandTypeOK'
  <2>1. used' \in [L!Outside -> Nat]
    BY <1>16, <1>a, <1>c DEF L!FixQueue, L!Fix
  <2> QED
    BY <1>16, <2>1 DEF L!FixQueue
<1>17. ASSUME NEW s \in Sessions, L!RemoveTerminal(s) PROVE L!LandTypeOK'
  <2>1. << >> \in L!CommitSet
    BY DEF L!CommitSet
  <2>2. tip' \in [Sessions -> L!CommitSet]
    BY <1>17, <2>1 DEF L!RemoveTerminal
  <2> QED
    BY <1>17, <2>2 DEF L!RemoveTerminal
<1>18. ASSUME NEW s \in Sessions, L!AgentEdits(s) PROVE L!LandTypeOK'
  <2>1. MaxWork \in Nat
    BY LandAssumption DEF L!BudgetAssumption
  <2>2. made' \in [Sessions -> 0..MaxWork] /\ made'[s] > 0 /\ \A t \in Sessions : t # s => made'[t] = made[t]
    BY <1>18, <2>1 DEF L!AgentEdits
  <2>3. dirty' \subseteq {t \in Sessions : made'[t] > 0}
    BY <1>18, <2>2 DEF L!AgentEdits
  <2> QED
    BY <1>18, <2>2, <2>3 DEF L!AgentEdits
<1>19. ASSUME NEW s \in Sessions, L!AgentCommits(s) PROVE L!LandTypeOK'
  <2>1. tip' \in [Sessions -> L!CommitSet] /\ dirty' \subseteq dirty
    BY <1>19, CommitIs DEF L!AgentCommits
  <2> QED
    BY <1>19, <1>g, <2>1 DEF L!AgentCommits
<1>20. ASSUME NEW s \in Sessions, L!AgentStops(s) PROVE L!LandTypeOK'
  BY <1>20 DEF L!AgentStops
<1>21. CASE L!Drain
  <2>1. shared' \in BOOLEAN
    BY <1>21 DEF L!Drain
  <2>2. /\ land' \in [Sessions -> Record] /\ tip' \in [Sessions -> L!CommitSet] /\ dirty' \subseteq dirty
    BY <1>21, EnterIs DEF L!Drain
  <2> QED
    BY <1>21, <1>g, <2>1, <2>2 DEF L!Drain, Record
<1>22. CASE L!OutsideCommit
  <2>1. used' \in [L!Outside -> Nat] /\ used["commit"] \in Nat
    BY <1>22, <1>a, <1>c DEF L!OutsideCommit
  <2>2. <<"root", used["commit"]>> \in L!Changes
    BY <2>1 DEF L!Changes
  <2> DEFINE e == <<"root", used["commit"]>>
  <2> HIDE DEF e
  <2>3. Append(trunk, e) \in L!CommitSet
    BY <2>2 DEF e, L!CommitSet
  <2>4. trunk' \in L!CommitSet /\ trunk' \in landed'
    BY <1>22, <1>f, <2>3 DEF L!OutsideCommit, e
  <2>5. ASSUME NEW t \in Sessions PROVE [land[t] EXCEPT !.moved = TRUE] \in Record
    BY DEF Record
  <2>6. land' \in [Sessions -> Record]
    BY <1>22, <2>5 DEF L!OutsideCommit, L!Moved
  <2> QED
    BY <1>22, <2>1, <2>4, <2>6 DEF L!OutsideCommit, Record
<1>23. CASE L!Checkout
  BY <1>23, <1>a, <1>c DEF L!Checkout
<1>24. CASE L!Edit
  BY <1>24, <1>a, <1>c DEF L!Edit
<1>25. CASE L!Restart
  <2>1. L!NotLanding \in Record
    BY <1>e DEF L!NotLanding, Record, L!CommitSet
  <2>2. land' \in [Sessions -> Record] /\ prep' \in [Sessions -> Nat] /\ used' \in [L!Outside -> Nat]
    BY <1>25, <1>a, <1>c, <2>1 DEF L!Restart
  <2> QED
    BY <1>25, <2>2 DEF L!Restart, Record
<1>26. CASE UNCHANGED lvars
  BY <1>26 DEF lvars
<1> HIDE DEF L!LandTypeOK
<1> QED
  BY <1>1, <1>2, <1>3, <1>4, <1>5, <1>6, <1>7, <1>8, <1>9, <1>10, <1>11, <1>12, <1>13, <1>14, <1>15,
     <1>16, <1>17, <1>18, <1>19, <1>20, <1>21, <1>22, <1>23, <1>24, <1>25, <1>26
  DEF LandNext, L!Next, L!Landing, L!Button, L!Agent

\* What leaves the lock and the dry runs alone, and takes no landing past where it has the lock.
LEMMA LockKept ==
  ASSUME L!LandTypeOK, L!LockInv, UNCHANGED <<lock, prep, shared>>,
         \A t \in Sessions : land'[t].pc = land[t].pc \/ land[t].pc \notin {"idle", "check", "stuck"}
  PROVE  L!LockInv'
<1>1. \A t \in Sessions : land[t].pc \in L!Pcs
  BY DEF L!LandTypeOK
<1>2. \A t \in Sessions : L!HasLock(t)' => L!HasLock(t)
  BY <1>1 DEF L!HasLock, L!Pcs
<1>3. \A t \in Sessions : L!InFlight(t)' => L!InFlight(t)
  BY DEF L!InFlight
<1> QED
  BY <1>2, <1>3 DEF L!LockInv

LEMMA LockNext == L!LandTypeOK /\ L!LandTypeOK' /\ L!LockInv /\ LandNext => L!LockInv'
<1> SUFFICES ASSUME L!LandTypeOK, L!LandTypeOK', L!LockInv, LandNext, ~shared' PROVE L!LockInv'
  BY DEF L!LockInv
<1>0. lock \in Sessions \cup {"none", "dead"} /\ {"none", "dead", "root"} \cap Sessions = {}
  BY LandAssumption DEF L!LandTypeOK, L!NamesAssumption
<1>a. \A s \in Sessions, p \in L!Pcs : L!Go(s, p) =>
        land'[s].pc = p /\ \A t \in Sessions : t # s => land'[t] = land[t]
  BY GoIs
<1>b. {"idle", "check", "stuck", "scratch", "test", "root", "move", "reset", "fail", "end"} \subseteq L!Pcs
  BY DEF L!Pcs
<1>c. prep \in [Sessions -> Nat] /\ land \in [Sessions -> Record]
  BY DEF L!LandTypeOK, Record
<1> DEFINE Mine(t) == /\ L!HasLock(t) => lock = t
                      /\ prep[t] > 0 => lock = t /\ ~L!InFlight(t) /\ prep[t] = 1
<1>d. shared => shared'
  BY DEF LandNext, L!Next, L!Landing, L!Button, L!Agent, L!Check, L!Scratch, L!TestsDone, L!ReadRoot,
     L!Merge, L!UpdateRef, L!Reset, L!GitFails, L!Fail, L!End, L!Prepared, L!Press, L!Prepare, L!FixCommit,
     L!FixStash, L!FixRebase, L!FixQueue, L!RemoveTerminal, L!AgentEdits, L!AgentCommits, L!AgentStops,
     L!Drain, L!OutsideCommit, L!Checkout, L!Edit, L!Restart, L!seen, lvars
<1>e. \A t \in Sessions : Mine(t)
  BY <1>d DEF L!LockInv
<1> DEFINE Mine2(t) == /\ L!HasLock(t)' => lock' = t
                       /\ prep'[t] > 0 => lock' = t /\ ~L!InFlight(t)' /\ prep'[t] = 1
<1>f. SUFFICES \A t \in Sessions : Mine2(t)
  BY DEF L!LockInv
<1>1. ASSUME NEW s \in Sessions, L!Check(s), NEW t \in Sessions PROVE Mine2(t)
  <2>1. prep' = prep /\ L!At(s, "check") /\ \A u \in Sessions : u # s => land'[u] = land[u]
    BY <1>1, <1>a, <1>b DEF L!Check
  <2>2. CASE L!Landable(s) /\ lock' = s /\ L!Go(s, "scratch")
    <3>1. lock \in {"none", "dead", s}
      BY <2>2 DEF L!Landable, L!LockedFor
    <3>2. t # s => ~L!HasLock(t) /\ ~(prep[t] > 0)
      BY <1>0, <1>e, <3>1
    <3>3. ~(prep[s] > 0)
      BY <1>e, <2>1 DEF L!At, L!InFlight
    <3> QED
      BY <2>1, <2>2, <3>2, <3>3 DEF L!HasLock, L!InFlight
  <2>3. CASE L!Go(s, "idle") /\ lock' = IF lock = "dead" THEN "none" ELSE lock
    <3>1. land'[s].pc = "idle"
      BY <1>a, <1>b, <2>3
    <3>2. ~(prep[s] > 0)
      BY <1>e, <2>1 DEF L!At, L!InFlight
    <3> QED
      BY <1>0, <1>e, <2>1, <2>3, <3>1, <3>2 DEF L!HasLock, L!InFlight
  <2> QED
    BY <1>1, <2>2, <2>3 DEF L!Check
<1>2. ASSUME NEW s \in Sessions,
             L!Scratch(s) \/ L!TestsDone(s) \/ L!ReadRoot(s) \/ L!Merge(s) \/ L!UpdateRef(s)
               \/ L!Reset(s) \/ L!GitFails(s) \/ L!Fail(s)
      PROVE  L!LockInv'
  <2>1. UNCHANGED <<lock, prep, shared>> /\ land[s].pc \notin {"idle", "check", "stuck"}
    BY <1>2 DEF L!Scratch, L!TestsDone, L!ReadRoot, L!Merge, L!UpdateRef, L!Reset, L!GitFails, L!Fail, L!At, L!seen
  <2>2. ASSUME NEW t \in Sessions, t # s PROVE land'[t].pc = land[t].pc
    <3>1. CASE L!Scratch(s)
      BY <1>c, <2>2, <3>1 DEF L!Scratch
    <3>2. CASE L!ReadRoot(s)
      BY <1>c, <2>2, <3>2 DEF L!ReadRoot
    <3>3. CASE L!Merge(s) \/ L!UpdateRef(s)
      BY <1>a, <1>b, <2>2, <3>3, MovedIs DEF L!Merge, L!UpdateRef
    <3>4. CASE L!TestsDone(s) \/ L!Reset(s) \/ L!GitFails(s) \/ L!Fail(s)
      BY <1>a, <1>b, <2>2, <3>4 DEF L!TestsDone, L!Reset, L!GitFails, L!Fail
    <3> QED
      BY <1>2, <3>1, <3>2, <3>3, <3>4
  <2> QED
    BY <2>1, <2>2, LockKept
<1>3. ASSUME NEW s \in Sessions, L!End(s), NEW t \in Sessions PROVE Mine2(t)
  <2>1. /\ prep' = prep /\ land[s].pc = "end" /\ land'[s].pc = "idle"
        /\ \A u \in Sessions : u # s => land'[u] = land[u]
    BY <1>3, <1>a, <1>b DEF L!End, L!At
  <2>2. lock = s /\ lock \notin {"none", "dead"}
    BY <1>0, <1>e, <2>1 DEF L!HasLock
  <2>3. \A u \in Sessions : u # s => ~L!HasLock(u) /\ ~(prep[u] > 0)
    BY <1>e, <2>2
  <2>4. ~(prep[s] > 0)
    BY <1>e, <2>1 DEF L!InFlight
  <2> QED
    BY <2>1, <2>3, <2>4 DEF L!HasLock
<1>4. ASSUME NEW s \in Sessions, L!Prepared(s), NEW t \in Sessions PROVE Mine2(t)
  <2>1. prep[s] > 0 /\ land' = land /\ prep' = [prep EXCEPT ![s] = prep[s] - 1]
    BY <1>4 DEF L!Prepared
  <2>2. lock = s /\ prep[s] = 1 /\ ~L!InFlight(s)
    BY <1>e, <2>1
  <2>3. \A u \in Sessions : u # s => ~L!HasLock(u) /\ ~(prep[u] > 0)
    BY <1>e, <2>2
  <2>4. prep'[s] = 0 /\ \A u \in Sessions : u # s => prep'[u] = prep[u]
    BY <1>c, <2>1, <2>2
  <2> QED
    BY <2>1, <2>2, <2>3, <2>4 DEF L!HasLock, L!InFlight
<1>5. ASSUME NEW s \in Sessions, L!Enter(s), UNCHANGED <<lock, prep>>, ~L!InFlight(s), ~(prep[s] > 0),
             NEW t \in Sessions
      PROVE  Mine2(t)
  <2>1. land'[s].pc \in {"check", "stuck"} /\ \A u \in Sessions : u # s => land'[u] = land[u]
    BY <1>5, EnterIs
  <2> QED
    BY <1>e, <1>5, <2>1 DEF L!HasLock, L!InFlight
<1>6. ASSUME NEW s \in Sessions, L!Press(s) PROVE \A t \in Sessions : Mine2(t)
  BY <1>5, <1>6 DEF L!Press
<1>7. ASSUME NEW s \in Sessions, L!Prepare(s), NEW t \in Sessions PROVE Mine2(t)
  <2>1. land' = land /\ L!CanLand(s) /\ ~(prep[s] > 0) /\ ~L!InFlight(s)
    BY <1>7 DEF L!Prepare, L!CanLand
  <2>2. lock \in {"none", "dead", s}
    BY <2>1 DEF L!CanLand, L!Landable, L!LockedFor
  <2>3. \A u \in Sessions : ~L!HasLock(u) /\ ~(prep[u] > 0)
    BY <1>0, <1>e, <2>1, <2>2 DEF L!HasLock, L!InFlight
  <2>4. prep[s] = 0
    BY <1>c, <2>1
  <2>5. CASE lock' = s /\ prep' = [prep EXCEPT ![s] = @ + 1]
    <3>1. prep'[s] = 1 /\ \A u \in Sessions : u # s => prep'[u] = prep[u]
      BY <1>c, <2>4, <2>5
    <3> QED
      BY <2>1, <2>3, <2>5, <3>1 DEF L!HasLock, L!InFlight
  <2>6. CASE prep' = prep
    BY <2>1, <2>3, <2>6 DEF L!HasLock
  <2> QED
    BY <1>7, <2>5, <2>6 DEF L!Prepare
<1>8. CASE L!Drain
  <2>1. CASE land' = land /\ prep' = prep /\ lock' = lock
    BY <1>e, <2>1 DEF L!HasLock, L!InFlight
  <2>2. CASE \E s \in Sessions : L!CanLand(s) /\ L!Enter(s) /\ shared' = (shared \/ prep[s] > 0)
    <3>1. PICK s \in Sessions : L!CanLand(s) /\ L!Enter(s) /\ shared' = (shared \/ prep[s] > 0)
      BY <2>2
    <3>2. UNCHANGED <<lock, prep>>
      BY <1>8 DEF L!Drain
    <3>3. ~L!InFlight(s) /\ ~(prep[s] > 0)
      BY <3>1 DEF L!CanLand
    <3> QED
      BY <1>5, <3>1, <3>2, <3>3
  <2> QED
    BY <1>8, <2>1, <2>2 DEF L!Drain
<1>9. CASE L!Restart
  BY <1>9 DEF L!Restart, L!NotLanding, L!HasLock, L!InFlight
<1>10. ASSUME L!OutsideCommit PROVE L!LockInv'
  <2>1. UNCHANGED <<lock, prep, shared>>
    BY <1>10 DEF L!OutsideCommit
  <2>2. \A t \in Sessions : land'[t].pc = land[t].pc
    BY <1>10 DEF L!OutsideCommit, L!Moved
  <2> QED
    BY <2>1, <2>2, LockKept
<1>11. ASSUME UNCHANGED <<lock, prep, shared, land>> PROVE L!LockInv'
  BY <1>11, LockKept
<1>12. ASSUME NEW s \in Sessions,
              L!FixCommit(s) \/ L!FixStash(s) \/ L!FixRebase(s) \/ L!FixQueue(s) \/ L!RemoveTerminal(s)
                \/ L!Agent(s) \/ L!Checkout \/ L!Edit
       PROVE  UNCHANGED <<lock, prep, shared, land>>
  BY <1>12 DEF L!FixCommit, L!FixStash, L!FixRebase, L!FixQueue, L!RemoveTerminal, L!Agent,
     L!AgentEdits, L!AgentCommits, L!AgentStops, L!Checkout, L!Edit, L!board, L!seen
<1>13. ASSUME L!Checkout \/ L!Edit \/ UNCHANGED lvars PROVE L!LockInv'
  BY <1>11, <1>13 DEF L!Checkout, L!Edit, L!board, L!seen, lvars
<1> HIDE DEF Mine2
<1>14. L!LockInv' \/ \A t \in Sessions : Mine2(t)
  BY <1>1, <1>2, <1>3, <1>4, <1>6, <1>7, <1>8, <1>9, <1>10, <1>11, <1>12, <1>13
  DEF LandNext, L!Next, L!Landing, L!Button
<1> QED
  BY <1>14 DEF L!LockInv, Mine2

\* A landing whose scratch worktree is what it was, and is not left behind by the base unnoticed.
LEMMA HeadKept ==
  ASSUME NEW t \in Sessions, L!HeadInv(t), lateWork \subseteq lateWork', landed \subseteq landed',
         land'[t].pc \in {"test", "root", "move", "reset"} =>
           land[t].pc \in {"test", "root", "move", "reset"} /\ land'[t].head = land[t].head,
         land'[t].pc \in {"test", "root", "move"} =>
           /\ land[t].pc \in {"test", "root", "move"}
           /\ land'[t].moved \/ (trunk' = trunk /\ ~land[t].moved),
         land'[t].pc \in {"test", "root", "move", "reset"} =>
           \A n \in 1 .. MaxWork :
             L!Contains(tip'[t], <<t, n>>) =>
               \/ L!Contains(tip[t], <<t, n>>) \/ <<t, n>> \in lateWork'
               \/ \E c \in landed' : L!Contains(c, <<t, n>>)
  PROVE  L!HeadInv(t)'
<1>1. \A n : L!Safe(t, n) => <<t, n>> \in lateWork' \/ \E c \in landed' : L!Contains(c, <<t, n>>)
  BY DEF L!Safe
<1>2. ASSUME land'[t].pc \in {"test", "root", "move", "reset"}, NEW n \in 1 .. MaxWork,
             L!Contains(tip'[t], <<t, n>>)
      PROVE  \/ <<t, n>> \in lateWork' \/ \E c \in landed' : L!Contains(c, <<t, n>>)
             \/ L!Contains(land'[t].head, <<t, n>>)
  BY <1>1, <1>2 DEF L!HeadInv
<1>3. ASSUME land'[t].pc \in {"test", "root", "move"}, ~land'[t].moved
      PROVE  L!IsPrefix(trunk', land'[t].head)
  BY <1>3 DEF L!HeadInv
<1> QED
  BY <1>2, <1>3 DEF L!HeadInv, L!Safe

\* The steps that change neither the base nor a branch nor a scratch worktree.
LEMMA HeadsKept ==
  ASSUME L!LandTypeOK, \A t \in Sessions : L!HeadInv(t),
         UNCHANGED <<trunk, tip, lateWork>>, landed \subseteq landed',
         \A t \in Sessions : land'[t].pc \in {"test", "root", "move", "reset"} =>
                               /\ land[t].pc \in {"test", "root", "move", "reset"}
                               /\ land'[t].pc # "reset" => land[t].pc # "reset"
                               /\ land'[t].head = land[t].head /\ land'[t].moved = land[t].moved
  PROVE  \A t \in Sessions : L!HeadInv(t)'
<1> SUFFICES ASSUME NEW t \in Sessions PROVE L!HeadInv(t)'
  OBVIOUS
<1>1. \/ land'[t].pc \notin {"test", "root", "move"}
      \/ land[t].pc \in {"test", "root", "move"} /\ land[t].moved \in BOOLEAN /\ land'[t].moved = land[t].moved
  BY DEF L!LandTypeOK
<1> QED
  BY <1>1, HeadKept

LEMMA HeadNext ==
  L!LandTypeOK /\ L!LandTypeOK' /\ (\A t \in Sessions : L!HeadInv(t)) /\ LandNext =>
    \A t \in Sessions : L!HeadInv(t)'
<1> DEFINE Heads == \A t \in Sessions : L!HeadInv(t)'
<1> SUFFICES ASSUME L!LandTypeOK, L!LandTypeOK', \A t \in Sessions : L!HeadInv(t), LandNext PROVE Heads
  OBVIOUS
<1>0. /\ trunk \in L!CommitSet /\ trunk \in landed /\ tip \in [Sessions -> L!CommitSet]
      /\ land \in [Sessions -> Record]
  BY DEF L!LandTypeOK, Record
<1>a. \A s \in Sessions, p \in L!Pcs : L!Go(s, p) =>
        /\ land'[s].pc = p /\ land'[s].head = land[s].head /\ land'[s].moved = land[s].moved
        /\ \A t \in Sessions : t # s => land'[t] = land[t]
  BY GoIs
<1>b. {"idle", "check", "stuck", "scratch", "test", "root", "move", "reset", "fail", "end"} \subseteq L!Pcs
  BY DEF L!Pcs
<1>1. ASSUME NEW s \in Sessions, L!Check(s) \/ L!TestsDone(s) \/ L!GitFails(s) \/ L!Fail(s) \/ L!End(s) PROVE Heads
  <2>1. UNCHANGED <<trunk, tip, lateWork, landed>>
    BY <1>1 DEF L!Check, L!TestsDone, L!GitFails, L!Fail, L!End, L!git, L!seen
  <2>2. \/ L!Go(s, "scratch") \/ L!Go(s, "idle") \/ L!Go(s, "fail") \/ L!Go(s, "end")
        \/ L!At(s, "test") /\ L!Go(s, "root")
    BY <1>1 DEF L!Check, L!TestsDone, L!GitFails, L!Fail, L!End
  <2>3. ASSUME NEW t \in Sessions, land'[t].pc \in {"test", "root", "move", "reset"}
        PROVE  /\ land[t].pc \in {"test", "root", "move", "reset"}
               /\ land'[t].pc # "reset" => land[t].pc # "reset"
               /\ land'[t].head = land[t].head /\ land'[t].moved = land[t].moved
    BY <1>a, <1>b, <2>2, <2>3 DEF L!At
  <2> QED
    BY <2>1, <2>3, HeadsKept
<1>2. ASSUME NEW s \in Sessions, L!Scratch(s) PROVE Heads
  <2>1. UNCHANGED <<trunk, tip, lateWork, landed>>
    BY <1>2 DEF L!Scratch, L!git, L!seen
  <2>2. land'[s].head = L!Rebased(s) /\ \A t \in Sessions : t # s => land'[t] = land[t]
    BY <1>0, <1>2 DEF L!Scratch
  <2>3. \A t \in Sessions : t # s => L!HeadInv(t)'
    BY <2>1, <2>2 DEF L!HeadInv, L!Safe
  <2>4. L!HeadInv(s)'
    <3>1. L!IsPrefix(trunk, L!Rebased(s)) /\ \A e : L!Contains(tip[s], e) => L!Contains(L!Rebased(s), e)
      BY <1>0, ScratchKeeps DEF L!CommitSet
    <3> QED
      BY <2>1, <2>2, <3>1 DEF L!HeadInv
  <2> QED
    BY <2>3, <2>4
<1>3. ASSUME NEW s \in Sessions, L!ReadRoot(s) PROVE Heads
  <2>1. UNCHANGED <<trunk, tip, lateWork, landed>> /\ land[s].pc = "root"
    BY <1>3 DEF L!ReadRoot, L!git, L!seen, L!At
  <2>2. /\ land'[s].pc = "move" /\ land'[s].head = land[s].head /\ land'[s].moved = land[s].moved
        /\ \A t \in Sessions : t # s => land'[t] = land[t]
    BY <1>0, <1>3 DEF L!ReadRoot
  <2> QED
    BY <2>1, <2>2, HeadsKept
<1>4. ASSUME NEW s \in Sessions, L!Merge(s) \/ L!UpdateRef(s) PROVE Heads
  <2>1. UNCHANGED <<tip, lateWork>> /\ landed \subseteq landed' /\ land[s].pc = "move"
    BY <1>4 DEF L!Merge, L!UpdateRef, L!MoveTrunk, L!At
  <2>2. CASE trunk' = trunk /\ (L!Go(s, "reset") \/ L!Go(s, "fail"))
    <3>1. ASSUME NEW t \in Sessions, land'[t].pc \in {"test", "root", "move", "reset"}
          PROVE  /\ land[t].pc \in {"test", "root", "move", "reset"}
                 /\ land'[t].pc # "reset" => land[t].pc # "reset"
                 /\ land'[t].head = land[t].head /\ land'[t].moved = land[t].moved
      BY <1>a, <1>b, <2>1, <2>2, <3>1
    <3>2. UNCHANGED <<trunk, tip, lateWork>> /\ landed \subseteq landed'
      BY <2>1, <2>2
    <3> QED
      BY <3>1, <3>2, HeadsKept
  <2>3. CASE land' = [L!Moved(s) EXCEPT ![s].pc = "reset"]
    <3>1. /\ land'[s].pc = "reset" /\ land'[s].head = land[s].head
          /\ \A t \in Sessions : t # s => /\ land'[t].pc = land[t].pc
                                          /\ land'[t].head = land[t].head /\ land'[t].moved = TRUE
      BY <2>3, MovedIs
    <3> QED
      BY <2>1, <3>1, HeadKept
  <2> QED
    BY <1>4, <2>2, <2>3 DEF L!Merge, L!UpdateRef
<1>5. ASSUME NEW s \in Sessions, L!Reset(s) PROVE Heads
  <2>1. UNCHANGED <<trunk, lateWork, landed>>
    BY <1>5 DEF L!Reset, L!seen
  <2>2. land'[s].pc = "end" /\ \A t \in Sessions : t # s => land'[t] = land[t]
    BY <1>5, <1>a, <1>b DEF L!Reset
  <2>3. \A t \in Sessions : t # s => tip'[t] = tip[t]
    BY <1>0, <1>5 DEF L!Reset
  <2>4. \A t \in Sessions : t # s => L!HeadInv(t)'
    BY <2>1, <2>2, <2>3 DEF L!HeadInv, L!Safe
  <2> QED
    BY <2>2, <2>4 DEF L!HeadInv
<1>6. ASSUME NEW s \in Sessions, L!Enter(s), UNCHANGED <<trunk, lateWork, landed>> PROVE Heads
  <2>1. /\ land'[s].pc \in {"check", "stuck"}
        /\ \A t \in Sessions : t # s => land'[t] = land[t] /\ tip'[t] = tip[t]
    BY <1>6, EnterIs
  <2>2. \A t \in Sessions : t # s => L!HeadInv(t)'
    BY <1>6, <2>1 DEF L!HeadInv, L!Safe
  <2> QED
    BY <2>1, <2>2 DEF L!HeadInv
<1>7. ASSUME UNCHANGED <<trunk, tip, land, lateWork, landed>> PROVE Heads
  BY <1>7 DEF L!HeadInv, L!Safe
<1>8. CASE L!Drain
  <2>1. UNCHANGED <<trunk, lateWork, landed>>
    BY <1>8 DEF L!Drain
  <2>2. (\E s \in Sessions : L!Enter(s)) \/ UNCHANGED <<tip, land>>
    BY <1>8 DEF L!Drain
  <2> QED
    BY <1>6, <1>7, <2>1, <2>2
<1>9. ASSUME NEW s \in Sessions, L!Press(s) PROVE Heads
  BY <1>6, <1>9 DEF L!Press
<1>10. ASSUME NEW s \in Sessions, s \in dirty, L!CommitIn(s), L!Late(s), UNCHANGED <<trunk, land, landed>>
       PROVE  Heads
  <2>1. /\ \A t \in Sessions : t # s => tip'[t] = tip[t]
        /\ \A e : L!Contains(tip'[s], e) <=> L!Contains(tip[s], e) \/ e = <<s, made[s]>>
    BY <1>10, CommitIs
  <2>2. /\ lateWork \subseteq lateWork'
        /\ land[s].pc \in {"test", "root", "move", "reset"} => <<s, made[s]>> \in lateWork'
    BY <1>10 DEF L!Late, L!Work
  <2>3. \A t \in Sessions : land[t].moved \in BOOLEAN
    BY <1>0 DEF Record
  <2>4. ASSUME NEW t \in Sessions, t # s PROVE L!HeadInv(t)'
    BY <1>10, <2>1, <2>2, <2>3, <2>4, HeadKept
  <2>5. L!HeadInv(s)'
    <3>1. ASSUME land'[s].pc \in {"test", "root", "move", "reset"}, NEW n \in 1 .. MaxWork,
                 L!Contains(tip'[s], <<s, n>>)
          PROVE  L!Contains(tip[s], <<s, n>>) \/ <<s, n>> \in lateWork'
      BY <1>10, <2>1, <2>2, <3>1
    <3> QED
      BY <1>10, <2>2, <2>3, <3>1, HeadKept
  <2> QED
    BY <2>4, <2>5
<1>11. ASSUME NEW s \in Sessions, L!FixCommit(s) \/ L!AgentCommits(s) PROVE Heads
  BY <1>10, <1>11 DEF L!FixCommit, L!AgentCommits, L!board
<1>12. ASSUME NEW s \in Sessions, L!FixRebase(s) PROVE Heads
  <2>1. UNCHANGED <<trunk, land, lateWork, landed>> /\ tip' = [tip EXCEPT ![s] = trunk \o L!Replayed(s)]
    BY <1>12 DEF L!FixRebase, L!board, L!seen
  <2>2. \A e : L!Contains(trunk \o L!Replayed(s), e) => L!Contains(trunk, e) \/ L!Contains(tip[s], e)
    BY <1>0, RebaseKeeps DEF L!CommitSet
  <2>3. \A t \in Sessions : \A e : L!Contains(tip'[t], e) => L!Contains(trunk, e) \/ L!Contains(tip[t], e)
    BY <2>1, <2>2
  <2>4. \A t \in Sessions : land[t].moved \in BOOLEAN
    BY <1>0 DEF Record
  <2> QED
    BY <1>0, <2>1, <2>3, <2>4, HeadKept
<1>13. ASSUME NEW s \in Sessions, L!RemoveTerminal(s) PROVE Heads
  <2>1. UNCHANGED <<trunk, land, lateWork, landed>> /\ (tip' = tip \/ tip' = [tip EXCEPT ![s] = << >>])
    BY <1>13 DEF L!RemoveTerminal, L!board, L!seen
  <2>2. land'[s].pc = "idle"
    BY <1>13, <2>1 DEF L!RemoveTerminal, L!InFlight
  <2>3. \A t \in Sessions : t # s => tip'[t] = tip[t]
    BY <1>0, <2>1
  <2>4. \A t \in Sessions : t # s => L!HeadInv(t)'
    BY <2>1, <2>3 DEF L!HeadInv, L!Safe
  <2> QED
    BY <2>2, <2>4 DEF L!HeadInv
<1>14. CASE L!OutsideCommit
  <2>1. UNCHANGED <<tip, lateWork>> /\ landed \subseteq landed' /\ land' = L!Moved("none")
    BY <1>14 DEF L!OutsideCommit, L!MoveTrunk
  <2>2. "none" \notin Sessions
    BY LandAssumption DEF L!NamesAssumption
  <2>3. \A t \in Sessions : land'[t] = [land[t] EXCEPT !.moved = TRUE]
    BY <2>1, <2>2 DEF L!Moved
  <2>4. \A t \in Sessions : land'[t].pc = land[t].pc /\ land'[t].head = land[t].head /\ land'[t].moved = TRUE
    <3>1. ASSUME NEW q \in Record
          PROVE  /\ [q EXCEPT !.moved = TRUE].pc = q.pc /\ [q EXCEPT !.moved = TRUE].head = q.head
                 /\ [q EXCEPT !.moved = TRUE].moved = TRUE
      OBVIOUS
    <3>2. \A t \in Sessions : land[t] \in Record
      BY <1>0
    <3> QED
      BY <2>3, <3>1, <3>2
  <2> QED
    BY <2>1, <2>4, HeadKept
<1>15. CASE L!Restart
  <2>1. \A t \in Sessions : land'[t].pc = "idle"
    BY <1>15 DEF L!Restart, L!NotLanding
  <2> QED
    BY <2>1 DEF L!HeadInv
<1>16. ASSUME NEW s \in Sessions,
              L!Prepared(s) \/ L!Prepare(s) \/ L!FixStash(s) \/ L!FixQueue(s) \/ L!AgentEdits(s) \/ L!AgentStops(s)
       PROVE  Heads
  BY <1>7, <1>16 DEF L!Prepared, L!Prepare, L!FixStash, L!FixQueue, L!AgentEdits, L!AgentStops,
     L!git, L!board, L!seen
<1>17. CASE L!Checkout \/ L!Edit \/ UNCHANGED lvars
  BY <1>7, <1>17 DEF L!Checkout, L!Edit, L!board, L!seen, lvars
<1> HIDE DEF Heads
<1> QED
  BY <1>1, <1>2, <1>3, <1>4, <1>5, <1>8, <1>9, <1>11, <1>12, <1>13, <1>14, <1>15, <1>16, <1>17
  DEF LandNext, L!Next, L!Landing, L!Button, L!Agent

\* What is committed is kept by what keeps the branches, or brings what was on one to the base.
LEMMA WorkStays ==
  ASSUME L!WorkIsKept, lateWork \subseteq lateWork', stash \subseteq stash', landed \subseteq landed',
         \A s \in Sessions, n \in 1 .. MaxWork :
           L!Contains(tip[s], <<s, n>>) =>
             \/ <<s, n>> \in lateWork' \cup stash' \/ L!Contains(tip'[s], <<s, n>>)
             \/ \E c \in landed' : L!Contains(c, <<s, n>>),
         \A s \in Sessions, n \in 1 .. MaxWork :
           n > made[s] \/ (n = made[s] /\ s \in dirty) =>
             \/ <<s, n>> \in stash' \/ L!Contains(tip'[s], <<s, n>>)
             \/ n > made'[s] \/ (n = made'[s] /\ s \in dirty')
  PROVE  L!WorkIsKept'
<1> SUFFICES ASSUME NEW s \in Sessions, NEW n \in 1 .. MaxWork
             PROVE  \/ <<s, n>> \in lateWork' \cup stash' \/ L!Contains(tip'[s], <<s, n>>)
                    \/ \E c \in landed' : L!Contains(c, <<s, n>>)
                    \/ n > made'[s] \/ (n = made'[s] /\ s \in dirty')
  BY DEF L!WorkIsKept
<1> DEFINE e == <<s, n>>
<1>1. \/ e \in lateWork \cup stash \/ L!Contains(tip[s], e) \/ (\E c \in landed : L!Contains(c, e))
      \/ n > made[s] \/ (n = made[s] /\ s \in dirty)
  BY DEF L!WorkIsKept
<1> QED
  BY <1>1

LEMMA WorkNext == L!LandInv /\ L!LandTypeOK' /\ LandNext => L!WorkIsKept'
<1> SUFFICES ASSUME L!LandInv, L!LandTypeOK', LandNext PROVE L!WorkIsKept'
  OBVIOUS
<1>0. /\ L!LandTypeOK /\ L!WorkIsKept /\ \A t \in Sessions : L!HeadInv(t)
      /\ trunk \in L!CommitSet /\ trunk \in landed /\ tip \in [Sessions -> L!CommitSet]
      /\ land \in [Sessions -> Record] /\ made \in [Sessions -> 0 .. MaxWork]
  BY DEF L!LandInv, L!LandTypeOK, Record
<1>1. ASSUME UNCHANGED <<tip, made, dirty>>, lateWork \subseteq lateWork', stash \subseteq stash',
             landed \subseteq landed'
      PROVE  L!WorkIsKept'
  BY <1>0, <1>1, WorkStays
<1>2. ASSUME NEW s \in Sessions,
             L!Check(s) \/ L!Scratch(s) \/ L!TestsDone(s) \/ L!ReadRoot(s) \/ L!Merge(s) \/ L!UpdateRef(s)
               \/ L!GitFails(s) \/ L!Fail(s) \/ L!End(s) \/ L!Prepared(s) \/ L!Prepare(s) \/ L!FixQueue(s) \/ L!AgentStops(s)
      PROVE  L!WorkIsKept'
  <2>1. UNCHANGED <<tip, made, dirty, lateWork, stash>> /\ landed \subseteq landed'
    BY <1>2 DEF L!Check, L!Scratch, L!TestsDone, L!ReadRoot, L!Merge, L!UpdateRef, L!GitFails, L!Fail, L!End,
       L!Prepared, L!Prepare, L!FixQueue, L!AgentStops, L!MoveTrunk, L!git, L!seen
  <2> QED
    BY <1>1, <2>1
<1>3. CASE L!OutsideCommit \/ L!Checkout \/ L!Edit \/ L!Restart \/ UNCHANGED lvars
  <2>1. UNCHANGED <<tip, made, dirty, lateWork, stash>> /\ landed \subseteq landed'
    BY <1>3 DEF L!OutsideCommit, L!Checkout, L!Edit, L!Restart, L!MoveTrunk, L!git, L!seen, lvars
  <2> QED
    BY <1>1, <2>1
<1>4. ASSUME NEW s \in Sessions, L!Reset(s) PROVE L!WorkIsKept'
  <2>1. UNCHANGED <<made, dirty, stash, lateWork, landed>> /\ land[s].pc = "reset"
    BY <1>4 DEF L!Reset, L!seen, L!At
  <2>2. tip' = tip \/ tip' = [tip EXCEPT ![s] = land[s].head]
    BY <1>4 DEF L!Reset
  <2>3. ASSUME NEW t \in Sessions, NEW n \in 1 .. MaxWork, L!Contains(tip[t], <<t, n>>)
        PROVE  \/ <<t, n>> \in lateWork \/ L!Contains(tip'[t], <<t, n>>)
               \/ \E c \in landed : L!Contains(c, <<t, n>>)
    <3>1. CASE tip'[t] = tip[t]
      BY <2>3, <3>1
    <3>2. CASE t = s /\ tip'[s] = land[s].head
      BY <1>0, <2>1, <2>3, <3>2 DEF L!HeadInv, L!Safe
    <3> QED
      BY <1>0, <2>2, <3>1, <3>2
  <2> QED
    BY <1>0, <2>1, <2>3, WorkStays
<1>5. ASSUME NEW s \in Sessions, L!Enter(s), UNCHANGED <<made, stash, lateWork, landed>>
      PROVE  L!WorkIsKept'
  <2>1. /\ \A t \in Sessions : t # s => tip'[t] = tip[t]
        /\ dirty' \in {dirty, dirty \ {s}} /\ \A e : L!Contains(tip[s], e) => L!Contains(tip'[s], e)
        /\ s \in dirty \ dirty' => L!Contains(tip'[s], <<s, made[s]>>)
    BY <1>0, <1>5, EnterIs
  <2> QED
    BY <1>0, <1>5, <2>1, WorkStays
<1>6. ASSUME NEW s \in Sessions, L!Press(s) PROVE L!WorkIsKept'
  BY <1>5, <1>6 DEF L!Press
<1>7. CASE L!Drain
  <2>1. UNCHANGED <<made, stash, lateWork, landed>>
    BY <1>7 DEF L!Drain
  <2>2. (\E s \in Sessions : L!Enter(s)) \/ UNCHANGED <<tip, dirty>>
    BY <1>7 DEF L!Drain
  <2> QED
    BY <1>1, <1>5, <2>1, <2>2
<1>8. ASSUME NEW s \in Sessions, L!FixCommit(s) \/ L!AgentCommits(s) PROVE L!WorkIsKept'
  <2>1. s \in dirty /\ L!CommitIn(s) /\ UNCHANGED <<made, stash, landed>> /\ lateWork \subseteq lateWork'
    BY <1>8 DEF L!FixCommit, L!AgentCommits, L!Late
  <2>2. /\ dirty' = dirty \ {s} /\ \A t \in Sessions : t # s => tip'[t] = tip[t]
        /\ \A e : L!Contains(tip'[s], e) <=> L!Contains(tip[s], e) \/ e = <<s, made[s]>>
    BY <1>0, <2>1, CommitIs
  <2> QED
    BY <1>0, <2>1, <2>2, WorkStays
<1>9. ASSUME NEW s \in Sessions, L!FixStash(s) PROVE L!WorkIsKept'
  <2>1. /\ UNCHANGED <<tip, made, lateWork, landed>> /\ dirty' = dirty \ {s}
        /\ stash' = stash \cup {<<s, made[s]>>}
    BY <1>9 DEF L!FixStash, L!seen, L!Work
  <2> QED
    BY <1>0, <2>1, WorkStays
<1>10. ASSUME NEW s \in Sessions, L!FixRebase(s) PROVE L!WorkIsKept'
  <2>1. /\ UNCHANGED <<made, dirty, stash, lateWork, landed>>
        /\ tip' = [tip EXCEPT ![s] = trunk \o L!Replayed(s)]
    BY <1>10 DEF L!FixRebase, L!seen
  <2>2. \A e : L!Contains(tip[s], e) => L!Contains(trunk \o L!Replayed(s), e)
    BY <1>0, RebaseKeeps DEF L!CommitSet
  <2>3. \A t \in Sessions : \A e : L!Contains(tip[t], e) => L!Contains(tip'[t], e)
    BY <2>1, <2>2
  <2> QED
    BY <1>0, <2>1, <2>3, WorkStays
<1>11. ASSUME NEW s \in Sessions, L!RemoveTerminal(s) PROVE L!WorkIsKept'
  <2>1. UNCHANGED <<made, dirty, stash, lateWork, landed>>
    BY <1>11 DEF L!RemoveTerminal, L!seen
  <2>2. CASE UNCHANGED tip
    BY <1>1, <2>1, <2>2
  <2>3. CASE (\A i \in DOMAIN tip[s] : L!Contains(trunk, tip[s][i])) /\ tip' = [tip EXCEPT ![s] = << >>]
    <3>1. DOMAIN tip[s] = 1 .. Len(tip[s])
      OBVIOUS
    <3>2. \A e : L!Contains(tip[s], e) => L!Contains(trunk, e)
      BY <2>3, <3>1 DEF L!Contains
    <3>3. \A t \in Sessions : t # s => tip'[t] = tip[t]
      BY <2>3
    <3> QED
      BY <1>0, <2>1, <3>2, <3>3, WorkStays
  <2> QED
    BY <1>11, <2>2, <2>3 DEF L!RemoveTerminal
<1>12. ASSUME NEW s \in Sessions, L!AgentEdits(s) PROVE L!WorkIsKept'
  <2>1. /\ UNCHANGED <<tip, stash, lateWork, landed>> /\ s \notin dirty /\ dirty' = dirty \cup {s}
        /\ made' = [made EXCEPT ![s] = made[s] + 1]
    BY <1>12 DEF L!AgentEdits, L!seen
  <2>2. ASSUME NEW t \in Sessions, NEW n \in 1 .. MaxWork, n > made[t] \/ (n = made[t] /\ t \in dirty)
        PROVE  n > made'[t] \/ (n = made'[t] /\ t \in dirty')
    <3>1. CASE t = s
      <4>1. made[s] \in Nat /\ made'[s] = made[s] + 1 /\ n \in Nat /\ n > made[s] /\ s \in dirty'
        BY <1>0, <2>1, <2>2, <3>1
      <4>2. n > made'[s] \/ n = made'[s]
        BY <4>1
      <4> QED
        BY <3>1, <4>1, <4>2
    <3>2. CASE t # s
      BY <2>1, <2>2, <3>2
    <3> QED
      BY <3>1, <3>2
  <2> QED
    BY <1>0, <2>1, <2>2, WorkStays
<1> QED
  BY <1>2, <1>3, <1>4, <1>6, <1>7, <1>8, <1>9, <1>10, <1>11, <1>12
  DEF LandNext, L!Next, L!Landing, L!Button, L!Agent

LEMMA LandInit == L!Init => L!LandInv
<1> SUFFICES ASSUME L!Init PROVE L!LandInv
  OBVIOUS
<1>0. /\ trunk = << >> /\ tip = [s \in Sessions |-> << >>] /\ made = [s \in Sessions |-> 0] /\ dirty = {}
      /\ lock = "none" /\ land = [s \in Sessions |-> L!NotLanding] /\ prep = [s \in Sessions |-> 0]
      /\ landed = {<< >>} /\ shared = FALSE /\ used = [k \in L!Outside |-> 0]
  BY DEF L!Init
<1>1. << >> \in L!CommitSet /\ MaxWork \in Nat
  BY LandAssumption DEF L!CommitSet, L!BudgetAssumption
<1>2. L!NotLanding \in Record /\ L!NotLanding.pc = "idle"
  BY <1>1 DEF L!NotLanding, Record, L!Pcs
<1>3. land \in [Sessions -> Record] /\ \A s \in Sessions : land[s].pc = "idle"
  BY <1>0, <1>2
<1>4. L!LandTypeOK
  <2>1. /\ trunk \in L!CommitSet /\ trunk \in landed /\ tip \in [Sessions -> L!CommitSet]
        /\ made \in [Sessions -> 0 .. MaxWork] /\ dirty \subseteq {s \in Sessions : made[s] > 0}
    BY <1>0, <1>1
  <2>2. prep \in [Sessions -> Nat] /\ used \in [L!Outside -> Nat]
    BY <1>0
  <2> QED
    BY <1>0, <1>3, <2>1, <2>2 DEF L!LandTypeOK, Record
<1>5. L!LockInv
  BY <1>0, <1>3 DEF L!LockInv, L!HasLock
<1>6. \A s \in Sessions : L!HeadInv(s)
  BY <1>3 DEF L!HeadInv
<1>7. L!WorkIsKept
  BY <1>0 DEF L!WorkIsKept
<1> QED
  BY <1>4, <1>5, <1>6, <1>7 DEF L!LandInv

LEMMA LandStep == L!LandInv /\ LandNext => L!LandInv'
<1> SUFFICES ASSUME L!LandInv, LandNext PROVE L!LandInv'
  OBVIOUS
<1>1. L!LandTypeOK /\ L!LockInv /\ \A s \in Sessions : L!HeadInv(s)
  BY DEF L!LandInv
<1>2. L!LandTypeOK'
  BY <1>1, LandTypes
<1>3. L!LockInv'
  BY <1>1, <1>2, LockNext
<1>4. \A s \in Sessions : L!HeadInv(s)'
  BY <1>1, <1>2, HeadNext
<1>5. L!WorkIsKept'
  BY <1>2, WorkNext
<1> QED
  BY <1>2, <1>3, <1>4, <1>5 DEF L!LandInv

\* The base grows, or an update-ref of a landing under which it had moved replaced it.
LEMMA TrunkStep ==
  L!LandInv /\ LandNext =>
    L!IsPrefix(trunk, trunk') \/ \E s \in Sessions : L!UpdateRef(s) /\ land[s].moved
<1> SUFFICES ASSUME L!LandInv, LandNext, ~\E s \in Sessions : L!UpdateRef(s) /\ land[s].moved
             PROVE  L!IsPrefix(trunk, trunk')
  OBVIOUS
<1>0. trunk \in Seq(L!Changes)
  BY DEF L!LandInv, L!LandTypeOK, L!CommitSet
<1>1. CASE trunk' = trunk
  BY <1>0, <1>1, PrefixIs DEF Starts
<1>2. ASSUME NEW s \in Sessions, L!UpdateRef(s) PROVE L!IsPrefix(trunk, trunk')
  <2>1. land[s].pc = "move" /\ ~land[s].moved /\ trunk' = land[s].head
    BY <1>2 DEF L!UpdateRef, L!At, L!MoveTrunk
  <2> QED
    BY <2>1 DEF L!LandInv, L!HeadInv
<1>3. ASSUME NEW s \in Sessions, L!Merge(s) PROVE L!IsPrefix(trunk, trunk')
  BY <1>1, <1>3 DEF L!Merge, L!MoveTrunk
<1>4. CASE L!OutsideCommit
  <2> DEFINE e == <<"root", used["commit"]>>
  <2>1. trunk' = Append(trunk, e)
    BY <1>4 DEF L!OutsideCommit, L!MoveTrunk
  <2>2. e \in L!Changes
    <3>1. used["commit"] \in Nat
      BY DEF L!LandInv, L!LandTypeOK, L!Outside
    <3> QED
      BY <3>1 DEF L!Changes
  <2> HIDE DEF e
  <2>3. Append(trunk, e) \in Seq(L!Changes) /\ Len(trunk) <= Len(Append(trunk, e))
        /\ \A i \in 1 .. Len(trunk) : Append(trunk, e)[i] = trunk[i]
    BY <1>0, <2>2
  <2> QED
    BY <1>0, <2>1, <2>3, PrefixIs DEF Starts
<1>5. \/ trunk' = trunk \/ L!OutsideCommit \/ \E s \in Sessions : L!UpdateRef(s) \/ L!Merge(s)
  BY DEF LandNext, L!Next, L!Landing, L!Button, L!Agent, L!Check, L!Scratch, L!TestsDone, L!ReadRoot,
     L!Reset, L!GitFails, L!Fail, L!End, L!Prepared, L!Press, L!Prepare, L!FixCommit, L!FixStash, L!FixRebase,
     L!FixQueue, L!RemoveTerminal, L!AgentEdits, L!AgentCommits, L!AgentStops, L!Drain, L!Checkout,
     L!Edit, L!Restart, L!git, lvars
<1> QED
  BY <1>1, <1>2, <1>3, <1>4, <1>5

\* Landings exclude each other, and no commit leaves a branch unless it reached the base or came
\* while its landing ran (land.mjs, sessions.mjs).
THEOREM LandingsAreSafeThm == PartSafety => []LandingsAreSafe
<1>1. PartInit => L!LandInv
  BY LandInit DEF PartInit
<1>2. [PartNext]_<<part, vars, lvars>> => LandNext
  BY DEF PartNext, LandNext
<1>3. L!LandInv /\ LandNext => L!LandInv'
  BY LandStep
<1>4. L!LandInv => LandingsAreSafe
  BY DEF L!LandInv, L!LockInv, LandingsAreSafe, L!LandingsAreSafe, L!OneLanding
<1> QED
  BY <1>1, <1>2, <1>3, <1>4, PTL DEF PartSafety

\* The base only loses a commit to an update-ref of a landing under which it had moved
\* (land.mjs: the root is on another branch by then).
THEOREM TrunkKeepsThm == PartSafety => TrunkKeeps
<1>1. PartInit => L!LandInv
  BY LandInit DEF PartInit
<1>2. [PartNext]_<<part, vars, lvars>> => LandNext
  BY DEF PartNext, LandNext
<1>3. L!LandInv /\ LandNext => L!LandInv'
  BY LandStep
<1>4. L!LandInv /\ LandNext =>
        [L!IsPrefix(trunk, trunk') \/ \E s \in Sessions : L!UpdateRef(s) /\ land[s].moved]_(L!vars)
  BY TrunkStep
<1> QED
  BY <1>1, <1>2, <1>3, <1>4, PTL DEF PartSafety, TrunkKeeps, L!TrunkKeeps
=============================================================================
