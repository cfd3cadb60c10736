---------------------------- MODULE SessionProofs ----------------------------
(***************************************************************************)
(* What the end of a connection leaves behind, for all values of the       *)
(* constants: the proofs of NoDeadSender and OnlineHasConnection.  The     *)
(* first needs that no claim is confirmed, for a claim registers a waiter  *)
(* that never authenticated; the second needs nothing but the types.       *)
(***************************************************************************)
EXTENDS LockProofs

NoClaims == "claim" \notin Ops

ClaimLabels == {"claim.take", "claim.online", "claim.register"}

\* A connection past the removal of its sender, and past its going offline.
Unregistered == {"clean.offline", "clean.list", "stop.one", "stop.free", "gone"}
Offline == Unregistered \ {"clean.offline"}

NoClaimRuns == \A p \in Procs : pc[p] \notin ClaimLabels

SendersInv ==
    \A s \in Sessions : pc[s] \in Unregistered =>
        \A a \in sess[s].authed : senders[a] # {s}

-----------------------------------------------------------------------------
(* What the steps have in common. *)

Moves(p) == \A q \in Procs \ {p} : pc'[q] = pc[q]

\* No agent gets a connection.
NoNewSender == \A a \in Agents, s \in Sessions : senders'[a] = {s} => senders[a] = {s}

\* No connection comes to the end of its life, nor changes its agent.
NoneEnds ==
    \A s \in Sessions :
        /\ pc'[s] \in Unregistered => pc[s] \in Unregistered
        /\ pc'[s] \in Offline => pc[s] \in Offline
        /\ sess'[s].authed = sess[s].authed

\* A step that leaves both alone keeps the invariant.
LEMMA NothingEnds ==
  ASSUME TypeOK, SendersInv, NoNewSender, NoneEnds PROVE SendersInv'
<1> SUFFICES ASSUME NEW s \in Sessions, pc'[s] \in Unregistered,
                    NEW a \in sess'[s].authed, senders'[a] = {s}
             PROVE  FALSE
  BY DEF SendersInv
<1>1. a \in sess[s].authed /\ pc[s] \in Unregistered
  BY DEF NoneEnds
<1>2. a \in Agents
  BY <1>1, OptMember DEF TypeOK, SessionLocals
<1> QED
  BY <1>1, <1>2 DEF SendersInv, NoNewSender

\* Where a handler returns to.
LEMMA ReturnPc ==
  ASSUME TypeOK, NEW p \in Procs, Return(p)
  PROVE  Moves(p) /\ pc'[p] \notin Unregistered \cup ClaimLabels
  BY DEF TypeOK, Return, Finish, Home, Moves, Unregistered, ClaimLabels

\* Goto moves its process only.
LEMMA GotoPc ==
  ASSUME TypeOK, NEW p \in Procs, NEW label, Goto(p, label)
  PROVE  Moves(p) /\ pc'[p] = label
  BY DEF TypeOK, Goto, Moves

\* The loops of tunnel_manager.rs end no connection but one that is offline.
LEMMA TunnelStepMoves ==
  ASSUME TypeOK, NEW p \in Procs, TunnelStep(p)
  PROVE  /\ Moves(p) /\ pc'[p] \notin ClaimLabels
         /\ pc'[p] \in Unregistered => pc[p] \in Offline
         /\ UNCHANGED <<agents, senders, sess>>
<1>1. UNCHANGED <<agents, senders, sess>>
  BY DEF TunnelStep, StartStop, StartBind, StartBindFails, StartInsert, SyncList,
         SyncReserve, StopOne, FreeOne
<1> DEFINE Goal == /\ Moves(p) /\ pc'[p] \notin ClaimLabels
                   /\ pc'[p] \in Unregistered => pc[p] \in Offline
<1>2. ASSUME Return(p) PROVE Goal
  BY <1>2, ReturnPc
<1>3. ASSUME NEW label \in {"start.bind", "start.insert", "start.stop",
                            "sync.reserve", "delete.notify"}, Goto(p, label)
      PROVE  Goal
  BY <1>3, GotoPc DEF Unregistered, ClaimLabels
<1>4. CASE StartStop(p) \/ StartBind(p) \/ SyncReserve(p)
  BY <1>3, <1>4 DEF StartStop, StartBind, SyncReserve
<1>5. CASE StartBindFails(p) \/ StartInsert(p)
  BY <1>2, <1>3, <1>5 DEF StartBindFails, StartInsert, NextRow
<1>6. CASE SyncList(p)
  BY <1>2, <1>3, <1>6 DEF SyncList
<1>7. ASSUME NEW label \in {"stop.free", "stop.one"}, Goto(p, label),
             pc[p] \in {"stop.free", "stop.one"}
      PROVE  Goal
  BY <1>7, GotoPc DEF Unregistered, Offline, ClaimLabels
<1>8. CASE StopOne(p)
  BY <1>7, <1>8 DEF StopOne
<1>9. CASE FreeOne(p)
  <2>1. pc[p] = "stop.free"
    BY <1>9 DEF FreeOne
  <2>2. CASE Finish(p, "gone")
    <3>1. Moves(p) /\ pc'[p] = "gone"
      BY <2>2 DEF TypeOK, Finish, Moves
    <3> QED
      BY <1>1, <2>1, <3>1 DEF Unregistered, Offline, ClaimLabels
  <2>3. CASE LoopEnds(p)
    <3>1. Finish(p, "gone") \/ Goto(p, "delete.notify") \/ Return(p)
      BY <2>3 DEF LoopEnds
    <3>2. CASE Goto(p, "delete.notify")
      BY <1>1, <1>3, <3>2
    <3> QED
      BY <1>1, <1>2, <2>2, <3>1, <3>2
  <2>4. CASE Goto(p, "stop.one")
    BY <1>1, <1>7, <2>1, <2>4
  <2> QED
    BY <1>9, <2>3, <2>4 DEF FreeOne
<1> QED
  BY <1>1, <1>4, <1>5, <1>6, <1>8, <1>9 DEF TunnelStep

-----------------------------------------------------------------------------
(* Requests. *)

\* Without claims a request registers no one.
LEMMA RequestStepMoves ==
  ASSUME NoClaims, TypeOK, NoClaimRuns, NEW r \in Reqs, RequestStep(r)
  PROVE  /\ Moves(r) /\ pc'[r] \notin ClaimLabels
         /\ NoNewSender /\ UNCHANGED sess
<1>1. r \in Procs /\ pc[r] \notin ClaimLabels
  BY SessInProcs DEF NoClaimRuns
<1>2. UNCHANGED sess
  BY DEF RequestStep, CreateCheck, CreateAllocate, CreateConflict, CreateInsert,
         CreateNotify, ToggleRead, ToggleWrite, ToggleNotify, ToggleReserve,
         UpdateCheck, UpdateWrite, UpdateNotify, DeleteRead, DeleteNotify,
         DeleteRow, DeleteAgent, DeleteAgentSender, DeleteAgentRow, Ban, Unban, ClaimRow, ClaimTake,
         ClaimOnline, ClaimRegister, GenerateToken, Register, Cancel
<1>3. ~ClaimRow(r) /\ ~ClaimTake(r) /\ ~ClaimOnline(r) /\ ~ClaimRegister(r)
  BY <1>1 DEF NoClaims, ClaimRow, ClaimTake, ClaimOnline, ClaimRegister, ClaimLabels
<1>4. NoNewSender
  <2>1. CASE UNCHANGED senders
    BY <2>1 DEF NoNewSender
  <2>2. CASE DeleteAgentSender(r)
    BY <2>2 DEF DeleteAgentSender, WriteSenders, TypeOK, NoNewSender
  <2> QED
    BY <1>3, <2>1, <2>2
       DEF RequestStep, CreateCheck, CreateAllocate, CreateConflict, CreateInsert,
           CreateNotify, ToggleRead, ToggleWrite, ToggleNotify, ToggleReserve,
           UpdateCheck, UpdateWrite, UpdateNotify, DeleteRead, DeleteNotify,
           DeleteRow, DeleteAgent, DeleteAgentRow, Ban, Unban, GenerateToken, Register, Cancel
<1>5. ASSUME NEW label \in Labels \ ClaimLabels, Goto(r, label)
      PROVE  Moves(r) /\ pc'[r] \notin ClaimLabels
  BY <1>1, <1>5, GotoPc
<1>6. Moves(r) /\ pc'[r] \notin ClaimLabels
  <2>1. CASE Return(r)
    BY <1>1, <2>1, ReturnPc
  <2>2. CASE UNCHANGED pc
    BY <1>1, <2>2 DEF Moves
  <2>3. CASE \E label \in Labels \ ClaimLabels : Goto(r, label)
    BY <1>5, <2>3
  <2>4. {"create.allocate", "create.insert", "create.notify", "start.stop",
         "toggle.write", "toggle.notify", "toggle.reserve", "stop.one",
         "update.write", "update.notify", "sync.list", "delete.row",
         "delete_agent.sender", "delete_agent.row"} \subseteq Labels \ ClaimLabels
    BY DEF Labels, ReqLabels, SharedLabels, ClaimLabels
  <2>5. CASE \/ CreateCheck(r) \/ CreateAllocate(r) \/ CreateConflict(r)
             \/ CreateInsert(r) \/ CreateNotify(r)
    BY <2>1, <2>3, <2>4, <2>5 DEF CreateCheck, CreateAllocate, CreateConflict,
       CreateInsert, CreateNotify, Begin
  <2>6. CASE ToggleRead(r) \/ ToggleWrite(r) \/ ToggleNotify(r) \/ ToggleReserve(r)
    BY <2>1, <2>3, <2>4, <2>6 DEF ToggleRead, ToggleWrite, ToggleNotify,
       ToggleReserve, Begin
  <2>7. CASE UpdateCheck(r) \/ UpdateWrite(r) \/ UpdateNotify(r)
    BY <2>1, <2>3, <2>4, <2>7 DEF UpdateCheck, UpdateWrite, UpdateNotify, Begin
  <2>8. CASE \/ DeleteRead(r) \/ DeleteNotify(r) \/ DeleteRow(r) \/ DeleteAgent(r)
             \/ DeleteAgentSender(r) \/ DeleteAgentRow(r) \/ Cancel(r)
    BY <2>1, <2>3, <2>4, <2>8 DEF DeleteRead, DeleteNotify, DeleteRow, DeleteAgent,
       DeleteAgentSender, DeleteAgentRow, Cancel, Begin
  <2>9. CASE Ban(r) \/ Unban(r) \/ GenerateToken(r) \/ Register(r)
    BY <2>2, <2>3, <2>4, <2>9 DEF Ban, Unban, GenerateToken, Register, Begin
  <2> QED
    BY <1>3, <2>5, <2>6, <2>7, <2>8, <2>9 DEF RequestStep
<1> QED
  BY <1>2, <1>4, <1>6

\* A step that changes the locals of no connection, and ends none.
LEMMA OthersEndNone ==
  ASSUME TypeOK, NEW p \in Procs, Moves(p), UNCHANGED sess,
         p \in Sessions => /\ pc'[p] \in Unregistered => pc[p] \in Unregistered
                           /\ pc'[p] \in Offline => pc[p] \in Offline
  PROVE  NoneEnds
  BY SessInProcs DEF Moves, NoneEnds

\* No claim is ever confirmed.
LEMMA NoClaimsNext ==
  ASSUME NoClaims, TypeOK, NoClaimRuns, [Next]_vars PROVE NoClaimRuns'
<1>1. ASSUME NEW p \in Procs, Moves(p), pc'[p] \notin ClaimLabels PROVE NoClaimRuns'
  BY <1>1 DEF Moves, NoClaimRuns
<1>2. CASE UNCHANGED pc
  BY <1>2 DEF NoClaimRuns
<1>3. ASSUME NEW s \in Sessions, SessionStep(s) PROVE NoClaimRuns'
  <2>1. s \in Procs
    BY SessInProcs
  <2>2. UNCHANGED pc \/ \E label \in SessionLabels \cup {"sync.list", "stop.one"} : Goto(s, label)
    BY <1>3 DEF SessionStep, Connect, RequestClaim, AuthRead, AuthPending, AuthOnline,
         AuthRegister, Disconnect, ClosePending, CleanupSenders, CleanupOffline,
         CleanupList, AfterPending, SessionLabels
  <2>3. (SessionLabels \cup {"sync.list", "stop.one"}) \cap ClaimLabels = {}
    BY DEF SessionLabels, ClaimLabels
  <2> QED
    BY <1>1, <1>2, <2>1, <2>2, <2>3, GotoPc
<1>4. ASSUME NEW p \in Procs, TunnelStep(p) \/ QueueWriter(p) PROVE NoClaimRuns'
  BY <1>1, <1>2, <1>4, TunnelStepMoves DEF QueueWriter
<1>5. ASSUME NEW r \in Reqs, RequestStep(r) PROVE NoClaimRuns'
  BY <1>1, <1>5, RequestStepMoves, SessInProcs
<1>6. CASE Restart
  BY <1>6 DEF Restart, NoClaimRuns, ClaimLabels
<1>7. CASE \/ \E s \in Sessions : SendTaskEnds(s)
           \/ \E l \in listeners : Reap(l) \/ ListenerExits(l)
           \/ UNCHANGED vars
  BY <1>2, <1>7 DEF SendTaskEnds, Reap, ListenerExits, vars
<1> QED
  BY <1>3, <1>4, <1>5, <1>6, <1>7 DEF Next

-----------------------------------------------------------------------------
(* The end of a connection and its sender. *)

\* A step of one connection registers no other one.
LEMMA OneConnection ==
  ASSUME TypeOK, SendersInv, NEW s \in Sessions, Moves(s),
         \A q \in Sessions \ {s} : sess'[q] = sess[q],
         \A a \in Agents, q \in Sessions \ {s} : senders'[a] = {q} => senders[a] = {q},
         pc'[s] \in Unregistered => \A a \in sess'[s].authed : senders'[a] # {s}
  PROVE  SendersInv'
<1> SUFFICES ASSUME NEW q \in Sessions, q # s, pc'[q] \in Unregistered,
                    NEW a \in sess'[q].authed
             PROVE  senders'[a] # {q}
  BY DEF SendersInv
<1>1. pc[q] \in Unregistered /\ a \in sess[q].authed
  BY SessInProcs DEF Moves
<1>2. a \in Agents
  BY <1>1, OptMember DEF TypeOK, SessionLocals
<1> QED
  BY <1>1, <1>2 DEF SendersInv

\* A connection that ends has no sender of its agent left.
LEMMA SessionSenders ==
  ASSUME TypeOK, SendersInv, NEW s \in Sessions, SessionStep(s) PROVE SendersInv'
<1>1. s \in Procs
  BY SessInProcs
<1>2. Moves(s) /\ \A q \in Sessions \ {s} : sess'[q] = sess[q]
  BY DEF TypeOK, SessionStep, Connect, RequestClaim, AuthRead, AuthPending, AuthOnline,
         AuthRegister, Disconnect, ClosePending, CleanupSenders, CleanupOffline,
         CleanupList, Goto, Moves
<1>3. CASE Connect(s) \/ RequestClaim(s) \/ AuthRead(s) \/ AuthPending(s) \/ AuthOnline(s)
  <2>1. UNCHANGED senders
    BY <1>3 DEF Connect, RequestClaim, AuthRead, AuthPending, AuthOnline
  <2>2. pc'[s] \in {"recv", "auth.pending", "auth.online", "auth.register"}
    BY <1>1, <1>3, GotoPc
       DEF Connect, RequestClaim, AuthRead, AuthPending, AuthOnline
  <2> QED
    BY <1>2, <2>1, <2>2, OneConnection DEF Unregistered
<1>4. CASE AuthRegister(s)
  <2>1. pc'[s] = "sync.list"
    BY <1>1, <1>4, GotoPc DEF AuthRegister
  <2>2. PICK b : senders' = [senders EXCEPT ![b] = {s}]
    BY <1>4 DEF AuthRegister, WriteSenders
  <2>3. \A a \in Agents, q \in Sessions \ {s} : senders'[a] = {q} => senders[a] = {q}
    BY <2>2 DEF TypeOK
  <2> QED
    BY <1>2, <2>1, <2>3, OneConnection DEF Unregistered
<1>5. CASE Disconnect(s) \/ ClosePending(s)
  <2>1. UNCHANGED <<senders, sess>>
    BY <1>5 DEF Disconnect, ClosePending
  <2>2. pc'[s] \in {"close.pending", AfterPending(s)}
    BY <1>1, <1>5, GotoPc DEF Disconnect, ClosePending
  <2>3. pc'[s] \in Unregistered => sess[s].authed = {}
    BY <2>2 DEF AfterPending, Unregistered
  <2> QED
    BY <1>2, <2>1, <2>3, OneConnection
<1>6. CASE CleanupSenders(s)
  <2>1. PICK b \in sess[s].authed : senders' = [senders EXCEPT ![b] = {}]
    BY <1>6 DEF CleanupSenders, WriteSenders
  <2>2. sess' = sess /\ b \in Agents /\ sess[s].authed = {b}
    BY <1>6, OptMember DEF CleanupSenders, TypeOK, SessionLocals
  <2>3. senders'[b] = {}
    BY <2>1, <2>2 DEF TypeOK
  <2>4. \A a \in Agents, q \in Sessions : senders'[a] = {q} => senders[a] = {q}
    BY <2>1 DEF TypeOK
  <2> QED
    BY <1>2, <2>2, <2>3, <2>4, OneConnection
<1>7. CASE CleanupOffline(s) \/ CleanupList(s)
  <2>1. UNCHANGED <<senders, sess>> /\ pc[s] \in Unregistered
    BY <1>7 DEF CleanupOffline, CleanupList, Unregistered
  <2> QED
    BY <1>2, <2>1, OneConnection DEF SendersInv
<1> QED
  BY <1>3, <1>4, <1>5, <1>6, <1>7 DEF SessionStep

\* Every step keeps it so.
LEMMA SendersNext ==
  ASSUME NoClaims, TypeOK, NoClaimRuns, SendersInv, [Next]_vars PROVE SendersInv'
<1>1. ASSUME NEW p \in Procs, TunnelStep(p) \/ QueueWriter(p) PROVE SendersInv'
  <2>1. CASE TunnelStep(p)
    <3>1. NoneEnds /\ NoNewSender
      BY <2>1, TunnelStepMoves, OthersEndNone DEF Offline, NoNewSender
    <3> QED
      BY <3>1, NothingEnds
  <2>2. CASE QueueWriter(p)
    BY <2>2 DEF QueueWriter, SendersInv
  <2> QED
    BY <1>1, <2>1, <2>2
<1>2. ASSUME NEW r \in Reqs, RequestStep(r) PROVE SendersInv'
  <2>1. r \in Procs /\ r \notin Sessions
    BY SessInProcs, ProcsDisjoint
  <2>2. NoneEnds /\ NoNewSender
    BY <1>2, <2>1, RequestStepMoves, OthersEndNone
  <2> QED
    BY <2>2, NothingEnds
<1>3. ASSUME NEW s \in Sessions, SendTaskEnds(s) PROVE SendersInv'
  <2>1. NoneEnds /\ NoNewSender
    BY <1>3 DEF SendTaskEnds, TypeOK, SessionLocals, NoneEnds, NoNewSender
  <2> QED
    BY <2>1, NothingEnds
<1>4. CASE Restart
  <2>1. \A s \in Sessions : sess'[s].authed = {}
    BY <1>4 DEF Restart, TypeOK, SessionLocals
  <2> QED
    BY <2>1 DEF SendersInv
<1>5. CASE (\E l \in listeners : Reap(l) \/ ListenerExits(l)) \/ UNCHANGED vars
  BY <1>5 DEF Reap, ListenerExits, vars, SendersInv
<1> QED
  BY <1>1, <1>2, <1>3, <1>4, <1>5, SessionSenders DEF Next

(***************************************************************************)
(* A connection that authenticated for an agent and is over is not the one *)
(* the agent is reached through, however it overlapped with other          *)
(* connections of that agent: as long as no claim is confirmed, which is   *)
(* the one way to be registered without authenticating.                    *)
(***************************************************************************)
THEOREM NoSenderIsDead == ASSUME NoClaims PROVE Spec => []NoDeadSender
<1>1. Init => TypeOK /\ NoClaimRuns /\ SendersInv
  BY InitType DEF Init, NoClaimRuns, SendersInv, ClaimLabels
<1>2. TypeOK /\ NoClaimRuns /\ SendersInv /\ [Next]_vars
         => (TypeOK /\ NoClaimRuns /\ SendersInv)'
  BY NextType, NoClaimsNext, SendersNext
<1>3. SendersInv => NoDeadSender
  BY DEF SendersInv, Unregistered, NoDeadSender
<1> QED
  BY <1>1, <1>2, <1>3, PTL DEF Spec

-----------------------------------------------------------------------------
(* The rows that are online. *)

\* An agent without a connection behind it that keeps its row and those behind
\* it was without one before.
LEMMA KeepsBehind ==
  ASSUME NEW a, Stale(a)', CalledOnline(a)' => CalledOnline(a),
         \A s \in Sessions : Behind(s, a) => Behind(s, a)'
  PROVE  Stale(a)
  BY DEF Stale

\* set_agent_online and the agent it names.
LEMMA SetOnlineCalls ==
  ASSUME TypeOK, NEW a, NEW b, NEW on \in BOOLEAN,
         agents' = SetAgentOnline(b, on), CalledOnline(a)'
  PROVE  IF a = b THEN on ELSE CalledOnline(a)
  BY DEF TypeOK, AgentRow, SetAgentOnline, CalledOnline

\* A step of a process that is no connection, or of one that stays where it is,
\* leaves every connection behind its agent.
LEMMA OthersStayBehind ==
  ASSUME NEW p \in Procs, Moves(p), UNCHANGED sess,
         p \in Sessions => (pc'[p] \in Offline => pc[p] \in Offline)
  PROVE  \A a \in Agents, s \in Sessions : Behind(s, a) => Behind(s, a)'
  BY SessInProcs DEF Moves, Behind, Offline, Unregistered

\* A request moves itself only, and changes no locals of a connection.
LEMMA RequestMoves ==
  ASSUME TypeOK, NEW r \in Reqs, RequestStep(r) PROVE Moves(r) /\ UNCHANGED sess
<1>1. r \in Procs
  BY SessInProcs
<1>2. UNCHANGED sess /\ (Return(r) \/ UNCHANGED pc \/ \E label : Goto(r, label))
  <2>1. CASE \/ CreateCheck(r) \/ CreateAllocate(r) \/ CreateConflict(r)
             \/ CreateInsert(r) \/ CreateNotify(r)
    BY <2>1 DEF CreateCheck, CreateAllocate, CreateConflict, CreateInsert,
                CreateNotify, Begin
  <2>2. CASE ToggleRead(r) \/ ToggleWrite(r) \/ ToggleNotify(r) \/ ToggleReserve(r)
    BY <2>2 DEF ToggleRead, ToggleWrite, ToggleNotify, ToggleReserve, Begin
  <2>3. CASE UpdateCheck(r) \/ UpdateWrite(r) \/ UpdateNotify(r)
    BY <2>3 DEF UpdateCheck, UpdateWrite, UpdateNotify, Begin
  <2>4. CASE \/ DeleteRead(r) \/ DeleteNotify(r) \/ DeleteRow(r) \/ DeleteAgent(r)
             \/ DeleteAgentSender(r) \/ DeleteAgentRow(r) \/ Cancel(r)
    BY <2>4 DEF DeleteRead, DeleteNotify, DeleteRow, DeleteAgent,
                DeleteAgentSender, DeleteAgentRow, Cancel, Begin
  <2>5. CASE ClaimRow(r) \/ ClaimTake(r) \/ ClaimOnline(r) \/ ClaimRegister(r)
    BY <2>5 DEF ClaimRow, ClaimTake, ClaimOnline, ClaimRegister, Begin
  <2>6. CASE Ban(r) \/ Unban(r) \/ GenerateToken(r) \/ Register(r)
    BY <2>6 DEF Ban, Unban, GenerateToken, Register, Begin
  <2> QED
    BY <2>1, <2>2, <2>3, <2>4, <2>5, <2>6 DEF RequestStep
<1> QED
  BY <1>1, <1>2, ReturnPc, GotoPc DEF Moves

\* A claim is the one request that puts an agent online.
LEMMA RequestCalls ==
  ASSUME TypeOK, NEW r \in Reqs, RequestStep(r), NEW a,
         CalledOnline(a)', ~CalledOnline(a)
  PROVE  pc[r] = "claim.online" /\ job[r].agent = {a}
<1>1. agents' # agents
  BY DEF CalledOnline
<1>2. \/ DeleteAgentRow(r) \/ ClaimRow(r) \/ ClaimOnline(r) \/ GenerateToken(r)
  BY <1>1 DEF RequestStep, CreateCheck, CreateAllocate, CreateConflict, CreateInsert,
         CreateNotify, ToggleRead, ToggleWrite, ToggleNotify, ToggleReserve,
         UpdateCheck, UpdateWrite, UpdateNotify, DeleteRead, DeleteNotify,
         DeleteRow, DeleteAgent, DeleteAgentSender, Ban, Unban, ClaimTake,
         ClaimRegister, Register, Cancel
<1>3. ~DeleteAgentRow(r) /\ ~GenerateToken(r)
  BY DEF DeleteAgentRow, GenerateToken, CalledOnline
<1>4. ~ClaimRow(r)
  <2> SUFFICES ASSUME ClaimRow(r) PROVE FALSE
    OBVIOUS
  <2>1. PICK x \in agents, u \in users :
           agents' = (agents \ {x}) \cup {ClaimAgentToUser(x, u.id)}
    BY DEF ClaimRow
  <2>2. /\ ClaimAgentToUser(x, u.id).id = x.id
        /\ ClaimAgentToUser(x, u.id).online = x.online
    BY DEF TypeOK, AgentRow, ClaimAgentToUser
  <2> QED
    BY <2>1, <2>2 DEF CalledOnline
<1>5. CASE ClaimOnline(r)
  <2>1. PICK b \in job[r].agent : agents' = SetAgentOnline(b, TRUE)
    BY <1>5 DEF ClaimOnline
  <2>2. b = a
    BY <2>1, SetOnlineCalls
  <2>3. job[r].agent = {b}
    BY <2>1, SessInProcs, OptMember DEF TypeOK, Job
  <2> QED
    BY <1>5, <2>2, <2>3 DEF ClaimOnline
<1> QED
  BY <1>2, <1>3, <1>4, <1>5

\* A connection is behind its agent when it puts it online, and leaves it so only
\* for another agent, or by taking it offline.
LEMMA SessionCalls ==
  ASSUME TypeOK, NEW s \in Sessions, SessionStep(s), NEW a \in Agents, Stale(a)'
  PROVE  Stale(a) \/ (Behind(s, a) /\ sess'[s].authed \notin {{}, {a}})
<1>1. s \in Procs
  BY SessInProcs
<1>2. Moves(s) /\ \A q \in Sessions \ {s} : sess'[q] = sess[q]
  BY DEF TypeOK, SessionStep, Connect, RequestClaim, AuthRead, AuthPending, AuthOnline,
         AuthRegister, Disconnect, ClosePending, CleanupSenders, CleanupOffline,
         CleanupList, Goto, Moves
<1>3. \A q \in Sessions \ {s} : Behind(q, a) => Behind(q, a)'
  BY <1>1, <1>2, SessInProcs DEF Moves, Behind
<1>4. ASSUME CalledOnline(a)' => CalledOnline(a), Behind(s, a) => Behind(s, a)'
      PROVE  Stale(a)
  BY <1>3, <1>4, KeepsBehind
<1>5. CASE Connect(s) \/ AuthPending(s) \/ AuthRegister(s) \/ CleanupSenders(s)
  <2>1. UNCHANGED agents /\ sess'[s].authed = sess[s].authed
    BY <1>5 DEF Connect, AuthPending, AuthRegister, CleanupSenders, TypeOK, SessionLocals
  <2>2. pc'[s] \in {"recv", "sync.list", "clean.offline"}
    BY <1>1, <1>5, GotoPc DEF Connect, AuthPending, AuthRegister, CleanupSenders
  <2> QED
    BY <1>4, <2>1, <2>2 DEF CalledOnline, Behind
<1>6. CASE RequestClaim(s)
  <2>1. \A x \in agents' : x.online => x \in agents
    BY <1>6 DEF RequestClaim
  <2>2. sess'[s].authed = sess[s].authed /\ pc' = pc
    BY <1>6 DEF RequestClaim, TypeOK, SessionLocals
  <2> QED
    BY <1>4, <2>1, <2>2 DEF CalledOnline, Behind
<1>7. CASE AuthRead(s)
  <2>1. UNCHANGED agents /\ pc'[s] \in {"auth.pending", "auth.online"}
    BY <1>1, <1>7, GotoPc DEF AuthRead
  <2>2. sess'[s].authed = sess[s].authed \/ \E b \in Agents : sess'[s].authed = {b}
    <3>1. PICK x \in agents : \/ sess' = [sess EXCEPT ![s].code = x.claim]
                              \/ sess' = [sess EXCEPT ![s].authed = {x.id}]
      BY <1>7 DEF AuthRead
    <3>2. sess[s] \in SessionLocals /\ x.id \in Agents
      BY DEF TypeOK, AgentRow
    <3> QED
      BY <3>1, <3>2 DEF TypeOK, SessionLocals
  <2>3. CASE a \in sess'[s].authed
    BY <1>4, <2>1, <2>3 DEF CalledOnline, Behind
  <2>4. CASE ~Behind(s, a)
    BY <1>4, <2>1, <2>4 DEF CalledOnline
  <2>5. CASE Behind(s, a) /\ a \notin sess'[s].authed
    BY <2>2, <2>5 DEF Behind
  <2> QED
    BY <2>3, <2>4, <2>5
<1>8. CASE AuthOnline(s)
  <2>1. PICK b \in sess[s].authed : agents' = SetAgentOnline(b, TRUE)
    BY <1>8 DEF AuthOnline
  <2>2. pc'[s] = "auth.register" /\ sess' = sess
    BY <1>1, <1>8, GotoPc DEF AuthOnline
  <2>3. a # b
    BY <2>1, <2>2 DEF Stale, Behind
  <2>4. CalledOnline(a)' => CalledOnline(a)
    BY <2>1, <2>3, SetOnlineCalls
  <2> QED
    BY <1>4, <2>2, <2>4 DEF Behind
<1>9. CASE Disconnect(s) \/ ClosePending(s)
  <2>1. UNCHANGED <<agents, sess>>
    BY <1>9 DEF Disconnect, ClosePending
  <2>2. pc'[s] \in {"close.pending", AfterPending(s)}
    BY <1>1, <1>9, GotoPc DEF Disconnect, ClosePending
  <2>3. sess[s].authed # {} => pc'[s] \in {"close.pending", "clean.senders"}
    BY <2>2 DEF AfterPending
  <2> QED
    BY <1>4, <2>1, <2>3 DEF CalledOnline, Behind
<1>10. CASE CleanupOffline(s)
  <2>1. PICK b \in sess[s].authed : agents' = SetAgentOnline(b, FALSE)
    BY <1>10 DEF CleanupOffline
  <2>2. sess[s].authed = {b}
    BY <2>1, OptMember DEF TypeOK, SessionLocals
  <2>3. a # b /\ CalledOnline(a)
    BY <2>1, SetOnlineCalls DEF Stale
  <2> QED
    BY <1>4, <2>2, <2>3 DEF Behind
<1>11. CASE CleanupList(s)
  <2>1. UNCHANGED agents /\ ~Behind(s, a)
    BY <1>11 DEF CleanupList, Behind
  <2> QED
    BY <1>4, <2>1 DEF CalledOnline
<1> QED
  BY <1>5, <1>6, <1>7, <1>8, <1>9, <1>10, <1>11 DEF SessionStep

\* Every other step leaves the row and the connections behind it alone.
LEMMA OnlineNext ==
  ASSUME TypeOK, Next, NEW a \in Agents, Stale(a)'
  PROVE  \/ Stale(a)
         \/ Restart
         \/ \E r \in Reqs : pc[r] = "claim.online" /\ job[r].agent = {a}
         \/ \E s \in Sessions : Behind(s, a) /\ sess'[s].authed \notin {{}, {a}}
<1>1. ASSUME NEW p \in Procs, TunnelStep(p) PROVE Stale(a)
  <2>1. UNCHANGED agents /\ \A s \in Sessions : Behind(s, a) => Behind(s, a)'
    BY <1>1, TunnelStepMoves, OthersStayBehind DEF Offline
  <2> QED
    BY <2>1, KeepsBehind DEF CalledOnline
<1>2. ASSUME NEW r \in Reqs, RequestStep(r)
      PROVE  Stale(a) \/ (pc[r] = "claim.online" /\ job[r].agent = {a})
  <2>1. r \in Procs /\ r \notin Sessions
    BY SessInProcs, ProcsDisjoint
  <2>2. \A s \in Sessions : Behind(s, a) => Behind(s, a)'
    BY <1>2, <2>1, RequestMoves, OthersStayBehind
  <2> QED
    BY <1>2, <2>2, RequestCalls, KeepsBehind DEF Stale
<1>3. ASSUME NEW s \in Sessions, SendTaskEnds(s) PROVE Stale(a)
  <2>1. UNCHANGED <<agents, pc>> /\ \A q \in Sessions : sess'[q].authed = sess[q].authed
    BY <1>3 DEF SendTaskEnds, TypeOK, SessionLocals
  <2>2. \A q \in Sessions : Behind(q, a) => Behind(q, a)'
    BY <2>1 DEF Behind
  <2> QED
    BY <2>1, <2>2, KeepsBehind DEF CalledOnline
<1>4. ASSUME UNCHANGED <<agents, sess, pc>> PROVE Stale(a)
  BY <1>4, KeepsBehind DEF CalledOnline, Behind
<1>5. ASSUME NEW p \in Procs, QueueWriter(p) PROVE Stale(a)
  BY <1>4, <1>5 DEF QueueWriter
<1>6. CASE \E l \in listeners : Reap(l) \/ ListenerExits(l)
  BY <1>4, <1>6 DEF Reap, ListenerExits
<1> QED
  BY <1>1, <1>2, <1>3, <1>5, <1>6, SessionCalls DEF Next

(***************************************************************************)
(* is_online goes stale in the three ways OnlineHasConnection names and in *)
(* no other: whatever claims are confirmed, tokens known and rows there at *)
(* the start, and however connections of one agent overlap and end.        *)
(***************************************************************************)
THEOREM OnlineStaysConnected == Spec => OnlineHasConnection
<1>1. TypeOK /\ [Next]_vars =>
        [\A a \in Agents : Stale(a)' =>
            \/ Stale(a)
            \/ Restart
            \/ \E r \in Reqs : pc[r] = "claim.online" /\ job[r].agent = {a}
            \/ \E s \in Sessions : Behind(s, a) /\ sess'[s].authed \notin {{}, {a}}]_vars
  BY OnlineNext
<1> QED
  BY <1>1, TypeCorrect, PTL DEF Spec, OnlineHasConnection
=============================================================================
