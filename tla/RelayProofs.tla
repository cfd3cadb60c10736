----------------------------- MODULE RelayProofs -----------------------------
(***************************************************************************)
(* What is proved about Relay for all values of its constants.             *)
(***************************************************************************)
EXTENDS Relay, TLAPS

-----------------------------------------------------------------------------
(* Options, and the records the handlers build. *)

\* {} is an optional value: none.
LEMMA OptNone == ASSUME NEW S PROVE {} \in Opt(S)
  BY DEF Opt

\* {x} is an optional value: some x.
LEMMA OptSome == ASSUME NEW S, NEW x \in S PROVE {x} \in Opt(S)
  BY DEF Opt

\* An optional value that has a member is that member.
LEMMA OptMember == ASSUME NEW S, NEW o \in Opt(S), NEW x \in o
                   PROVE  x \in S /\ o = {x}
  BY DEF Opt

\* A process at rest has well-typed locals.
LEMMA NoJobType == NoJob \in Job
  BY OptNone DEF NoJob, Job

\* Where a handler returns to is a label.
LEMMA HomeLabel == ASSUME NEW p PROVE Home(p) \in Labels
  BY DEF Home, Labels, SessionLabels, ReqLabels

-----------------------------------------------------------------------------
(* The updates of the tables and of the listeners keep their types. *)

\* set_agent_online keeps the types.
LEMMA SetAgentOnlineType ==
  ASSUME TypeOK, NEW a, NEW on \in BOOLEAN
  PROVE  SetAgentOnline(a, on) \subseteq AgentRow
  BY DEF TypeOK, SetAgentOnline, AgentRow

\* set_tunnel_enabled keeps the types.
LEMMA SetTunnelEnabledType ==
  ASSUME TypeOK, NEW t, NEW on \in BOOLEAN
  PROVE  SetTunnelEnabled(t, on) \subseteq TunnelRow
  BY DEF TypeOK, SetTunnelEnabled, TunnelRow

\* update_tunnel keeps the types.
LEMMA SetTunnelType ==
  ASSUME TypeOK, NEW t, NEW proto \in Protocols, NEW sub \in Opt(Subdomains)
  PROVE  SetTunnel(t, proto, sub) \subseteq TunnelRow
  BY DEF TypeOK, SetTunnel, TunnelRow

\* Aborting a task keeps the types.
LEMMA StopListenerType ==
  ASSUME TypeOK, NEW t PROVE StopListener(t) \subseteq Listener
  BY DEF TypeOK, StopListener, Listener

\* Inserting a handle keeps the types.
LEMMA InsertTaskType ==
  ASSUME TypeOK, NEW p, NEW t PROVE InsertTask(p, t) \subseteq Listener
  BY DEF TypeOK, InsertTask, Listener

-----------------------------------------------------------------------------
(* Control flow. *)

ControlOK == /\ held \in [Locks -> SUBSET Procs]
             /\ pc \in [Procs -> Labels]
             /\ job \in [Procs -> Job]

\* Ending a handler keeps the types.
LEMMA FinishType ==
  ASSUME TypeOK, NEW p \in Procs, NEW label \in Labels, Finish(p, label)
  PROVE  ControlOK'
  BY NoJobType DEF TypeOK, ControlOK, Finish, Locks

\* Returning from a helper keeps the types.
LEMMA ReturnType ==
  ASSUME TypeOK, NEW p \in Procs, Return(p) PROVE ControlOK'
  BY FinishType, HomeLabel DEF Return

\* Going on keeps the types.
LEMMA GotoType ==
  ASSUME TypeOK, NEW p \in Procs, NEW label \in Labels, Goto(p, label)
  PROVE  pc' \in [Procs -> Labels]
  BY DEF TypeOK, Goto

\* Beginning a handler keeps the types.
LEMMA BeginType ==
  ASSUME TypeOK, NEW p \in Procs, NEW label \in Labels, NEW j \in Job,
         Begin(p, label, j)
  PROVE  pc' \in [Procs -> Labels] /\ job' \in [Procs -> Job]
  BY DEF TypeOK, Begin, Goto

\* Taking a lock keeps the types.
LEMMA AcquireType ==
  ASSUME TypeOK, NEW p \in Procs, NEW lock \in Locks, Acquire(lock, p)
  PROVE  held' \in [Locks -> SUBSET Procs]
  BY DEF TypeOK, Acquire

\* Writing agent_senders keeps the types.
LEMMA WriteSendersType ==
  ASSUME TypeOK, NEW p \in Procs, NEW a \in Agents, NEW via \in Opt(Sessions),
         WriteSenders(p, a, via)
  PROVE  /\ senders' \in [Agents -> Opt(Sessions)]
         /\ held' \in [Locks -> SUBSET Procs]
  BY DEF TypeOK, WriteSenders, Locks

\* Going on to the next row keeps the types.
LEMMA NextRowType ==
  ASSUME TypeOK, NEW p \in Procs, NextRow(p) PROVE ControlOK'
<1>1. CASE job[p].todo = {}
  BY <1>1, ReturnType DEF NextRow
<1>2. CASE job[p].todo # {}
  <2>1. [job[p] EXCEPT !.cfg = {}] \in Job
    BY OptNone DEF TypeOK, Job
  <2>2. job' = [job EXCEPT ![p] = [job[p] EXCEPT !.cfg = {}]]
    BY <1>2 DEF NextRow
  <2>3. job' \in [Procs -> Job]
    BY <2>1, <2>2 DEF TypeOK
  <2> QED
    BY <1>2, <2>3, GotoType DEF NextRow, TypeOK, ControlOK, Labels, SharedLabels
<1> QED
  BY <1>1, <1>2

-----------------------------------------------------------------------------
(* Type correctness, action by action: first tunnel_manager.rs. *)

\* Aborting the old task of a tunnel keeps the types.
LEMMA StartStopType ==
  ASSUME TypeOK, NEW p \in Procs, StartStop(p) PROVE TypeOK'
<1>1. listeners' \subseteq Listener
  BY StopListenerType DEF StartStop
<1>2. pc' \in [Procs -> Labels]
  BY GotoType DEF StartStop, Labels, SharedLabels
<1> QED
  BY <1>1, <1>2 DEF TypeOK, StartStop

\* Binding the port and spawning the proxy task keeps the types.
LEMMA StartBindType ==
  ASSUME TypeOK, NEW p \in Procs, StartBind(p) PROVE TypeOK'
<1>1. PICK t \in job[p].cfg, s \in job[p].via :
         listeners' = listeners \cup
            {[tunnel |-> t.id, agent |-> t.agent, proto |-> t.proto,
              port |-> t.port, via |-> s, handle |-> p]}
  BY DEF StartBind
<1>2. t \in TunnelRow /\ s \in Sessions
  BY OptMember DEF TypeOK, Job
<1>3. listeners' \subseteq Listener
  BY <1>1, <1>2 DEF TypeOK, Listener, TunnelRow
<1>4. pc' \in [Procs -> Labels]
  BY GotoType DEF StartBind, Labels, SharedLabels
<1> QED
  BY <1>3, <1>4 DEF TypeOK, StartBind

\* A bind that fails keeps the types.
LEMMA StartBindFailsType ==
  ASSUME TypeOK, NEW p \in Procs, StartBindFails(p) PROVE TypeOK'
<1>1. ControlOK'
  BY NextRowType DEF StartBindFails
<1> QED
  BY <1>1 DEF TypeOK, StartBindFails, ControlOK

\* Filing the handle of a new task keeps the types.
LEMMA StartInsertType ==
  ASSUME TypeOK, NEW p \in Procs, StartInsert(p) PROVE TypeOK'
<1>1. ControlOK'
  BY NextRowType DEF StartInsert
<1>2. listeners' \subseteq Listener
  BY InsertTaskType DEF StartInsert
<1> QED
  BY <1>1, <1>2 DEF TypeOK, StartInsert, ControlOK

\* Reading the tunnels of an agent to start keeps the types.
LEMMA SyncListType ==
  ASSUME TypeOK, NEW p \in Procs, SyncList(p) PROVE TypeOK'
<1> DEFINE rows == {t \in tunnels : t.agent \in job[p].agent /\ t.enabled}
<1>1. CASE rows = {}
  BY <1>1, ReturnType DEF TypeOK, SyncList, ControlOK
<1>2. CASE rows # {}
  <2>1. pc' \in [Procs -> Labels]
    BY <1>2, GotoType DEF SyncList, Labels, SharedLabels
  <2>2. job' \in [Procs -> Job]
    BY <1>2 DEF TypeOK, SyncList, Job
  <2> QED
    BY <1>2, <2>1, <2>2 DEF TypeOK, SyncList
<1> QED
  BY <1>1, <1>2

\* Reserving the port of the next tunnel keeps the types.
LEMMA SyncReserveType ==
  ASSUME TypeOK, NEW p \in Procs, SyncReserve(p) PROVE TypeOK'
<1>1. PICK t \in job[p].todo :
         /\ allocated' = allocated \cup {t.port}
         /\ job' = [job EXCEPT ![p].cfg = {t}, ![p].todo = @ \ {t}]
  BY DEF SyncReserve
<1>2. t \in TunnelRow
  BY DEF TypeOK, Job
<1>3. job' \in [Procs -> Job]
  BY <1>1, <1>2, OptSome DEF TypeOK, Job
<1>4. allocated' \subseteq Ports
  BY <1>1, <1>2 DEF TypeOK, TunnelRow
<1>5. pc' \in [Procs -> Labels]
  BY GotoType DEF SyncReserve, Labels, SharedLabels
<1> QED
  BY <1>3, <1>4, <1>5 DEF TypeOK, SyncReserve

\* Stopping the task of the next tunnel keeps the types.
LEMMA StopOneType ==
  ASSUME TypeOK, NEW p \in Procs, StopOne(p) PROVE TypeOK'
<1>1. PICK t \in job[p].todo :
         /\ listeners' = StopListener(t.id)
         /\ job' = [job EXCEPT ![p].cfg = {t}, ![p].todo = @ \ {t}]
  BY DEF StopOne
<1>2. job' \in [Procs -> Job]
  BY <1>1, OptSome DEF TypeOK, Job
<1>3. listeners' \subseteq Listener
  BY <1>1, StopListenerType
<1>4. pc' \in [Procs -> Labels]
  BY GotoType DEF StopOne, Labels, SharedLabels
<1> QED
  BY <1>2, <1>3, <1>4 DEF TypeOK, StopOne

\* The end of a stop loop keeps the types.
LEMMA LoopEndsType ==
  ASSUME TypeOK, NEW p \in Procs, LoopEnds(p) PROVE ControlOK'
<1>1. CASE job[p].ret = "gone"
  BY <1>1, FinishType DEF LoopEnds, Labels, SessionLabels
<1>2. CASE job[p].ret = "delete.notify"
  BY <1>2, GotoType DEF LoopEnds, TypeOK, ControlOK, Labels, ReqLabels
<1>3. CASE job[p].ret = "home"
  BY <1>3, ReturnType DEF LoopEnds
<1> QED
  BY <1>1, <1>2, <1>3 DEF TypeOK, Job

\* Freeing the port of a stopped tunnel keeps the types.
LEMMA FreeOneType ==
  ASSUME TypeOK, NEW p \in Procs, FreeOne(p) PROVE TypeOK'
<1>1. allocated' \subseteq Ports
  BY DEF TypeOK, FreeOne
<1>2. ControlOK'
  <2>1. CASE job[p].todo = {}
    BY <2>1, LoopEndsType DEF FreeOne
  <2>2. CASE job[p].todo # {}
    BY <2>2, GotoType DEF FreeOne, TypeOK, ControlOK, Labels, SharedLabels
  <2> QED
    BY <2>1, <2>2
<1> QED
  BY <1>1, <1>2 DEF TypeOK, FreeOne, ControlOK

\* Every step of tunnel_manager.rs keeps the types.
LEMMA TunnelStepType ==
  ASSUME TypeOK, NEW p \in Procs, TunnelStep(p) PROVE TypeOK'
  BY StartStopType, StartBindType, StartBindFailsType, StartInsertType,
     SyncListType, SyncReserveType, StopOneType, FreeOneType DEF TunnelStep

-----------------------------------------------------------------------------
(* Type correctness of ws_handler.rs. *)

\* Connections and requests are processes.
LEMMA SessInProcs == Sessions \subseteq Procs /\ Reqs \subseteq Procs
  BY DEF Procs

\* Queueing as a writer keeps the types.
LEMMA QueueWriterType ==
  ASSUME TypeOK, NEW p \in Procs, QueueWriter(p) PROVE TypeOK'
<1>1. held' \in [Locks -> SUBSET Procs]
  BY AcquireType DEF QueueWriter, Locks
<1> QED
  BY <1>1 DEF TypeOK, QueueWriter

\* The upgrade of a connection keeps the types.
LEMMA ConnectType ==
  ASSUME TypeOK, NEW s \in Sessions, Connect(s) PROVE TypeOK'
<1>1. pc' \in [Procs -> Labels]
  BY SessInProcs, GotoType DEF Connect, Labels, SessionLabels
<1>2. sess' \in [Sessions -> SessionLocals]
  BY DEF Connect, TypeOK, SessionLocals
<1> QED
  BY <1>1, <1>2 DEF TypeOK, Connect

\* The end of a sending task keeps the types.
LEMMA SendTaskEndsType ==
  ASSUME TypeOK, NEW s \in Sessions, SendTaskEnds(s) PROVE TypeOK'
<1>1. sess' \in [Sessions -> SessionLocals]
  BY DEF SendTaskEnds, TypeOK, SessionLocals
<1> QED
  BY <1>1 DEF TypeOK, SendTaskEnds

\* A new agent with its claim code keeps the types.
LEMMA RequestClaimType ==
  ASSUME TypeOK, NEW s \in Sessions, RequestClaim(s) PROVE TypeOK'
<1>1. PICK a \in Agents \ issued, c \in Codes :
          /\ agents' = agents \cup {[id |-> a, user |-> {}, claim |-> {c},
                                     online |-> FALSE]}
          /\ issued' = issued \cup {a, c}
          /\ pending' = [pending EXCEPT ![c] = {s}]
          /\ sess' = [sess EXCEPT ![s].code = {c}, ![s].knows = @ \cup {a}]
  BY DEF RequestClaim
<1>2. agents' \subseteq AgentRow
  <2>1. {} \in Opt(Users) /\ {c} \in Opt(Codes)
    BY OptNone, OptSome
  <2>2. [id |-> a, user |-> {}, claim |-> {c}, online |-> FALSE] \in AgentRow
    BY <2>1 DEF AgentRow
  <2> QED
    BY <1>1, <2>2 DEF TypeOK
<1>3. pending' \in [Codes -> Opt(Sessions)]
  BY <1>1, OptSome DEF TypeOK
<1>4. sess' \in [Sessions -> SessionLocals]
  BY <1>1, OptSome DEF TypeOK, SessionLocals
<1> QED
  BY <1>1, <1>2, <1>3, <1>4 DEF TypeOK, RequestClaim

\* Looking up a token keeps the types.
LEMMA AuthReadType ==
  ASSUME TypeOK, NEW s \in Sessions, AuthRead(s) PROVE TypeOK'
<1>1. PICK r \in agents :
          \/ /\ sess' = [sess EXCEPT ![s].code = r.claim]
             /\ Goto(s, "auth.pending")
          \/ /\ sess' = [sess EXCEPT ![s].authed = {r.id}]
             /\ Goto(s, "auth.online")
  BY DEF AuthRead
<1>2. r.id \in Agents /\ r.claim \in Opt(Codes)
  BY DEF TypeOK, AgentRow
<1>3. sess' \in [Sessions -> SessionLocals]
  BY <1>1, <1>2, OptSome DEF TypeOK, SessionLocals
<1>4. "auth.pending" \in Labels /\ "auth.online" \in Labels
  BY DEF Labels, SessionLabels
<1>5. pc' \in [Procs -> Labels]
  BY <1>1, <1>4, SessInProcs, GotoType
<1> QED
  BY <1>3, <1>5 DEF TypeOK, AuthRead

\* Filing a device under its open code keeps the types.
LEMMA AuthPendingType ==
  ASSUME TypeOK, NEW s \in Sessions, AuthPending(s) PROVE TypeOK'
<1>1. pending' \in [Codes -> Opt(Sessions)]
  <2>1. {s} \in Opt(Sessions)
    BY OptSome
  <2> QED
    BY <2>1 DEF TypeOK, AuthPending
<1>2. pc' \in [Procs -> Labels]
  BY SessInProcs, GotoType DEF AuthPending, Labels, SessionLabels
<1> QED
  BY <1>1, <1>2 DEF TypeOK, AuthPending

\* Marking an agent online keeps the types.
LEMMA AuthOnlineType ==
  ASSUME TypeOK, NEW s \in Sessions, AuthOnline(s) PROVE TypeOK'
<1>1. agents' \subseteq AgentRow
  BY SetAgentOnlineType DEF AuthOnline
<1>2. pc' \in [Procs -> Labels]
  BY SessInProcs, GotoType DEF AuthOnline, Labels, SessionLabels
<1> QED
  BY <1>1, <1>2 DEF TypeOK, AuthOnline

\* Registering a sender keeps the types.
LEMMA AuthRegisterType ==
  ASSUME TypeOK, NEW s \in Sessions, AuthRegister(s) PROVE TypeOK'
<1>1. PICK a \in sess[s].authed : WriteSenders(s, a, {s})
  BY DEF AuthRegister
<1>2. sess[s].authed \in Opt(Agents) /\ a \in Agents
  BY OptMember DEF TypeOK, SessionLocals
<1>3. /\ senders' \in [Agents -> Opt(Sessions)]
      /\ held' \in [Locks -> SUBSET Procs]
  BY <1>1, <1>2, SessInProcs, OptSome, WriteSendersType
<1>4. [NoJob EXCEPT !.agent = sess[s].authed, !.via = {s}] \in Job
  BY <1>2, NoJobType, OptSome DEF Job
<1>5. job' \in [Procs -> Job]
  BY <1>4, SessInProcs DEF TypeOK, AuthRegister
<1>6. pc' \in [Procs -> Labels]
  BY SessInProcs, GotoType DEF AuthRegister, Labels, SharedLabels
<1> QED
  BY <1>3, <1>5, <1>6 DEF TypeOK, AuthRegister

\* Where the clean-up goes on is a label.
LEMMA AfterPendingLabel ==
  ASSUME NEW s PROVE AfterPending(s) \in Labels
  BY DEF AfterPending, Labels, SessionLabels

\* The end of the receive loop keeps the types.
LEMMA DisconnectType ==
  ASSUME TypeOK, NEW s \in Sessions, Disconnect(s) PROVE TypeOK'
<1>1. pc' \in [Procs -> Labels]
  BY SessInProcs, GotoType, AfterPendingLabel DEF Disconnect, Labels, SessionLabels
<1> QED
  BY <1>1 DEF TypeOK, Disconnect

\* Giving up a waiter's code keeps the types.
LEMMA ClosePendingType ==
  ASSUME TypeOK, NEW s \in Sessions, ClosePending(s) PROVE TypeOK'
<1>1. pc' \in [Procs -> Labels]
  BY SessInProcs, GotoType, AfterPendingLabel DEF ClosePending
<1>2. pending' \in [Codes -> Opt(Sessions)]
  BY OptNone DEF TypeOK, ClosePending
<1> QED
  BY <1>1, <1>2 DEF TypeOK, ClosePending

\* Removing the sender of an agent keeps the types.
LEMMA CleanupSendersType ==
  ASSUME TypeOK, NEW s \in Sessions, CleanupSenders(s) PROVE TypeOK'
<1>1. PICK a \in sess[s].authed : WriteSenders(s, a, {})
  BY DEF CleanupSenders
<1>2. a \in Agents
  BY OptMember DEF TypeOK, SessionLocals
<1>3. /\ senders' \in [Agents -> Opt(Sessions)]
      /\ held' \in [Locks -> SUBSET Procs]
  BY <1>1, <1>2, SessInProcs, OptNone, WriteSendersType
<1>4. pc' \in [Procs -> Labels]
  BY SessInProcs, GotoType DEF CleanupSenders, Labels, SessionLabels
<1> QED
  BY <1>3, <1>4 DEF TypeOK, CleanupSenders

\* Marking an agent offline keeps the types.
LEMMA CleanupOfflineType ==
  ASSUME TypeOK, NEW s \in Sessions, CleanupOffline(s) PROVE TypeOK'
<1>1. agents' \subseteq AgentRow
  BY SetAgentOnlineType DEF CleanupOffline
<1>2. pc' \in [Procs -> Labels]
  BY SessInProcs, GotoType DEF CleanupOffline, Labels, SessionLabels
<1> QED
  BY <1>1, <1>2 DEF TypeOK, CleanupOffline

\* Reading the tunnels to clean up keeps the types.
LEMMA CleanupListType ==
  ASSUME TypeOK, NEW s \in Sessions, CleanupList(s) PROVE TypeOK'
<1>1. PICK a \in sess[s].authed :
        IF ListTunnelsForAgent(a) = {}
          THEN Goto(s, "gone") /\ UNCHANGED job
          ELSE /\ Goto(s, "stop.one")
               /\ job' = [job EXCEPT ![s] = [NoJob EXCEPT
                            !.todo = ListTunnelsForAgent(a), !.ret = "gone"]]
  BY DEF CleanupList
<1>2. ListTunnelsForAgent(a) \subseteq TunnelRow
  BY DEF TypeOK, ListTunnelsForAgent
<1>3. [NoJob EXCEPT !.todo = ListTunnelsForAgent(a), !.ret = "gone"] \in Job
  BY <1>2, NoJobType DEF Job
<1>4. job' \in [Procs -> Job]
  BY <1>1, <1>3, SessInProcs DEF TypeOK
<1>5. pc' \in [Procs -> Labels]
  BY <1>1, SessInProcs, GotoType DEF Labels, SessionLabels, SharedLabels
<1> QED
  BY <1>4, <1>5 DEF TypeOK, CleanupList

\* Every step of a connection keeps the types.
LEMMA SessionStepType ==
  ASSUME TypeOK, NEW s \in Sessions, SessionStep(s) PROVE TypeOK'
  BY ConnectType, RequestClaimType, AuthReadType, AuthPendingType,
     AuthOnlineType, AuthRegisterType, DisconnectType, ClosePendingType,
     CleanupSendersType, CleanupOfflineType, CleanupListType DEF SessionStep

-----------------------------------------------------------------------------
(* Type correctness of admin.rs. *)

\* The locals a handler starts with.
LEMMA JobCfg == ASSUME NEW t \in TunnelRow
                PROVE  [NoJob EXCEPT !.cfg = {t}] \in Job
<1>1. {t} \in Opt(TunnelRow)
  BY OptSome
<1> QED
  BY <1>1, NoJobType DEF Job

\* Locals that name an agent are well typed.
LEMMA JobAgent == ASSUME NEW a \in Agents
                  PROVE  [NoJob EXCEPT !.agent = {a}] \in Job
<1>1. {a} \in Opt(Agents)
  BY OptSome
<1> QED
  BY <1>1, NoJobType DEF Job

\* Locals that hold one tunnel are well typed.
LEMMA CfgType ==
  ASSUME TypeOK, NEW r \in Reqs
  PROVE  /\ \A t \in job[r].cfg : t \in TunnelRow
         /\ \A a \in job[r].agent : a \in Agents
  BY SessInProcs, OptMember DEF TypeOK, Job

\* The checks of a creation keeps the types.
LEMMA CreateCheckType ==
  ASSUME TypeOK, NEW r \in Reqs, CreateCheck(r) PROVE TypeOK'
<1>1. PICK u \in users, a \in Agents \cap issued, proto \in Protocols,
           sub \in Opt(Subdomains), t \in Tunnels \ issued :
        /\ Begin(r, "create.allocate", [NoJob EXCEPT !.cfg =
              {[id |-> t, agent |-> a, user |-> u.id, proto |-> proto,
                port |-> u.port, sub |-> sub, enabled |-> TRUE]}])
        /\ issued' = issued \cup {t}
  BY DEF CreateCheck
<1> DEFINE row == [id |-> t, agent |-> a, user |-> u.id, proto |-> proto,
                   port |-> u.port, sub |-> sub, enabled |-> TRUE]
<1>2. row \in TunnelRow
  BY DEF TypeOK, UserRow, TunnelRow
<1>3. [NoJob EXCEPT !.cfg = {row}] \in Job
  BY <1>2, JobCfg
<1>4. "create.allocate" \in Labels
  BY DEF Labels, ReqLabels
<1>5. pc' \in [Procs -> Labels] /\ job' \in [Procs -> Job]
  BY <1>1, <1>3, <1>4, SessInProcs, BeginType
<1> QED
  BY <1>1, <1>5 DEF TypeOK, CreateCheck

\* Allocating the port of a new tunnel keeps the types.
LEMMA CreateAllocateType ==
  ASSUME TypeOK, NEW r \in Reqs, CreateAllocate(r) PROVE TypeOK'
<1>1. allocated' \subseteq Ports
  BY CfgType DEF CreateAllocate, TypeOK, TunnelRow
<1>2. pc' \in [Procs -> Labels]
  BY SessInProcs, GotoType DEF CreateAllocate, Labels, ReqLabels
<1> QED
  BY <1>1, <1>2 DEF TypeOK, CreateAllocate

\* A creation refused for its port keeps the types.
LEMMA CreateConflictType ==
  ASSUME TypeOK, NEW r \in Reqs, CreateConflict(r) PROVE TypeOK'
<1>1. ControlOK'
  BY SessInProcs, ReturnType DEF CreateConflict
<1> QED
  BY <1>1 DEF TypeOK, CreateConflict, ControlOK

\* Inserting a new tunnel keeps the types.
LEMMA CreateInsertType ==
  ASSUME TypeOK, NEW r \in Reqs, CreateInsert(r) PROVE TypeOK'
<1>1. PICK t \in job[r].cfg :
        IF AgentExists(t.agent)
          THEN /\ tunnels' = tunnels \cup {t}
               /\ Goto(r, "create.notify")
               /\ UNCHANGED <<job, held>>
          ELSE /\ Return(r)
               /\ UNCHANGED tunnels
  BY DEF CreateInsert
<1>2. CASE AgentExists(t.agent)
  <2>1. tunnels' \subseteq TunnelRow
    BY <1>1, <1>2, CfgType DEF TypeOK
  <2>2. "create.notify" \in Labels
    BY DEF Labels, ReqLabels
  <2>3. pc' \in [Procs -> Labels]
    BY <1>1, <1>2, <2>2, SessInProcs, GotoType
  <2> QED
    BY <1>1, <1>2, <2>1, <2>3 DEF TypeOK, CreateInsert
<1>3. CASE ~AgentExists(t.agent)
  <2>1. ControlOK'
    BY <1>1, <1>3, SessInProcs, ReturnType
  <2> QED
    BY <1>1, <1>3, <2>1 DEF TypeOK, CreateInsert, ControlOK
<1> QED
  BY <1>2, <1>3

\* A request that reads agent_senders finds no connection or one.
LEMMA ReadSendersType ==
  ASSUME TypeOK, NEW r \in Reqs, ReadSenders(r)
  PROVE  held' \in [Locks -> SUBSET Procs]
  BY SessInProcs, AcquireType DEF ReadSenders, Locks

\* Announcing a new tunnel keeps the types.
LEMMA CreateNotifyType ==
  ASSUME TypeOK, NEW r \in Reqs, CreateNotify(r) PROVE TypeOK'
<1>1. PICK t \in job[r].cfg :
        IF senders[t.agent] = {}
          THEN Return(r)
          ELSE /\ Begin(r, "start.stop", [job[r] EXCEPT !.via = senders[t.agent]])
               /\ ReadSenders(r)
  BY DEF CreateNotify
<1>2. CASE senders[t.agent] = {}
  <2>1. ControlOK'
    BY <1>1, <1>2, SessInProcs, ReturnType
  <2> QED
    BY <2>1 DEF TypeOK, CreateNotify, ControlOK
<1>3. CASE senders[t.agent] # {}
  <2>1. senders[t.agent] \in Opt(Sessions)
    BY CfgType DEF TypeOK, TunnelRow
  <2>2. [job[r] EXCEPT !.via = senders[t.agent]] \in Job
    BY <2>1, SessInProcs DEF TypeOK, Job
  <2>3. "start.stop" \in Labels
    BY DEF Labels, SharedLabels
  <2>4. pc' \in [Procs -> Labels] /\ job' \in [Procs -> Job]
    BY <1>1, <1>3, <2>2, <2>3, SessInProcs, BeginType
  <2>5. held' \in [Locks -> SUBSET Procs]
    BY <1>1, <1>3, ReadSendersType
  <2> QED
    BY <2>4, <2>5 DEF TypeOK, CreateNotify
<1> QED
  BY <1>2, <1>3

\* Reading the tunnel to toggle keeps the types.
LEMMA ToggleReadType ==
  ASSUME TypeOK, NEW r \in Reqs, ToggleRead(r) PROVE TypeOK'
<1>1. PICK t \in tunnels : Begin(r, "toggle.write", [NoJob EXCEPT !.cfg =
                                  {[t EXCEPT !.enabled = ~t.enabled]}])
  BY DEF ToggleRead
<1>2. [t EXCEPT !.enabled = ~t.enabled] \in TunnelRow
  BY DEF TypeOK, TunnelRow
<1>3. [NoJob EXCEPT !.cfg = {[t EXCEPT !.enabled = ~t.enabled]}] \in Job
  BY <1>2, JobCfg
<1>4. "toggle.write" \in Labels
  BY DEF Labels, ReqLabels
<1>5. pc' \in [Procs -> Labels] /\ job' \in [Procs -> Job]
  BY <1>1, <1>3, <1>4, SessInProcs, BeginType
<1> QED
  BY <1>5 DEF TypeOK, ToggleRead

\* Writing the flag of a toggled tunnel keeps the types.
LEMMA ToggleWriteType ==
  ASSUME TypeOK, NEW r \in Reqs, ToggleWrite(r) PROVE TypeOK'
<1>1. PICK t \in job[r].cfg : tunnels' = SetTunnelEnabled(t.id, t.enabled)
  BY DEF ToggleWrite
<1>2. t.enabled \in BOOLEAN
  BY CfgType DEF TunnelRow
<1>3. tunnels' \subseteq TunnelRow
  BY <1>1, <1>2, SetTunnelEnabledType
<1>4. pc' \in [Procs -> Labels]
  BY SessInProcs, GotoType DEF ToggleWrite, Labels, ReqLabels
<1> QED
  BY <1>3, <1>4 DEF TypeOK, ToggleWrite

\* Announcing a toggle keeps the types.
LEMMA ToggleNotifyType ==
  ASSUME TypeOK, NEW r \in Reqs, ToggleNotify(r) PROVE TypeOK'
<1>1. PICK t \in job[r].cfg :
        IF t.enabled
          THEN Begin(r, "toggle.reserve", [job[r] EXCEPT !.via = senders[t.agent]])
          ELSE Begin(r, "stop.one", [NoJob EXCEPT !.todo = {t}])
  BY DEF ToggleNotify
<1>2. t \in TunnelRow /\ senders[t.agent] \in Opt(Sessions)
  BY CfgType DEF TypeOK, TunnelRow
<1>3. [job[r] EXCEPT !.via = senders[t.agent]] \in Job
  BY <1>2, SessInProcs DEF TypeOK, Job
<1>4. [NoJob EXCEPT !.todo = {t}] \in Job
  BY <1>2, NoJobType DEF Job
<1>5. "toggle.reserve" \in Labels /\ "stop.one" \in Labels
  BY DEF Labels, ReqLabels, SharedLabels
<1>6. pc' \in [Procs -> Labels] /\ job' \in [Procs -> Job]
  BY <1>1, <1>3, <1>4, <1>5, SessInProcs, BeginType
<1>7. held' \in [Locks -> SUBSET Procs]
  BY ReadSendersType DEF ToggleNotify
<1> QED
  BY <1>6, <1>7 DEF TypeOK, ToggleNotify

\* Reserving the port of a tunnel switched on keeps the types.
LEMMA ToggleReserveType ==
  ASSUME TypeOK, NEW r \in Reqs, ToggleReserve(r) PROVE TypeOK'
<1>1. allocated' \subseteq Ports
  BY CfgType DEF ToggleReserve, TypeOK, TunnelRow
<1>2. ControlOK'
  <2>1. CASE job[r].via = {}
    BY <2>1, SessInProcs, ReturnType DEF ToggleReserve
  <2>2. CASE job[r].via # {}
    <3>1. pc' \in [Procs -> Labels]
      BY <2>2, SessInProcs, GotoType DEF ToggleReserve, Labels, SharedLabels
    <3>2. held' \in [Locks -> SUBSET Procs]
      BY <2>2, SessInProcs, AcquireType DEF ToggleReserve, Locks
    <3> QED
      BY <2>2, <3>1, <3>2 DEF ToggleReserve, TypeOK, ControlOK
  <2> QED
    BY <2>1, <2>2
<1> QED
  BY <1>1, <1>2 DEF TypeOK, ToggleReserve, ControlOK

\* The checks of an update keeps the types.
LEMMA UpdateCheckType ==
  ASSUME TypeOK, NEW r \in Reqs, UpdateCheck(r) PROVE TypeOK'
<1>1. PICK t \in tunnels, proto \in Protocols, sub \in Opt(Subdomains) :
        Begin(r, "update.write", [NoJob EXCEPT !.agent = {t.agent},
                    !.cfg = {[t EXCEPT !.proto = proto, !.sub = sub]}])
  BY DEF UpdateCheck
<1> DEFINE row == [t EXCEPT !.proto = proto, !.sub = sub]
<1>2. row \in TunnelRow /\ t.agent \in Agents
  BY DEF TypeOK, TunnelRow
<1>3. {row} \in Opt(TunnelRow) /\ {t.agent} \in Opt(Agents)
  BY <1>2, OptSome
<1> HIDE DEF row
<1>4. [NoJob EXCEPT !.agent = {t.agent}, !.cfg = {row}] \in Job
  BY <1>3, NoJobType DEF Job
<1>5. "update.write" \in Labels
  BY DEF Labels, ReqLabels
<1>6. pc' \in [Procs -> Labels] /\ job' \in [Procs -> Job]
  BY <1>1, <1>4, <1>5, SessInProcs, BeginType DEF row
<1> QED
  BY <1>6 DEF TypeOK, UpdateCheck

\* Writing an update keeps the types.
LEMMA UpdateWriteType ==
  ASSUME TypeOK, NEW r \in Reqs, UpdateWrite(r) PROVE TypeOK'
<1>1. PICK t \in job[r].cfg : tunnels' = SetTunnel(t.id, t.proto, t.sub)
  BY DEF UpdateWrite
<1>2. t.proto \in Protocols /\ t.sub \in Opt(Subdomains)
  BY CfgType DEF TunnelRow
<1>3. tunnels' \subseteq TunnelRow
  BY <1>1, <1>2, SetTunnelType
<1>4. pc' \in [Procs -> Labels]
  BY SessInProcs, GotoType DEF UpdateWrite, Labels, ReqLabels
<1> QED
  BY <1>3, <1>4 DEF TypeOK, UpdateWrite

\* Announcing an update keeps the types.
LEMMA UpdateNotifyType ==
  ASSUME TypeOK, NEW r \in Reqs, UpdateNotify(r) PROVE TypeOK'
<1>1. PICK a \in job[r].agent :
        IF senders[a] = {}
          THEN Return(r)
          ELSE /\ Begin(r, "sync.list", [NoJob EXCEPT !.agent = {a},
                                                      !.via = senders[a]])
               /\ Acquire("senders", r)
  BY DEF UpdateNotify, ReadSenders
<1>2. CASE senders[a] = {}
  <2>1. ControlOK'
    BY <1>1, <1>2, SessInProcs, ReturnType
  <2> QED
    BY <2>1 DEF TypeOK, UpdateNotify, ControlOK
<1>3. CASE senders[a] # {}
  <2>1. senders[a] \in Opt(Sessions) /\ {a} \in Opt(Agents)
    BY CfgType, OptSome DEF TypeOK
  <2>2. [NoJob EXCEPT !.agent = {a}, !.via = senders[a]] \in Job
    BY <2>1, NoJobType DEF Job
  <2>3. "sync.list" \in Labels
    BY DEF Labels, SharedLabels
  <2>4. pc' \in [Procs -> Labels] /\ job' \in [Procs -> Job]
    BY <1>1, <1>3, <2>2, <2>3, SessInProcs, BeginType
  <2>5. held' \in [Locks -> SUBSET Procs]
    BY <1>1, <1>3, SessInProcs, AcquireType DEF Locks
  <2> QED
    BY <2>4, <2>5 DEF TypeOK, UpdateNotify
<1> QED
  BY <1>2, <1>3

\* Reading the tunnel to delete keeps the types.
LEMMA DeleteReadType ==
  ASSUME TypeOK, NEW r \in Reqs, DeleteRead(r) PROVE TypeOK'
<1>1. PICK t \in tunnels : Begin(r, "stop.one", [NoJob EXCEPT !.todo = {t},
                                                  !.ret = "delete.notify"])
  BY DEF DeleteRead
<1>2. [NoJob EXCEPT !.todo = {t}, !.ret = "delete.notify"] \in Job
  BY NoJobType DEF TypeOK, Job
<1>3. "stop.one" \in Labels
  BY DEF Labels, SharedLabels
<1>4. pc' \in [Procs -> Labels] /\ job' \in [Procs -> Job]
  BY <1>1, <1>2, <1>3, SessInProcs, BeginType
<1> QED
  BY <1>4 DEF TypeOK, DeleteRead

\* Telling the agent that a tunnel goes keeps the types.
LEMMA DeleteNotifyType ==
  ASSUME TypeOK, NEW r \in Reqs, DeleteNotify(r) PROVE TypeOK'
<1>1. pc' \in [Procs -> Labels]
  BY SessInProcs, GotoType DEF DeleteNotify, Labels, ReqLabels
<1> QED
  BY <1>1 DEF TypeOK, DeleteNotify

\* Deleting a tunnel keeps the types.
LEMMA DeleteRowType ==
  ASSUME TypeOK, NEW r \in Reqs, DeleteRow(r) PROVE TypeOK'
<1>1. ControlOK'
  BY SessInProcs, ReturnType DEF DeleteRow
<1>2. tunnels' \subseteq TunnelRow
  BY DEF TypeOK, DeleteRow
<1> QED
  BY <1>1, <1>2 DEF TypeOK, DeleteRow, ControlOK

\* A request to delete an agent keeps the types.
LEMMA DeleteAgentType ==
  ASSUME TypeOK, NEW r \in Reqs, DeleteAgent(r) PROVE TypeOK'
<1>1. PICK a \in Agents : Begin(r, "delete_agent.sender", [NoJob EXCEPT !.agent = {a}])
  BY DEF DeleteAgent
<1>2. [NoJob EXCEPT !.agent = {a}] \in Job
  BY JobAgent
<1>3. "delete_agent.sender" \in Labels
  BY DEF Labels, ReqLabels
<1>4. pc' \in [Procs -> Labels] /\ job' \in [Procs -> Job]
  BY <1>1, <1>2, <1>3, SessInProcs, BeginType
<1> QED
  BY <1>4 DEF TypeOK, DeleteAgent

\* Dropping the sender of a deleted agent keeps the types.
LEMMA DeleteAgentSenderType ==
  ASSUME TypeOK, NEW r \in Reqs, DeleteAgentSender(r) PROVE TypeOK'
<1>1. PICK a \in job[r].agent : WriteSenders(r, a, {})
  BY DEF DeleteAgentSender
<1>2. a \in Agents
  BY <1>1, SessInProcs, OptMember DEF TypeOK, Job
<1>3. /\ senders' \in [Agents -> Opt(Sessions)]
      /\ held' \in [Locks -> SUBSET Procs]
  BY <1>1, <1>2, SessInProcs, OptNone, WriteSendersType
<1>4. pc' \in [Procs -> Labels]
  BY SessInProcs, GotoType DEF DeleteAgentSender, Labels, ReqLabels
<1> QED
  BY <1>3, <1>4 DEF TypeOK, DeleteAgentSender

\* Deleting an agent with its tunnels keeps the types.
LEMMA DeleteAgentRowType ==
  ASSUME TypeOK, NEW r \in Reqs, DeleteAgentRow(r) PROVE TypeOK'
<1>1. ControlOK'
  BY SessInProcs, ReturnType DEF DeleteAgentRow
<1>2. tunnels' \subseteq TunnelRow /\ agents' \subseteq AgentRow
  BY DEF TypeOK, DeleteAgentRow
<1> QED
  BY <1>1, <1>2 DEF TypeOK, DeleteAgentRow, ControlOK

\* A changed ban flag keeps the types.
LEMMA SetBanType ==
  ASSUME TypeOK, NEW u, NEW on \in BOOLEAN PROVE SetBan(u, on) \subseteq UserRow
  BY DEF TypeOK, SetBan, UserRow

\* A ban keeps the types.
LEMMA BanType ==
  ASSUME TypeOK, NEW r \in Reqs, Ban(r) PROVE TypeOK'
<1>1. PICK u \in Users :
        /\ users' = SetBan(u, TRUE)
        /\ IF ListTunnelsForUser(u) = {}
             THEN UNCHANGED <<pc, job, held>>
             ELSE /\ Begin(r, "stop.one", [NoJob EXCEPT !.todo = ListTunnelsForUser(u)])
                  /\ Acquire("db", r)
  BY DEF Ban
<1>2. CASE ListTunnelsForUser(u) = {}
  BY <1>1, <1>2, SetBanType DEF TypeOK, Ban
<1>3. CASE ListTunnelsForUser(u) # {}
  <2>1. ListTunnelsForUser(u) \subseteq TunnelRow
    BY DEF TypeOK, ListTunnelsForUser
  <2>2. [NoJob EXCEPT !.todo = ListTunnelsForUser(u)] \in Job
    BY <2>1, NoJobType DEF Job
  <2>3. "stop.one" \in Labels
    BY DEF Labels, SharedLabels
  <2>4. pc' \in [Procs -> Labels] /\ job' \in [Procs -> Job]
    BY <1>1, <1>3, <2>2, <2>3, SessInProcs, BeginType
  <2>5. held' \in [Locks -> SUBSET Procs]
    BY <1>1, <1>3, SessInProcs, AcquireType DEF Locks
  <2> QED
    BY <1>1, <2>4, <2>5, SetBanType DEF TypeOK, Ban
<1> QED
  BY <1>2, <1>3

\* An unban keeps the types.
LEMMA UnbanType ==
  ASSUME TypeOK, NEW r \in Reqs, Unban(r) PROVE TypeOK'
  BY SetBanType DEF TypeOK, Unban

\* Confirming a claim code keeps the types.
LEMMA ClaimRowType ==
  ASSUME TypeOK, NEW r \in Reqs, ClaimRow(r) PROVE TypeOK'
<1>1. PICK u \in users, x \in agents :
        /\ agents' = (agents \ {x}) \cup {ClaimAgentToUser(x, u.id)}
        /\ Begin(r, "claim.take", [NoJob EXCEPT !.agent = {x.id}, !.code = x.claim])
  BY DEF ClaimRow
<1>2. x \in AgentRow /\ u.id \in Users /\ {u.id} \in Opt(Users) /\ {} \in Opt(Codes)
  BY OptNone, OptSome DEF TypeOK, UserRow
<1>3. agents' \subseteq AgentRow
  BY <1>1, <1>2 DEF TypeOK, ClaimAgentToUser, AgentRow
<1>4. x.id \in Agents /\ x.claim \in Opt(Codes)
  BY <1>2 DEF AgentRow
<1>5. [NoJob EXCEPT !.agent = {x.id}, !.code = x.claim] \in Job
  BY <1>4, OptSome, NoJobType DEF Job
<1>6. "claim.take" \in Labels
  BY DEF Labels, ReqLabels
<1>7. pc' \in [Procs -> Labels] /\ job' \in [Procs -> Job]
  BY <1>1, <1>5, <1>6, SessInProcs, BeginType
<1> QED
  BY <1>3, <1>7 DEF TypeOK, ClaimRow

\* Taking the waiter of a confirmed code keeps the types.
LEMMA ClaimTakeType ==
  ASSUME TypeOK, NEW r \in Reqs, ClaimTake(r) PROVE TypeOK'
<1>1. PICK c \in job[r].code :
        IF pending[c] = {}
          THEN Return(r) /\ UNCHANGED pending
          ELSE /\ pending' = [pending EXCEPT ![c] = {}]
               /\ Begin(r, "claim.online", [job[r] EXCEPT !.via = pending[c]])
               /\ UNCHANGED held
  BY DEF ClaimTake
<1>2. CASE pending[c] = {}
  <2>1. ControlOK'
    BY <1>1, <1>2, SessInProcs, ReturnType
  <2> QED
    BY <1>1, <1>2, <2>1 DEF TypeOK, ClaimTake, ControlOK
<1>3. CASE pending[c] # {}
  <2>1. c \in Codes /\ pending[c] \in Opt(Sessions)
    BY SessInProcs, OptMember DEF TypeOK, Job
  <2>2. [job[r] EXCEPT !.via = pending[c]] \in Job
    BY <2>1, SessInProcs DEF TypeOK, Job
  <2>3. "claim.online" \in Labels
    BY DEF Labels, ReqLabels
  <2>4. pc' \in [Procs -> Labels] /\ job' \in [Procs -> Job]
    BY <1>1, <1>3, <2>2, <2>3, SessInProcs, BeginType
  <2>5. {} \in Opt(Sessions)
    BY OptNone
  <2>6. pending' \in [Codes -> Opt(Sessions)]
    BY <1>1, <1>3, <2>5 DEF TypeOK
  <2> QED
    BY <1>1, <1>3, <2>4, <2>6 DEF TypeOK, ClaimTake
<1> QED
  BY <1>2, <1>3

\* Marking a claimed agent online keeps the types.
LEMMA ClaimOnlineType ==
  ASSUME TypeOK, NEW r \in Reqs, ClaimOnline(r) PROVE TypeOK'
<1>1. agents' \subseteq AgentRow
  BY SetAgentOnlineType DEF ClaimOnline
<1>2. pc' \in [Procs -> Labels]
  BY SessInProcs, GotoType DEF ClaimOnline, Labels, ReqLabels
<1> QED
  BY <1>1, <1>2 DEF TypeOK, ClaimOnline

\* Registering a claimed waiter keeps the types.
LEMMA ClaimRegisterType ==
  ASSUME TypeOK, NEW r \in Reqs, ClaimRegister(r) PROVE TypeOK'
<1>1. PICK a \in job[r].agent : WriteSenders(r, a, job[r].via)
  BY DEF ClaimRegister
<1>2. a \in Agents /\ job[r].via \in Opt(Sessions)
  BY CfgType, SessInProcs DEF TypeOK, Job
<1>3. /\ senders' \in [Agents -> Opt(Sessions)]
      /\ held' \in [Locks -> SUBSET Procs]
  BY <1>1, <1>2, SessInProcs, WriteSendersType
<1>4. pc' \in [Procs -> Labels]
  BY SessInProcs, GotoType DEF ClaimRegister, Labels, SharedLabels
<1> QED
  BY <1>3, <1>4 DEF TypeOK, ClaimRegister

\* A token made in the dashboard keeps the types.
LEMMA GenerateTokenType ==
  ASSUME TypeOK, NEW r \in Reqs, GenerateToken(r) PROVE TypeOK'
<1>1. PICK u \in users, a \in Agents \ issued :
        /\ agents' = agents \cup {[id |-> a, user |-> {u.id}, claim |-> {},
                                   online |-> FALSE]}
        /\ issued' = issued \cup {a}
  BY DEF GenerateToken
<1>2. {u.id} \in Opt(Users) /\ {} \in Opt(Codes)
  BY OptNone, OptSome DEF TypeOK, UserRow
<1>3. [id |-> a, user |-> {u.id}, claim |-> {}, online |-> FALSE] \in AgentRow
  BY <1>2 DEF AgentRow
<1> QED
  BY <1>1, <1>3 DEF TypeOK, GenerateToken

\* A registration keeps the types.
LEMMA RegisterType ==
  ASSUME TypeOK, NEW r \in Reqs, Register(r) PROVE TypeOK'
<1>1. PICK u \in Users, p \in DedicatedPorts :
         users' = users \cup {[id |-> u, port |-> p, banned |-> FALSE]}
  BY DEF Register
<1>2. p \in Ports
  BY DEF DedicatedPorts, FreePorts
<1>3. [id |-> u, port |-> p, banned |-> FALSE] \in UserRow
  BY <1>2 DEF UserRow
<1>4. users' \subseteq UserRow
  BY <1>1, <1>3 DEF TypeOK
<1> QED
  BY <1>4 DEF TypeOK, Register

\* A request dropped at an await keeps the types.
LEMMA CancelType ==
  ASSUME TypeOK, NEW r \in Reqs, Cancel(r) PROVE TypeOK'
<1>1. listeners' \subseteq Listener
  BY DEF TypeOK, Cancel, Listener
<1>2. ControlOK'
  BY SessInProcs, ReturnType DEF Cancel
<1> QED
  BY <1>1, <1>2 DEF TypeOK, Cancel, ControlOK

\* Every step of a request keeps the types.
LEMMA RequestStepType ==
  ASSUME TypeOK, NEW r \in Reqs, RequestStep(r) PROVE TypeOK'
  BY CreateCheckType, CreateAllocateType, CreateConflictType, CreateInsertType,
     CreateNotifyType, ToggleReadType, ToggleWriteType, ToggleNotifyType,
     ToggleReserveType, UpdateCheckType, UpdateWriteType, UpdateNotifyType,
     DeleteReadType, DeleteNotifyType, DeleteRowType, DeleteAgentType,
     DeleteAgentSenderType, DeleteAgentRowType,
     BanType, UnbanType, ClaimRowType, ClaimTakeType, ClaimOnlineType,
     ClaimRegisterType, GenerateTokenType, RegisterType, CancelType
  DEF RequestStep

-----------------------------------------------------------------------------
(* The whole specification. *)

\* A restart of the process keeps the types.
LEMMA RestartType == ASSUME TypeOK, Restart PROVE TypeOK'
<1>1. senders' \in [Agents -> Opt(Sessions)] /\ pending' \in [Codes -> Opt(Sessions)]
  BY OptNone DEF Restart
<1>2. pc' \in [Procs -> Labels]
  BY DEF Restart, Labels, SessionLabels, ReqLabels
<1>3. job' \in [Procs -> Job]
  BY NoJobType DEF Restart
<1>4. sess' \in [Sessions -> SessionLocals]
  BY OptNone DEF Restart, TypeOK, SessionLocals
<1>5. held' \in [Locks -> SUBSET Procs]
  BY DEF Restart
<1> QED
  BY <1>1, <1>2, <1>3, <1>4, <1>5 DEF TypeOK, Restart

\* The end of a proxy task keeps the types.
LEMMA ProxyStepType ==
  ASSUME TypeOK, NEW l \in listeners, Reap(l) \/ ListenerExits(l)
  PROVE  TypeOK'
  BY DEF TypeOK, Reap, ListenerExits

\* The initial state is well typed.
LEMMA InitType == Init => TypeOK
<1> SUFFICES ASSUME Init PROVE TypeOK
  OBVIOUS
<1>1. /\ senders \in [Agents -> Opt(Sessions)]
      /\ pending \in [Codes -> Opt(Sessions)]
      /\ job \in [Procs -> Job]
  BY OptNone, NoJobType DEF Init
<1>2. sess \in [Sessions -> SessionLocals]
  BY OptNone, TokensType DEF Init, SessionLocals
<1>3. issued \subseteq Agents \cup Tunnels \cup Codes
  BY Rows0Type, OptMember DEF Init, AgentRow, TunnelRow
<1>4. pc \in [Procs -> Labels]
  BY DEF Init, Labels, SessionLabels, ReqLabels
<1> QED
  BY <1>1, <1>2, <1>3, <1>4, Rows0Type DEF Init, TypeOK

\* Every step keeps the types.
LEMMA NextType == TypeOK /\ [Next]_vars => TypeOK'
<1> SUFFICES ASSUME TypeOK, [Next]_vars PROVE TypeOK'
  OBVIOUS
<1>1. CASE UNCHANGED vars
  BY <1>1 DEF TypeOK, vars
<1>2. CASE \E p \in Procs : TunnelStep(p) \/ QueueWriter(p)
  BY <1>2, TunnelStepType, QueueWriterType
<1>3. CASE \E s \in Sessions : SessionStep(s) \/ SendTaskEnds(s)
  BY <1>3, SessionStepType, SendTaskEndsType
<1>4. CASE \E r \in Reqs : RequestStep(r)
  BY <1>4, RequestStepType
<1>5. CASE \E l \in listeners : Reap(l) \/ ListenerExits(l)
  BY <1>5, ProxyStepType
<1>6. CASE Restart
  BY <1>6, RestartType
<1> QED
  BY <1>1, <1>2, <1>3, <1>4, <1>5, <1>6 DEF Next

(***************************************************************************)
(* Every variable keeps its type: in particular an agent is reached        *)
(* through at most one connection and a code has at most one device that   *)
(* waits under it, whatever processes do at the same time.                 *)
(***************************************************************************)
THEOREM TypeCorrect == Spec => []TypeOK
  BY InitType, NextType, PTL DEF Spec
=============================================================================
