---------------------------- MODULE CleanupProofs ----------------------------
(***************************************************************************)
(* The clean-up of a connection leaves nothing that can still be stopped,  *)
(* for all values of the constants: the proof of CleanupComplete.          *)
(*                                                                         *)
(* No one starts a listener through a connection that has unregistered:    *)
(* a request does it only while it keeps agent_senders from being written  *)
(* (LockInv), and the connection itself is past its own loop.  What was    *)
(* started before has a row of the connection's agent, for an id names one *)
(* tunnel and is never drawn again; so it is in the list the clean-up      *)
(* reads, or its row is gone.                                              *)
(***************************************************************************)
EXTENDS SessionProofs

\* Of the database file: the ids of the tunnels are its primary key.
TunnelIds0 == \A x, y \in Tunnels0 : x.id = y.id => x = y

-----------------------------------------------------------------------------
(* What is said of a tunnel. *)

Rows(p) == job[p].cfg \cup job[p].todo

SameTunnel(x, y) == x.id = y.id /\ x.agent = y.agent

\* Some row, local or proxy task says that tunnel i is of agent a.
Says(i, a) ==
    \/ \E x \in tunnels : x.id = i /\ x.agent = a
    \/ \E p \in Procs : \E x \in Rows(p) : x.id = i /\ x.agent = a
    \/ \E l \in listeners : l.tunnel = i /\ l.agent = a

Creating(p) == pc[p] \in {"create.allocate", "create.insert"}

\* Nobody but r has heard of the tunnel r is about to insert.
Unheard(r, t) ==
    /\ \A x \in tunnels : x.id # t.id
    /\ \A l \in listeners : l.tunnel # t.id
    /\ \A q \in Procs \ {r} : \A x \in Rows(q) : x.id # t.id

NamesInv ==
    /\ \A i, a : Says(i, a) => i \in issued
    /\ \A i, a, b : Says(i, a) /\ Says(i, b) => a = b
    /\ \A r \in Procs : Creating(r) => \A t \in Rows(r) : Unheard(r, t)

\* A step of p speaks only of tunnels that are in the table or in its locals.
StepNames(p) ==
    /\ OnlyMoves(p) /\ issued \subseteq issued'
    /\ \A x \in tunnels' : \/ \E y \in tunnels : SameTunnel(x, y)
                           \/ pc[p] = "create.insert" /\ x \in Rows(p)
    /\ \A x \in Rows(p)' : \E y \in tunnels \cup Rows(p) : SameTunnel(x, y)
    /\ \A l \in listeners' :
          \/ \E k \in listeners : l.tunnel = k.tunnel /\ l.agent = k.agent
          \/ \E y \in Rows(p) : l.tunnel = y.id /\ l.agent = y.agent
    /\ Creating(p)' => /\ Creating(p) /\ Rows(p)' = Rows(p)
                       /\ UNCHANGED <<tunnels, listeners>>

\* Such a step keeps what is said.
LEMMA NamesKept ==
  ASSUME NamesInv, NEW p \in Procs, StepNames(p) PROVE NamesInv'
<1>1. ASSUME NEW q \in Procs, NEW x \in Rows(q)'
      PROVE  \E y \in tunnels \cup Rows(q) : SameTunnel(x, y)
  BY <1>1 DEF StepNames, OnlyMoves, Rows, SameTunnel
<1>2. ASSUME NEW i, NEW a, Says(i, a)' PROVE Says(i, a)
  <2>1. CASE \E x \in tunnels' : x.id = i /\ x.agent = a
    BY <2>1 DEF StepNames, SameTunnel, Says
  <2>2. CASE \E q \in Procs : \E x \in Rows(q)' : x.id = i /\ x.agent = a
    BY <1>1, <2>2 DEF SameTunnel, Says
  <2>3. CASE \E l \in listeners' : l.tunnel = i /\ l.agent = a
    BY <2>3 DEF StepNames, Says
  <2> QED
    BY <1>2, <2>1, <2>2, <2>3 DEF Says
<1>3. ASSUME NEW r \in Procs, Creating(r)', NEW t \in Rows(r)' PROVE Unheard(r, t)'
  <2>1. Creating(r) /\ t \in Rows(r)
    BY <1>3 DEF StepNames, OnlyMoves, Creating, Rows
  <2>2. Unheard(r, t)
    BY <2>1 DEF NamesInv
  <2>3. CASE r = p
    BY <1>3, <2>2, <2>3 DEF StepNames, OnlyMoves, Unheard, Rows
  <2>4. CASE r # p
    <3>1. \A y \in tunnels \cup Rows(p) : y.id # t.id
      BY <2>2, <2>4 DEF Unheard
    <3>2. \A x \in tunnels' : x.id # t.id
      BY <3>1 DEF StepNames, SameTunnel
    <3>3. \A l \in listeners' : l.tunnel # t.id
      BY <2>2, <3>1 DEF StepNames, Unheard
    <3>4. \A q \in Procs \ {r} : \A x \in Rows(q)' : x.id # t.id
      BY <1>1, <2>2 DEF Unheard, SameTunnel
    <3> QED
      BY <3>2, <3>3, <3>4 DEF Unheard
  <2> QED
    BY <2>3, <2>4
<1>4. issued \subseteq issued'
  BY DEF StepNames
<1> QED
  BY <1>2, <1>3, <1>4 DEF NamesInv

\* A creation draws an id nobody has heard of.
LEMMA CreateCheckNames ==
  ASSUME TypeOK, NamesInv, NEW r \in Reqs, CreateCheck(r) PROVE NamesInv'
<1>0. PICK u \in users, a \in Agents, proto \in Protocols, sub \in Opt(Subdomains),
           t \in Tunnels \ issued :
         /\ Begin(r, "create.allocate", [NoJob EXCEPT !.cfg =
               {[id |-> t, agent |-> a, user |-> u.id, proto |-> proto,
                 port |-> u.port, sub |-> sub, enabled |-> TRUE]}])
         /\ issued' = issued \cup {t}
  BY DEF CreateCheck
<1> DEFINE z == [id |-> t, agent |-> a, user |-> u.id, proto |-> proto,
                 port |-> u.port, sub |-> sub, enabled |-> TRUE]
<1>1. /\ z.id = t /\ t \notin issued /\ issued' = issued \cup {t}
      /\ Begin(r, "create.allocate", [NoJob EXCEPT !.cfg = {z}])
  BY <1>0
<1> HIDE DEF z
<1>2. r \in Procs
  BY SessInProcs
<1>3. OnlyMoves(r) /\ job'[r] = [NoJob EXCEPT !.cfg = {z}]
  BY <1>1, <1>2, BeginMoves
<1>4. Rows(r)' = {z}
  BY <1>3 DEF Rows, NoJob
<1>5. \A q \in Procs \ {r} : Rows(q)' = Rows(q) /\ (Creating(q)' => Creating(q))
  BY <1>3 DEF Rows, OnlyMoves, Creating
<1>6. UNCHANGED <<tunnels, listeners>>
  BY DEF CreateCheck
<1>7. \A b : ~Says(t, b)
  BY <1>1 DEF NamesInv
<1>8. \A i, b : Says(i, b)' => Says(i, b) \/ (i = t /\ b = z.agent)
  BY <1>1, <1>4, <1>5, <1>6 DEF Says
<1>9. \A i, b : Says(i, b)' => i \in issued'
  BY <1>1, <1>8 DEF NamesInv
<1>10. \A i, b, c : Says(i, b)' /\ Says(i, c)' => b = c
  BY <1>7, <1>8 DEF NamesInv
<1>11. ASSUME NEW q \in Procs, Creating(q)', NEW x \in Rows(q)' PROVE Unheard(q, x)'
  <2>1. CASE q = r
    <3>1. x.id = t
      BY <1>1, <1>4, <1>11, <2>1
    <3> QED
      BY <1>5, <1>6, <1>7, <2>1, <3>1 DEF Says, Unheard
  <2>2. CASE q # r
    <3>1. x \in Rows(q) /\ Unheard(q, x)
      BY <1>5, <1>11, <2>2 DEF NamesInv
    <3>2. x.id \in issued
      BY <3>1 DEF Says, NamesInv
    <3>3. z.id # x.id
      BY <1>1, <3>2
    <3> QED
      BY <1>2, <1>4, <1>5, <1>6, <3>1, <3>3 DEF Unheard
  <2> QED
    BY <2>1, <2>2
<1> QED
  BY <1>9, <1>10, <1>11 DEF NamesInv

-----------------------------------------------------------------------------
(* Every step speaks of what it was told. *)

\* The same task, stopped or dropped at most.
StillIs(l, k) ==
    /\ l.tunnel = k.tunnel /\ l.agent = k.agent /\ l.via = k.via
    /\ l.handle = k.handle \/ l.handle \in {"aborted", "nobody"}

\* The proxy tasks of a step are those before it.
TasksKept == \A l \in listeners' : \E k \in listeners : StillIs(l, k)

\* The usual step: no new row, no new proxy task, rows of the table in its locals.
LEMMA UsualNames ==
  ASSUME NEW p \in Procs, OnlyMoves(p), issued \subseteq issued', TasksKept,
         \A x \in tunnels' : \E y \in tunnels : SameTunnel(x, y),
         \A x \in Rows(p)' : \E y \in tunnels \cup Rows(p) : SameTunnel(x, y),
         ~Creating(p)'
  PROVE  StepNames(p)
  BY DEF StillIs, TasksKept, StepNames

\* The table as it is.
LEMMA SameRowsNames ==
  ASSUME UNCHANGED tunnels PROVE \A x \in tunnels' : \E y \in tunnels : SameTunnel(x, y)
  BY DEF SameTunnel

\* The proxy tasks as they are, and the ones a stop or a cancellation leaves.
LEMMA SameTasks == ASSUME UNCHANGED listeners PROVE TasksKept
  BY DEF StillIs, TasksKept

\* abort() changes the handle only.
LEMMA StopTasks ==
  ASSUME TypeOK, NEW t, listeners' = StopListener(t)
  PROVE  /\ TasksKept
         /\ \A l \in listeners' : l.handle = "tasks" => l \in listeners /\ l.tunnel # t
<1> DEFINE new(l) == IF l.tunnel = t /\ l.handle = "tasks"
                       THEN [l EXCEPT !.handle = "aborted"] ELSE l
<1>1. \A l \in listeners : /\ new(l).tunnel = l.tunnel /\ new(l).agent = l.agent
                           /\ new(l).via = l.via
                           /\ new(l) = l \/ new(l).handle = "aborted"
  BY DEF TypeOK, Listener
<1>2. \A l \in listeners : new(l).handle = "tasks" => new(l) = l /\ l.tunnel # t
  BY DEF TypeOK, Listener
<1>3. listeners' = {new(l) : l \in listeners}
  BY DEF StopListener
<1> HIDE DEF new
<1>4. TasksKept
  BY <1>1, <1>3 DEF StillIs, TasksKept
<1>5. \A l \in listeners' : l.handle = "tasks" => l \in listeners /\ l.tunnel # t
  BY <1>2, <1>3
<1> QED
  BY <1>4, <1>5

\* The end of a proxy task.
LEMMA FewerTasks == ASSUME listeners' \subseteq listeners PROVE TasksKept
  BY DEF StillIs, TasksKept

\* Rows in the locals of a process that returns, goes on, or begins a request.
LEMMA ReturnRows ==
  ASSUME TypeOK, NEW p \in Procs, NEW label, Finish(p, label)
  PROVE  OnlyMoves(p) /\ pc'[p] = label /\ Rows(p)' = {}
  BY DEF TypeOK, Finish, OnlyMoves, Rows, NoJob

\* The rows at hand and the rows to come, of a process that goes on.
LEMMA TunnelStepLocals ==
  ASSUME TypeOK, NEW p \in Procs, TunnelStep(p)
  PROVE  /\ OnlyMoves(p) /\ UNCHANGED <<tunnels, issued>>
         /\ Rows(p)' \subseteq tunnels \cup Rows(p)
         /\ ~Creating(p)'
<1>1. UNCHANGED <<tunnels, issued>>
  BY DEF TunnelStep, StartStop, StartBind, StartBindFails, StartInsert, SyncList,
         SyncReserve, StopOne, FreeOne
<1> DEFINE Goal == /\ OnlyMoves(p) /\ Rows(p)' \subseteq tunnels \cup Rows(p)
                   /\ ~Creating(p)'
<1>2. ASSUME Return(p) PROVE Goal
  BY <1>2, ReturnRows DEF Return, Home, Creating
<1>3. ASSUME NEW label \in Labels, Goto(p, label), label \notin {"create.allocate", "create.insert"},
             \A q \in Procs \ {p} : job'[q] = job[q],
             job'[p].cfg \subseteq tunnels \cup Rows(p), job'[p].todo \subseteq tunnels \cup Rows(p)
      PROVE  Goal
  BY <1>3, GotoMoves DEF OnlyMoves, Rows, Creating
<1>4. {"start.bind", "start.insert", "start.stop", "sync.reserve", "stop.free",
       "stop.one", "delete.notify"} \subseteq Labels \ {"create.allocate", "create.insert"}
  BY DEF Labels, SharedLabels, ReqLabels
<1>5. job[p] \in Job
  BY DEF TypeOK
<1>6. CASE StartStop(p) \/ StartBind(p)
  BY <1>1, <1>3, <1>4, <1>6 DEF StartStop, StartBind, Rows
<1>7. ASSUME NextRow(p) PROVE Goal
  <2>1. CASE Goto(p, "sync.reserve") /\ job' = [job EXCEPT ![p].cfg = {}]
    <3>1. /\ job'[p].cfg = {} /\ job'[p].todo = job[p].todo
          /\ \A q \in Procs \ {p} : job'[q] = job[q]
      BY <2>1, <1>5 DEF TypeOK, Job
    <3> QED
      BY <1>3, <1>4, <2>1, <3>1 DEF Rows
  <2> QED
    BY <1>2, <1>7, <2>1 DEF NextRow
<1>8. CASE StartBindFails(p) \/ StartInsert(p)
  BY <1>1, <1>7, <1>8 DEF StartBindFails, StartInsert
<1>9. CASE SyncList(p)
  <2> DEFINE rows == {t \in tunnels : t.agent \in job[p].agent /\ t.enabled}
  <2>1. CASE Goto(p, "sync.reserve") /\ job' = [job EXCEPT ![p].todo = rows]
    <3>1. /\ job'[p].cfg = job[p].cfg /\ job'[p].todo = rows
          /\ \A q \in Procs \ {p} : job'[q] = job[q]
      BY <2>1, <1>5 DEF TypeOK, Job
    <3> QED
      BY <1>1, <1>3, <1>4, <2>1, <3>1 DEF Rows
  <2> QED
    BY <1>1, <1>2, <1>9, <2>1 DEF SyncList
<1>10. ASSUME NEW t \in job[p].todo, NEW label \in {"start.stop", "stop.free"},
              Goto(p, label), job' = [job EXCEPT ![p].cfg = {t}, ![p].todo = @ \ {t}]
       PROVE  Goal
  <2>1. /\ job'[p].cfg = {t} /\ job'[p].todo = job[p].todo \ {t}
        /\ \A q \in Procs \ {p} : job'[q] = job[q]
    BY <1>5, <1>10 DEF TypeOK, Job
  <2> QED
    BY <1>3, <1>4, <1>10, <2>1 DEF Rows
<1>11. CASE SyncReserve(p) \/ StopOne(p)
  BY <1>1, <1>10, <1>11 DEF SyncReserve, StopOne
<1>12. CASE FreeOne(p)
  <2>1. CASE Finish(p, "gone")
    BY <1>1, <2>1, ReturnRows DEF Creating
  <2>2. CASE (Goto(p, "delete.notify") \/ Goto(p, "stop.one")) /\ UNCHANGED job
    BY <1>1, <1>3, <1>4, <2>2 DEF Rows
  <2>3. CASE LoopEnds(p)
    BY <1>1, <1>2, <2>1, <2>2, <2>3 DEF LoopEnds
  <2> QED
    BY <1>1, <1>12, <2>1, <2>2, <2>3 DEF FreeOne
<1> QED
  BY <1>1, <1>6, <1>8, <1>9, <1>11, <1>12 DEF TunnelStep

\* The steps of tunnel_manager.rs speak of the tunnel at hand.
LEMMA TunnelStepNames ==
  ASSUME TypeOK, NEW p \in Procs, TunnelStep(p) PROVE StepNames(p)
<1>1. /\ OnlyMoves(p) /\ UNCHANGED <<tunnels, issued>>
      /\ Rows(p)' \subseteq tunnels \cup Rows(p)
      /\ ~Creating(p)'
  BY TunnelStepLocals
<1>2. \A l \in listeners' :
         \/ \E k \in listeners : l.tunnel = k.tunnel /\ l.agent = k.agent
         \/ \E y \in Rows(p) : l.tunnel = y.id /\ l.agent = y.agent
  <2>1. CASE StartBind(p)
    BY <2>1 DEF StartBind, Rows
  <2>2. CASE StartInsert(p)
    BY <2>2 DEF StartInsert, InsertTask, TypeOK, Listener
  <2>3. CASE StartStop(p) \/ StopOne(p)
    BY <2>3, StopTasks DEF StartStop, StopOne, StillIs, TasksKept
  <2>4. CASE StartBindFails(p) \/ SyncList(p) \/ SyncReserve(p) \/ FreeOne(p)
    BY <2>4 DEF StartBindFails, SyncList, SyncReserve, FreeOne
  <2> QED
    BY <2>1, <2>2, <2>3, <2>4 DEF TunnelStep
<1> QED
  BY <1>1, <1>2 DEF StepNames, SameTunnel

\* A connection speaks of the rows of its agent.
LEMMA SessionStepNames ==
  ASSUME TypeOK, NEW s \in Sessions, SessionStep(s) \/ SendTaskEnds(s)
  PROVE  StepNames(s) /\ UNCHANGED <<tunnels, listeners>>
<1>1. s \in Procs /\ s \notin Reqs
  BY SessInProcs, ProcsDisjoint
<1>2. OnlyMoves(s)
  BY DEF TypeOK, SessionStep, Connect, RequestClaim, AuthRead, AuthPending, AuthOnline,
         AuthRegister, Disconnect, ClosePending, CleanupSenders, CleanupOffline,
         CleanupList, SendTaskEnds, Goto, OnlyMoves
<1>3. UNCHANGED <<tunnels, listeners>> /\ issued \subseteq issued'
  BY DEF SessionStep, Connect, RequestClaim, AuthRead, AuthPending, AuthOnline,
         AuthRegister, Disconnect, ClosePending, CleanupSenders, CleanupOffline,
         CleanupList, SendTaskEnds
<1>4. Rows(s)' \subseteq tunnels \cup Rows(s)
  <2>1. CASE UNCHANGED job
    BY <2>1 DEF Rows
  <2>2. CASE AuthRegister(s)
    BY <1>1, <2>2 DEF AuthRegister, TypeOK, Rows, NoJob
  <2>3. CASE CleanupList(s)
    <3>1. CASE UNCHANGED job
      BY <3>1 DEF Rows
    <3>2. ASSUME NEW a, job' = [job EXCEPT ![s] = [NoJob EXCEPT
                                  !.todo = ListTunnelsForAgent(a), !.ret = "gone"]]
          PROVE  Rows(s)' \subseteq tunnels
      <4>1. job'[s].todo = ListTunnelsForAgent(a) /\ job'[s].cfg = {}
        BY <1>1, <3>2 DEF TypeOK, NoJob
      <4> QED
        BY <4>1 DEF Rows, ListTunnelsForAgent
    <3> QED
      BY <2>3, <3>1, <3>2 DEF CleanupList
  <2> QED
    BY <2>1, <2>2, <2>3 DEF SessionStep, Connect, RequestClaim, AuthRead, AuthPending,
       AuthOnline, Disconnect, ClosePending, CleanupSenders, CleanupOffline, SendTaskEnds
<1>5. ~Creating(s)' \/ (UNCHANGED <<pc, job>>)
  <2>1. UNCHANGED <<pc, job>> \/ \E label \in SessionLabels \cup {"sync.list", "stop.one"} : Goto(s, label)
    BY DEF SessionStep, Connect, RequestClaim, AuthRead, AuthPending, AuthOnline,
         AuthRegister, Disconnect, ClosePending, CleanupSenders, CleanupOffline,
         CleanupList, SendTaskEnds, AfterPending, SessionLabels
  <2> QED
    BY <1>1, <2>1, GotoMoves DEF SessionLabels, Creating
<1>6. CASE UNCHANGED <<pc, job>>
  BY <1>2, <1>3, <1>6 DEF StepNames, SameTunnel, Rows, Creating
<1> QED
  BY <1>1, <1>2, <1>3, <1>4, <1>5, <1>6 DEF StepNames, SameTunnel

\* A request that begins with a row of the table, or without one.
LEMMA BeginNames ==
  ASSUME TypeOK, NEW r \in Reqs, NEW label, NEW j, Begin(r, label, j),
         \A x \in j.cfg \cup j.todo : \E y \in tunnels \cup Rows(r) : SameTunnel(x, y),
         label \notin {"create.allocate", "create.insert"},
         UNCHANGED <<tunnels, issued, listeners>>
  PROVE  StepNames(r)
<1>1. r \in Procs
  BY SessInProcs
<1>2. OnlyMoves(r) /\ pc'[r] = label /\ job'[r] = j
  BY <1>1, BeginMoves
<1> QED
  BY <1>1, <1>2, UsualNames, SameTasks, SameRowsNames DEF Rows, Creating

\* A request that goes on with its locals.
LEMMA GotoNames ==
  ASSUME TypeOK, NEW r \in Reqs, NEW label, Goto(r, label), UNCHANGED <<job, issued>>,
         TasksKept, \A x \in tunnels' : \E y \in tunnels : SameTunnel(x, y),
         label \notin {"create.allocate", "create.insert"}
  PROVE  StepNames(r)
<1>1. r \in Procs
  BY SessInProcs
<1>2. OnlyMoves(r) /\ pc'[r] = label
  BY <1>1, GotoMoves DEF OnlyMoves
<1> QED
  BY <1>1, <1>2, UsualNames DEF Rows, Creating, SameTunnel

\* A request that returns, whatever rows it removed.
LEMMA ReturnNames ==
  ASSUME TypeOK, NEW r \in Reqs, Return(r), UNCHANGED issued, TasksKept,
         tunnels' \subseteq tunnels
  PROVE  StepNames(r)
<1>1. r \in Procs
  BY SessInProcs
<1>2. OnlyMoves(r) /\ pc'[r] = Home(r) /\ Rows(r)' = {}
  BY <1>1, ReturnRows DEF Return
<1>3. ~Creating(r)'
  BY <1>2 DEF Home, Creating
<1> QED
  BY <1>1, <1>2, <1>3, UsualNames DEF SameTunnel

\* set_tunnel_enabled and update_tunnel keep id and agent.
LEMMA SetRowNames ==
  ASSUME TypeOK, NEW t, NEW proto, NEW sub, NEW on,
         tunnels' = SetTunnel(t, proto, sub) \/ tunnels' = SetTunnelEnabled(t, on)
  PROVE  \A x \in tunnels' : \E y \in tunnels : SameTunnel(x, y)
<1>1. CASE tunnels' = SetTunnel(t, proto, sub)
  <2> DEFINE new(x) == IF x.id = t THEN [x EXCEPT !.proto = proto, !.sub = sub] ELSE x
  <2>1. \A x \in tunnels : SameTunnel(new(x), x)
    BY DEF TypeOK, TunnelRow, SameTunnel
  <2>2. tunnels' = {new(x) : x \in tunnels}
    BY <1>1 DEF SetTunnel
  <2> HIDE DEF new
  <2> QED
    BY <2>1, <2>2
<1>2. CASE tunnels' = SetTunnelEnabled(t, on)
  <2> DEFINE new(x) == IF x.id = t THEN [x EXCEPT !.enabled = on] ELSE x
  <2>1. \A x \in tunnels : SameTunnel(new(x), x)
    BY DEF TypeOK, TunnelRow, SameTunnel
  <2>2. tunnels' = {new(x) : x \in tunnels}
    BY <1>2 DEF SetTunnelEnabled
  <2> HIDE DEF new
  <2> QED
    BY <2>1, <2>2
<1> QED
  BY <1>1, <1>2

\* Creations speak of the row they were asked to make.
LEMMA CreateNames ==
  ASSUME TypeOK, NEW r \in Reqs,
         CreateAllocate(r) \/ CreateConflict(r) \/ CreateInsert(r) \/ CreateNotify(r)
  PROVE  StepNames(r)
<1>1. r \in Procs
  BY SessInProcs
<1>2. CASE CreateAllocate(r)
  <2>1. /\ OnlyMoves(r) /\ job' = job /\ Creating(r)
        /\ UNCHANGED <<tunnels, listeners, issued>>
    BY <1>1, <1>2, GotoMoves DEF CreateAllocate, OnlyMoves, Creating
  <2> QED
    BY <2>1 DEF StepNames, SameTunnel, Rows
<1>3. CASE CreateConflict(r)
  BY <1>3, ReturnNames, SameTasks DEF CreateConflict
<1>4. CASE CreateInsert(r)
  <2>1. CASE Return(r) /\ UNCHANGED tunnels
    BY <1>4, <2>1, ReturnNames, SameTasks DEF CreateInsert
  <2>2. CASE /\ Goto(r, "create.notify") /\ UNCHANGED job
             /\ \E t \in job[r].cfg : tunnels' = tunnels \cup {t}
    <3>1. OnlyMoves(r) /\ Rows(r)' = Rows(r) /\ ~Creating(r)'
      BY <1>1, <2>2, GotoMoves DEF OnlyMoves, Rows, Creating
    <3>2. pc[r] = "create.insert" /\ UNCHANGED <<listeners, issued>>
      BY <1>4 DEF CreateInsert
    <3> QED
      BY <2>2, <3>1, <3>2 DEF StepNames, SameTunnel, Rows
  <2> QED
    BY <1>4, <2>1, <2>2 DEF CreateInsert
<1>5. CASE CreateNotify(r)
  <2>1. UNCHANGED <<tunnels, issued, listeners>>
    BY <1>5 DEF CreateNotify
  <2>2. CASE Return(r)
    BY <2>1, <2>2, ReturnNames, SameTasks
  <2>3. ASSUME NEW t, Begin(r, "start.stop", [job[r] EXCEPT !.via = senders[t.agent]])
        PROVE  StepNames(r)
    <3> DEFINE j == [job[r] EXCEPT !.via = senders[t.agent]]
    <3>1. j.cfg = job[r].cfg /\ j.todo = job[r].todo
      BY <1>1 DEF TypeOK, Job
    <3>2. Begin(r, "start.stop", j)
      BY <2>3
    <3> HIDE DEF j
    <3> QED
      BY <2>1, <3>1, <3>2, BeginNames DEF Rows, SameTunnel
  <2> QED
    BY <1>5, <2>2, <2>3 DEF CreateNotify
<1> QED
  BY <1>2, <1>3, <1>4, <1>5

\* The switch of a tunnel speaks of the row it read.
LEMMA ToggleNames ==
  ASSUME TypeOK, NEW r \in Reqs,
         ToggleRead(r) \/ ToggleWrite(r) \/ ToggleNotify(r) \/ ToggleReserve(r)
  PROVE  StepNames(r)
<1>1. r \in Procs
  BY SessInProcs
<1>2. CASE ToggleRead(r)
  <2>1. PICK t \in tunnels :
           Begin(r, "toggle.write", [NoJob EXCEPT !.cfg = {[t EXCEPT !.enabled = ~t.enabled]}])
    BY <1>2 DEF ToggleRead
  <2> DEFINE z == [t EXCEPT !.enabled = ~t.enabled]
             j == [NoJob EXCEPT !.cfg = {z}]
  <2>2. z.id = t.id /\ z.agent = t.agent
    BY DEF TypeOK, TunnelRow
  <2>3. j.cfg = {z} /\ j.todo = {}
    BY DEF NoJob
  <2>4. Begin(r, "toggle.write", j) /\ UNCHANGED <<tunnels, issued, listeners>>
    BY <1>2, <2>1 DEF ToggleRead
  <2> HIDE DEF z, j
  <2> QED
    BY <2>2, <2>3, <2>4, BeginNames DEF SameTunnel
<1>3. CASE ToggleWrite(r)
  <2>1. \A x \in tunnels' : \E y \in tunnels : SameTunnel(x, y)
    BY <1>3, SetRowNames DEF ToggleWrite
  <2> QED
    BY <1>3, <2>1, GotoNames, SameTasks DEF ToggleWrite
<1>4. CASE ToggleNotify(r)
  <2>1. PICK t \in job[r].cfg :
           IF t.enabled
             THEN Begin(r, "toggle.reserve", [job[r] EXCEPT !.via = senders[t.agent]])
             ELSE Begin(r, "stop.one", [NoJob EXCEPT !.todo = {t}])
    BY <1>4 DEF ToggleNotify
  <2>2. UNCHANGED <<tunnels, issued, listeners>>
    BY <1>4 DEF ToggleNotify
  <2>3. CASE t.enabled
    <3> DEFINE j == [job[r] EXCEPT !.via = senders[t.agent]]
    <3>1. j.cfg = job[r].cfg /\ j.todo = job[r].todo
      BY <1>1 DEF TypeOK, Job
    <3>2. Begin(r, "toggle.reserve", j)
      BY <2>1, <2>3
    <3> HIDE DEF j
    <3> QED
      BY <2>2, <3>1, <3>2, BeginNames DEF Rows, SameTunnel
  <2>4. CASE ~t.enabled
    <3> DEFINE j == [NoJob EXCEPT !.todo = {t}]
    <3>1. j.cfg = {} /\ j.todo = {t}
      BY DEF NoJob
    <3>2. Begin(r, "stop.one", j)
      BY <2>1, <2>4
    <3> HIDE DEF j
    <3> QED
      BY <2>2, <3>1, <3>2, BeginNames DEF Rows, SameTunnel
  <2> QED
    BY <2>3, <2>4
<1>5. CASE ToggleReserve(r)
  <2>1. CASE Return(r)
    BY <1>5, <2>1, ReturnNames, SameTasks DEF ToggleReserve
  <2>2. CASE Goto(r, "start.stop") /\ UNCHANGED job
    BY <1>5, <2>2, GotoNames, SameTasks, SameRowsNames DEF ToggleReserve
  <2> QED
    BY <1>5, <2>1, <2>2 DEF ToggleReserve
<1> QED
  BY <1>2, <1>3, <1>4, <1>5

\* An update speaks of the row it read.
LEMMA UpdateNames ==
  ASSUME TypeOK, NEW r \in Reqs, UpdateCheck(r) \/ UpdateWrite(r) \/ UpdateNotify(r)
  PROVE  StepNames(r)
<1>1. CASE UpdateCheck(r)
  <2>1. PICK t \in tunnels, proto \in Protocols, sub \in Opt(Subdomains) :
           Begin(r, "update.write", [NoJob EXCEPT !.agent = {t.agent},
                    !.cfg = {[t EXCEPT !.proto = proto, !.sub = sub]}])
    BY <1>1 DEF UpdateCheck
  <2> DEFINE z == [t EXCEPT !.proto = proto, !.sub = sub]
             j == [NoJob EXCEPT !.agent = {t.agent}, !.cfg = {z}]
  <2>2. z.id = t.id /\ z.agent = t.agent
    BY DEF TypeOK, TunnelRow
  <2>3. j.cfg = {z} /\ j.todo = {}
    BY DEF NoJob
  <2>4. Begin(r, "update.write", j) /\ UNCHANGED <<tunnels, issued, listeners>>
    BY <1>1, <2>1 DEF UpdateCheck
  <2> HIDE DEF z, j
  <2> QED
    BY <2>2, <2>3, <2>4, BeginNames DEF SameTunnel
<1>2. CASE UpdateWrite(r)
  <2>1. \A x \in tunnels' : \E y \in tunnels : SameTunnel(x, y)
    BY <1>2, SetRowNames DEF UpdateWrite
  <2> QED
    BY <1>2, <2>1, GotoNames, SameTasks DEF UpdateWrite
<1>3. CASE UpdateNotify(r)
  <2>1. PICK a \in job[r].agent :
           \/ Return(r)
           \/ Begin(r, "sync.list", [NoJob EXCEPT !.agent = {a}, !.via = senders[a]])
    BY <1>3 DEF UpdateNotify
  <2>2. UNCHANGED <<tunnels, issued, listeners>>
    BY <1>3 DEF UpdateNotify
  <2>3. CASE Return(r)
    BY <2>2, <2>3, ReturnNames, SameTasks
  <2>4. CASE Begin(r, "sync.list", [NoJob EXCEPT !.agent = {a}, !.via = senders[a]])
    <3> DEFINE j == [NoJob EXCEPT !.agent = {a}, !.via = senders[a]]
    <3>1. j.cfg = {} /\ j.todo = {}
      BY DEF NoJob
    <3>2. Begin(r, "sync.list", j)
      BY <2>4
    <3> HIDE DEF j
    <3> QED
      BY <2>2, <3>1, <3>2, BeginNames
  <2> QED
    BY <2>1, <2>3, <2>4
<1> QED
  BY <1>1, <1>2, <1>3

\* Deletions and bans speak of the rows they read, a cancelled request of none.
LEMMA DeleteNames ==
  ASSUME TypeOK, NEW r \in Reqs,
         \/ DeleteRead(r) \/ DeleteNotify(r) \/ DeleteRow(r)
         \/ DeleteAgent(r) \/ DeleteAgentSender(r) \/ DeleteAgentRow(r) \/ Ban(r) \/ Cancel(r)
  PROVE  StepNames(r)
<1>1. CASE DeleteRead(r)
  <2>1. PICK t \in tunnels : Begin(r, "stop.one", [NoJob EXCEPT !.todo = {t},
                                                       !.ret = "delete.notify"])
    BY <1>1 DEF DeleteRead
  <2> DEFINE j == [NoJob EXCEPT !.todo = {t}, !.ret = "delete.notify"]
  <2>2. j.cfg = {} /\ j.todo = {t}
    BY DEF NoJob
  <2>3. Begin(r, "stop.one", j) /\ UNCHANGED <<tunnels, issued, listeners>>
    BY <1>1, <2>1 DEF DeleteRead
  <2> HIDE DEF j
  <2> QED
    BY <2>2, <2>3, BeginNames DEF SameTunnel
<1>2. CASE DeleteRow(r)
  BY <1>2, ReturnNames, SameTasks DEF DeleteRow
<1>3. CASE DeleteAgent(r)
  <2>1. PICK a : Begin(r, "delete_agent.sender", [NoJob EXCEPT !.agent = {a}])
    BY <1>3 DEF DeleteAgent
  <2> DEFINE j == [NoJob EXCEPT !.agent = {a}]
  <2>2. j.cfg = {} /\ j.todo = {}
    BY DEF NoJob
  <2>3. Begin(r, "delete_agent.sender", j) /\ UNCHANGED <<tunnels, issued, listeners>>
    BY <1>3, <2>1 DEF DeleteAgent
  <2> HIDE DEF j
  <2> QED
    BY <2>2, <2>3, BeginNames
<1>4. CASE DeleteAgentRow(r)
  BY <1>4, ReturnNames, SameTasks DEF DeleteAgentRow
<1>5. CASE Ban(r)
  <2>1. UNCHANGED <<tunnels, issued, listeners>>
    BY <1>5 DEF Ban
  <2>2. CASE UNCHANGED <<pc, job>>
    BY <2>1, <2>2 DEF StepNames, OnlyMoves, Rows, SameTunnel, Creating
  <2>3. ASSUME NEW u, Begin(r, "stop.one", [NoJob EXCEPT !.todo = ListTunnelsForUser(u)])
        PROVE  StepNames(r)
    <3> DEFINE j == [NoJob EXCEPT !.todo = ListTunnelsForUser(u)]
    <3>1. j.cfg = {} /\ j.todo = ListTunnelsForUser(u)
      BY DEF NoJob
    <3>2. Begin(r, "stop.one", j)
      BY <2>3
    <3> HIDE DEF j
    <3> QED
      BY <2>1, <3>1, <3>2, BeginNames DEF ListTunnelsForUser, SameTunnel
  <2> QED
    BY <1>5, <2>2, <2>3 DEF Ban
<1>6. CASE Cancel(r)
  <2> DEFINE new(l) == IF l.handle = r THEN [l EXCEPT !.handle = "nobody"] ELSE l
  <2>1. \A l \in listeners : /\ new(l).tunnel = l.tunnel /\ new(l).agent = l.agent
                             /\ new(l).via = l.via
                             /\ new(l).handle = l.handle \/ new(l).handle = "nobody"
    BY DEF TypeOK, Listener
  <2>2. listeners' = {new(l) : l \in listeners}
    BY <1>6 DEF Cancel
  <2> HIDE DEF new
  <2>3. TasksKept
    BY <2>1, <2>2 DEF StillIs, TasksKept
  <2> QED
    BY <1>6, <2>3, ReturnNames DEF Cancel
<1>7. CASE DeleteNotify(r) \/ DeleteAgentSender(r)
  <2>1. /\ UNCHANGED <<tunnels, issued, listeners, job>>
        /\ Goto(r, "delete.row") \/ Goto(r, "delete_agent.row")
    BY <1>7 DEF DeleteNotify, DeleteAgentSender
  <2>2. OnlyMoves(r) /\ pc'[r] \in {"delete.row", "delete_agent.row"}
    BY <2>1, SessInProcs, GotoMoves DEF OnlyMoves
  <2> QED
    BY <2>1, <2>2 DEF StepNames, SameTunnel, Rows, Creating
<1> QED
  BY <1>1, <1>2, <1>3, <1>4, <1>5, <1>6, <1>7

\* Unbans, new accounts and new tokens speak of no tunnel.
LEMMA PlainNames ==
  ASSUME NEW r \in Reqs, Unban(r) \/ GenerateToken(r) \/ Register(r) PROVE StepNames(r)
  BY DEF Unban, GenerateToken, Register, StepNames, OnlyMoves, Rows, SameTunnel, Creating

\* Without claims, so much for the requests.
LEMMA RequestNames ==
  ASSUME NoClaims, TypeOK, NoClaimRuns, NEW r \in Reqs, RequestStep(r)
  PROVE  CreateCheck(r) \/ StepNames(r)
<1>1. r \in Procs /\ pc[r] \notin ClaimLabels
  BY SessInProcs DEF NoClaimRuns
<1>2. ~ClaimRow(r) /\ ~ClaimTake(r) /\ ~ClaimOnline(r) /\ ~ClaimRegister(r)
  BY <1>1 DEF NoClaims, ClaimRow, ClaimTake, ClaimOnline, ClaimRegister, ClaimLabels
<1> QED
  BY <1>2, CreateNames, ToggleNames, UpdateNames, DeleteNames, PlainNames DEF RequestStep

\* Every step keeps what is said.
LEMMA NamesNext ==
  ASSUME NoClaims, TypeOK, NoClaimRuns, NamesInv, [Next]_vars PROVE NamesInv'
<1>1. CASE UNCHANGED vars
  BY <1>1 DEF vars, NamesInv, Says, Unheard, Creating, Rows
<1>2. ASSUME NEW p \in Procs, QueueWriter(p) PROVE NamesInv'
  BY <1>2 DEF QueueWriter, NamesInv, Says, Unheard, Creating, Rows
<1>3. ASSUME NEW l \in listeners, Reap(l) \/ ListenerExits(l) PROVE NamesInv'
  <2>1. listeners' \subseteq listeners /\ UNCHANGED <<tunnels, issued, pc, job>>
    BY <1>3 DEF Reap, ListenerExits
  <2>2. \A i, a : Says(i, a)' => Says(i, a)
    BY <2>1 DEF Says, Rows
  <2>3. ASSUME NEW r \in Procs, Creating(r)', NEW t \in Rows(r)' PROVE Unheard(r, t)'
    BY <2>1, <2>3 DEF NamesInv, Creating, Rows, Unheard
  <2> QED
    BY <2>1, <2>2, <2>3 DEF NamesInv
<1>4. CASE Restart
  <2>1. /\ listeners' = {} /\ UNCHANGED <<tunnels, issued>>
        /\ \A p \in Procs : Rows(p)' = {}
    BY <1>4 DEF Restart, Rows, NoJob
  <2>2. \A i, a : Says(i, a)' => Says(i, a)
    BY <2>1 DEF Says
  <2>3. \A r \in Procs : \A t \in Rows(r)' : Unheard(r, t)'
    BY <2>1
  <2> QED
    BY <2>1, <2>2, <2>3 DEF NamesInv
<1>5. ASSUME NEW p \in Procs, TunnelStep(p) PROVE NamesInv'
  BY <1>5, TunnelStepNames, NamesKept
<1>6. ASSUME NEW s \in Sessions, SessionStep(s) \/ SendTaskEnds(s) PROVE NamesInv'
  BY <1>6, SessInProcs, SessionStepNames, NamesKept
<1>7. ASSUME NEW r \in Reqs, RequestStep(r) PROVE NamesInv'
  BY <1>7, SessInProcs, RequestNames, NamesKept, CreateCheckNames
<1> QED
  BY <1>1, <1>2, <1>3, <1>4, <1>5, <1>6, <1>7 DEF Next

\* The database file names every tunnel once.
LEMMA NamesInit == ASSUME TunnelIds0, Init PROVE NamesInv
<1>1. /\ tunnels = Tunnels0 /\ listeners = {}
      /\ \A p \in Procs : Rows(p) = {} /\ ~Creating(p)
      /\ \A t \in Tunnels0 : t.id \in issued
  BY DEF Init, Rows, NoJob, Creating
<1>2. \A i, a : Says(i, a) => \E x \in Tunnels0 : x.id = i /\ x.agent = a
  BY <1>1 DEF Says
<1> QED
  BY <1>1, <1>2 DEF NamesInv, TunnelIds0

-----------------------------------------------------------------------------
(* Who may start a listener through a connection. *)

Given == Starting \cup {"sync.list"}

\* A request reads agent_senders while it has a channel, a connection has its own.
GivenInv ==
    /\ \A r \in Reqs : pc[r] \in Given => Reads(r)
    /\ \A s \in Sessions : pc[s] \in Given => job[s].via = {s}

\* A task just spawned is in the hands of its process, through the channel it has.
SpawnedInv ==
    \A l \in listeners, p \in Procs : l.handle = p =>
        /\ pc[p] = "start.insert" /\ l.via \in job[p].via
        /\ \E t \in job[p].cfg : t.agent = l.agent

\* The proxy tasks of an agent, through a connection that authenticated for it.
Serves(l, s) == l.via = s /\ l.agent \in sess[s].authed

ToStop == {"stop.one", "stop.free", "gone"}

CleanOf(s) ==
    \A l \in listeners : Serves(l, s) =>
        /\ pc[s] \in Unregistered => l.handle \notin Procs
        /\ (pc[s] \in ToStop /\ l.handle = "tasks")
              => \A t \in tunnels : t.id = l.tunnel =>
                     pc[s] # "gone" /\ \E x \in job[s].todo : x.id = l.tunnel

CleanInv == \A s \in Sessions : CleanOf(s)

\* That is what CleanupComplete asks.
LEMMA CleanEnough == ASSUME CleanInv PROVE CleanupComplete
  BY DEF CleanInv, CleanOf, CleanupComplete, Serves, ToStop, Unregistered

-----------------------------------------------------------------------------
(* The channel of a process and the task it just spawned. *)

GuardsKept(p) == held["senders"] \ {p} \subseteq held'["senders"]

OwnChannel(p) == pc[p] \in Given => /\ p \in Reqs => Reads(p)
                                    /\ p \in Sessions => job[p].via = {p}

\* The others keep their channels.
LEMMA GivenKept ==
  ASSUME GivenInv, NEW p \in Procs, OnlyMoves(p), GuardsKept(p), OwnChannel(p)'
  PROVE  GivenInv'
  BY SessInProcs DEF GivenInv, OnlyMoves, GuardsKept, OwnChannel, Reads

\* The tasks just spawned stay where they are, but those of a process that goes on.
LEMMA SpawnedKept ==
  ASSUME SpawnedInv, NEW p \in Procs, OnlyMoves(p), TasksKept,
         pc[p] = "start.insert" => \A l \in listeners' : l.handle # p
  PROVE  SpawnedInv'
<1> SUFFICES ASSUME NEW l \in listeners', NEW q \in Procs, l.handle = q
             PROVE  /\ pc'[q] = "start.insert" /\ l.via \in job'[q].via
                    /\ \E t \in job'[q].cfg : t.agent = l.agent
  BY DEF SpawnedInv
<1>1. PICK k \in listeners : StillIs(l, k)
  BY DEF TasksKept
<1>2. k.handle = q
  BY <1>1, ProcsDisjoint DEF StillIs
<1>3. /\ pc[q] = "start.insert" /\ k.via \in job[q].via
      /\ \E t \in job[q].cfg : t.agent = k.agent
  BY <1>2 DEF SpawnedInv
<1>4. q # p
  BY <1>3
<1> QED
  BY <1>1, <1>3, <1>4 DEF StillIs, OnlyMoves

\* Where a lock stays with those who hold it.
LEMMA GuardsStay ==
  ASSUME TypeOK, NEW p,
         \/ UNCHANGED held
         \/ \E lock \in Locks : Acquire(lock, p)
         \/ \E label : Finish(p, label)
         \/ \E a, via : WriteSenders(p, a, via)
  PROVE  GuardsKept(p)
  BY DEF TypeOK, Acquire, Finish, WriteSenders, GuardsKept, Locks

\* The loops of tunnel_manager.rs hand the channel on.
LEMMA TunnelStepGiven ==
  ASSUME TypeOK, GivenInv, NEW p \in Procs, TunnelStep(p)
  PROVE  GuardsKept(p) /\ OwnChannel(p)'
<1>1. ASSUME NEW label, Finish(p, label), label \notin Given
      PROVE  GuardsKept(p) /\ OwnChannel(p)'
  BY <1>1, GuardsStay DEF TypeOK, Finish, OwnChannel
<1>2. ASSUME Return(p) PROVE GuardsKept(p) /\ OwnChannel(p)'
  BY <1>1, <1>2 DEF Return, Home, Given, Starting
<1>3. ASSUME pc[p] \in Given, UNCHANGED held, job'[p].via = job[p].via
      PROVE  GuardsKept(p) /\ OwnChannel(p)'
  BY <1>3, GuardsStay DEF GivenInv, OwnChannel, Reads
<1>4. CASE StartStop(p) \/ StartBind(p)
  BY <1>3, <1>4 DEF StartStop, StartBind, Given, Starting
<1>5. CASE StartBindFails(p) \/ StartInsert(p)
  <2>1. pc[p] \in Given /\ NextRow(p)
    BY <1>5 DEF StartBindFails, StartInsert, Given, Starting
  <2>2. CASE job' = [job EXCEPT ![p].cfg = {}] /\ UNCHANGED held
    <3>1. job'[p].via = job[p].via
      BY <2>2 DEF TypeOK, Job
    <3> QED
      BY <1>3, <2>1, <2>2, <3>1
  <2> QED
    BY <1>2, <2>1, <2>2 DEF NextRow
<1>6. CASE SyncList(p)
  <2>1. ASSUME NEW rows, job' = [job EXCEPT ![p].todo = rows], UNCHANGED held
        PROVE  GuardsKept(p) /\ OwnChannel(p)'
    <3>1. job'[p].via = job[p].via
      BY <2>1 DEF TypeOK, Job
    <3>2. pc[p] \in Given
      BY <1>6 DEF SyncList, Given
    <3> QED
      BY <1>3, <2>1, <3>1, <3>2
  <2> QED
    BY <1>2, <1>6, <2>1 DEF SyncList
<1>7. CASE SyncReserve(p)
  <2>1. job'[p].via = job[p].via
    BY <1>7 DEF SyncReserve, TypeOK, Job
  <2> QED
    BY <1>3, <1>7, <2>1 DEF SyncReserve, Given, Starting
<1>8. ASSUME NEW label, Goto(p, label), label \notin Given, UNCHANGED held
      PROVE  GuardsKept(p) /\ OwnChannel(p)'
  BY <1>8, GotoMoves, GuardsStay DEF OwnChannel
<1>9. {"stop.free", "stop.one", "delete.notify", "gone"} \cap Given = {}
  BY DEF Given, Starting
<1>10. CASE StopOne(p) \/ FreeOne(p)
  BY <1>1, <1>2, <1>8, <1>9, <1>10 DEF StopOne, FreeOne, LoopEnds
<1> QED
  BY <1>4, <1>5, <1>6, <1>7, <1>10 DEF TunnelStep

\* tasks.insert moves the handle it has, and drops the one it finds.
LEMMA InsertTasks ==
  ASSUME TypeOK, NEW p \in Procs, NEW t, listeners' = InsertTask(p, t)
  PROVE  \A l \in listeners' : \E k \in listeners :
            /\ l.tunnel = k.tunnel /\ l.agent = k.agent /\ l.via = k.via
            /\ k.handle = p => l.handle = "tasks"
            /\ k.handle # p => StillIs(l, k)
<1> DEFINE new(l) == CASE l.handle = p -> [l EXCEPT !.handle = "tasks"]
                       [] l.handle = "tasks" /\ l.tunnel = t -> [l EXCEPT !.handle = "nobody"]
                       [] OTHER -> l
<1>1. p # "tasks"
  BY ProcsDisjoint
<1>2. ASSUME NEW l \in listeners
      PROVE  /\ new(l).tunnel = l.tunnel /\ new(l).agent = l.agent /\ new(l).via = l.via
             /\ l.handle = p => new(l).handle = "tasks"
             /\ l.handle # p => new(l).handle = l.handle \/ new(l).handle = "nobody"
  BY <1>1 DEF TypeOK, Listener
<1>3. listeners' = {new(l) : l \in listeners}
  BY DEF InsertTask
<1> HIDE DEF new
<1> QED
  BY <1>2, <1>3 DEF StillIs

\* What a process spawns is in its hands, through the channel it has.
LEMMA TunnelStepSpawned ==
  ASSUME TypeOK, SpawnedInv, NEW p \in Procs, TunnelStep(p) PROVE SpawnedInv'
<1>1. OnlyMoves(p)
  BY TunnelStepLocals
<1>2. CASE StartBind(p)
  <2>1. PICK t \in job[p].cfg, v \in job[p].via :
           listeners' = listeners \cup
              {[tunnel |-> t.id, agent |-> t.agent, proto |-> t.proto,
                port |-> t.port, via |-> v, handle |-> p]}
    BY <1>2 DEF StartBind
  <2> DEFINE z == [tunnel |-> t.id, agent |-> t.agent, proto |-> t.proto,
                   port |-> t.port, via |-> v, handle |-> p]
  <2>2. z.handle = p /\ z.via = v /\ z.agent = t.agent /\ listeners' = listeners \cup {z}
    BY <2>1
  <2> HIDE DEF z
  <2>3. pc'[p] = "start.insert" /\ job' = job
    BY <1>2, GotoMoves DEF StartBind
  <2> SUFFICES ASSUME NEW l \in listeners', NEW q \in Procs, l.handle = q
               PROVE  /\ pc'[q] = "start.insert" /\ l.via \in job'[q].via
                      /\ \E y \in job'[q].cfg : y.agent = l.agent
    BY DEF SpawnedInv
  <2>4. CASE l = z
    BY <2>2, <2>3, <2>4
  <2>5. CASE l \in listeners
    <3>1. /\ pc[q] = "start.insert" /\ l.via \in job[q].via
          /\ \E y \in job[q].cfg : y.agent = l.agent
      BY <2>5 DEF SpawnedInv
    <3> QED
      BY <1>1, <2>3, <3>1 DEF OnlyMoves
  <2> QED
    BY <2>2, <2>4, <2>5
<1>3. CASE StartInsert(p)
  <2> SUFFICES ASSUME NEW l \in listeners', NEW q \in Procs, l.handle = q
               PROVE  /\ pc'[q] = "start.insert" /\ l.via \in job'[q].via
                      /\ \E y \in job'[q].cfg : y.agent = l.agent
    BY DEF SpawnedInv
  <2>1. PICK k \in listeners :
           /\ l.agent = k.agent /\ l.via = k.via
           /\ k.handle = p => l.handle = "tasks"
           /\ k.handle # p => StillIs(l, k)
    BY <1>3, InsertTasks DEF StartInsert
  <2>2. q \notin {"tasks", "nobody", "aborted"}
    BY ProcsDisjoint
  <2>3. k.handle = q /\ q # p
    BY <2>1, <2>2 DEF StillIs
  <2>4. /\ pc[q] = "start.insert" /\ k.via \in job[q].via
        /\ \E y \in job[q].cfg : y.agent = k.agent
    BY <2>3 DEF SpawnedInv
  <2> QED
    BY <1>1, <2>1, <2>3, <2>4 DEF OnlyMoves
<1>4. CASE StartStop(p) \/ StopOne(p)
  BY <1>1, <1>4, StopTasks, SpawnedKept DEF StartStop, StopOne
<1>5. CASE SyncList(p) \/ SyncReserve(p) \/ FreeOne(p)
  BY <1>1, <1>5, SameTasks, SpawnedKept DEF SyncList, SyncReserve, FreeOne
<1>6. CASE StartBindFails(p)
  BY <1>1, <1>6, SameTasks, SpawnedKept DEF StartBindFails
<1> QED
  BY <1>2, <1>3, <1>4, <1>5, <1>6 DEF TunnelStep

\* A connection has its own channel when it starts listeners.
LEMMA SessionGiven ==
  ASSUME TypeOK, GivenInv, SpawnedInv, NEW s \in Sessions, SessionStep(s) \/ SendTaskEnds(s)
  PROVE  GivenInv' /\ SpawnedInv'
<1>1. s \in Procs /\ s \notin Reqs
  BY SessInProcs, ProcsDisjoint
<1>2. OnlyMoves(s) /\ UNCHANGED listeners
  BY SessionStepNames DEF StepNames
<1>3. CASE SendTaskEnds(s)
  BY <1>3 DEF SendTaskEnds, GivenInv, SpawnedInv, Reads
<1>4. CASE SessionStep(s)
  <2>1. pc[s] # "start.insert"
    BY <1>4 DEF SessionStep, Connect, RequestClaim, AuthRead, AuthPending, AuthOnline,
         AuthRegister, Disconnect, ClosePending, CleanupSenders, CleanupOffline,
         CleanupList
  <2>2. SpawnedInv'
    BY <1>1, <1>2, <2>1, SameTasks, SpawnedKept
  <2>3. GuardsKept(s)
    <3>1. UNCHANGED held \/ \E a, via : WriteSenders(s, a, via)
      BY <1>4 DEF SessionStep, Connect, RequestClaim, AuthRead, AuthPending, AuthOnline,
           AuthRegister, Disconnect, ClosePending, CleanupSenders, CleanupOffline,
           CleanupList
    <3> QED
      BY <3>1, GuardsStay
  <2>4. OwnChannel(s)'
    <3>1. CASE AuthRegister(s)
      <4>1. job'[s].via = {s}
        BY <1>1, <3>1 DEF AuthRegister, TypeOK, NoJob
      <4> QED
        BY <1>1, <4>1 DEF OwnChannel
    <3>2. CASE RequestClaim(s)
      <4>1. pc' = pc /\ pc[s] = "recv"
        BY <3>2 DEF RequestClaim
      <4> QED
        BY <4>1 DEF OwnChannel, Given, Starting
    <3>3. CASE \E label \in SessionLabels \cup {"stop.one"} : Goto(s, label)
      BY <1>1, <3>3, GotoMoves DEF OwnChannel, Given, Starting, SessionLabels
    <3>4. AuthRegister(s) \/ RequestClaim(s) \/ \E label \in SessionLabels \cup {"stop.one"} : Goto(s, label)
      BY <1>4 DEF SessionStep, Connect, AuthRead, AuthPending, AuthOnline,
           Disconnect, ClosePending, CleanupSenders, CleanupOffline,
           CleanupList, AfterPending, SessionLabels
    <3> QED
      BY <3>1, <3>2, <3>3, <3>4
  <2> QED
    BY <1>1, <1>2, <2>2, <2>3, <2>4, GivenKept
<1> QED
  BY <1>3, <1>4

\* A request holds on to the lock it took until it returns.
LEMMA RequestGuards ==
  ASSUME TypeOK, NEW r \in Reqs, RequestStep(r) PROVE GuardsKept(r)
<1>1. CASE UNCHANGED held
  BY <1>1, GuardsStay
<1>2. CASE \E lock \in Locks : Acquire(lock, r)
  BY <1>2, GuardsStay
<1>3. CASE Return(r)
  BY <1>3, GuardsStay DEF Return
<1>4. CASE \E a, via : WriteSenders(r, a, via)
  BY <1>4, GuardsStay
<1>5. {"senders", "db", "allocated"} \subseteq Locks
  BY DEF Locks
<1>6. CASE \/ CreateCheck(r) \/ CreateAllocate(r) \/ CreateConflict(r)
           \/ CreateInsert(r) \/ CreateNotify(r)
  BY <1>1, <1>2, <1>3, <1>5, <1>6 DEF CreateCheck, CreateAllocate, CreateConflict,
     CreateInsert, CreateNotify, ReadSenders
<1>7. CASE ToggleRead(r) \/ ToggleWrite(r) \/ ToggleNotify(r) \/ ToggleReserve(r)
  BY <1>1, <1>2, <1>3, <1>5, <1>7 DEF ToggleRead, ToggleWrite, ToggleNotify,
     ToggleReserve, ReadSenders
<1>8. CASE UpdateCheck(r) \/ UpdateWrite(r) \/ UpdateNotify(r)
  BY <1>1, <1>2, <1>3, <1>5, <1>8 DEF UpdateCheck, UpdateWrite, UpdateNotify, ReadSenders
<1>9. CASE \/ DeleteRead(r) \/ DeleteNotify(r) \/ DeleteRow(r)
           \/ DeleteAgent(r) \/ DeleteAgentSender(r) \/ DeleteAgentRow(r)
           \/ Ban(r) \/ Unban(r) \/ Cancel(r)
  BY <1>1, <1>2, <1>3, <1>4, <1>5, <1>9 DEF DeleteRead, DeleteNotify, DeleteRow,
     DeleteAgent, DeleteAgentSender, DeleteAgentRow, Ban, Unban, Cancel
<1>10. CASE \/ ClaimRow(r) \/ ClaimTake(r) \/ ClaimOnline(r) \/ ClaimRegister(r)
            \/ GenerateToken(r) \/ Register(r)
  BY <1>1, <1>3, <1>4, <1>10 DEF ClaimRow, ClaimTake, ClaimOnline, ClaimRegister,
     GenerateToken, Register
<1> QED
  BY <1>6, <1>7, <1>8, <1>9, <1>10 DEF RequestStep

\* A request has a channel only under the lock.
LEMMA RequestChannel ==
  ASSUME NoClaims, TypeOK, NoClaimRuns, GivenInv, NEW r \in Reqs, RequestStep(r)
  PROVE  OwnChannel(r)'
<1>1. r \in Procs /\ r \notin Sessions /\ pc[r] \notin ClaimLabels
  BY SessInProcs, ProcsDisjoint DEF NoClaimRuns
<1>2. ~ClaimRow(r) /\ ~ClaimTake(r) /\ ~ClaimOnline(r) /\ ~ClaimRegister(r)
  BY <1>1 DEF NoClaims, ClaimRow, ClaimTake, ClaimOnline, ClaimRegister, ClaimLabels
<1>3. CASE ReadSenders(r)
  BY <1>1, <1>3 DEF ReadSenders, Acquire, TypeOK, Locks, OwnChannel, Reads
<1>4. CASE Return(r)
  BY <1>1, <1>4 DEF Return, Finish, Home, TypeOK, OwnChannel, Given, Starting
<1>5. CASE UNCHANGED pc /\ pc[r] = "idle"
  BY <1>5 DEF OwnChannel, Given, Starting
<1>6. CASE \E label \in ReqLabels \cup {"stop.one"} :
              Goto(r, label) /\ label # "toggle.reserve"
  BY <1>1, <1>6, GotoMoves DEF OwnChannel, Given, Starting, ReqLabels
<1>7. CASE CreateCheck(r) \/ CreateAllocate(r) \/ CreateInsert(r)
  BY <1>4, <1>6, <1>7 DEF CreateCheck, CreateAllocate, CreateInsert, Begin, ReqLabels
<1>8. CASE CreateNotify(r) \/ UpdateNotify(r) \/ ToggleNotify(r)
  BY <1>3, <1>4, <1>8 DEF CreateNotify, UpdateNotify, ToggleNotify
<1>9. CASE ToggleRead(r) \/ ToggleWrite(r) \/ UpdateCheck(r) \/ UpdateWrite(r)
  BY <1>6, <1>9 DEF ToggleRead, ToggleWrite, UpdateCheck, UpdateWrite, Begin, ReqLabels
<1>10. CASE ToggleReserve(r)
  <2>1. CASE Acquire("allocated", r)
    <3>1. Reads(r)
      BY <1>10 DEF ToggleReserve, GivenInv, Given, Starting
    <3>2. held'["senders"] = held["senders"]
      BY <2>1 DEF Acquire, TypeOK, Locks
    <3> QED
      BY <1>1, <3>1, <3>2 DEF OwnChannel, Reads
  <2> QED
    BY <1>4, <1>10, <2>1 DEF ToggleReserve
<1>11. CASE \/ CreateConflict(r) \/ DeleteRow(r) \/ DeleteAgentRow(r) \/ Cancel(r)
  BY <1>4, <1>11 DEF CreateConflict, DeleteRow, DeleteAgentRow, Cancel
<1>12. CASE \/ DeleteRead(r) \/ DeleteNotify(r) \/ DeleteAgent(r)
            \/ DeleteAgentSender(r) \/ Ban(r)
  BY <1>5, <1>6, <1>12 DEF DeleteRead, DeleteNotify, DeleteAgent, DeleteAgentSender,
     Ban, Begin, Idle, ReqLabels
<1>13. CASE Unban(r) \/ GenerateToken(r) \/ Register(r)
  BY <1>5, <1>13 DEF Unban, GenerateToken, Register, Idle
<1> QED
  BY <1>2, <1>7, <1>8, <1>9, <1>10, <1>11, <1>12, <1>13 DEF RequestStep

\* A request spawns nothing itself; a cancelled one drops what it spawned.
LEMMA RequestTasks ==
  ASSUME TypeOK, NEW r \in Reqs, RequestStep(r)
  PROVE  /\ TasksKept
         /\ pc[r] = "start.insert" => \A l \in listeners' : l.handle # r
<1>1. CASE Cancel(r)
  <2> DEFINE new(l) == IF l.handle = r THEN [l EXCEPT !.handle = "nobody"] ELSE l
  <2>1. r # "nobody"
    BY SessInProcs, ProcsDisjoint
  <2>2. \A l \in listeners : StillIs(new(l), l) /\ new(l).handle # r
    BY <2>1 DEF TypeOK, Listener, StillIs
  <2>3. listeners' = {new(l) : l \in listeners}
    BY <1>1 DEF Cancel
  <2> HIDE DEF new
  <2> QED
    BY <2>2, <2>3 DEF TasksKept
<1>2. CASE ~Cancel(r)
  <2>1. UNCHANGED listeners /\ pc[r] # "start.insert"
    BY <1>2 DEF RequestStep, CreateCheck, CreateAllocate, CreateConflict, CreateInsert,
         CreateNotify, ToggleRead, ToggleWrite, ToggleNotify, ToggleReserve,
         UpdateCheck, UpdateWrite, UpdateNotify, DeleteRead, DeleteNotify,
         DeleteRow, DeleteAgent, DeleteAgentSender, DeleteAgentRow, Ban, Unban, ClaimRow, ClaimTake,
         ClaimOnline, ClaimRegister, GenerateToken, Register, Idle
  <2> QED
    BY <2>1, SameTasks
<1> QED
  BY <1>1, <1>2

\* Every step keeps the channels and the tasks just spawned.
LEMMA GivenNext ==
  ASSUME NoClaims, TypeOK, NoClaimRuns, LockInv, GivenInv, SpawnedInv, [Next]_vars
  PROVE  GivenInv' /\ SpawnedInv'
<1>1. ASSUME NEW p \in Procs, TunnelStep(p) PROVE GivenInv' /\ SpawnedInv'
  <2>1. OnlyMoves(p)
    BY <1>1, TunnelStepLocals
  <2> QED
    BY <1>1, <2>1, TunnelStepGiven, TunnelStepSpawned, GivenKept
<1>2. ASSUME NEW p \in Procs, QueueWriter(p) PROVE GivenInv' /\ SpawnedInv'
  <2>1. UNCHANGED <<pc, job, listeners>> /\ held'["senders"] = held["senders"]
    BY <1>2 DEF QueueWriter, Acquire, TypeOK, Locks
  <2> QED
    BY <2>1 DEF GivenInv, SpawnedInv, Reads
<1>3. ASSUME NEW r \in Reqs, RequestStep(r) PROVE GivenInv' /\ SpawnedInv'
  <2>1. OnlyMoves(r)
    BY <1>3, CreateLock, ToggleLock, UpdateLock, DeleteLock, PlainLock, ClaimLock
       DEF RequestStep, StepFits
  <2>2. r \in Procs
    BY SessInProcs
  <2> QED
    BY <1>3, <2>1, <2>2, RequestGuards, RequestChannel, RequestTasks, GivenKept,
       SpawnedKept
<1>4. ASSUME NEW l \in listeners, Reap(l) \/ ListenerExits(l)
      PROVE  GivenInv' /\ SpawnedInv'
  BY <1>4 DEF Reap, ListenerExits, GivenInv, SpawnedInv, Reads
<1>5. CASE Restart
  <2>1. listeners' = {} /\ \A p \in Procs : pc'[p] \in {"idle", "new", "gone"}
    BY <1>5 DEF Restart
  <2> QED
    BY <2>1, SessInProcs DEF GivenInv, SpawnedInv, Given, Starting
<1>6. CASE UNCHANGED vars
  BY <1>6 DEF vars, GivenInv, SpawnedInv, Reads
<1> QED
  BY <1>1, <1>2, <1>3, <1>4, <1>5, <1>6, SessionGiven DEF Next

-----------------------------------------------------------------------------
(* The clean-up. *)

\* A row of a tunnel that a proxy task serves was in the table before.
RowsHeard ==
    \A t \in tunnels', l \in listeners : t.id = l.tunnel => \E y \in tunnels : y.id = t.id

\* A connection that is past the removal of its sender does not move.
LEMMA CleanStays ==
  ASSUME NEW s \in Sessions, CleanOf(s), RowsHeard,
         pc'[s] = pc[s], job'[s] = job[s], sess'[s].authed = sess[s].authed,
         pc[s] \in Unregistered =>
            \A l \in listeners' : l.agent \in sess[s].authed /\ l.via = s =>
                \E k \in listeners : StillIs(l, k)
  PROVE  CleanOf(s)'
<1> SUFFICES ASSUME NEW l \in listeners', l.via = s, l.agent \in sess[s].authed,
                    pc[s] \in Unregistered
             PROVE  /\ l.handle \notin Procs
                    /\ (pc[s] \in ToStop /\ l.handle = "tasks")
                          => \A t \in tunnels' : t.id = l.tunnel =>
                                pc[s] # "gone" /\ \E x \in job[s].todo : x.id = l.tunnel
  BY DEF CleanOf, Serves, ToStop, Unregistered
<1>1. PICK k \in listeners : StillIs(l, k)
  OBVIOUS
<1>2. Serves(k, s)
  BY <1>1 DEF StillIs, Serves
<1>3. k.handle \notin Procs
  BY <1>2 DEF CleanOf
<1>4. l.handle \notin Procs
  BY <1>1, <1>3, ProcsDisjoint DEF StillIs
<1>5. ASSUME pc[s] \in ToStop, l.handle = "tasks", NEW t \in tunnels', t.id = l.tunnel
      PROVE  pc[s] # "gone" /\ \E x \in job[s].todo : x.id = l.tunnel
  <2>1. k.handle = "tasks" /\ k.tunnel = l.tunnel
    BY <1>1, <1>5 DEF StillIs
  <2>2. PICK y \in tunnels : y.id = k.tunnel
    BY <1>5, <2>1 DEF RowsHeard
  <2> QED
    BY <1>2, <1>5, <2>1, <2>2 DEF CleanOf
<1> QED
  BY <1>4, <1>5

\* A connection that serves, and one that never authenticated.
LEMMA CleanTrivial ==
  ASSUME NEW s, pc'[s] \notin Unregistered \/ sess'[s].authed = {} PROVE CleanOf(s)'
  BY DEF CleanOf, Serves, ToStop, Unregistered

\* The table as it is.
LEMMA SameRowsHeard == ASSUME UNCHANGED tunnels PROVE RowsHeard
  BY DEF RowsHeard

\* A step of p, seen from another connection.
LEMMA CleanOthers ==
  ASSUME CleanInv, NEW p \in Procs, OnlyMoves(p), RowsHeard, TasksKept,
         NEW s \in Sessions, s # p, sess'[s].authed = sess[s].authed
  PROVE  CleanOf(s)'
<1>1. pc'[s] = pc[s] /\ job'[s] = job[s]
  BY SessInProcs DEF OnlyMoves
<1> QED
  BY <1>1, CleanStays DEF CleanInv, TasksKept

\* What a request or a connection starts, it starts for a connection that serves.
LEMMA StartBindClean ==
  ASSUME TypeOK, LockInv, SendersInv, GivenInv, CleanInv, NEW p \in Procs, StartBind(p)
  PROVE  CleanInv'
<1>1. OnlyMoves(p) /\ pc'[p] = "start.insert"
  BY GotoMoves DEF StartBind, OnlyMoves
<1>2. UNCHANGED <<tunnels, sess>> /\ pc[p] = "start.bind"
  BY DEF StartBind
<1>3. PICK t \in job[p].cfg, v \in job[p].via :
         listeners' = listeners \cup
            {[tunnel |-> t.id, agent |-> t.agent, proto |-> t.proto,
              port |-> t.port, via |-> v, handle |-> p]}
  BY DEF StartBind
<1> DEFINE z == [tunnel |-> t.id, agent |-> t.agent, proto |-> t.proto,
                 port |-> t.port, via |-> v, handle |-> p]
<1>4. z.via = v /\ z.agent = t.agent /\ listeners' = listeners \cup {z}
  BY <1>3
<1> HIDE DEF z
<1> SUFFICES ASSUME NEW s \in Sessions PROVE CleanOf(s)'
  BY DEF CleanInv
<1>5. CASE s = p
  BY <1>1, <1>5, CleanTrivial DEF Unregistered
<1>6. CASE s # p
  <2>1. pc'[s] = pc[s] /\ job'[s] = job[s]
    BY <1>1, <1>6, SessInProcs DEF OnlyMoves
  <2>2. ASSUME pc[s] \in Unregistered, v = s, t.agent \in sess[s].authed PROVE FALSE
    <3>1. CASE p \in Sessions
      BY <1>2, <1>6, <2>2, <3>1 DEF GivenInv, Given, Starting
    <3>2. CASE p \in Reqs
      <4>1. senders[t.agent] = job[p].via
        BY <1>2, <3>2 DEF GivenInv, Given, Starting, LockInv, ChannelFits
      <4>2. job[p].via = {s}
        BY <2>2, OptMember DEF TypeOK, Job
      <4> QED
        BY <2>2, <4>1, <4>2 DEF SendersInv
    <3> QED
      BY <3>1, <3>2 DEF Procs
  <2>3. \A l \in listeners' : l.agent \in sess[s].authed /\ l.via = s /\ pc[s] \in Unregistered
          => l \in listeners
    BY <1>4, <2>2
  <2> QED
    BY <1>2, <2>1, <2>3, CleanStays, SameRowsHeard DEF CleanInv, StillIs
<1> QED
  BY <1>5, <1>6

\* What comes into tunnel_tasks is of no connection that is past its clean-up.
LEMMA StartInsertClean ==
  ASSUME TypeOK, CleanInv, NEW p \in Procs, StartInsert(p) PROVE CleanInv'
<1>1. OnlyMoves(p) /\ UNCHANGED <<tunnels, sess>>
  BY TunnelStepLocals DEF TunnelStep, StartInsert
<1>2. pc[p] = "start.insert"
  BY DEF StartInsert
<1>3. pc'[p] \notin Unregistered
  BY <1>2, TunnelStepMoves DEF TunnelStep, Offline, Unregistered
<1> SUFFICES ASSUME NEW s \in Sessions PROVE CleanOf(s)'
  BY DEF CleanInv
<1>4. CASE s = p
  BY <1>3, <1>4, CleanTrivial
<1>5. CASE s # p
  <2>1. pc'[s] = pc[s] /\ job'[s] = job[s]
    BY <1>1, <1>5, SessInProcs DEF OnlyMoves
  <2>2. ASSUME pc[s] \in Unregistered, NEW l \in listeners',
               l.agent \in sess[s].authed, l.via = s
        PROVE  \E k \in listeners : StillIs(l, k)
    <3>1. PICK k \in listeners :
             /\ l.agent = k.agent /\ l.via = k.via
             /\ k.handle # p => StillIs(l, k)
      BY InsertTasks DEF StartInsert
    <3>2. k.handle # p
      BY <2>2, <3>1 DEF CleanInv, CleanOf, Serves
    <3> QED
      BY <3>1, <3>2
  <2> QED
    BY <1>1, <2>1, <2>2, CleanStays, SameRowsHeard DEF CleanInv
<1> QED
  BY <1>4, <1>5

\* The loop stops the task of each row it takes off its list.
LEMMA StopOneClean ==
  ASSUME TypeOK, CleanInv, NEW p \in Procs, StopOne(p) PROVE CleanInv'
<1>1. OnlyMoves(p) /\ UNCHANGED <<tunnels, sess>> /\ pc[p] = "stop.one"
  BY TunnelStepLocals DEF TunnelStep, StopOne
<1>2. PICK t \in job[p].todo :
         /\ listeners' = StopListener(t.id)
         /\ job' = [job EXCEPT ![p].cfg = {t}, ![p].todo = @ \ {t}]
  BY DEF StopOne
<1>3. TasksKept /\ \A l \in listeners' : l.handle = "tasks"
                      => l \in listeners /\ l.tunnel # t.id
  BY <1>2, StopTasks
<1>4. job'[p].todo = job[p].todo \ {t} /\ pc'[p] = "stop.free"
  BY <1>2, GotoMoves DEF TypeOK, Job, StopOne
<1> SUFFICES ASSUME NEW s \in Sessions PROVE CleanOf(s)'
  BY DEF CleanInv
<1>5. CASE s # p
  BY <1>1, <1>3, <1>5, CleanOthers, SameRowsHeard
<1>6. CASE s = p
  <2> SUFFICES ASSUME NEW l \in listeners', l.via = s, l.agent \in sess[s].authed
               PROVE  /\ l.handle \notin Procs
                      /\ l.handle = "tasks" => \A y \in tunnels : y.id = l.tunnel =>
                                  \E x \in job'[s].todo : x.id = l.tunnel
    BY <1>1, <1>4, <1>6 DEF CleanOf, Serves
  <2>1. PICK k \in listeners : StillIs(l, k)
    BY <1>3 DEF TasksKept
  <2>2. k.handle \notin Procs
    BY <1>1, <1>6, <2>1 DEF StillIs, CleanInv, CleanOf, Serves, Unregistered
  <2>3. l.handle \notin Procs
    BY <2>1, <2>2, ProcsDisjoint DEF StillIs
  <2>4. ASSUME l.handle = "tasks", NEW y \in tunnels, y.id = l.tunnel
        PROVE  \E x \in job'[s].todo : x.id = l.tunnel
    <3>1. l \in listeners /\ l.tunnel # t.id
      BY <1>3, <2>4
    <3>2. PICK x \in job[s].todo : x.id = l.tunnel
      BY <1>1, <1>6, <2>4, <3>1 DEF CleanInv, CleanOf, Serves, ToStop
    <3> QED
      BY <1>4, <1>6, <3>1, <3>2
  <2> QED
    BY <2>3, <2>4
<1> QED
  BY <1>5, <1>6

\* A connection is over when its list is empty.
LEMMA FreeOneClean ==
  ASSUME TypeOK, CleanInv, NEW p \in Procs, FreeOne(p) PROVE CleanInv'
<1>1. /\ OnlyMoves(p) /\ UNCHANGED <<tunnels, sess, listeners>>
      /\ pc[p] = "stop.free"
  BY TunnelStepLocals DEF TunnelStep, FreeOne
<1> SUFFICES ASSUME NEW s \in Sessions PROVE CleanOf(s)'
  BY DEF CleanInv
<1>2. CASE s # p
  BY <1>1, <1>2, CleanOthers, SameRowsHeard, SameTasks
<1>3. CASE s = p
  <2>1. \A l \in listeners : Serves(l, s) =>
           /\ l.handle \notin Procs
           /\ l.handle = "tasks" => \A t \in tunnels : t.id = l.tunnel =>
                        \E x \in job[s].todo : x.id = l.tunnel
    BY <1>1, <1>3 DEF CleanInv, CleanOf, Unregistered, ToStop
  <2>2. CASE job[p].todo = {}
    <3>1. \A l \in listeners : Serves(l, s) =>
             /\ l.handle \notin Procs
             /\ l.handle = "tasks" => \A t \in tunnels : t.id # l.tunnel
      BY <1>3, <2>1, <2>2
    <3> QED
      BY <1>1, <3>1 DEF CleanOf, Serves
  <2>3. CASE job[p].todo # {}
    <3>1. Goto(p, "stop.one") /\ job' = job
      BY <2>3 DEF FreeOne
    <3>2. pc'[s] = "stop.one"
      BY <1>3, <3>1, GotoMoves
    <3> QED
      BY <1>1, <2>1, <3>1, <3>2 DEF CleanOf, Serves
  <2> QED
    BY <2>2, <2>3
<1> QED
  BY <1>2, <1>3

\* The steps of tunnel_manager.rs and the loops around it.
LEMMA TunnelStepClean ==
  ASSUME TypeOK, LockInv, SendersInv, GivenInv, CleanInv, NEW p \in Procs, TunnelStep(p)
  PROVE  CleanInv'
<1>1. OnlyMoves(p) /\ UNCHANGED <<tunnels, sess>>
  BY TunnelStepLocals, TunnelStepMoves
<1>2. CASE StartStop(p) \/ StartBindFails(p) \/ SyncList(p) \/ SyncReserve(p)
  <2>1. TasksKept
    BY <1>2, StopTasks, SameTasks DEF StartStop, StartBindFails, SyncList, SyncReserve
  <2>2. pc'[p] \notin Unregistered
    BY <1>2, TunnelStepMoves DEF StartStop, StartBindFails, SyncList, SyncReserve,
       Offline, Unregistered
  <2> SUFFICES ASSUME NEW s \in Sessions PROVE CleanOf(s)'
    BY DEF CleanInv
  <2>3. CASE s = p
    BY <2>2, <2>3, CleanTrivial
  <2>4. CASE s # p
    BY <1>1, <2>1, <2>4, CleanOthers, SameRowsHeard
  <2> QED
    BY <2>3, <2>4
<1> QED
  BY <1>2, StartBindClean, StartInsertClean, StopOneClean, FreeOneClean DEF TunnelStep

\* A connection waits for the requests before it removes its sender, and lists
\* the rows of its agent after that.
LEMMA SessionClean ==
  ASSUME TypeOK, NamesInv, GivenInv, SpawnedInv, CleanInv, NEW p \in Sessions,
         SessionStep(p)
  PROVE  CleanInv'
<1>1. p \in Procs
  BY SessInProcs
<1>2. OnlyMoves(p) /\ UNCHANGED <<tunnels, listeners>>
  BY SessionStepNames DEF StepNames
<1>3. \A q \in Sessions \ {p} : sess'[q] = sess[q]
  BY DEF TypeOK, SessionStep, Connect, RequestClaim, AuthRead, AuthPending, AuthOnline,
         AuthRegister, Disconnect, ClosePending, CleanupSenders, CleanupOffline,
         CleanupList
<1> SUFFICES CleanOf(p)'
  <2>1. ASSUME NEW s \in Sessions, s # p PROVE CleanOf(s)'
    BY <1>1, <1>2, <1>3, <2>1, CleanOthers, SameRowsHeard, SameTasks
  <2> QED
    BY <2>1 DEF CleanInv
<1>4. CASE \/ Connect(p) \/ RequestClaim(p) \/ AuthRead(p) \/ AuthPending(p)
           \/ AuthOnline(p) \/ AuthRegister(p)
  <2>1. pc'[p] \notin Unregistered
    <3>1. CASE RequestClaim(p)
      BY <3>1 DEF RequestClaim, Unregistered
    <3>2. \/ RequestClaim(p)
          \/ \E label \in {"recv", "auth.pending", "auth.online", "auth.register",
                            "sync.list"} : Goto(p, label)
      BY <1>4 DEF Connect, AuthRead, AuthPending, AuthOnline, AuthRegister
    <3> QED
      BY <1>1, <3>1, <3>2, GotoPc DEF Unregistered
  <2> QED
    BY <2>1, CleanTrivial
<1>5. CASE Disconnect(p) \/ ClosePending(p)
  <2>1. UNCHANGED sess /\ pc'[p] \in {"close.pending", AfterPending(p)}
    BY <1>1, <1>5, GotoPc DEF Disconnect, ClosePending
  <2>2. pc'[p] \notin Unregistered \/ sess'[p].authed = {}
    BY <2>1 DEF AfterPending, Unregistered
  <2> QED
    BY <2>2, CleanTrivial
<1>6. CASE CleanupSenders(p)
  <2>1. /\ pc'[p] = "clean.offline" /\ sess' = sess /\ pc[p] = "clean.senders"
        /\ held["senders"] = {}
    BY <1>1, <1>6, GotoPc DEF CleanupSenders, WriteSenders, Unlocked
  <2>2. ASSUME NEW l \in listeners, l.via = p, l.handle \in Procs PROVE FALSE
    <3>1. /\ pc[l.handle] = "start.insert" /\ l.via \in job[l.handle].via
      BY <2>2 DEF SpawnedInv
    <3>2. l.handle \notin Reqs
      BY <2>1, <3>1 DEF GivenInv, Given, Starting, Reads
    <3>3. l.handle \in Sessions
      BY <2>2, <3>2 DEF Procs
    <3> QED
      BY <2>1, <2>2, <3>1, <3>3 DEF GivenInv, Given, Starting
  <2> QED
    BY <1>2, <2>1, <2>2 DEF CleanOf, Serves, ToStop
<1>7. CASE CleanupOffline(p)
  <2>1. pc'[p] = "clean.list" /\ sess' = sess /\ pc[p] = "clean.offline"
    BY <1>1, <1>7, GotoPc DEF CleanupOffline
  <2> QED
    BY <1>2, <2>1 DEF CleanInv, CleanOf, Serves, ToStop, Unregistered
<1>8. CASE CleanupList(p)
  <2>1. PICK a \in sess[p].authed :
           \/ ListTunnelsForAgent(a) = {} /\ Goto(p, "gone")
           \/ /\ Goto(p, "stop.one")
              /\ job' = [job EXCEPT ![p] = [NoJob EXCEPT
                            !.todo = ListTunnelsForAgent(a), !.ret = "gone"]]
    BY <1>8 DEF CleanupList
  <2>2. sess[p].authed = {a} /\ sess' = sess /\ pc[p] = "clean.list"
    BY <1>8, OptMember DEF CleanupList, TypeOK, SessionLocals
  <2>3. \A l \in listeners : l.via = p /\ l.agent \in sess[p].authed => l.handle \notin Procs
    BY <2>2 DEF CleanInv, CleanOf, Serves, Unregistered
  <2>4. ASSUME NEW l \in listeners, l.agent = a, NEW t \in tunnels, t.id = l.tunnel
        PROVE  t \in ListTunnelsForAgent(a)
    <3>1. Says(t.id, t.agent) /\ Says(t.id, a)
      BY <2>4 DEF Says
    <3>2. t.agent = a
      BY <3>1 DEF NamesInv
    <3> QED
      BY <3>2 DEF ListTunnelsForAgent
  <2>5. CASE ListTunnelsForAgent(a) = {} /\ Goto(p, "gone")
    BY <1>2, <2>2, <2>3, <2>4, <2>5 DEF CleanOf, Serves
  <2>6. CASE /\ Goto(p, "stop.one")
             /\ job' = [job EXCEPT ![p] = [NoJob EXCEPT
                           !.todo = ListTunnelsForAgent(a), !.ret = "gone"]]
    <3>1. pc'[p] = "stop.one" /\ job'[p].todo = ListTunnelsForAgent(a)
      BY <1>1, <2>6, GotoPc DEF TypeOK, NoJob
    <3> QED
      BY <1>2, <2>2, <2>3, <2>4, <3>1 DEF CleanOf, Serves
  <2> QED
    BY <2>1, <2>5, <2>6
<1> QED
  BY <1>4, <1>5, <1>6, <1>7, <1>8 DEF SessionStep

\* A request only stops and drops, and inserts a row no task serves.
LEMMA RequestClean ==
  ASSUME NoClaims, TypeOK, NoClaimRuns, LockInv, NamesInv, CleanInv, NEW r \in Reqs,
         RequestStep(r)
  PROVE  CleanInv'
<1>1. r \in Procs /\ r \notin Sessions
  BY SessInProcs, ProcsDisjoint
<1>2. OnlyMoves(r)
  BY CreateLock, ToggleLock, UpdateLock, DeleteLock, PlainLock, ClaimLock
     DEF RequestStep, StepFits
<1>3. RowsHeard
  <2>1. CASE CreateCheck(r)
    BY <2>1, SameRowsHeard DEF CreateCheck
  <2>2. CASE StepNames(r)
    <3> SUFFICES ASSUME NEW t \in tunnels', NEW l \in listeners, t.id = l.tunnel
                 PROVE  \E y \in tunnels : y.id = t.id
      BY DEF RowsHeard
    <3>1. CASE \E y \in tunnels : SameTunnel(t, y)
      BY <3>1 DEF SameTunnel
    <3>2. CASE pc[r] = "create.insert" /\ t \in Rows(r)
      BY <1>1, <3>2 DEF NamesInv, Creating, Unheard
    <3> QED
      BY <2>2, <3>1, <3>2 DEF StepNames
  <2> QED
    BY <2>1, <2>2, RequestNames
<1>4. UNCHANGED sess /\ TasksKept
  BY RequestStepMoves, RequestTasks
<1> QED
  BY <1>1, <1>2, <1>3, <1>4, CleanOthers DEF CleanInv

\* Every step keeps it so.
LEMMA CleanNext ==
  ASSUME NoClaims, TypeOK, NoClaimRuns, LockInv, SendersInv, NamesInv, GivenInv,
         SpawnedInv, CleanInv, [Next]_vars
  PROVE  CleanInv'
<1>1. ASSUME NEW p \in Procs, QueueWriter(p) PROVE CleanInv'
  BY <1>1 DEF QueueWriter, CleanInv, CleanOf, Serves
<1>2. ASSUME NEW s \in Sessions, SendTaskEnds(s) PROVE CleanInv'
  <2>1. \A q \in Sessions : sess'[q].authed = sess[q].authed
    BY <1>2 DEF SendTaskEnds, TypeOK, SessionLocals
  <2>2. UNCHANGED <<tunnels, listeners, pc, job>>
    BY <1>2 DEF SendTaskEnds
  <2> QED
    BY <2>1, <2>2 DEF CleanInv, CleanOf, Serves
<1>3. ASSUME NEW l \in listeners, Reap(l) \/ ListenerExits(l) PROVE CleanInv'
  <2>1. listeners' \subseteq listeners /\ UNCHANGED <<tunnels, sess, pc, job>>
    BY <1>3 DEF Reap, ListenerExits
  <2> QED
    BY <2>1 DEF CleanInv, CleanOf, Serves
<1>4. CASE Restart
  BY <1>4 DEF Restart, CleanInv, CleanOf
<1>5. CASE UNCHANGED vars
  BY <1>5 DEF vars, CleanInv, CleanOf, Serves
<1> QED
  BY <1>1, <1>2, <1>3, <1>4, <1>5, TunnelStepClean, SessionClean, RequestClean DEF Next

(***************************************************************************)
(* After the clean-up of a connection no proxy task of its agent that can  *)
(* still be stopped runs on through it, unless the row of its tunnel was   *)
(* deleted meanwhile: whatever requests, other connections of the agent    *)
(* and restarts come between, as long as no claim is confirmed.            *)
(***************************************************************************)
THEOREM CleanupLeavesNothing ==
  ASSUME NoClaims, TunnelIds0 PROVE Spec => []CleanupComplete
<1> DEFINE Inv == /\ TypeOK /\ NoClaimRuns /\ LockInv /\ SendersInv
                  /\ NamesInv /\ GivenInv /\ SpawnedInv /\ CleanInv
<1>1. Init => Inv
  <2> SUFFICES ASSUME Init PROVE Inv
    OBVIOUS
  <2>1. TypeOK /\ NamesInv
    BY InitType, NamesInit
  <2>2. listeners = {} /\ \A p \in Procs : pc[p] \in {"new", "idle"}
    BY DEF Init
  <2>3. NoClaimRuns /\ SendersInv /\ GivenInv
    BY <2>2, SessInProcs DEF NoClaimRuns, ClaimLabels, SendersInv, Unregistered,
       GivenInv, Given, Starting
  <2>4. LockInv
    BY <2>2, SessInProcs DEF LockInv, ChannelFits, Before, Starting
  <2>5. SpawnedInv /\ CleanInv
    BY <2>2 DEF SpawnedInv, CleanInv, CleanOf
  <2> QED
    BY <2>1, <2>3, <2>4, <2>5
<1>2. Inv /\ [Next]_vars => Inv'
  BY NextType, NoClaimsNext, LockNext, SendersNext, NamesNext, GivenNext, CleanNext
<1>3. Inv => CleanupComplete
  BY CleanEnough
<1> HIDE DEF Inv
<1> QED
  BY <1>1, <1>2, <1>3, PTL DEF Spec
=============================================================================
