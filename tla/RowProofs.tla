------------------------------ MODULE RowProofs ------------------------------
(***************************************************************************)
(* The tables stay consistent, for all values of the constants: every      *)
(* tunnel has its agent and the port of its user, an owner never changes,  *)
(* and a deleted tunnel does not come back.  Few actions write the tables; *)
(* everything else leaves them alone, which is proved once.                *)
(***************************************************************************)
EXTENDS RelayProofs

SameTables == UNCHANGED <<agents, tunnels>> /\ issued \subseteq issued'

\* The steps that write a row.
Writes ==
    \/ \E s \in Sessions : RequestClaim(s) \/ AuthOnline(s) \/ CleanupOffline(s)
    \/ \E r \in Reqs : \/ CreateInsert(r) \/ ToggleWrite(r) \/ UpdateWrite(r)
                       \/ DeleteRow(r) \/ DeleteAgentRow(r)
                       \/ ClaimRow(r) \/ ClaimOnline(r) \/ GenerateToken(r)

\* tunnel_manager.rs writes no row.
LEMMA TunnelStepRows ==
  ASSUME NEW p \in Procs, TunnelStep(p) \/ QueueWriter(p) PROVE SameTables
  BY DEF TunnelStep, StartStop, StartBind, StartBindFails, StartInsert, SyncList,
         SyncReserve, StopOne, FreeOne, QueueWriter, SameTables

\* A connection writes no row but in the steps named by Writes.
LEMMA SessionStepRows ==
  ASSUME NEW s \in Sessions, SessionStep(s) \/ SendTaskEnds(s)
  PROVE  SameTables \/ Writes
<1>1. CASE RequestClaim(s) \/ AuthOnline(s) \/ CleanupOffline(s)
  BY <1>1 DEF Writes
<1>2. CASE \/ Connect(s) \/ SendTaskEnds(s) \/ AuthRead(s) \/ AuthPending(s)
           \/ AuthRegister(s) \/ Disconnect(s) \/ ClosePending(s)
           \/ CleanupSenders(s) \/ CleanupList(s)
  BY <1>2 DEF Connect, SendTaskEnds, AuthRead, AuthPending, AuthRegister,
              Disconnect, ClosePending, CleanupSenders, CleanupList, SameTables
<1> QED
  BY <1>1, <1>2 DEF SessionStep

\* A request writes no row but in the steps named by Writes.
LEMMA RequestStepRows ==
  ASSUME NEW r \in Reqs, RequestStep(r) PROVE SameTables \/ Writes
<1>1. CASE \/ CreateInsert(r) \/ ToggleWrite(r) \/ UpdateWrite(r)
           \/ DeleteRow(r) \/ DeleteAgentRow(r)
           \/ ClaimRow(r) \/ ClaimOnline(r) \/ GenerateToken(r)
  BY <1>1 DEF Writes
<1>2. CASE CreateCheck(r) \/ CreateAllocate(r) \/ CreateConflict(r) \/ CreateNotify(r)
  BY <1>2 DEF CreateCheck, CreateAllocate, CreateConflict, CreateNotify, SameTables
<1>3. CASE \/ ToggleRead(r) \/ ToggleNotify(r) \/ ToggleReserve(r)
           \/ UpdateCheck(r) \/ UpdateNotify(r)
  BY <1>3 DEF ToggleRead, ToggleNotify, ToggleReserve, UpdateCheck, UpdateNotify,
              SameTables
<1>4. CASE \/ DeleteRead(r) \/ DeleteNotify(r) \/ DeleteAgent(r)
           \/ DeleteAgentSender(r) \/ Ban(r) \/ Unban(r)
           \/ ClaimTake(r) \/ ClaimRegister(r) \/ Register(r) \/ Cancel(r)
  BY <1>4 DEF DeleteRead, DeleteNotify, DeleteAgent, DeleteAgentSender, Ban, Unban,
              ClaimTake, ClaimRegister, Register, Cancel, SameTables
<1> QED
  BY <1>1, <1>2, <1>3, <1>4 DEF RequestStep

\* A step writes a row or leaves both tables alone.
LEMMA StepRows == ASSUME [Next]_vars PROVE SameTables \/ Writes
<1>1. CASE UNCHANGED vars
  BY <1>1 DEF vars, SameTables
<1>2. CASE Restart
  BY <1>2 DEF Restart, SameTables
<1>3. CASE \E l \in listeners : Reap(l) \/ ListenerExits(l)
  BY <1>3 DEF Reap, ListenerExits, SameTables
<1>4. CASE \E p \in Procs : TunnelStep(p) \/ QueueWriter(p)
  BY <1>4, TunnelStepRows
<1>5. CASE \E s \in Sessions : SessionStep(s) \/ SendTaskEnds(s)
  BY <1>5, SessionStepRows
<1>6. CASE \E r \in Reqs : RequestStep(r)
  BY <1>6, RequestStepRows
<1> QED
  BY <1>1, <1>2, <1>3, <1>4, <1>5, <1>6 DEF Next

-----------------------------------------------------------------------------
(* The foreign key. *)

\* A database file that the foreign key was enforced on.
RowsHaveAgents0 == \A t \in Tunnels0 : \E x \in Agents0 : x.id = t.agent

AgentsStay == \A x \in agents : \E y \in agents' : y.id = x.id

TunnelsStay == \A t \in tunnels' : \E v \in tunnels : v.agent = t.agent

\* The foreign key holds while no agent goes and no tunnel comes.
LEMMA AgentsStayRows ==
  ASSUME RowsHaveAgents, AgentsStay, TunnelsStay PROVE RowsHaveAgents'
  BY DEF RowsHaveAgents, AgentsStay, TunnelsStay

\* set_agent_online keeps every agent.
LEMMA OnlineAgentsStay ==
  ASSUME TypeOK, NEW a, NEW on, agents' = SetAgentOnline(a, on) PROVE AgentsStay
<1> SUFFICES ASSUME NEW x \in agents PROVE \E y \in agents' : y.id = x.id
  BY DEF AgentsStay
<1> DEFINE y == IF x.id = a THEN [x EXCEPT !.online = on] ELSE x
<1>1. y \in agents'
  BY DEF SetAgentOnline
<1>2. y.id = x.id
  BY DEF TypeOK, AgentRow
<1> QED
  BY <1>1, <1>2

\* set_tunnel_enabled brings no tunnel.
LEMMA SetEnabledStays ==
  ASSUME TypeOK, NEW t, NEW on, tunnels' = SetTunnelEnabled(t, on)
  PROVE  TunnelsStay
  BY DEF TypeOK, TunnelRow, SetTunnelEnabled, TunnelsStay

\* update_tunnel brings no tunnel.
LEMMA SetTunnelStays ==
  ASSUME TypeOK, NEW t, NEW proto, NEW sub, tunnels' = SetTunnel(t, proto, sub)
  PROVE  TunnelsStay
  BY DEF TypeOK, TunnelRow, SetTunnel, TunnelsStay

\* Every step keeps the foreign key.
LEMMA RowsNext == TypeOK /\ RowsHaveAgents /\ [Next]_vars => RowsHaveAgents'
<1> SUFFICES ASSUME TypeOK, RowsHaveAgents, Writes PROVE RowsHaveAgents'
  BY StepRows DEF SameTables, RowsHaveAgents
<1>1. CASE \E s \in Sessions : RequestClaim(s)
  <2>1. AgentsStay /\ TunnelsStay
    BY <1>1 DEF RequestClaim, AgentsStay, TunnelsStay
  <2> QED
    BY <2>1, AgentsStayRows
<1>2. CASE \E s \in Sessions : AuthOnline(s) \/ CleanupOffline(s)
  <2>1. AgentsStay
    BY <1>2, OnlineAgentsStay DEF AuthOnline, CleanupOffline
  <2>2. TunnelsStay
    BY <1>2 DEF AuthOnline, CleanupOffline, TunnelsStay
  <2> QED
    BY <2>1, <2>2, AgentsStayRows
<1>3. ASSUME NEW r \in Reqs, CreateInsert(r) PROVE RowsHaveAgents'
  <2>1. PICK t \in job[r].cfg :
           IF AgentExists(t.agent) THEN tunnels' = tunnels \cup {t}
                                   ELSE UNCHANGED tunnels
    BY <1>3 DEF CreateInsert
  <2> QED
    BY <1>3, <2>1 DEF CreateInsert, AgentExists, RowsHaveAgents
<1>4. ASSUME NEW r \in Reqs, ToggleWrite(r) \/ UpdateWrite(r) PROVE RowsHaveAgents'
  <2>1. TunnelsStay
    <3>1. CASE ToggleWrite(r)
      BY <3>1, SetEnabledStays DEF ToggleWrite
    <3>2. CASE UpdateWrite(r)
      BY <3>2, SetTunnelStays DEF UpdateWrite
    <3> QED
      BY <1>4, <3>1, <3>2
  <2>2. AgentsStay
    BY <1>4 DEF ToggleWrite, UpdateWrite, AgentsStay
  <2> QED
    BY <2>1, <2>2, AgentsStayRows
<1>5. ASSUME NEW r \in Reqs, DeleteRow(r) PROVE RowsHaveAgents'
  BY <1>5 DEF DeleteRow, RowsHaveAgents
<1>6. ASSUME NEW r \in Reqs, DeleteAgentRow(r) PROVE RowsHaveAgents'
  <2>1. PICK a \in job[r].agent :
           /\ tunnels' = tunnels \ ListTunnelsForAgent(a)
           /\ agents' = {x \in agents : x.id # a}
    BY <1>6 DEF DeleteAgentRow
  <2> QED
    BY <2>1 DEF ListTunnelsForAgent, RowsHaveAgents
<1>7. ASSUME NEW r \in Reqs, ClaimRow(r) PROVE RowsHaveAgents'
  <2>1. PICK u \in users, x \in agents :
           agents' = (agents \ {x}) \cup {ClaimAgentToUser(x, u.id)}
    BY <1>7 DEF ClaimRow
  <2>2. ClaimAgentToUser(x, u.id).id = x.id
    BY DEF ClaimAgentToUser, TypeOK, AgentRow
  <2>3. AgentsStay
    BY <2>1, <2>2 DEF AgentsStay
  <2>4. TunnelsStay
    BY <1>7 DEF ClaimRow, TunnelsStay
  <2> QED
    BY <2>3, <2>4, AgentsStayRows
<1>8. ASSUME NEW r \in Reqs, ClaimOnline(r) PROVE RowsHaveAgents'
  <2>1. AgentsStay
    BY <1>8, OnlineAgentsStay DEF ClaimOnline
  <2>2. TunnelsStay
    BY <1>8 DEF ClaimOnline, TunnelsStay
  <2> QED
    BY <2>1, <2>2, AgentsStayRows
<1>9. ASSUME NEW r \in Reqs, GenerateToken(r) PROVE RowsHaveAgents'
  <2>1. AgentsStay /\ TunnelsStay
    BY <1>9 DEF GenerateToken, AgentsStay, TunnelsStay
  <2> QED
    BY <2>1, AgentsStayRows
<1> QED
  BY <1>1, <1>2, <1>3, <1>4, <1>5, <1>6, <1>7, <1>8, <1>9 DEF Writes

(***************************************************************************)
(* No tunnel outlives its agent, however creations, deletions,             *)
(* cancellations and restarts interleave, if that is so in the database    *)
(* file the relay starts from.                                             *)
(***************************************************************************)
THEOREM RowsKeepAgents ==
  ASSUME RowsHaveAgents0 PROVE Spec => []RowsHaveAgents
<1>1. Init => TypeOK /\ RowsHaveAgents
  BY InitType DEF Init, RowsHaveAgents, RowsHaveAgents0
<1>2. TypeOK /\ RowsHaveAgents /\ [Next]_vars => (TypeOK /\ RowsHaveAgents)'
  BY NextType, RowsNext
<1> QED
  BY <1>1, <1>2, PTL DEF Spec

-----------------------------------------------------------------------------
(* The owner of an agent. *)

\* An id names one row, it is never drawn again, and a code is open only while
\* there is no owner.
OwnersInv ==
    /\ \A x, y \in agents : x.id = y.id => x = y
    /\ \A x \in agents : x.id \in issued
    /\ \A x \in agents : x.claim # {} => x.user = {}

\* The same of the database file the relay starts from.
Owners0 ==
    /\ \A x, y \in Agents0 : x.id = y.id => x = y
    /\ \A x \in Agents0 : x.claim # {} => x.user = {}

OwnersKept ==
    \A x \in agents, y \in agents' : (x.id = y.id /\ x.user # {}) => y.user = x.user

\* Both facts about a step, as one goal per action.
OwnersStep == OwnersInv' /\ OwnersKept

\* No owner changes where no row of an agent does.
LEMMA SameAgents ==
  ASSUME OwnersInv, agents' \subseteq agents, issued \subseteq issued'
  PROVE  OwnersStep
  BY DEF OwnersInv, OwnersKept, OwnersStep

\* A row with a fresh id changes no owner.
LEMMA NewAgent ==
  ASSUME OwnersInv, NEW z, z.id \notin issued, z.claim # {} => z.user = {},
         agents' = agents \cup {z}, issued \subseteq issued', z.id \in issued'
  PROVE  OwnersStep
<1>1. \A x \in agents : x.id # z.id
  BY DEF OwnersInv
<1>2. OwnersInv'
  BY <1>1 DEF OwnersInv
<1>3. OwnersKept
  BY <1>1 DEF OwnersInv, OwnersKept
<1> QED
  BY <1>2, <1>3 DEF OwnersStep

\* set_agent_online changes no owner.
LEMMA OnlineOwners ==
  ASSUME TypeOK, OwnersInv, NEW a, NEW on, agents' = SetAgentOnline(a, on),
         issued' = issued
  PROVE  OwnersStep
<1> DEFINE new(x) == IF x.id = a THEN [x EXCEPT !.online = on] ELSE x
<1>1. ASSUME NEW x \in agents
      PROVE  new(x).id = x.id /\ new(x).user = x.user /\ new(x).claim = x.claim
  BY DEF TypeOK, AgentRow
<1>2. agents' = {new(x) : x \in agents}
  BY DEF SetAgentOnline
<1> HIDE DEF new
<1>3. \A y \in agents' : \E x \in agents : y = new(x)
  BY <1>2
<1>4. \A y \in agents' : \E x \in agents :
         y = new(x) /\ y.id = x.id /\ y.user = x.user /\ y.claim = x.claim
  BY <1>1, <1>3
<1>5. OwnersInv'
  BY <1>4 DEF OwnersInv
<1>6. OwnersKept
  BY <1>4 DEF OwnersInv, OwnersKept
<1> QED
  BY <1>5, <1>6 DEF OwnersStep

\* A code is given up in the step that sets the owner.
LEMMA ClaimOwners ==
  ASSUME TypeOK, OwnersInv, NEW r \in Reqs, ClaimRow(r) PROVE OwnersStep
<1>1. PICK u \in users, x \in agents :
         /\ x.claim # {}
         /\ agents' = (agents \ {x}) \cup {ClaimAgentToUser(x, u.id)}
  BY DEF ClaimRow
<1> DEFINE z == ClaimAgentToUser(x, u.id)
<1>2. z.id = x.id /\ z.claim = {}
  BY DEF ClaimAgentToUser, TypeOK, AgentRow
<1> HIDE DEF z
<1>3. agents' = (agents \ {x}) \cup {z}
  BY <1>1 DEF z
<1>4. x.user = {}
  BY <1>1 DEF OwnersInv
<1>5. issued' = issued
  BY DEF ClaimRow
<1>6. \A y \in agents : y.id = x.id => y = x
  BY DEF OwnersInv
<1>7. OwnersInv'
  BY <1>2, <1>3, <1>5, <1>6 DEF OwnersInv
<1>8. OwnersKept
  <2> SUFFICES ASSUME NEW v \in agents, NEW y \in agents', v.id = y.id, v.user # {}
               PROVE  y.user = v.user
    BY DEF OwnersKept
  <2>1. y # z
    BY <1>2, <1>4, <1>6
  <2> QED
    BY <1>3, <2>1 DEF OwnersInv
<1> QED
  BY <1>7, <1>8 DEF OwnersStep

\* No step changes an owner.
LEMMA OwnersNext == TypeOK /\ OwnersInv /\ [Next]_vars => OwnersStep
<1> SUFFICES ASSUME TypeOK, OwnersInv, [Next]_vars PROVE OwnersStep
  OBVIOUS
<1>1. CASE SameTables
  BY <1>1, SameAgents DEF SameTables
<1>2. ASSUME NEW s \in Sessions, RequestClaim(s) PROVE OwnersStep
  <2>1. PICK a \in Agents \ issued, c \in Codes :
           /\ agents' = agents \cup {[id |-> a, user |-> {}, claim |-> {c},
                                      online |-> FALSE]}
           /\ issued' = issued \cup {a, c}
    BY <1>2 DEF RequestClaim
  <2> DEFINE z == [id |-> a, user |-> {}, claim |-> {c}, online |-> FALSE]
  <2>2. z.id = a /\ z.user = {} /\ agents' = agents \cup {z}
    BY <2>1
  <2> HIDE DEF z
  <2> QED
    BY <2>1, <2>2, NewAgent
<1>3. ASSUME NEW s \in Sessions, AuthOnline(s) \/ CleanupOffline(s) PROVE OwnersStep
  BY <1>3, OnlineOwners DEF AuthOnline, CleanupOffline
<1>4. ASSUME NEW r \in Reqs, CreateInsert(r) \/ ToggleWrite(r) \/ UpdateWrite(r)
                            \/ DeleteRow(r)
      PROVE  OwnersStep
  BY <1>4, SameAgents DEF CreateInsert, ToggleWrite, UpdateWrite, DeleteRow
<1>5. ASSUME NEW r \in Reqs, DeleteAgentRow(r) PROVE OwnersStep
  BY <1>5, SameAgents DEF DeleteAgentRow
<1>6. ASSUME NEW r \in Reqs, ClaimOnline(r) PROVE OwnersStep
  BY <1>6, OnlineOwners DEF ClaimOnline
<1>7. ASSUME NEW r \in Reqs, GenerateToken(r) PROVE OwnersStep
  <2>1. PICK u \in users, a \in Agents \ issued :
           /\ agents' = agents \cup {[id |-> a, user |-> {u.id}, claim |-> {},
                                      online |-> FALSE]}
           /\ issued' = issued \cup {a}
    BY <1>7 DEF GenerateToken
  <2> DEFINE z == [id |-> a, user |-> {u.id}, claim |-> {}, online |-> FALSE]
  <2>2. z.id = a /\ z.claim = {} /\ agents' = agents \cup {z}
    BY <2>1
  <2> HIDE DEF z
  <2> QED
    BY <2>1, <2>2, NewAgent
<1> QED
  BY <1>1, <1>2, <1>3, <1>4, <1>5, <1>6, <1>7, ClaimOwners, StepRows DEF Writes

(***************************************************************************)
(* An agent that has an owner keeps it: of two users who send the same     *)
(* code at the same time one gets the agent, and nothing changes that.     *)
(***************************************************************************)
THEOREM OwnerStaysFixed == ASSUME Owners0 PROVE Spec => OwnerIsFixed
<1>1. Init => TypeOK /\ OwnersInv
  BY InitType DEF Init, OwnersInv, Owners0
<1>2. TypeOK /\ OwnersInv /\ [Next]_vars => (TypeOK /\ OwnersInv)'
  BY NextType, OwnersNext DEF OwnersStep
<1>3. TypeOK /\ OwnersInv /\ [Next]_vars => [OwnersKept]_vars
  BY OwnersNext DEF OwnersStep
<1>4. Spec => [][OwnersKept]_vars
  BY <1>1, <1>2, <1>3, PTL DEF Spec
<1> QED
  BY <1>4 DEF OwnerIsFixed, OwnersKept

-----------------------------------------------------------------------------
(* Deleted tunnels. *)

NoneComesBack ==
    \A t \in tunnels' :
        \/ \E x \in tunnels : x.id = t.id
        \/ \E r \in Reqs : pc[r] = "create.insert" /\ job[r].cfg = {t}

\* No step but an insertion brings a tunnel.
LEMMA ComesBackNext == TypeOK /\ [Next]_vars => NoneComesBack
<1> SUFFICES ASSUME TypeOK, [Next]_vars PROVE NoneComesBack
  OBVIOUS
<1>1. CASE SameTables
  BY <1>1 DEF SameTables, NoneComesBack
<1>2. ASSUME NEW s \in Sessions, RequestClaim(s) \/ AuthOnline(s) \/ CleanupOffline(s)
      PROVE  NoneComesBack
  BY <1>2 DEF RequestClaim, AuthOnline, CleanupOffline, NoneComesBack
<1>3. ASSUME NEW r \in Reqs, CreateInsert(r) PROVE NoneComesBack
  <2>1. PICK t \in job[r].cfg : tunnels' \subseteq tunnels \cup {t}
    BY <1>3 DEF CreateInsert
  <2>2. job[r].cfg = {t}
    BY SessInProcs, OptMember DEF TypeOK, Job
  <2> QED
    BY <1>3, <2>1, <2>2 DEF CreateInsert, NoneComesBack
<1>4. ASSUME NEW r \in Reqs, ToggleWrite(r) PROVE NoneComesBack
  BY <1>4 DEF ToggleWrite, SetTunnelEnabled, TypeOK, TunnelRow, NoneComesBack
<1>5. ASSUME NEW r \in Reqs, UpdateWrite(r) PROVE NoneComesBack
  BY <1>5 DEF UpdateWrite, SetTunnel, TypeOK, TunnelRow, NoneComesBack
<1>6. ASSUME NEW r \in Reqs, DeleteRow(r) \/ DeleteAgentRow(r) PROVE NoneComesBack
  BY <1>6 DEF DeleteRow, DeleteAgentRow, NoneComesBack
<1>7. ASSUME NEW r \in Reqs, ClaimRow(r) \/ ClaimOnline(r) \/ GenerateToken(r)
      PROVE  NoneComesBack
  BY <1>7 DEF ClaimRow, ClaimOnline, GenerateToken, NoneComesBack
<1> QED
  BY <1>1, <1>2, <1>3, <1>4, <1>5, <1>6, <1>7, StepRows DEF Writes

(***************************************************************************)
(* A tunnel appears only by the insertion of a creation in progress: what  *)
(* a toggle or an update read before a deletion changes nothing after it.  *)
(***************************************************************************)
THEOREM DeletedTunnelsStayDeleted == Spec => DeletedStaysDeleted
<1>1. TypeOK /\ [Next]_vars => [NoneComesBack]_vars
  BY ComesBackNext
<1>2. Spec => [][NoneComesBack]_vars
  BY <1>1, TypeCorrect, PTL DEF Spec
<1> QED
  BY <1>2 DEF DeletedStaysDeleted, NoneComesBack

-----------------------------------------------------------------------------
(***************************************************************************)
(* Ports.  No two users share a port, no user is removed, and no row       *)
(* changes its user or its port.  What a creation read of its user before  *)
(* it inserts the tunnel is still true then.                               *)
(***************************************************************************)
HasOwner(t) == \E x \in users : x.id = t.user /\ x.port = t.port

Creating(r) == pc[r] \in {"create.allocate", "create.insert"}

CreatesForOwner == \A r \in Reqs : Creating(r) => \A t \in job[r].cfg : HasOwner(t)

UsersUnique == \A x, y \in users : (x.id = y.id \/ x.port = y.port) => x = y

PortsInv ==
    /\ UsersUnique
    /\ \A t \in tunnels : HasOwner(t)
    /\ CreatesForOwner

\* The same of the database file the relay starts from.
Ports0 ==
    /\ \A x, y \in Users0 : (x.id = y.id \/ x.port = y.port) => x = y
    /\ \A t \in Tunnels0 : \E x \in Users0 : x.id = t.user /\ x.port = t.port

-----------------------------------------------------------------------------
(* Table users. *)

UsersStay == \A x \in users : \E y \in users' : y.id = x.id /\ y.port = x.port

\* An owner stays an owner.
LEMMA OwnerStays == ASSUME UsersStay, NEW t, HasOwner(t) PROVE HasOwner(t)'
  BY DEF UsersStay, HasOwner

\* A ban changes neither the id nor the port of a user.
LEMMA SetBanUsers ==
  ASSUME TypeOK, UsersUnique, NEW u, NEW on, users' = SetBan(u, on)
  PROVE  UsersUnique' /\ UsersStay
<1> DEFINE new(x) == IF x.id = u THEN [x EXCEPT !.banned = on] ELSE x
<1>1. \A x \in users : new(x).id = x.id /\ new(x).port = x.port
  BY DEF TypeOK, UserRow
<1>2. users' = {new(x) : x \in users}
  BY DEF SetBan
<1> HIDE DEF new
<1>3. UsersStay
  <2> SUFFICES ASSUME NEW x \in users
               PROVE  \E y \in users' : y.id = x.id /\ y.port = x.port
    BY DEF UsersStay
  <2>1. new(x) \in users'
    BY <1>2
  <2> QED
    BY <1>1, <2>1
<1>4. UsersUnique'
  <2> SUFFICES ASSUME NEW y \in users', NEW z \in users', y.id = z.id \/ y.port = z.port
               PROVE  y = z
    BY DEF UsersUnique
  <2>1. PICK v \in users, w \in users : y = new(v) /\ z = new(w)
    BY <1>2
  <2>2. v = w
    BY <1>1, <2>1 DEF UsersUnique
  <2> QED
    BY <2>1, <2>2
<1> QED
  BY <1>3, <1>4

\* A registration takes a port that nobody has: two of them do not meet, for each
\* looks for its port and inserts its row under one lock of the database.
LEMMA RegisterUsers ==
  ASSUME UsersUnique, NEW r, Register(r) PROVE UsersUnique' /\ UsersStay
<1>1. PICK u \in Users, p \in DedicatedPorts :
         /\ \A x \in users : x.id # u
         /\ users' = users \cup {[id |-> u, port |-> p, banned |-> FALSE]}
  BY DEF Register
<1> DEFINE z == [id |-> u, port |-> p, banned |-> FALSE]
<1>2. z.id = u /\ z.port = p /\ users' = users \cup {z}
  BY <1>1
<1>3. p \notin {x.port : x \in users}
  BY DEF DedicatedPorts, FreePorts
<1> HIDE DEF z
<1>4. \A x \in users : x.id # z.id /\ x.port # z.port
  BY <1>1, <1>2, <1>3
<1> QED
  BY <1>2, <1>4 DEF UsersUnique, UsersStay

\* Only registrations and bans write table users.
LEMMA UsersNext ==
  ASSUME TypeOK, UsersUnique, [Next]_vars PROVE UsersUnique' /\ UsersStay
<1>1. CASE UNCHANGED users
  BY <1>1 DEF UsersUnique, UsersStay
<1>2. ASSUME NEW p \in Procs, TunnelStep(p) \/ QueueWriter(p) PROVE UNCHANGED users
  BY <1>2 DEF TunnelStep, StartStop, StartBind, StartBindFails, StartInsert, SyncList,
              SyncReserve, StopOne, FreeOne, QueueWriter
<1>3. ASSUME NEW s \in Sessions, SessionStep(s) \/ SendTaskEnds(s)
      PROVE  UNCHANGED users
  BY <1>3 DEF SessionStep, Connect, RequestClaim, AuthRead, AuthPending, AuthOnline,
              AuthRegister, Disconnect, ClosePending, CleanupSenders, CleanupOffline,
              CleanupList, SendTaskEnds
<1>4. ASSUME NEW r \in Reqs, RequestStep(r)
      PROVE  UNCHANGED users \/ Ban(r) \/ Unban(r) \/ Register(r)
  BY <1>4 DEF RequestStep, CreateCheck, CreateAllocate, CreateConflict, CreateInsert,
              CreateNotify, ToggleRead, ToggleWrite, ToggleNotify, ToggleReserve,
              UpdateCheck, UpdateWrite, UpdateNotify, DeleteRead, DeleteNotify,
              DeleteRow, DeleteAgent, DeleteAgentSender, DeleteAgentRow, ClaimRow,
              ClaimTake, ClaimOnline, ClaimRegister, GenerateToken, Cancel
<1>5. ASSUME NEW r \in Reqs, Ban(r) \/ Unban(r) PROVE UsersUnique' /\ UsersStay
  BY <1>5, SetBanUsers DEF Ban, Unban
<1>6. CASE (\E l \in listeners : Reap(l) \/ ListenerExits(l)) \/ Restart
  BY <1>1, <1>6 DEF Reap, ListenerExits, Restart
<1>7. CASE UNCHANGED vars
  BY <1>1, <1>7 DEF vars
<1> QED
  BY <1>1, <1>2, <1>3, <1>4, <1>5, <1>6, <1>7, RegisterUsers DEF Next

-----------------------------------------------------------------------------
(* Creations in progress. *)

\* A creation that is in progress after a step was so before, for the same tunnel.
NoneBegins ==
    \A r \in Reqs : Creating(r)' => Creating(r) /\ job'[r].cfg = job[r].cfg

Elsewhere == Labels \ {"create.allocate", "create.insert"}

\* A step moves one process, and not into a creation.
MovesElsewhere(p) ==
    /\ \A q \in Procs \ {p} : pc'[q] = pc[q] /\ job'[q] = job[q]
    /\ pc'[p] \in Elsewhere

\* Such a step begins no creation.
LEMMA ElsewhereBegins == ASSUME NEW p, MovesElsewhere(p) PROVE NoneBegins
  BY SessInProcs DEF MovesElsewhere, Elsewhere, NoneBegins, Creating

\* Where Goto, Begin and Finish leave a process.
LEMMA GotoElsewhere ==
  ASSUME TypeOK, NEW p \in Procs, NEW label \in Elsewhere, Goto(p, label),
         \A q \in Procs \ {p} : job'[q] = job[q]
  PROVE  NoneBegins
<1>1. MovesElsewhere(p)
  BY DEF TypeOK, Goto, MovesElsewhere
<1> QED
  BY <1>1, ElsewhereBegins

\* Begin moves its process only.
LEMMA BeginElsewhere ==
  ASSUME TypeOK, NEW p \in Procs, NEW label \in Elsewhere, NEW j,
         Begin(p, label, j)
  PROVE  NoneBegins
<1>1. MovesElsewhere(p)
  BY DEF TypeOK, Begin, Goto, MovesElsewhere
<1> QED
  BY <1>1, ElsewhereBegins

\* So does Finish.
LEMMA FinishElsewhere ==
  ASSUME TypeOK, NEW p \in Procs, NEW label \in Elsewhere, Finish(p, label)
  PROVE  NoneBegins
<1>1. MovesElsewhere(p)
  BY DEF TypeOK, Finish, MovesElsewhere
<1> QED
  BY <1>1, ElsewhereBegins

\* A handler that returns begins no creation.
LEMMA ReturnElsewhere ==
  ASSUME TypeOK, NEW p \in Procs, Return(p) PROVE NoneBegins
<1>1. Home(p) \in Elsewhere
  BY DEF Home, Elsewhere, Labels, SessionLabels, ReqLabels
<1> QED
  BY <1>1, FinishElsewhere DEF Return

\* A proxy's start or stop, and the loops around them, begin no creation.
LEMMA TunnelStepBegins ==
  ASSUME TypeOK, NEW p \in Procs, TunnelStep(p) \/ QueueWriter(p) PROVE NoneBegins
<1>1. {"start.bind", "start.insert", "start.stop", "sync.reserve", "stop.free",
       "stop.one", "delete.notify", "gone"} \subseteq Elsewhere
  BY DEF Elsewhere, Labels, SharedLabels, SessionLabels, ReqLabels
<1>2. ASSUME NextRow(p) PROVE NoneBegins
  <2>1. CASE job[p].todo = {}
    BY <1>2, <2>1, ReturnElsewhere DEF NextRow
  <2>2. CASE job[p].todo # {}
    BY <1>1, <1>2, <2>2, GotoElsewhere DEF NextRow, TypeOK
  <2> QED
    BY <2>1, <2>2
<1>3. CASE StartStop(p) \/ StartBind(p)
  BY <1>1, <1>3, GotoElsewhere DEF StartStop, StartBind
<1>4. CASE StartBindFails(p) \/ StartInsert(p)
  BY <1>2, <1>4 DEF StartBindFails, StartInsert
<1>5. CASE SyncList(p)
  <2> DEFINE rows == {t \in tunnels : t.agent \in job[p].agent /\ t.enabled}
  <2>1. CASE rows = {}
    BY <1>5, <2>1, ReturnElsewhere DEF SyncList
  <2>2. CASE rows # {}
    <3>1. Goto(p, "sync.reserve") /\ \A q \in Procs \ {p} : job'[q] = job[q]
      BY <1>5, <2>2 DEF SyncList, TypeOK
    <3> QED
      BY <1>1, <3>1, GotoElsewhere
  <2> QED
    BY <2>1, <2>2
<1>6. CASE SyncReserve(p)
  <2>1. Goto(p, "start.stop") /\ \A q \in Procs \ {p} : job'[q] = job[q]
    BY <1>6 DEF SyncReserve, TypeOK
  <2> QED
    BY <1>1, <2>1, GotoElsewhere
<1>7. CASE StopOne(p)
  <2>1. Goto(p, "stop.free") /\ \A q \in Procs \ {p} : job'[q] = job[q]
    BY <1>7 DEF StopOne, TypeOK
  <2> QED
    BY <1>1, <2>1, GotoElsewhere
<1>8. CASE FreeOne(p)
  <2>1. CASE job[p].todo = {} /\ LoopEnds(p)
    <3>1. CASE Finish(p, "gone")
      BY <1>1, <3>1, FinishElsewhere
    <3>2. CASE Goto(p, "delete.notify") /\ UNCHANGED <<job, held>>
      BY <1>1, <3>2, GotoElsewhere
    <3>3. CASE Return(p)
      BY <3>3, ReturnElsewhere
    <3> QED
      BY <2>1, <3>1, <3>2, <3>3 DEF LoopEnds
  <2>2. CASE Goto(p, "stop.one") /\ UNCHANGED <<job, held>>
    BY <1>1, <2>2, GotoElsewhere
  <2> QED
    BY <1>8, <2>1, <2>2 DEF FreeOne
<1>9. CASE QueueWriter(p)
  BY <1>9 DEF QueueWriter, NoneBegins, Creating
<1> QED
  BY <1>3, <1>4, <1>5, <1>6, <1>7, <1>8, <1>9 DEF TunnelStep

\* A connection is not a request.
LEMMA SessionStepBegins ==
  ASSUME TypeOK, NEW s \in Sessions, SessionStep(s) \/ SendTaskEnds(s)
  PROVE  NoneBegins
<1>1. \A r \in Reqs : r \in Procs \ {s}
  BY ProcsDisjoint DEF Procs
<1>2. \A q \in Procs \ {s} : pc'[q] = pc[q] /\ job'[q] = job[q]
  BY DEF TypeOK, SessionStep, Connect, RequestClaim, AuthRead, AuthPending, AuthOnline,
         AuthRegister, Disconnect, ClosePending, CleanupSenders, CleanupOffline,
         CleanupList, SendTaskEnds, Goto
<1> QED
  BY <1>1, <1>2 DEF NoneBegins, Creating

\* Of the requests, CreateCheck begins a creation, and CreateAllocate goes on with it.
LEMMA RequestStepBegins ==
  ASSUME TypeOK, NEW r \in Reqs, RequestStep(r) PROVE NoneBegins \/ CreateCheck(r)
<1>1. {"create.notify", "start.stop", "toggle.write", "toggle.notify",
       "toggle.reserve", "stop.one", "update.write", "update.notify", "sync.list",
       "delete.row", "delete_agent.sender", "delete_agent.row", "claim.take",
       "claim.online", "claim.register"}
         \subseteq Elsewhere
  BY DEF Elsewhere, Labels, SharedLabels, ReqLabels
<1>2. r \in Procs
  BY SessInProcs
<1>3. CASE CreateAllocate(r)
  <2>1. pc'= [pc EXCEPT ![r] = "create.insert"] /\ job' = job /\ Creating(r)
    BY <1>3 DEF CreateAllocate, Goto, Creating
  <2> QED
    BY <2>1, SessInProcs DEF NoneBegins, Creating, TypeOK
<1>4. CASE CreateConflict(r) \/ DeleteRow(r) \/ DeleteAgentRow(r) \/ Cancel(r)
  BY <1>2, <1>4, ReturnElsewhere DEF CreateConflict, DeleteRow, DeleteAgentRow, Cancel
<1>5. CASE CreateInsert(r)
  BY <1>1, <1>2, <1>5, ReturnElsewhere, GotoElsewhere DEF CreateInsert
<1>6. CASE CreateNotify(r)
  BY <1>1, <1>2, <1>6, ReturnElsewhere, BeginElsewhere DEF CreateNotify
<1>7. CASE ToggleRead(r) \/ ToggleNotify(r) \/ UpdateCheck(r) \/ DeleteRead(r)
           \/ DeleteAgent(r) \/ ClaimRow(r)
  BY <1>1, <1>2, <1>7, BeginElsewhere
     DEF ToggleRead, ToggleNotify, UpdateCheck, DeleteRead, DeleteAgent, ClaimRow
<1>8. CASE ToggleWrite(r) \/ UpdateWrite(r) \/ ClaimOnline(r) \/ ClaimRegister(r)
           \/ DeleteNotify(r) \/ DeleteAgentSender(r)
  BY <1>1, <1>2, <1>8, GotoElsewhere
     DEF ToggleWrite, UpdateWrite, ClaimOnline, ClaimRegister, DeleteNotify,
         DeleteAgentSender
<1>9. CASE ToggleReserve(r)
  BY <1>1, <1>2, <1>9, ReturnElsewhere, GotoElsewhere DEF ToggleReserve
<1>10. CASE UpdateNotify(r) \/ ClaimTake(r)
  BY <1>1, <1>2, <1>10, ReturnElsewhere, BeginElsewhere DEF UpdateNotify, ClaimTake
<1>11. CASE Ban(r)
  <2>1. CASE UNCHANGED <<pc, job>>
    BY <2>1 DEF NoneBegins, Creating
  <2>2. ASSUME NEW j, Begin(r, "stop.one", j) PROVE NoneBegins
    BY <1>1, <1>2, <2>2, BeginElsewhere
  <2> QED
    BY <1>11, <2>1, <2>2 DEF Ban
<1>12. CASE Unban(r) \/ GenerateToken(r) \/ Register(r)
  BY <1>12 DEF Unban, GenerateToken, Register, NoneBegins, Creating
<1> QED
  BY <1>3, <1>4, <1>5, <1>6, <1>7, <1>8, <1>9, <1>10, <1>11, <1>12 DEF RequestStep

\* A creation begins for its user's port.
LEMMA CreatesNext ==
  ASSUME TypeOK, CreatesForOwner, UsersStay, [Next]_vars PROVE CreatesForOwner'
<1>1. CASE NoneBegins
  BY <1>1, OwnerStays DEF CreatesForOwner, NoneBegins
<1>2. ASSUME NEW r \in Reqs, CreateCheck(r) PROVE CreatesForOwner'
  <2>1. PICK u \in users, a \in Agents \cap issued, proto \in Protocols,
             sub \in Opt(Subdomains), t \in Tunnels \ issued :
           Begin(r, "create.allocate", [NoJob EXCEPT !.cfg =
              {[id |-> t, agent |-> a, user |-> u.id, proto |-> proto,
                port |-> u.port, sub |-> sub, enabled |-> TRUE]}])
    BY <1>2 DEF CreateCheck
  <2> DEFINE z == [id |-> t, agent |-> a, user |-> u.id, proto |-> proto,
                   port |-> u.port, sub |-> sub, enabled |-> TRUE]
  <2>2. z.user = u.id /\ z.port = u.port /\ [NoJob EXCEPT !.cfg = {z}].cfg = {z}
    BY DEF NoJob
  <2> HIDE DEF z
  <2>3. HasOwner(z)'
    BY <2>2, OwnerStays DEF HasOwner
  <2>4. job' = [job EXCEPT ![r] = [NoJob EXCEPT !.cfg = {z}]]
    BY <2>1 DEF Begin, z
  <2>5. job'[r].cfg = {z}
    BY <2>2, <2>4, SessInProcs DEF TypeOK
  <2>6. \A q \in Reqs \ {r} : pc'[q] = pc[q] /\ job'[q] = job[q]
    BY <2>1, SessInProcs DEF TypeOK, Begin, Goto
  <2>7. ASSUME NEW q \in Reqs, q # r, Creating(q)', NEW x \in job'[q].cfg
        PROVE  HasOwner(x)'
    BY <2>6, <2>7, OwnerStays DEF CreatesForOwner, Creating
  <2> QED
    BY <2>3, <2>5, <2>7 DEF CreatesForOwner
<1>3. CASE UNCHANGED vars
  BY <1>1, <1>3 DEF vars, NoneBegins, Creating
<1>4. CASE \E p \in Procs : TunnelStep(p) \/ QueueWriter(p)
  BY <1>1, <1>4, TunnelStepBegins
<1>5. CASE \E s \in Sessions : SessionStep(s) \/ SendTaskEnds(s)
  BY <1>1, <1>5, SessionStepBegins
<1>6. CASE \E r \in Reqs : RequestStep(r)
  BY <1>1, <1>2, <1>6, RequestStepBegins
<1>7. CASE \E l \in listeners : Reap(l) \/ ListenerExits(l)
  BY <1>1, <1>7 DEF Reap, ListenerExits, NoneBegins, Creating
<1>8. CASE Restart
  <2>1. \A r \in Reqs : ~Creating(r)'
    BY <1>8, SessInProcs DEF Restart, Creating
  <2> QED
    BY <2>1 DEF CreatesForOwner
<1> QED
  BY <1>3, <1>4, <1>5, <1>6, <1>7, <1>8 DEF Next

-----------------------------------------------------------------------------
(* Table tunnels. *)

\* Every tunnel has the user and the port of one that was there, or of a creation
\* that is about to insert it.
TunnelsKeepUser ==
    \A t \in tunnels' :
        \/ \E x \in tunnels : x.user = t.user /\ x.port = t.port
        \/ \E r \in Reqs : Creating(r) /\ t \in job[r].cfg

\* No update changes the user or the port.
LEMMA TunnelsNext == ASSUME TypeOK, [Next]_vars PROVE TunnelsKeepUser
<1>1. CASE UNCHANGED tunnels
  BY <1>1 DEF TunnelsKeepUser
<1>2. ASSUME NEW s \in Sessions, RequestClaim(s) \/ AuthOnline(s) \/ CleanupOffline(s)
      PROVE  TunnelsKeepUser
  BY <1>1, <1>2 DEF RequestClaim, AuthOnline, CleanupOffline
<1>3. ASSUME NEW r \in Reqs, CreateInsert(r) PROVE TunnelsKeepUser
  BY <1>3 DEF CreateInsert, Creating, TunnelsKeepUser
<1>4. ASSUME NEW r \in Reqs, ToggleWrite(r) PROVE TunnelsKeepUser
  BY <1>4 DEF ToggleWrite, SetTunnelEnabled, TypeOK, TunnelRow, TunnelsKeepUser
<1>5. ASSUME NEW r \in Reqs, UpdateWrite(r) PROVE TunnelsKeepUser
  BY <1>5 DEF UpdateWrite, SetTunnel, TypeOK, TunnelRow, TunnelsKeepUser
<1>6. ASSUME NEW r \in Reqs, DeleteRow(r) \/ DeleteAgentRow(r) PROVE TunnelsKeepUser
  BY <1>6 DEF DeleteRow, DeleteAgentRow, TunnelsKeepUser
<1>7. ASSUME NEW r \in Reqs, ClaimRow(r) \/ ClaimOnline(r) \/ GenerateToken(r)
      PROVE  TunnelsKeepUser
  BY <1>1, <1>7 DEF ClaimRow, ClaimOnline, GenerateToken
<1> QED
  BY <1>1, <1>2, <1>3, <1>4, <1>5, <1>6, <1>7, StepRows DEF Writes, SameTables

\* Every step keeps the invariant.
LEMMA PortsNext == TypeOK /\ PortsInv /\ [Next]_vars => PortsInv'
<1> SUFFICES ASSUME TypeOK, PortsInv, [Next]_vars PROVE PortsInv'
  OBVIOUS
<1>1. UsersUnique' /\ UsersStay
  BY UsersNext DEF PortsInv
<1>2. CreatesForOwner'
  BY <1>1, CreatesNext DEF PortsInv
<1>3. ASSUME NEW t \in tunnels' PROVE HasOwner(t)'
  <2>1. CASE \E x \in tunnels : x.user = t.user /\ x.port = t.port
    <3>1. HasOwner(t)
      BY <2>1 DEF PortsInv, HasOwner
    <3> QED
      BY <1>1, <3>1, OwnerStays
  <2>2. CASE \E r \in Reqs : Creating(r) /\ t \in job[r].cfg
    BY <1>1, <2>2, OwnerStays DEF PortsInv, CreatesForOwner
  <2> QED
    BY <2>1, <2>2, TunnelsNext DEF TunnelsKeepUser
<1> QED
  BY <1>1, <1>2, <1>3 DEF PortsInv

(***************************************************************************)
(* However many users register and create tunnels at the same time, and    *)
(* whatever is updated, toggled or deleted meanwhile, the port of a tunnel *)
(* is its user's and no other user's.                                      *)
(***************************************************************************)
THEOREM PortsStayPersonal == ASSUME Ports0 PROVE Spec => []PortsArePersonal
<1>1. Init => TypeOK /\ PortsInv
  <2> SUFFICES ASSUME Init PROVE PortsInv
    BY InitType
  <2>1. CreatesForOwner
    BY SessInProcs DEF Init, CreatesForOwner, Creating
  <2> QED
    BY <2>1 DEF Ports0, Init, PortsInv, UsersUnique, HasOwner
<1>2. TypeOK /\ PortsInv /\ [Next]_vars => (TypeOK /\ PortsInv)'
  BY NextType, PortsNext
<1>3. PortsInv => PortsArePersonal
  BY DEF PortsInv, UsersUnique, HasOwner, PortsArePersonal
<1> QED
  BY <1>1, <1>2, <1>3, PTL DEF Spec
=============================================================================
