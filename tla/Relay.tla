------------------------------- MODULE Relay -------------------------------
(***************************************************************************)
(* The control plane of the relay: the connections of the agents           *)
(* (AgentSession), the HTTP requests (AdminApi) and the proxy tasks they   *)
(* start and stop (TunnelManager), interleaved over one AppState.          *)
(***************************************************************************)
EXTENDS AgentSession, AdminApi, Naturals

\* The process dies and comes up again: the database file is all that is left.
\* A connection that was open is over, a request unanswered.
Restart ==
    /\ "restart" \in Ops
    /\ allocated' = {}
    /\ senders' = [a \in Agents |-> {}]
    /\ pending' = [c \in Codes |-> {}]
    /\ listeners' = {}
    /\ held' = [k \in Locks |-> {}]
    /\ job' = [p \in Procs |-> NoJob]
    /\ pc' = [p \in Procs |-> IF p \in Reqs THEN "idle"
                              ELSE IF pc[p] = "new" THEN "new" ELSE "gone"]
    /\ sess' = [s \in Sessions |-> [sess[s] EXCEPT !.authed = {}, !.code = {},
                                                   !.rx = FALSE]]
    /\ UNCHANGED <<agents, tunnels, users, issued>>

Next ==
    \/ \E p \in Procs : TunnelStep(p) \/ QueueWriter(p)
    \/ \E s \in Sessions : SessionStep(s) \/ SendTaskEnds(s)
    \/ \E r \in Reqs : RequestStep(r)
    \/ \E l \in listeners : Reap(l) \/ ListenerExits(l)
    \/ Restart

Spec == Init /\ [][Next]_vars

-----------------------------------------------------------------------------
(* Fairness.  The runtime polls every task that can go on, and the locks   *)
(* of tokio serve their waiters in order, so a process in the middle of a  *)
(* handler is not passed over forever at a lock that is free again and     *)
(* again: strong fairness of its next step.  What peers and clients do is  *)
(* not fair, and neither is the accept that lets a proxy see its channel.  *)

SessionProgress(s) ==
    \/ AuthPending(s) \/ AuthOnline(s) \/ AuthRegister(s)
    \/ ClosePending(s)
    \/ CleanupSenders(s) \/ CleanupOffline(s) \/ CleanupList(s)

RequestProgress(r) ==
    \/ CreateAllocate(r) \/ CreateConflict(r) \/ CreateInsert(r) \/ CreateNotify(r)
    \/ ToggleWrite(r) \/ ToggleNotify(r) \/ ToggleReserve(r)
    \/ UpdateWrite(r) \/ UpdateNotify(r)
    \/ DeleteNotify(r) \/ DeleteRow(r) \/ DeleteAgentSender(r) \/ DeleteAgentRow(r)
    \/ ClaimTake(r) \/ ClaimOnline(r) \/ ClaimRegister(r)

Progress(p) ==
    \/ TunnelStep(p) \/ QueueWriter(p)
    \/ p \in Sessions /\ SessionProgress(p)
    \/ p \in Reqs /\ RequestProgress(p)

Fairness == \A p \in Procs : SF_vars(Progress(p))

FairSpec == Spec /\ Fairness

-----------------------------------------------------------------------------
(* Properties. *)

AtRest(p) == pc[p] \in {"new", "recv", "gone", "idle"}

\* A task runs and no one has asked it to stop.
Running(l) == l.handle # "aborted"

(***************************************************************************)
(* The traffic of a tunnel goes only to a peer that presented, or was      *)
(* given, the token of the tunnel's agent: this holds of every proxy task  *)
(* and of every entry of agent_senders, through authentication, claims     *)
(* confirmed while the device waits, reconnections and restarts, as long   *)
(* as two agents are never given the same claim code.                      *)
(* ws_handler.rs 75-132, admin.rs 277-328, tunnel_manager.rs 12-66.        *)
(***************************************************************************)
TrafficToOwner ==
    /\ \A l \in listeners : l.agent \in sess[l.via].knows
    /\ \A a \in Agents, s \in Sessions : senders[a] = {s} => a \in sess[s].knows

(***************************************************************************)
(* A request that starts listeners keeps agent_senders locked for reading, *)
(* so the connection it starts them for is, until it returns, the one the  *)
(* agent is registered under: no disconnect, deletion or newer connection  *)
(* gets in between.  admin.rs 499-505, 549-554, 591-611.                   *)
(***************************************************************************)
StartsForRegistered ==
    \A r \in Reqs :
        (r \in held["senders"] /\ pc[r] \in {"start.stop", "start.bind", "start.insert"})
            => \A t \in job[r].cfg : senders[t.agent] = job[r].via

(***************************************************************************)
(* The foreign key of tunnels.agent_id: no row outlives its agent, however *)
(* creation and deletion interleave.  db.rs 403-407, admin.rs 468-481.     *)
(***************************************************************************)
RowsHaveAgents == \A t \in tunnels : \E x \in agents : x.id = t.agent

(***************************************************************************)
(* "Force public remote port to strictly be the user's dedicated_port",    *)
(* admin.rs 452: the port of a tunnel is its user's, and of no one else,   *)
(* whoever registers and creates at the same time, and after a restart.    *)
(* Two tunnels that end up on one port (OneTunnelPerPort) have one user.   *)
(* db.rs 116-152, admin.rs 452-481.                                        *)
(***************************************************************************)
PortsArePersonal ==
    /\ \A t \in tunnels : \E x \in users : x.id = t.user
    /\ \A t \in tunnels, x \in users : t.user = x.id <=> t.port = x.port

(***************************************************************************)
(* A tunnel that was deleted does not come back: an update or a toggle     *)
(* that read its row before the deletion changes nothing after it; a row   *)
(* appears only by the insertion of a creation that is in progress.        *)
(* db.rs 557-578, admin.rs 518-623.                                        *)
(***************************************************************************)
DeletedStaysDeleted ==
    [][\A t \in tunnels' :
          \/ \E x \in tunnels : x.id = t.id
          \/ \E r \in Reqs : pc[r] = "create.insert" /\ job[r].cfg = {t}]_vars

(***************************************************************************)
(* "If a listener task already exists for this tunnel, abort it first",    *)
(* tunnel_manager.rs 17: no proxy task is started beside another one of    *)
(* its tunnel, so the handle of a task is in tunnel_tasks, or in the hands *)
(* of the handler that just spawned it, and never dropped.                 *)
(***************************************************************************)
NoUnstoppableListener == \A l \in listeners : l.handle # "nobody"

(***************************************************************************)
(* "Stop all tunnel listeners for this agent", ws_handler.rs 251: after    *)
(* the clean-up of a connection, none of the tunnels of its agent is       *)
(* served through it.                                                      *)
(***************************************************************************)
StopsAllListeners ==
    \A s \in Sessions : pc[s] = "gone" =>
        \A l \in listeners :
            ~(Running(l) /\ l.via = s /\ l.agent \in sess[s].authed)

(***************************************************************************)
(* What of it the code delivers: nothing is left that can still be         *)
(* stopped, unless the row of the tunnel was deleted meanwhile.  This, and *)
(* NoDeadSender, are the code's only for connections that authenticate for *)
(* one agent while no claim is being confirmed: a claim registers a waiter *)
(* that may be over, see LeavesNoSender.                                   *)
(* ws_handler.rs 238-262, tunnel_manager.rs 69-75.                         *)
(***************************************************************************)
CleanupComplete ==
    \A s \in Sessions : pc[s] = "gone" =>
        \A l \in listeners :
            ( /\ l.handle \in Procs \cup {"tasks"}
              /\ l.via = s
              /\ l.agent \in sess[s].authed ) => \A t \in tunnels : t.id # l.tunnel

(***************************************************************************)
(* No agent is left registered under a connection that authenticated for   *)
(* it and is over.  ws_handler.rs 117-121, 238-243.                        *)
(***************************************************************************)
NoDeadSender ==
    \A s \in Sessions : pc[s] = "gone" =>
        \A a \in sess[s].authed : senders[a] # {s}

(***************************************************************************)
(* "Clean up on disconnect", ws_handler.rs 182: with no handler in         *)
(* progress, no agent is registered under a connection that is over,       *)
(* however it came to be registered.                                       *)
(***************************************************************************)
LeavesNoSender ==
    (\A p \in Procs : AtRest(p)) =>
        \A a \in Agents, s \in Sessions : senders[a] = {s} => pc[s] # "gone"

\* s authenticated for a and has not undone that yet.
Behind(s, a) ==
    /\ a \in sess[s].authed
    /\ pc[s] \notin {"gone", "clean.list", "stop.one", "stop.free"}

\* The database calls a online.
CalledOnline(a) == \E x \in agents : x.id = a /\ x.online

\* It does, and no connection is behind it.
Stale(a) ==
    /\ CalledOnline(a)
    /\ \A s \in Sessions : ~Behind(s, a)

(***************************************************************************)
(* is_online goes stale in three ways only.  The relay dies, and comes up  *)
(* without a reset of the column; a claim puts a device online that has    *)
(* not authenticated, and whose end will not be noticed; a connection      *)
(* authenticates as another agent, and forgets the one before.  A          *)
(* connection that ends, whenever it does and whatever others do then,     *)
(* leaves no agent online behind it.                                       *)
(* ws_handler.rs 108-115, 180-191 and 245-249, admin.rs 300-315.           *)
(***************************************************************************)
OnlineHasConnection ==
    [][\A a \in Agents : Stale(a)' =>
          \/ Stale(a)
          \/ Restart
          \/ \E r \in Reqs : pc[r] = "claim.online" /\ job[r].agent = {a}
          \/ \E s \in Sessions : Behind(s, a) /\ sess'[s].authed \notin {{}, {a}}]_vars

(***************************************************************************)
(* A claim code is confirmed once: an agent that has an owner keeps it,    *)
(* whoever sends the same code at the same time.  db.rs 282-310.           *)
(***************************************************************************)
OwnerIsFixed ==
    [][\A x \in agents, y \in agents' :
          (x.id = y.id /\ x.user # {}) => y.user = x.user]_vars

(***************************************************************************)
(* "If agent still has an active claim code, keep waiting for web          *)
(* confirmation", ws_handler.rs 83: with no handler in progress, a device  *)
(* that waits does so under a code the web can still confirm, unless the   *)
(* confirmation has reached it already.                                    *)
(***************************************************************************)
WaiterIsClaimable ==
    (\A p \in Procs : AtRest(p)) =>
        \A c \in Codes, s \in Sessions : pending[c] = {s} =>
            \/ \E x \in agents : x.claim = {c}
            \/ \E a \in Agents : senders[a] = {s}

(***************************************************************************)
(* "Your dedicated port is already used by another active tunnel",         *)
(* admin.rs 463: two tunnels that are enabled do not share a public port.  *)
(***************************************************************************)
OneTunnelPerPort ==
    \A t, u \in tunnels :
        (t.enabled /\ u.enabled /\ t.port = u.port) => t.id = u.id

(***************************************************************************)
(* "Load and start all configured tunnels for this agent",                 *)
(* ws_handler.rs 131: with no handler in progress, the enabled tunnels of  *)
(* a registered agent are served.                                          *)
(***************************************************************************)
EnabledAreServed ==
    (\A p \in Procs : AtRest(p)) =>
        \A t \in tunnels :
            (t.enabled /\ senders[t.agent] # {})
                => \E l \in listeners : l.tunnel = t.id /\ l.handle = "tasks"

\* Where a handler needs the lock: a reader of agent_senders waits for the writers
\* that queued before it, a writer for the readers.
NeedsDb == {"create.insert", "toggle.write", "update.write", "delete.row",
            "delete_agent.row", "claim.online", "auth.online", "clean.offline",
            "clean.list", "sync.list"}
NeedsPorts == {"create.allocate", "toggle.reserve", "sync.reserve", "stop.free"}
ReadsSenders == {"create.notify", "toggle.notify", "update.notify", "delete.notify"}
WritesSenders == {"auth.register", "clean.senders", "claim.register",
                  "delete_agent.sender"}

\* p cannot take its next step before q has given up a lock.
WaitsFor(p, q) ==
    \/ pc[p] \in NeedsDb /\ q \in held["db"]
    \/ pc[p] \in NeedsPorts /\ q \in held["allocated"]
    \/ pc[p] \in ReadsSenders /\ q \in held["writers"]
    \/ pc[p] \in WritesSenders /\ q \in held["senders"]

(***************************************************************************)
(* No deadlock: among any handlers, however many and wherever they are, is *)
(* one that waits for no lock that one of them holds, itself included.     *)
(* The locks are not taken in one order everywhere: a ban holds the        *)
(* database while it waits for allocated_ports, an update holds            *)
(* agent_senders while it waits for the database.                          *)
(* admin.rs 243-255, 499-511, 549-554, 591-617, ws_handler.rs 117-121.     *)
(***************************************************************************)
NoWaitCycle ==
    \A S \in SUBSET Procs :
        S # {} => \E p \in S : \A q \in S : ~WaitsFor(p, q)

\* The course of the handlers; the rows of a list are gone through in one stage.
Course == <<
    {"create.allocate", "toggle.write", "update.write", "delete_agent.sender",
     "claim.take", "auth.pending", "auth.online", "close.pending"},
    {"create.insert", "toggle.notify", "update.notify", "delete_agent.row",
     "claim.online", "auth.register", "clean.senders"},
    {"create.notify", "toggle.reserve", "claim.register", "clean.offline"},
    {"sync.list", "clean.list"},
    {"sync.reserve", "start.stop", "start.bind", "start.insert"},
    {"stop.one", "stop.free"},
    {"delete.notify"},
    {"delete.row"}>>

\* What is done for one row, up to the look at the next.
RowSteps == <<"start.stop", "start.bind", "start.insert", "sync.reserve",
              "stop.free", "stop.one">>

Later(p) == \E i, j \in 1..8 : i < j /\ pc[p] \in Course[i] /\ pc'[p] \in Course[j]

SameStage(p) == \E i \in 1..8 : {pc[p], pc'[p]} \subseteq Course[i]

NextRowStep(p) ==
    \E i, j \in 1..6 : i < j /\ pc[p] = RowSteps[i] /\ pc'[p] = RowSteps[j]

\* A step of p returns, enters a later stage, takes a row off the list, or goes
\* on with the row at hand.
Advances(p) ==
    \/ AtRest(p) \/ AtRest(p)'
    \/ UNCHANGED <<pc[p], job[p]>>
    \/ Later(p)
    \/ /\ SameStage(p)
       /\ \/ job'[p].todo \subseteq job[p].todo /\ job'[p].todo # job[p].todo
          \/ job'[p].todo = job[p].todo /\ NextRowStep(p)

(***************************************************************************)
(* No handler starts over: whatever it finds, a bind that fails, a lock it *)
(* must wait for, a row that is gone, each of its steps returns, enters a  *)
(* later stage, takes a row off its list, or goes on with the row at hand; *)
(* the list is read once.  So the steps it takes until it returns are at   *)
(* most those of the stages and of the rows it listed, whatever others do: *)
(* a handler that does not end is one that waits for a lock.               *)
(* tunnel_manager.rs 12-66, ws_handler.rs 75-133 and 194-264, admin.rs.    *)
(***************************************************************************)
HandlersAdvance == [][\A p \in Procs : Advances(p)]_vars

(***************************************************************************)
(* Every handler comes to its end: no two of them wait for each other's    *)
(* locks, and none is kept out of a lock forever.                          *)
(***************************************************************************)
HandlersReturn == \A p \in Procs : ~AtRest(p) ~> AtRest(p)

-----------------------------------------------------------------------------
(* The control plane implements Custody: the stage of an agent is in its   *)
(* row, and its traffic goes to the connection it is registered under and  *)
(* to those its proxy tasks were started for.                              *)

RowOf(a) == {x \in agents : x.id = a}

StageOf(a) ==
    IF a \notin issued THEN "unknown"
    ELSE IF RowOf(a) = {} THEN "removed"
    ELSE IF \E x \in RowOf(a) : x.claim # {} THEN "waiting"
    ELSE "owned"

OwnerOf(a) == UNION {x.user : x \in RowOf(a)}

Reach == {<<l.agent, l.via>> : l \in listeners}
            \cup UNION {{a} \X senders[a] : a \in Agents}

Book == INSTANCE Custody WITH
            Peers <- Sessions,
            stage <- [a \in Agents |-> StageOf(a)],
            owner <- [a \in Agents |-> OwnerOf(a)],
            keys  <- [s \in Sessions |-> sess[s].knows],
            reach <- Reach

(***************************************************************************)
(* Every step of a connection, a request or a proxy task is a step of      *)
(* Custody or changes nothing it knows of: an agent is served only through *)
(* a peer with its token, and not while it waits for a user to confirm its *)
(* claim, which happens once.  ws_handler.rs 50-133, admin.rs 277-398,     *)
(* tunnel_manager.rs 12-66.                                                *)
(***************************************************************************)
ImplementsCustody == Book!Spec
=============================================================================
