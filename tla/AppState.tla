------------------------------ MODULE AppState ------------------------------
(***************************************************************************)
(* The state every part of the relay shares: AppState of state.rs, the     *)
(* rows of the SQLite tables of db.rs, and the locks that are kept across  *)
(* an await.  A lock that is released before the next await is not in the  *)
(* model: the code between its acquisition and its release is one step.    *)
(*                                                                         *)
(* An Option<T> is a set with at most one element; a SQL table is a set of *)
(* records, each with an id.                                               *)
(***************************************************************************)
CONSTANTS
    Users,       \* ids of accounts
    Agents,      \* agent ids the database may hand out
    Tunnels,     \* tunnel ids the database may hand out
    Codes,       \* claim codes
    Subdomains,  \* subdomains, equal when they differ in case only
    Ports,       \* port_range, all of it at least 1024
    LastPort,    \* its end, which a random draw never gives
    Sessions,    \* WebSocket connections over the life of a behaviour
    Reqs,        \* HTTP requests served at the same time
    Tokens,      \* for a connection, the agents whose token its peer was given
    Ops,         \* the operations the environment performs, see below
    Users0, Agents0, Tunnels0  \* rows already in the database file

Procs == Sessions \cup Reqs

Opt(S) == {{}} \cup {{x} : x \in S}

Protocols == {"tcp", "udp"}

(***************************************************************************)
(* A row of table tunnels, without the name, the local port and the        *)
(* counters, which no code path reads to take a decision.                  *)
(***************************************************************************)
TunnelRow == [id: Tunnels, agent: Agents, user: Users, proto: Protocols,
              port: Ports, sub: Opt(Subdomains), enabled: BOOLEAN]

UserRow == [id: Users, port: Ports, banned: BOOLEAN]

AgentRow == [id: Agents, user: Opt(Users), claim: Opt(Codes), online: BOOLEAN]

ASSUME ProcsDisjoint ==
    /\ Sessions \cap Reqs = {}
    /\ Procs \cap {"tasks", "nobody", "aborted"} = {}
\* The ids are drawn with Uuid::new_v4, a code has six digits.
ASSUME IdsDistinct == Agents \cap (Tunnels \cup Codes) = {}
ASSUME LastPortType == LastPort \in Ports
ASSUME TokensType == Tokens \in [Sessions -> SUBSET Agents]
ASSUME Rows0Type == /\ Users0 \subseteq UserRow /\ Agents0 \subseteq AgentRow
                    /\ Tunnels0 \subseteq TunnelRow

VARIABLES
    agents,     \* table agents
    tunnels,    \* table tunnels
    users,      \* table users
    issued,     \* ids and codes drawn so far: Uuid::new_v4 never repeats one
    allocated,  \* allocated_ports
    senders,    \* agent_senders: the connection an agent is reached through
    pending,    \* pending_claims: the connection that waits under a code
    listeners,  \* running proxy tasks; tunnel_tasks is the part with "tasks"
    held,       \* who holds a lock across an await
    sess,       \* the locals of handle_socket, per connection
    pc, job     \* where a connection or a request is, and its other locals

vars == <<agents, tunnels, users, issued, allocated, senders, pending,
          listeners, held, sess, pc, job>>

(***************************************************************************)
(* A proxy task.  handle says where its JoinHandle is: in a local of the   *)
(* process that just spawned it, in tunnel_tasks, dropped (the task runs   *)
(* on and nothing can abort it), or aborted: abort() was called and the    *)
(* runtime has not dropped the task, and its socket, yet.                  *)
(***************************************************************************)
Listener == [tunnel: Tunnels, agent: Agents, proto: Protocols, port: Ports,
             via: Sessions, handle: Procs \cup {"tasks", "nobody", "aborted"}]

SessionLocals == [authed: Opt(Agents),    \* authenticated_agent_id
                  code: Opt(Codes),       \* current_claim_code
                  rx: BOOLEAN,            \* send_task lives: tx is not closed
                  knows: SUBSET Agents]   \* tokens the peer can present

SessionLabels == {"new", "recv", "auth.pending", "auth.online", "auth.register",
                  "close.pending", "clean.senders", "clean.offline",
                  "clean.list", "gone"}
ReqLabels == {"idle", "create.allocate", "create.insert", "create.notify",
              "toggle.write", "toggle.notify", "toggle.reserve",
              "update.write", "update.notify", "delete.notify", "delete.row",
              "delete_agent.sender", "delete_agent.row", "claim.take",
              "claim.online", "claim.register"}
SharedLabels == {"sync.list", "sync.reserve", "start.stop", "start.bind",
                 "start.insert", "stop.one", "stop.free"}
Labels == SessionLabels \cup ReqLabels \cup SharedLabels

(***************************************************************************)
(* The locals of a handler: rows its loop has still to visit, the tunnel   *)
(* at hand, the channel it was given, the agent and the code it serves,    *)
(* and what follows a loop that stops listeners.                           *)
(***************************************************************************)
Job == [todo: SUBSET TunnelRow, cfg: Opt(TunnelRow), via: Opt(Sessions),
        agent: Opt(Agents), code: Opt(Codes),
        ret: {"home", "gone", "delete.notify"}]

NoJob == [todo |-> {}, cfg |-> {}, via |-> {}, agent |-> {}, code |-> {},
          ret |-> "home"]

\* "senders" is held by readers of agent_senders; "writers" are the processes
\* that queue to write it, whom tokio serves before any later reader.
Locks == {"db", "senders", "writers", "allocated"}

TypeOK ==
    /\ agents \subseteq AgentRow
    /\ tunnels \subseteq TunnelRow
    /\ users \subseteq UserRow
    /\ issued \subseteq Agents \cup Tunnels \cup Codes
    /\ allocated \subseteq Ports
    /\ senders \in [Agents -> Opt(Sessions)]
    /\ pending \in [Codes -> Opt(Sessions)]
    /\ listeners \subseteq Listener
    /\ held \in [Locks -> SUBSET Procs]
    /\ sess \in [Sessions -> SessionLocals]
    /\ pc \in [Procs -> Labels]
    /\ job \in [Procs -> Job]

Init ==
    /\ agents = Agents0
    /\ tunnels = Tunnels0
    /\ users = Users0
    /\ issued = {r.id : r \in Agents0 \cup Tunnels0}
                 \cup UNION {r.claim : r \in Agents0}
    /\ allocated = {}
    /\ senders = [a \in Agents |-> {}]
    /\ pending = [c \in Codes |-> {}]
    /\ listeners = {}
    /\ held = [k \in Locks |-> {}]
    /\ sess = [s \in Sessions |-> [authed |-> {}, code |-> {}, rx |-> FALSE,
                                   knows |-> Tokens[s]]]
    /\ pc = [p \in Procs |-> IF p \in Sessions THEN "new" ELSE "idle"]
    /\ job = [p \in Procs |-> NoJob]

-----------------------------------------------------------------------------
(* Control flow of a handler. *)

Goto(p, label) == pc' = [pc EXCEPT ![p] = label]

\* A handler returns: its locals go, and with them the guards it still holds.
Finish(p, label) ==
    /\ pc' = [pc EXCEPT ![p] = label]
    /\ job' = [job EXCEPT ![p] = NoJob]
    /\ held' = [k \in Locks |-> held[k] \ {p}]

\* Where a handler returns to: the receive loop, or the end of the request.
Home(p) == IF p \in Sessions THEN "recv" ELSE "idle"

Return(p) == Finish(p, Home(p))

Unlocked(lock) == held[lock] = {}

Acquire(lock, p) == held' = [held EXCEPT ![lock] = @ \cup {p}]

\* A writer finds readers in agent_senders and queues.
QueueWriter(p) ==
    /\ pc[p] \in {"auth.register", "clean.senders", "claim.register", "delete_agent.sender"}
    /\ ~Unlocked("senders")
    /\ p \notin held["writers"]
    /\ Acquire("writers", p)
    /\ UNCHANGED <<agents, tunnels, users, issued, allocated, senders, pending,
                   listeners, sess, pc, job>>

\* Faulty: the entry collects connections, or readers are not waited for.
WriteSendersKeepsOld(p, a, via) ==
    /\ Unlocked("senders")
    /\ senders' = [senders EXCEPT ![a] = @ \cup via]
    /\ held' = [held EXCEPT !["writers"] = @ \ {p}]
WriteSendersUnlocked(p, a, via) ==
    /\ senders' = [senders EXCEPT ![a] = via]
    /\ held' = [held EXCEPT !["writers"] = @ \ {p}]

\* senders.write(), for a write that is over before the next await.
WriteSenders(p, a, via) ==
    /\ Unlocked("senders")
    /\ senders' = [senders EXCEPT ![a] = via]
    /\ held' = [held EXCEPT !["writers"] = @ \ {p}]

\* senders.read(), kept until the handler returns.
ReadSenders(p) == Unlocked("writers") /\ Acquire("senders", p)

-----------------------------------------------------------------------------
(* Queries and updates of db.rs. *)

FreePorts == Ports \ {x.port : x \in users}

\* generate_unique_dedicated_port: the draws leave out the end of the range, the
\* search that follows them does not.
DedicatedPorts ==
    IF FreePorts \subseteq {LastPort} THEN FreePorts ELSE FreePorts \ {LastPort}

SetAgentOnline(a, on) ==
    {IF r.id = a THEN [r EXCEPT !.online = on] ELSE r : r \in agents}

\* Faulty: leaves out the disabled rows, as sync_agent_tunnels does.
ListEnabledTunnelsForAgent(a) == {t \in tunnels : t.agent = a /\ t.enabled}

ListTunnelsForAgent(a) == {t \in tunnels : t.agent = a}

ListTunnelsForUser(u) == {t \in tunnels : t.user = u}

SetTunnelEnabled(t, on) ==
    {IF r.id = t THEN [r EXCEPT !.enabled = on] ELSE r : r \in tunnels}

SetTunnel(t, proto, sub) ==
    {IF r.id = t THEN [r EXCEPT !.proto = proto, !.sub = sub] ELSE r :
        r \in tunnels}

\* A subdomain is compared with the rows of the other tunnels.
SubdomainTaken(sub, except) ==
    \E r \in tunnels : r.id \notin except /\ sub # {} /\ r.sub = sub

\* Faulty: the code stays.
ClaimKeepsCode(x, u) == [x EXCEPT !.user = {u}]

\* claim_agent_to_user: the code is given up when the owner is set.
ClaimAgentToUser(x, u) == [x EXCEPT !.user = {u}, !.claim = {}]

\* toggle_user_ban.
SetBan(u, on) == {IF x.id = u THEN [x EXCEPT !.banned = on] ELSE x : x \in users}

\* Faulty: any id that was drawn passes.
AgentWasIssued(a) == a \in issued

\* tunnels.agent_id references agents(id).  No PRAGMA turns foreign keys on; the
\* SQLite that rusqlite bundles (Cargo.toml 11) is built with them on.
AgentExists(a) == \E r \in agents : r.id = a

=============================================================================
