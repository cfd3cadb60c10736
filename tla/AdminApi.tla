------------------------------ MODULE AdminApi ------------------------------
(***************************************************************************)
(* The handlers of admin.rs that change agents, tunnels or their           *)
(* listeners.  A process r of Reqs serves one request after the other.     *)
(* Each handler takes the locks it needs one after the other and looks at  *)
(* nothing a second time: what a step finds may be gone in the next.       *)
(***************************************************************************)
EXTENDS TunnelManager

Idle(r) == pc[r] = "idle"

Begin(r, label, locals) ==
    /\ Goto(r, label)
    /\ job' = [job EXCEPT ![r] = locals]

-----------------------------------------------------------------------------
(* POST /api/register.  A session token only lets a user act, so a user     *)
(* without one is a user that does not act.                                 *)

\* The port is chosen and the row inserted under one lock.  A name that is taken,
\* or no free port, changes nothing.  In a range of one port the draw divides by
\* zero, and the panic drops the request.
Register(r) ==
    /\ "register" \in Ops
    /\ Idle(r)
    /\ Unlocked("db")
    /\ Ports # {LastPort}
    /\ \E u \in Users, p \in DedicatedPorts :
          /\ \A x \in users : x.id # u
          /\ users' = users \cup {[id |-> u, port |-> p, banned |-> FALSE]}
    /\ UNCHANGED <<agents, tunnels, issued, allocated, senders, pending, listeners,
                   held, sess, pc, job>>

-----------------------------------------------------------------------------
(* POST /api/tunnels.  The handler checks neither whose the agent is nor   *)
(* whether it still exists.                                                *)

\* Faulty: takes the preferred_port of the request.
CreateCheckPreferred(r) ==
    /\ "create" \in Ops
    /\ Idle(r)
    /\ Unlocked("db")
    /\ \E u \in users, a \in Agents \cap issued, p \in Ports, t \in Tunnels \ issued :
          /\ Begin(r, "create.allocate", [NoJob EXCEPT !.cfg =
                {[id |-> t, agent |-> a, user |-> u.id, proto |-> "tcp",
                  port |-> p, sub |-> {}, enabled |-> TRUE]}])
          /\ issued' = issued \cup {t}
    /\ UNCHANGED <<agents, tunnels, users, allocated, senders, pending,
                   listeners, held, sess>>

\* The id of the row to come is drawn here and used once.
CreateCheck(r) ==
    /\ "create" \in Ops
    /\ Idle(r)
    /\ Unlocked("db")
    /\ \E u \in users, a \in Agents \cap issued, proto \in Protocols,
          sub \in Opt(Subdomains), t \in Tunnels \ issued :
          /\ ~SubdomainTaken(sub, {})
          /\ Begin(r, "create.allocate", [NoJob EXCEPT !.cfg =
                {[id |-> t, agent |-> a, user |-> u.id, proto |-> proto,
                  port |-> u.port, sub |-> sub, enabled |-> TRUE]}])
          /\ issued' = issued \cup {t}
    /\ UNCHANGED <<agents, tunnels, users, allocated, senders, pending,
                   listeners, held, sess>>

\* allocate_port(Some(dedicated_port)): the user's own port or nothing.
CreateAllocate(r) ==
    /\ pc[r] = "create.allocate"
    /\ Unlocked("allocated")
    /\ \E t \in job[r].cfg :
          /\ t.port \notin allocated
          /\ allocated' = allocated \cup {t.port}
    /\ Goto(r, "create.insert")
    /\ UNCHANGED <<agents, tunnels, users, issued, senders, pending, listeners,
                   held, sess, job>>

CreateConflict(r) ==
    /\ pc[r] = "create.allocate"
    /\ Unlocked("allocated")
    /\ \E t \in job[r].cfg : t.port \in allocated
    /\ Return(r)
    /\ UNCHANGED <<agents, tunnels, users, issued, allocated, senders, pending,
                   listeners, sess>>

\* An INSERT for an agent that was deleted fails; the port stays allocated.
CreateInsert(r) ==
    /\ pc[r] = "create.insert"
    /\ Unlocked("db")
    /\ \E t \in job[r].cfg :
          IF AgentExists(t.agent)
            THEN /\ tunnels' = tunnels \cup {t}
                 /\ Goto(r, "create.notify")
                 /\ UNCHANGED <<job, held>>
            ELSE /\ Return(r)
                 /\ UNCHANGED tunnels
    /\ UNCHANGED <<agents, users, issued, allocated, senders, pending,
                   listeners, sess>>

\* agent_senders.read() is kept until the handler returns.
CreateNotify(r) ==
    /\ pc[r] = "create.notify"
    /\ Unlocked("writers")
    /\ \E t \in job[r].cfg :
          IF senders[t.agent] = {}
            THEN Return(r)
            ELSE /\ Begin(r, "start.stop", [job[r] EXCEPT !.via = senders[t.agent]])
                 /\ ReadSenders(r)
    /\ UNCHANGED <<agents, tunnels, users, issued, allocated, senders, pending,
                   listeners, sess>>

-----------------------------------------------------------------------------
(* POST /api/tunnels/:id/toggle. *)

\* cfg is the row with the state it is to have.
ToggleRead(r) ==
    /\ "toggle" \in Ops
    /\ Idle(r)
    /\ Unlocked("db")
    /\ \E t \in tunnels : Begin(r, "toggle.write", [NoJob EXCEPT !.cfg =
                                  {[t EXCEPT !.enabled = ~t.enabled]}])
    /\ UNCHANGED <<agents, tunnels, users, issued, allocated, senders, pending,
                   listeners, held, sess>>

\* Faulty: keeps the database locked to the end, as admin_ban_user does.
ToggleWriteKeepsDb(r) ==
    /\ pc[r] = "toggle.write"
    /\ Unlocked("db")
    /\ \E t \in job[r].cfg : tunnels' = SetTunnelEnabled(t.id, t.enabled)
    /\ Goto(r, "toggle.notify")
    /\ Acquire("db", r)
    /\ UNCHANGED <<agents, users, issued, allocated, senders, pending,
                   listeners, sess, job>>

ToggleWrite(r) ==
    /\ pc[r] = "toggle.write"
    /\ Unlocked("db")
    /\ \E t \in job[r].cfg : tunnels' = SetTunnelEnabled(t.id, t.enabled)
    /\ Goto(r, "toggle.notify")
    /\ UNCHANGED <<agents, users, issued, allocated, senders, pending,
                   listeners, held, sess, job>>

\* agent_senders.read() is kept until the handler returns.
ToggleNotify(r) ==
    /\ pc[r] = "toggle.notify"
    /\ ReadSenders(r)
    /\ \E t \in job[r].cfg :
          IF t.enabled
            THEN Begin(r, "toggle.reserve", [job[r] EXCEPT !.via = senders[t.agent]])
            ELSE Begin(r, "stop.one", [NoJob EXCEPT !.todo = {t}])
    /\ UNCHANGED <<agents, tunnels, users, issued, allocated, senders, pending,
                   listeners, sess>>

\* The port is inserted whether it was free or not, and allocated_ports stays
\* locked while the listener starts.
ToggleReserve(r) ==
    /\ pc[r] = "toggle.reserve"
    /\ Unlocked("allocated")
    /\ \E t \in job[r].cfg : allocated' = allocated \cup {t.port}
    /\ IF job[r].via = {}
         THEN Return(r)
         ELSE /\ Goto(r, "start.stop")
              /\ Acquire("allocated", r)
              /\ UNCHANGED job
    /\ UNCHANGED <<agents, tunnels, users, issued, senders, pending, listeners,
                   sess>>

-----------------------------------------------------------------------------
(* PUT /api/tunnels/:id.  The first read only tells which agent the tunnel *)
(* has, which never changes, so it and the check of the subdomain are one  *)
(* step.  "reproto" lets the request change the protocol.                  *)

UpdateCheck(r) ==
    /\ "update" \in Ops
    /\ Idle(r)
    /\ Unlocked("db")
    /\ \E t \in tunnels, proto \in Protocols, sub \in Opt(Subdomains) :
          /\ proto = t.proto \/ "reproto" \in Ops
          /\ ~SubdomainTaken(sub, {t.id})
          /\ Begin(r, "update.write", [NoJob EXCEPT !.agent = {t.agent},
                      !.cfg = {[t EXCEPT !.proto = proto, !.sub = sub]}])
    /\ UNCHANGED <<agents, tunnels, users, issued, allocated, senders, pending,
                   listeners, held, sess>>

\* Faulty: inserts the row when it is not there.
UpdateWriteInserts(r) ==
    /\ pc[r] = "update.write"
    /\ Unlocked("db")
    /\ \E t \in job[r].cfg : tunnels' = {x \in tunnels : x.id # t.id} \cup {t}
    /\ Goto(r, "update.notify")
    /\ UNCHANGED <<agents, users, issued, allocated, senders, pending,
                   listeners, held, sess, job>>

UpdateWrite(r) ==
    /\ pc[r] = "update.write"
    /\ Unlocked("db")
    /\ \E t \in job[r].cfg : tunnels' = SetTunnel(t.id, t.proto, t.sub)
    /\ Goto(r, "update.notify")
    /\ UNCHANGED <<agents, users, issued, allocated, senders, pending,
                   listeners, held, sess, job>>

\* The whole sync of the agent runs with agent_senders.read() kept.
UpdateNotify(r) ==
    /\ pc[r] = "update.notify"
    /\ Unlocked("writers")
    /\ \E a \in job[r].agent :
          IF senders[a] = {}
            THEN Return(r)
            ELSE /\ Begin(r, "sync.list", [NoJob EXCEPT !.agent = {a},
                                                        !.via = senders[a]])
                 /\ ReadSenders(r)
    /\ UNCHANGED <<agents, tunnels, users, issued, allocated, senders, pending,
                   listeners, sess>>

-----------------------------------------------------------------------------
(* DELETE /api/tunnels/:id: stop, free the port, tell the agent, then       *)
(* delete the row.                                                         *)

DeleteRead(r) ==
    /\ "delete" \in Ops
    /\ Idle(r)
    /\ Unlocked("db")
    /\ \E t \in tunnels : Begin(r, "stop.one", [NoJob EXCEPT !.todo = {t},
                                                 !.ret = "delete.notify"])
    /\ UNCHANGED <<agents, tunnels, users, issued, allocated, senders, pending,
                   listeners, held, sess>>

\* agent_senders.read() is given back before the database is locked.
DeleteNotify(r) ==
    /\ pc[r] = "delete.notify"
    /\ Unlocked("writers")
    /\ Goto(r, "delete.row")
    /\ UNCHANGED <<agents, tunnels, users, issued, allocated, senders, pending,
                   listeners, held, sess, job>>

DeleteRow(r) ==
    /\ pc[r] = "delete.row"
    /\ Unlocked("db")
    /\ \E t \in job[r].cfg : tunnels' = {x \in tunnels : x.id # t.id}
    /\ Return(r)
    /\ UNCHANGED <<agents, users, issued, allocated, senders, pending,
                   listeners, sess>>

-----------------------------------------------------------------------------
(* DELETE /api/agents/:id: forget the sender, then the rows; no listener   *)
(* is stopped and no port freed.  The id comes with the request and is not *)
(* looked up.                                                              *)

DeleteAgent(r) ==
    /\ "delete_agent" \in Ops
    /\ Idle(r)
    /\ \E a \in Agents \cap issued :
          Begin(r, "delete_agent.sender", [NoJob EXCEPT !.agent = {a}])
    /\ UNCHANGED <<agents, tunnels, users, issued, allocated, senders, pending,
                   listeners, held, sess>>

DeleteAgentSender(r) ==
    /\ pc[r] = "delete_agent.sender"
    /\ \E a \in job[r].agent : WriteSenders(r, a, {})
    /\ Goto(r, "delete_agent.row")
    /\ UNCHANGED <<agents, tunnels, users, issued, allocated, pending,
                   listeners, sess, job>>

DeleteAgentRow(r) ==
    /\ pc[r] = "delete_agent.row"
    /\ Unlocked("db")
    /\ \E a \in job[r].agent :
          /\ tunnels' = tunnels \ ListTunnelsForAgent(a)
          /\ agents' = {x \in agents : x.id # a}
    /\ Return(r)
    /\ UNCHANGED <<users, issued, allocated, senders, pending, listeners, sess>>

-----------------------------------------------------------------------------
(* Banning and unbanning a user: the database stays locked through the loop. *)

Ban(r) ==
    /\ "ban" \in Ops
    /\ Idle(r)
    /\ Unlocked("db")
    /\ \E u \in Users :
          LET rows == ListTunnelsForUser(u)
          IN  /\ users' = SetBan(u, TRUE)
              /\ IF rows = {}
                   THEN UNCHANGED <<pc, job, held>>
                   ELSE /\ Begin(r, "stop.one", [NoJob EXCEPT !.todo = rows])
                        /\ Acquire("db", r)
    /\ UNCHANGED <<agents, tunnels, issued, allocated, senders, pending,
                   listeners, sess>>

Unban(r) ==
    /\ "ban" \in Ops
    /\ Idle(r)
    /\ Unlocked("db")
    /\ \E u \in Users : users' = SetBan(u, FALSE)
    /\ UNCHANGED <<agents, tunnels, issued, allocated, senders, pending,
                   listeners, held, sess, pc, job>>

-----------------------------------------------------------------------------
(* POST /api/claim/:code, and a token made in the dashboard. *)

ClaimRow(r) ==
    /\ "claim" \in Ops
    /\ Idle(r)
    /\ Unlocked("db")
    /\ \E u \in users, x \in agents :
          /\ x.claim # {}
          /\ agents' = (agents \ {x}) \cup {ClaimAgentToUser(x, u.id)}
          /\ Begin(r, "claim.take", [NoJob EXCEPT !.agent = {x.id}, !.code = x.claim])
    /\ UNCHANGED <<tunnels, users, issued, allocated, senders, pending,
                   listeners, held, sess>>

\* Faulty: takes a device that waits, whatever its code.
ClaimTakeAny(r) ==
    /\ pc[r] = "claim.take"
    /\ \E c \in Codes :
          /\ pending[c] # {}
          /\ pending' = [pending EXCEPT ![c] = {}]
          /\ Begin(r, "claim.online", [job[r] EXCEPT !.via = pending[c]])
    /\ UNCHANGED <<agents, tunnels, users, issued, allocated, senders,
                   listeners, held, sess>>

\* Whoever waits under the code is taken for the agent.
ClaimTake(r) ==
    /\ pc[r] = "claim.take"
    /\ \E c \in job[r].code :
          IF pending[c] = {}
            THEN Return(r) /\ UNCHANGED pending
            ELSE /\ pending' = [pending EXCEPT ![c] = {}]
                 /\ Begin(r, "claim.online", [job[r] EXCEPT !.via = pending[c]])
                 /\ UNCHANGED held
    /\ UNCHANGED <<agents, tunnels, users, issued, allocated, senders,
                   listeners, sess>>

ClaimOnline(r) ==
    /\ pc[r] = "claim.online"
    /\ Unlocked("db")
    /\ \E a \in job[r].agent : agents' = SetAgentOnline(a, TRUE)
    /\ Goto(r, "claim.register")
    /\ UNCHANGED <<tunnels, users, issued, allocated, senders, pending,
                   listeners, held, sess, job>>

ClaimRegister(r) ==
    /\ pc[r] = "claim.register"
    /\ \E a \in job[r].agent : WriteSenders(r, a, job[r].via)
    /\ Goto(r, "sync.list")
    /\ UNCHANGED <<agents, tunnels, users, issued, allocated, pending,
                   listeners, sess, job>>

\* A user without a device gets one that needs no claim.  The launcher scripts,
\* resolve_token_for_script, make it in the same way.
GenerateToken(r) ==
    /\ "token" \in Ops
    /\ Idle(r)
    /\ Unlocked("db")
    /\ \E u \in users, a \in Agents \ issued :
          /\ \A x \in agents : x.user # {u.id}
          /\ agents' = agents \cup {[id |-> a, user |-> {u.id}, claim |-> {},
                                     online |-> FALSE]}
          /\ issued' = issued \cup {a}
    /\ UNCHANGED <<tunnels, users, allocated, senders, pending, listeners,
                   held, sess, pc, job>>

-----------------------------------------------------------------------------
(* The client goes away: hyper drops the future of the handler at the      *)
(* await where it is.  A task it spawned runs on; a JoinHandle it had not   *)
(* stored yet is dropped.                                                   *)

Cancel(r) ==
    /\ "cancel" \in Ops
    /\ ~Idle(r)
    /\ listeners' = {IF l.handle = r THEN [l EXCEPT !.handle = "nobody"] ELSE l :
                        l \in listeners}
    /\ Return(r)
    /\ UNCHANGED <<agents, tunnels, users, issued, allocated, senders, pending,
                   sess>>

RequestStep(r) ==
    \/ CreateCheck(r) \/ CreateAllocate(r) \/ CreateConflict(r)
    \/ CreateInsert(r) \/ CreateNotify(r)
    \/ ToggleRead(r) \/ ToggleWrite(r) \/ ToggleNotify(r) \/ ToggleReserve(r)
    \/ UpdateCheck(r) \/ UpdateWrite(r) \/ UpdateNotify(r)
    \/ DeleteRead(r) \/ DeleteNotify(r) \/ DeleteRow(r)
    \/ DeleteAgent(r) \/ DeleteAgentSender(r) \/ DeleteAgentRow(r)
    \/ Ban(r) \/ Unban(r)
    \/ ClaimRow(r) \/ ClaimTake(r) \/ ClaimOnline(r) \/ ClaimRegister(r)
    \/ GenerateToken(r)
    \/ Register(r)
    \/ Cancel(r)
=============================================================================
