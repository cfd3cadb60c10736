---------------------------- MODULE AgentSession ----------------------------
(***************************************************************************)
(* ws_handler.rs: the WebSocket connection of an agent, from its upgrade   *)
(* to the clean-up after its last frame.  A connection handles one frame   *)
(* at a time; the steps of a handler are separated by the awaits on its    *)
(* locks.  Data, CloseConnection and Ping touch none of this state.        *)
(***************************************************************************)
EXTENDS TunnelManager

Connect(s) ==
    /\ pc[s] = "new"
    /\ sess' = [sess EXCEPT ![s].rx = TRUE]
    /\ Goto(s, "recv")
    /\ UNCHANGED <<agents, tunnels, users, issued, allocated, senders, pending,
                   listeners, held, job>>

\* send_task ends, and the channel of the connection is closed: writing to the
\* socket failed, or handle_socket left its loop and aborted it.
SendTaskEnds(s) ==
    /\ sess[s].rx
    /\ \/ "break" \in Ops
       \/ pc[s] \in {"close.pending", "clean.senders", "clean.offline",
                     "clean.list", "gone"}
       \/ job[s].ret = "gone"
    /\ sess' = [sess EXCEPT ![s].rx = FALSE]
    /\ UNCHANGED <<agents, tunnels, users, issued, allocated, senders, pending,
                   listeners, held, pc, job>>

-----------------------------------------------------------------------------
(* Frame RequestClaim. *)

\* The code has six random digits; with "collide" two draws may be equal.
FreshCode(c) == "collide" \in Ops \/ c \notin issued

\* The lock of the database is kept until the code is in pending_claims.
RequestClaim(s) ==
    /\ "request_claim" \in Ops
    /\ pc[s] = "recv"
    /\ Unlocked("db")
    /\ \E a \in Agents \ issued, c \in Codes :
          /\ FreshCode(c)
          /\ agents' = agents \cup {[id |-> a, user |-> {}, claim |-> {c},
                                     online |-> FALSE]}
          /\ issued' = issued \cup {a, c}
          /\ pending' = [pending EXCEPT ![c] = {s}]
          /\ sess' = [sess EXCEPT ![s].code = {c}, ![s].knows = @ \cup {a}]
    /\ UNCHANGED <<tunnels, users, allocated, senders, listeners, held, pc, job>>

-----------------------------------------------------------------------------
(* Frame Auth.  A token that is in no row changes nothing. *)

\* Faulty: lets a device in that still waits for its claim.
AuthReadUnclaimed(s) ==
    /\ pc[s] = "recv"
    /\ Unlocked("db")
    /\ \E r \in agents :
          /\ r.id \in sess[s].knows
          /\ sess' = [sess EXCEPT ![s].authed = {r.id}]
    /\ Goto(s, "auth.online")
    /\ UNCHANGED <<agents, tunnels, users, issued, allocated, senders, pending,
                   listeners, held, job>>

AuthRead(s) ==
    /\ pc[s] = "recv"
    /\ Unlocked("db")
    /\ \E r \in agents :
          /\ r.id \in sess[s].knows
          /\ \/ /\ r.claim # {}
                /\ sess' = [sess EXCEPT ![s].code = r.claim]
                /\ Goto(s, "auth.pending")
             \/ /\ r.claim = {}
                /\ sess' = [sess EXCEPT ![s].authed = {r.id}]
                /\ Goto(s, "auth.online")
    /\ UNCHANGED <<agents, tunnels, users, issued, allocated, senders, pending,
                   listeners, held, job>>

\* The agent is unclaimed: wait for the web confirmation of its code.
AuthPending(s) ==
    /\ pc[s] = "auth.pending"
    /\ \E c \in sess[s].code : pending' = [pending EXCEPT ![c] = {s}]
    /\ Goto(s, "recv")
    /\ UNCHANGED <<agents, tunnels, users, issued, allocated, senders,
                   listeners, held, sess, job>>

AuthOnline(s) ==
    /\ pc[s] = "auth.online"
    /\ Unlocked("db")
    /\ \E a \in sess[s].authed : agents' = SetAgentOnline(a, TRUE)
    /\ Goto(s, "auth.register")
    /\ UNCHANGED <<tunnels, users, issued, allocated, senders, pending,
                   listeners, held, sess, job>>

\* Register the sender, answer AuthSuccess, go on to sync_agent_tunnels.
AuthRegister(s) ==
    /\ pc[s] = "auth.register"
    /\ \E a \in sess[s].authed : WriteSenders(s, a, {s})
    /\ job' = [job EXCEPT ![s] = [NoJob EXCEPT !.agent = sess[s].authed,
                                               !.via = {s}]]
    /\ Goto(s, "sync.list")
    /\ UNCHANGED <<agents, tunnels, users, issued, allocated, pending,
                   listeners, sess>>

-----------------------------------------------------------------------------
(* The end of the connection, noticed at ws_receiver.next(). *)

\* Faulty: goes past the removal of the sender.
AfterPendingKeepsSender(s) == IF sess[s].authed = {} THEN "gone" ELSE "clean.offline"

AfterPending(s) == IF sess[s].authed = {} THEN "gone" ELSE "clean.senders"

Disconnect(s) ==
    /\ pc[s] = "recv"
    /\ Goto(s, IF sess[s].code # {} THEN "close.pending" ELSE AfterPending(s))
    /\ UNCHANGED <<agents, tunnels, users, issued, allocated, senders, pending,
                   listeners, held, sess, job>>

ClosePending(s) ==
    /\ pc[s] = "close.pending"
    /\ \E c \in sess[s].code : pending' = [pending EXCEPT ![c] = {}]
    /\ Goto(s, AfterPending(s))
    /\ UNCHANGED <<agents, tunnels, users, issued, allocated, senders,
                   listeners, held, sess, job>>

\* cleanup_agent.
CleanupSenders(s) ==
    /\ pc[s] = "clean.senders"
    /\ \E a \in sess[s].authed : WriteSenders(s, a, {})
    /\ Goto(s, "clean.offline")
    /\ UNCHANGED <<agents, tunnels, users, issued, allocated, pending,
                   listeners, sess, job>>

\* Faulty: the row keeps saying online.
CleanupOfflineForgets(s) ==
    /\ pc[s] = "clean.offline"
    /\ Goto(s, "clean.list")
    /\ UNCHANGED <<agents, tunnels, users, issued, allocated, senders, pending,
                   listeners, held, sess, job>>

CleanupOffline(s) ==
    /\ pc[s] = "clean.offline"
    /\ Unlocked("db")
    /\ \E a \in sess[s].authed : agents' = SetAgentOnline(a, FALSE)
    /\ Goto(s, "clean.list")
    /\ UNCHANGED <<tunnels, users, issued, allocated, senders, pending,
                   listeners, held, sess, job>>

\* All the rows of the agent, the disabled ones included.
CleanupList(s) ==
    /\ pc[s] = "clean.list"
    /\ Unlocked("db")
    /\ \E a \in sess[s].authed :
          LET rows == ListTunnelsForAgent(a)
          IN  IF rows = {}
                THEN Goto(s, "gone") /\ UNCHANGED job
                ELSE /\ Goto(s, "stop.one")
                     /\ job' = [job EXCEPT ![s] = [NoJob EXCEPT
                                  !.todo = rows, !.ret = "gone"]]
    /\ UNCHANGED <<agents, tunnels, users, issued, allocated, senders, pending,
                   listeners, held, sess>>

SessionStep(s) ==
    \/ Connect(s) \/ RequestClaim(s)
    \/ AuthRead(s) \/ AuthPending(s) \/ AuthOnline(s) \/ AuthRegister(s)
    \/ Disconnect(s) \/ ClosePending(s)
    \/ CleanupSenders(s) \/ CleanupOffline(s) \/ CleanupList(s)
=============================================================================
