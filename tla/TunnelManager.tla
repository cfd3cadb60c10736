---------------------------- MODULE TunnelManager ----------------------------
(***************************************************************************)
(* tunnel_manager.rs and the loops that call it: start and stop the proxy  *)
(* task of a tunnel, and the life of such a task.  Every operator below is *)
(* a step of process p, a connection or a request, whose job says what it  *)
(* works on.  The steps of one call of start_tunnel_listener are           *)
(*     start.stop  ->  start.bind  ->  start.insert                        *)
(* with other processes in between: each takes the lock of tunnel_tasks,   *)
(* or goes to the operating system, anew.                                  *)
(***************************************************************************)
EXTENDS AppState

\* stop_tunnel_listener: take the handle out of tunnel_tasks and abort it.
StopListener(t) ==
    {IF l.tunnel = t /\ l.handle = "tasks" THEN [l EXCEPT !.handle = "aborted"]
                                           ELSE l : l \in listeners}

\* The socket stays bound until the task is gone, an aborted one included.
Bound(proto, port) ==
    \E l \in listeners : l.proto = proto /\ l.port = port

\* The caller of start_tunnel_listener ignores its result and takes the next
\* row of its loop, or returns after the last one.
NextRow(p) ==
    IF job[p].todo = {}
      THEN Return(p)
      ELSE /\ Goto(p, "sync.reserve")
           /\ job' = [job EXCEPT ![p].cfg = {}]
           /\ UNCHANGED held

StartStop(p) ==
    /\ pc[p] = "start.stop"
    /\ \E t \in job[p].cfg : listeners' = StopListener(t.id)
    /\ Goto(p, "start.bind")
    /\ UNCHANGED <<agents, tunnels, users, issued, allocated, senders, pending,
                   held, sess, job>>

\* bind succeeds and the proxy task is spawned at once.
StartBind(p) ==
    /\ pc[p] = "start.bind"
    /\ \E t \in job[p].cfg, s \in job[p].via :
          /\ ~Bound(t.proto, t.port)
          /\ listeners' = listeners \cup
                {[tunnel |-> t.id, agent |-> t.agent, proto |-> t.proto,
                  port |-> t.port, via |-> s, handle |-> p]}
    /\ Goto(p, "start.insert")
    /\ UNCHANGED <<agents, tunnels, users, issued, allocated, senders, pending,
                   held, sess, job>>

\* Faulty: tries again until the address is free.
StartBindRetries(p) ==
    /\ pc[p] = "start.bind"
    /\ \E t \in job[p].cfg : Bound(t.proto, t.port) \/ "bind_fails" \in Ops
    /\ Goto(p, "start.stop")
    /\ UNCHANGED <<agents, tunnels, users, issued, allocated, senders, pending,
                   listeners, held, sess, job>>

\* The address is in use: by a task of the relay, or by another program when
\* the environment does "bind_fails".
StartBindFails(p) ==
    /\ pc[p] = "start.bind"
    /\ \E t \in job[p].cfg : Bound(t.proto, t.port) \/ "bind_fails" \in Ops
    /\ NextRow(p)
    /\ UNCHANGED <<agents, tunnels, users, issued, allocated, senders, pending,
                   listeners, sess>>

\* tasks.insert: a handle that was in the map for this tunnel is dropped,
\* which detaches its task.
InsertTask(p, t) ==
    {CASE l.handle = p -> [l EXCEPT !.handle = "tasks"]
       [] l.handle = "tasks" /\ l.tunnel = t -> [l EXCEPT !.handle = "nobody"]
       [] OTHER -> l : l \in listeners}

StartInsert(p) ==
    /\ pc[p] = "start.insert"
    /\ \E t \in job[p].cfg : listeners' = InsertTask(p, t.id)
    /\ NextRow(p)
    /\ UNCHANGED <<agents, tunnels, users, issued, allocated, senders, pending,
                   sess>>

-----------------------------------------------------------------------------
(* sync_agent_tunnels.  ORDER BY created_at has the granularity of a second *)
(* and no tie-break: the rows come in any order.  A disabled row is only    *)
(* listed to the agent.                                                     *)

SyncList(p) ==
    /\ pc[p] = "sync.list"
    /\ Unlocked("db")
    /\ LET rows == {t \in tunnels : t.agent \in job[p].agent /\ t.enabled}
       IN  IF rows = {}
             THEN Return(p)
             ELSE /\ Goto(p, "sync.reserve")
                  /\ job' = [job EXCEPT ![p].todo = rows]
                  /\ UNCHANGED held
    /\ UNCHANGED <<agents, tunnels, users, issued, allocated, senders, pending,
                   listeners, sess>>

SyncReserve(p) ==
    /\ pc[p] = "sync.reserve"
    /\ Unlocked("allocated")
    /\ \E t \in job[p].todo :
          /\ allocated' = allocated \cup {t.port}
          /\ job' = [job EXCEPT ![p].cfg = {t}, ![p].todo = @ \ {t}]
    /\ Goto(p, "start.stop")
    /\ UNCHANGED <<agents, tunnels, users, issued, senders, pending, listeners,
                   held, sess>>

-----------------------------------------------------------------------------
(* The loop "stop the listener, free the port" of a disconnect, a ban, a    *)
(* deletion or a switch-off.                                                *)

StopOne(p) ==
    /\ pc[p] = "stop.one"
    /\ \E t \in job[p].todo :
          /\ listeners' = StopListener(t.id)
          /\ job' = [job EXCEPT ![p].cfg = {t}, ![p].todo = @ \ {t}]
    /\ Goto(p, "stop.free")
    /\ UNCHANGED <<agents, tunnels, users, issued, allocated, senders, pending,
                   held, sess>>

\* After the last row: a connection that closed is done, a deletion goes on,
\* any other handler returns.
LoopEnds(p) ==
    CASE job[p].ret = "gone" -> Finish(p, "gone")
      [] job[p].ret = "delete.notify" -> Goto(p, "delete.notify")
                                         /\ UNCHANGED <<job, held>>
      [] OTHER -> Return(p)

\* free_port removes the number, whoever inserted it.
FreeOne(p) ==
    /\ pc[p] = "stop.free"
    /\ Unlocked("allocated")
    /\ \E t \in job[p].cfg : allocated' = allocated \ {t.port}
    /\ IF job[p].todo = {} THEN LoopEnds(p)
                           ELSE Goto(p, "stop.one") /\ UNCHANGED <<job, held>>
    /\ UNCHANGED <<agents, tunnels, users, issued, senders, pending, listeners,
                   sess>>

-----------------------------------------------------------------------------
(* The proxy tasks. *)

\* The runtime drops an aborted task, and its socket with it.
Reap(l) ==
    /\ l.handle = "aborted"
    /\ listeners' = listeners \ {l}
    /\ UNCHANGED <<agents, tunnels, users, issued, allocated, senders, pending,
                   held, sess, pc, job>>

\* A proxy sees that its channel is closed, which it looks at only after a
\* client came.  A handle of a task that ended has no effect any more.
ListenerExits(l) ==
    /\ ~sess[l.via].rx
    /\ listeners' = listeners \ {l}
    /\ UNCHANGED <<agents, tunnels, users, issued, allocated, senders, pending,
                   held, sess, pc, job>>

TunnelStep(p) ==
    \/ StartStop(p) \/ StartBind(p) \/ StartBindFails(p) \/ StartInsert(p)
    \/ SyncList(p) \/ SyncReserve(p)
    \/ StopOne(p) \/ FreeOne(p)
=============================================================================
