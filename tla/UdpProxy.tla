------------------------------ MODULE UdpProxy ------------------------------
(***************************************************************************)
(* udp_proxy.rs: one loop over the socket and the answers of the device,   *)
(* and for every address a task that registers its connection and forwards *)
(* from the registry's channel to the loop.  The keys of addr_to_conn and  *)
(* conn_to_addr are the connections with a task: entries are never taken   *)
(* out while the loop runs.                                                *)
(***************************************************************************)
EXTENDS ConnRegistry

\* Faulty: an address that is not in the registry is taken for a new one.
UnknownUnlessRegistered(c) == c \notin registry /\ task[c] # "register"

\* The address is not in addr_to_conn.
Unknown(c) == task[c] = "none"

\* A datagram: a new address gets a connection, which is announced, and its
\* task.  Errors of send are ignored.
Datagram(c) ==
    /\ listener = "select"
    /\ nread[c] < csent[c]
    /\ nread' = [nread EXCEPT ![c] = @ + 1]
    /\ IF Unknown(c)
         THEN task' = [task EXCEPT ![c] = "register"] /\ Put(c, New)
         ELSE UNCHANGED <<task, log>>
    /\ listener' = "traffic"
    /\ cur' = {c}
    /\ UNCHANGED <<proto, registry, handled, rx, out, got, link, peers>>

\* After record_traffic.
Forward(c) ==
    /\ listener = "traffic"
    /\ c \in cur
    /\ Put(c, Data(nread[c]))
    /\ listener' = LoopTop("select")
    /\ cur' = {}
    /\ UNCHANGED <<proto, nread, task, registry, handled, rx, out, got, link, peers>>

\* A datagram of the device goes to the address of its connection.  It may be
\* lost: an error of send_to is ignored, and the loop goes on.
Reply(c) ==
    /\ listener = "select"
    /\ out[c] # <<>>
    /\ ~Unknown(c)
    /\ out' = [out EXCEPT ![c] = Tail(@)]
    /\ \/ got' = [got EXCEPT ![c] = Append(@, Head(out[c]))]
       \/ UNCHANGED got
    /\ listener' = LoopTop("select")
    /\ UNCHANGED <<proto, cur, nread, task, registry, log, handled, rx, link, peers>>

-----------------------------------------------------------------------------
(* The task of an address.  It outlives the loop: when the loop is gone,   *)
(* what it forwards is dropped.                                            *)

RegisterAddress(c) ==
    /\ task[c] = "register"
    /\ registry' = registry \cup {c}
    /\ task' = [task EXCEPT ![c] = "pump"]
    /\ UNCHANGED <<proto, listener, cur, nread, log, handled, rx, out, got, link, peers>>

\* Faulty: ends while chunks are queued.
PumpStopsEarly(c) == c \notin registry

\* recv returns None: the entry is gone and nothing is queued.
RxEnds(c) == c \notin registry /\ rx[c] = <<>>

Pump(c) ==
    /\ task[c] = "pump"
    /\ rx[c] # <<>>
    /\ rx' = [rx EXCEPT ![c] = Tail(@)]
    /\ out' = IF listener = "stopped" THEN out
                                      ELSE [out EXCEPT ![c] = Append(@, Head(rx[c]))]
    /\ UNCHANGED <<proto, listener, cur, nread, task, registry, log, handled, got, link,
                   peers>>

PumpEnds(c) ==
    /\ task[c] = "pump"
    /\ RxEnds(c)
    /\ task' = [task EXCEPT ![c] = "done"]
    /\ UNCHANGED <<proto, listener, cur, nread, registry, log, handled, rx, out, got,
                   link, peers>>

UdpTask(c) == RegisterAddress(c) \/ Pump(c) \/ PumpEnds(c)
=============================================================================
