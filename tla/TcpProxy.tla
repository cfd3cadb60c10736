------------------------------ MODULE TcpProxy ------------------------------
(***************************************************************************)
(* tcp_proxy.rs: the accept loop of a TCP tunnel, and the task it spawns   *)
(* for every client, a select over the client's bytes and the device's.    *)
(* record_traffic decides nothing and is left out.                         *)
(***************************************************************************)
EXTENDS ConnRegistry

-----------------------------------------------------------------------------
(* The accept loop.  The device is told of the client first; the entry in  *)
(* the registry comes when its lock is there.                              *)

\* The channel is closed: the loop ends and the stream is dropped.
Accept(c) ==
    /\ listener = "accept"
    /\ client[c] # "away" /\ task[c] = "none"
    /\ Put(c, New)
    /\ IF sending
         THEN listener' = "register" /\ cur' = {c} /\ task' = [task EXCEPT ![c] = "accepted"]
         ELSE listener' = "stopped" /\ cur' = {} /\ task' = [task EXCEPT ![c] = "dropped"]
    /\ UNCHANGED <<proto, nread, registry, handled, rx, out, got, link, peers>>

Register ==
    /\ listener = "register"
    /\ registry' = registry \cup cur
    /\ task' = [c \in Conns |-> IF c \in cur THEN "loop" ELSE task[c]]
    /\ listener' = LoopTop("accept")
    /\ cur' = {}
    /\ UNCHANGED <<proto, nread, log, handled, rx, out, got, link, peers>>

-----------------------------------------------------------------------------
(* The task of a client. *)

\* Faulty: leaves the loop without a word to the device.
BreakSilently(c) ==
    /\ task' = [task EXCEPT ![c] = "closing"]
    /\ UNCHANGED log

\* Out of the loop: CloseConnection is sent, then the registry is waited for.
Break(c) ==
    /\ task' = [task EXCEPT ![c] = "closing"]
    /\ Put(c, Close)

ReadChunk(c) ==
    /\ task[c] = "loop"
    /\ nread[c] < csent[c]
    /\ nread' = [nread EXCEPT ![c] = @ + 1]
    /\ IF sending THEN Put(c, Data(nread[c] + 1)) /\ UNCHANGED task
                  ELSE Break(c)
    /\ UNCHANGED <<proto, listener, cur, registry, handled, rx, out, got, link, peers>>

\* Ok(0) after the last chunk, or an error when the client is gone.
ReadEnds(c) ==
    /\ task[c] = "loop"
    /\ \/ client[c] = "eof" /\ nread[c] = csent[c]
       \/ client[c] = "gone"
    /\ Break(c)
    /\ UNCHANGED <<proto, listener, cur, nread, registry, handled, rx, out, got, link,
                   peers>>

\* When the entry is gone and rx is empty, this branch is switched off; the
\* loop goes on with the other one.
TakeChunk(c) ==
    /\ task[c] = "loop"
    /\ rx[c] # <<>>
    /\ rx' = [rx EXCEPT ![c] = Tail(@)]
    /\ out' = [out EXCEPT ![c] = <<Head(rx[c])>>]
    /\ task' = [task EXCEPT ![c] = "writing"]
    /\ UNCHANGED <<proto, listener, cur, nread, registry, log, handled, got, link, peers>>

\* write_all returns when the client took the chunk, which it need not do;
\* what is written to a client that is gone goes nowhere.
WriteChunk(c) ==
    /\ task[c] = "writing"
    /\ got' = IF client[c] = "gone" THEN got ELSE [got EXCEPT ![c] = @ \o out[c]]
    /\ out' = [out EXCEPT ![c] = <<>>]
    /\ task' = [task EXCEPT ![c] = "loop"]
    /\ UNCHANGED <<proto, listener, cur, nread, registry, log, handled, rx, link, peers>>

WriteFails(c) ==
    /\ task[c] = "writing"
    /\ client[c] = "gone"
    /\ out' = [out EXCEPT ![c] = <<>>]
    /\ Break(c)
    /\ UNCHANGED <<proto, listener, cur, nread, registry, handled, rx, got, link, peers>>

\* Faulty: the entry stays.
UnregisterForgets(c) ==
    /\ task[c] = "closing"
    /\ task' = [task EXCEPT ![c] = "done"]
    /\ UNCHANGED <<proto, listener, cur, nread, registry, log, handled, rx, out, got,
                   link, peers>>

\* The entry goes; the task ends and drops rx and the client's stream.
Unregister(c) ==
    /\ task[c] = "closing"
    /\ registry' = registry \ {c}
    /\ task' = [task EXCEPT ![c] = "done"]
    /\ UNCHANGED <<proto, listener, cur, nread, log, handled, rx, out, got, link, peers>>

TcpTask(c) ==
    \/ ReadChunk(c) \/ ReadEnds(c) \/ TakeChunk(c)
    \/ WriteChunk(c) \/ WriteFails(c) \/ Unregister(c)
=============================================================================
