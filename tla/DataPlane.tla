----------------------------- MODULE DataPlane -----------------------------
(***************************************************************************)
(* One tunnel with its clients and its device: the proxy of its protocol,  *)
(* the frames of the device, and the ends of either side.                  *)
(***************************************************************************)
EXTENDS TcpProxy, UdpProxy

\* stop_tunnel_listener, or the end of an update: the proxy task is dropped at
\* the await where it is, with the stream it has just accepted.  The tasks of
\* its connections run on.
Stop ==
    /\ "stop" \in Ops
    /\ listener # "stopped"
    /\ listener' = "stopped"
    /\ cur' = {}
    /\ task' = [c \in Conns |-> IF task[c] = "accepted" THEN "dropped" ELSE task[c]]
    /\ UNCHANGED <<proto, nread, registry, log, handled, rx, out, got, link, peers>>

Environment ==
    \/ \E c \in Conns :
          \/ Connect(c) \/ ClientSends(c) \/ ClientCloses(c)
          \/ DeviceGets(c) \/ DeviceSends(c) \/ DeviceCloses(c)
    \/ SendTaskEnds \/ ReceiveLoopEnds \/ Stop

Next ==
    \/ Environment
    \/ \E c \in Conns : FrameData(c) \/ FrameClose(c)
    \/ \E c \in Conns : Accept(c) \/ TcpTask(c)
    \/ Register
    \/ \E c \in Conns : Datagram(c) \/ Forward(c) \/ Reply(c) \/ UdpTask(c)

Spec == Init /\ [][Next]_vars

\* The runtime polls the tasks of the relay whose event is there.  A client
\* need not take what is written to it, and peers do as they like.
Fairness ==
    /\ WF_vars(Register)
    /\ \A c \in Conns :
          /\ WF_vars(FrameData(c) \/ FrameClose(c))
          /\ WF_vars(ReadChunk(c) \/ ReadEnds(c) \/ TakeChunk(c) \/ Unregister(c))
          /\ WF_vars(client[c] = "gone" /\ (WriteChunk(c) \/ WriteFails(c)))
          /\ WF_vars(UdpTask(c))

FairSpec == Spec /\ Fairness

-----------------------------------------------------------------------------
(* Properties. *)

(***************************************************************************)
(* The data path implements Circuits: a connection is announced once and   *)
(* first, the device gets what the client sent without a gap, nothing      *)
(* follows its end, and what a client gets of the device's chunks comes in *)
(* order and once: over TCP one piece of them, over UDP with any datagram  *)
(* missing whose send_to failed.  This is so in spite of a registration    *)
(* that may come late, closes from both sides, a channel or a listener     *)
(* that ends anywhere.                                                     *)
(* tcp_proxy.rs 23-95, udp_proxy.rs 38-88, ws_handler.rs 148-159.          *)
(***************************************************************************)
Abstract == INSTANCE Circuits WITH lossy <- (proto = "udp")
ImplementsCircuits == Abstract!Spec

Spawned(c) == task[c] \in {"loop", "writing", "closing", "pump"}

(***************************************************************************)
(* The registry and the tasks agree: an entry has a task that serves it,   *)
(* and a connection that is served has its entry unless the device closed  *)
(* it.  An address that is registered after the device closed it keeps     *)
(* both for good: see ForwarderEnds.                                       *)
(* tcp_proxy.rs 38-41 and 91-94, udp_proxy.rs 60-69, ws_handler.rs 156.    *)
(***************************************************************************)
RegistryMatchesTasks ==
    \A c \in Conns :
        /\ c \in registry => Spawned(c)
        /\ (Spawned(c) /\ c \notin registry) => CloseHandled(c)

\* What was read but not yet sent: the datagram at hand.
Unsent(c) == IF listener = "traffic" /\ c \in cur THEN 1 ELSE 0

\* The relay still sends what it reads from this connection.
Serving(c) ==
    \/ proto = "tcp" /\ task[c] \in {"accepted", "loop", "writing"}
    \/ proto = "udp" /\ task[c] # "none" /\ listener # "stopped"

\* Towards the client: what is on its way, and what was written to a stream.
Pipe(c) == IF proto = "tcp" THEN (got[c] \o out[c]) \o rx[c] ELSE out[c] \o rx[c]

\* Numbers up to n without a gap.
Run(s, n) ==
    /\ \A i \in 1..Len(s) : s[i] \in 1..n
    /\ \A i \in 1..(Len(s) - 1) : s[i + 1] = s[i] + 1

\* What is on its way still arrives.
Flowing(c) == IF proto = "tcp" THEN client[c] # "gone" ELSE listener # "stopped"

(***************************************************************************)
(* What is taken over is not lost while the connection is served: what was *)
(* read from the client is in the device's channel, and the frames that    *)
(* were handled for a registered connection are on their way without a     *)
(* gap, the last one at the end.  Losses are confined to the ends of a     *)
(* connection and, for UDP, to send_to.                                    *)
(* tcp_proxy.rs 53-81, udp_proxy.rs 38-88, ws_handler.rs 148-154.          *)
(***************************************************************************)
NothingLost ==
    \A c \in Conns :
        /\ sending /\ Serving(c) =>
              \A n \in 1..(nread[c] - Unsent(c)) :
                  n < Len(log[c]) /\ log[c][n + 1] = Data(n)
        /\ Flowing(c) => Run(Pipe(c), dsent[c])
        /\ c \in registry /\ Flowing(c) /\ Pipe(c) # <<>> =>
              Pipe(c)[Len(Pipe(c))] = handled[c]

(***************************************************************************)
(* A client that went away is noticed, even when its task is busy writing  *)
(* to it: its entry goes and the device is told, if it can still be told.  *)
(* tcp_proxy.rs 53-95.                                                     *)
(***************************************************************************)
ToldOfEnd(c) == log[c] # <<>> /\ log[c][Len(log[c])] = Close

GoneIsCleared ==
    \A c \in Conns :
        (client[c] = "gone" /\ task[c] \in {"loop", "writing"})
            ~> (c \notin registry /\ task[c] = "done" /\ (ToldOfEnd(c) \/ ~sending))

(***************************************************************************)
(* When the device closes the connection of an address that is registered, *)
(* the task ends, after what was sent before is taken out of its channel,  *)
(* and so does the entry, whatever became of the listener, unless the      *)
(* device's frames are no longer handled.  A close that is handled before  *)
(* the registration finds no entry; then task and entry stay for good.     *)
(* udp_proxy.rs 56-66, ws_handler.rs 148-159.                              *)
(***************************************************************************)
ForwarderEnds ==
    \A c \in Conns :
        LET ended == task[c] = "done" /\ c \notin registry /\ rx[c] = <<>>
        IN  /\ (task[c] = "pump" /\ c \notin registry) ~> ended
            /\ (task[c] = "pump" /\ c \in dclosed /\ ~CloseHandled(c))
                  ~> (ended \/ ~receiving)

(***************************************************************************)
(* "Close an active proxy connection", protocol.rs 33: a connection the    *)
(* device closes is ended for the client too, once all is written that the *)
(* device sent before.  tcp_proxy.rs 54 and 78.                            *)
(***************************************************************************)
DeviceCloseEndsClient ==
    \A c \in Conns :
        (task[c] = "loop" /\ CloseHandled(c) /\ c \notin registry /\ rx[c] = <<>>)
            ~> (task[c] = "done")
=============================================================================
