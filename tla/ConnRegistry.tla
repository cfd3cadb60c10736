---------------------------- MODULE ConnRegistry ----------------------------
(***************************************************************************)
(* The data path of one tunnel: what its clients, its proxy task, the      *)
(* receive loop of ws_handler.rs and the device share.  The tunnel is a    *)
(* TCP or a UDP tunnel; a connection is a TCP stream, or the traffic of    *)
(* one UDP address.  A connection is written as its id: ids are fresh and  *)
(* a stream, or an address, gets one only.  Chunks are the pieces in which *)
(* bytes are read, numbered from 1 in both directions.                     *)
(*                                                                         *)
(* The channel to the device is unbounded and ordered.  It is represented  *)
(* by all that was ever put into it, per connection, of which the device   *)
(* has received a part; nothing looks at the order between connections.    *)
(***************************************************************************)
EXTENDS Naturals, Sequences

CONSTANTS
    Conns,      \* client connections over the life of a behaviour
    Protocols,  \* the protocols a tunnel may have
    MaxChunks,  \* bound: the chunks sent per connection and direction
    Ops         \* what the environment does beside sending, see below

ASSUME ProtocolsType == Protocols \subseteq {"tcp", "udp"}
ASSUME MaxChunksType == MaxChunks \in Nat

VARIABLES
    proto,      \* the protocol of the tunnel, fixed from the start
    listener,   \* the proxy task: where its loop is
    cur,        \* its connection at hand
    client,     \* the client's end of a connection
    csent,      \* chunks the client sent: the device of the socket has them
    nread,      \* chunks the relay read of them
    task,       \* the spawned task of a connection
    registry,   \* tcp_conn_senders: its keys
    log,        \* what was put into the channel to the device
    view,       \* what the device received of it
    dsent,      \* chunks the device sent for a connection
    dclosed,    \* the connections the device sent CloseConnection for
    handled,    \* frames of the device for a connection that were handled
    rx,         \* chunks on their way to the task of a connection
    out,        \* chunks on their way from there to the socket
    got,        \* chunks that reached the client
    sending,    \* send_task lives: the channel to the device is not closed
    receiving   \* the receive loop of the device's WebSocket lives

vars == <<proto, listener, cur, client, csent, nread, task, registry, log, view,
          dsent, dclosed, handled, rx, out, got, sending, receiving>>

peers == <<client, csent, view, dsent, dclosed>>
link == <<sending, receiving>>

\* RelayMessage::NewConnection, Data and CloseConnection.
New == <<"new", 0>>
Data(n) == <<"data", n>>
Close == <<"close", 0>>
Message == {"new", "data", "close"} \X Nat

ListenerStates == {"accept", "register", "select", "traffic", "stopped"}
TaskStates == {"none", "accepted", "loop", "writing", "closing", "done",
               "dropped", "register", "pump"}

TypeOK ==
    /\ proto \in Protocols
    /\ listener \in ListenerStates
    /\ cur \in {{}} \cup {{c} : c \in Conns}
    /\ client \in [Conns -> {"away", "open", "eof", "gone"}]
    /\ csent \in [Conns -> Nat]
    /\ nread \in [Conns -> Nat]
    /\ task \in [Conns -> TaskStates]
    /\ registry \subseteq Conns
    /\ log \in [Conns -> Seq(Message)]
    /\ view \in [Conns -> Seq(Message)]
    /\ dsent \in [Conns -> Nat]
    /\ dclosed \subseteq Conns
    /\ handled \in [Conns -> Nat]
    /\ rx \in [Conns -> Seq(Nat)]
    /\ out \in [Conns -> Seq(Nat)]
    /\ got \in [Conns -> Seq(Nat)]
    /\ sending \in BOOLEAN
    /\ receiving \in BOOLEAN

Init ==
    /\ proto \in Protocols
    /\ listener = IF proto = "tcp" THEN "accept" ELSE "select"
    /\ cur = {}
    /\ client = [c \in Conns |-> "away"]
    /\ csent = [c \in Conns |-> 0]
    /\ nread = [c \in Conns |-> 0]
    /\ task = [c \in Conns |-> "none"]
    /\ registry = {}
    /\ log = [c \in Conns |-> <<>>]
    /\ view = [c \in Conns |-> <<>>]
    /\ dsent = [c \in Conns |-> 0]
    /\ dclosed = {}
    /\ handled = [c \in Conns |-> 0]
    /\ rx = [c \in Conns |-> <<>>]
    /\ out = [c \in Conns |-> <<>>]
    /\ got = [c \in Conns |-> <<>>]
    /\ sending = TRUE
    /\ receiving = TRUE

\* Faulty: puts the kind of a message without what it carries.
PutKind(c, m) ==
    log' = IF sending THEN [log EXCEPT ![c] = Append(@, m[1])] ELSE log

\* send on the channel to the device: an error when the channel is closed.
Put(c, m) ==
    log' = IF sending THEN [log EXCEPT ![c] = Append(@, m)] ELSE log

\* The top of a proxy's loop: agent_sender.is_closed().
LoopTop(state) == IF sending THEN state ELSE "stopped"

-----------------------------------------------------------------------------
(* Clients.  A TCP client may close its sending side ("eof") or go away;   *)
(* an address just stops.                                                  *)

Connect(c) ==
    /\ client[c] = "away"
    /\ listener # "stopped"
    /\ client' = [client EXCEPT ![c] = "open"]
    /\ UNCHANGED <<proto, listener, cur, csent, nread, task, registry, log, view,
                   dsent, dclosed, handled, rx, out, got, link>>

ClientSends(c) ==
    /\ client[c] = "open"
    /\ csent[c] < MaxChunks
    /\ csent' = [csent EXCEPT ![c] = @ + 1]
    /\ UNCHANGED <<proto, listener, cur, client, nread, task, registry, log, view,
                   dsent, dclosed, handled, rx, out, got, link>>

ClientCloses(c) ==
    /\ proto = "tcp"
    /\ \/ client[c] = "open" /\ client' = [client EXCEPT ![c] = "eof"]
       \/ client[c] \in {"open", "eof"} /\ client' = [client EXCEPT ![c] = "gone"]
    /\ UNCHANGED <<proto, listener, cur, csent, nread, task, registry, log, view,
                   dsent, dclosed, handled, rx, out, got, link>>

-----------------------------------------------------------------------------
(* The device.  It speaks of connections it was told of and that are open. *)

DeviceGets(c) ==
    /\ sending
    /\ Len(view[c]) < Len(log[c])
    /\ view' = [view EXCEPT ![c] = Append(@, log[c][Len(@) + 1])]
    /\ UNCHANGED <<proto, listener, cur, client, csent, nread, task, registry, log,
                   dsent, dclosed, handled, rx, out, got, link>>

Speaks(c) ==
    /\ receiving
    /\ view[c] # <<>>
    /\ view[c][Len(view[c])] # Close
    /\ c \notin dclosed

DeviceSends(c) ==
    /\ Speaks(c)
    /\ dsent[c] < MaxChunks
    /\ dsent' = [dsent EXCEPT ![c] = @ + 1]
    /\ UNCHANGED <<proto, listener, cur, client, csent, nread, task, registry, log,
                   view, dclosed, handled, rx, out, got, link>>

DeviceCloses(c) ==
    /\ Speaks(c)
    /\ dclosed' = dclosed \cup {c}
    /\ UNCHANGED <<proto, listener, cur, client, csent, nread, task, registry, log,
                   view, dsent, handled, rx, out, got, link>>

-----------------------------------------------------------------------------
(* The WebSocket.  handle_socket handles one frame after the other.        *)

\* Faulty: a full channel drops the chunk.
FrameDataDrops(c) ==
    /\ receiving
    /\ handled[c] < dsent[c]
    /\ handled' = [handled EXCEPT ![c] = @ + 1]
    /\ rx' = IF c \in registry /\ rx[c] = <<>> THEN [rx EXCEPT ![c] = <<handled[c] + 1>>]
                                               ELSE rx
    /\ UNCHANGED <<proto, listener, cur, task, registry, log, nread, out, got, link,
                   peers>>

\* A chunk for a connection that is not in the registry is dropped.
FrameData(c) ==
    /\ receiving
    /\ handled[c] < dsent[c]
    /\ handled' = [handled EXCEPT ![c] = @ + 1]
    /\ rx' = IF c \in registry THEN [rx EXCEPT ![c] = Append(@, handled[c] + 1)]
                               ELSE rx
    /\ UNCHANGED <<proto, listener, cur, task, registry, log, nread, out, got, link,
                   peers>>

\* CloseConnection removes the entry and with it the sender of rx.
FrameClose(c) ==
    /\ receiving
    /\ c \in dclosed
    /\ handled[c] = dsent[c]
    /\ handled' = [handled EXCEPT ![c] = @ + 1]
    /\ registry' = registry \ {c}
    /\ UNCHANGED <<proto, listener, cur, task, log, nread, rx, out, got, link, peers>>

\* The frame CloseConnection of the device was handled.
CloseHandled(c) == c \in dclosed /\ handled[c] > dsent[c]

\* Writing to the socket fails, or handle_socket left its loop and aborts
\* send_task: what is still in the channel is lost.
SendTaskEnds ==
    /\ sending
    /\ "break" \in Ops \/ ~receiving
    /\ sending' = FALSE
    /\ UNCHANGED <<proto, listener, cur, task, registry, log, nread, handled, rx, out,
                   got, receiving, peers>>

ReceiveLoopEnds ==
    /\ "disconnect" \in Ops
    /\ receiving
    /\ receiving' = FALSE
    /\ UNCHANGED <<proto, listener, cur, task, registry, log, nread, handled, rx, out,
                   got, sending, peers>>
=============================================================================
