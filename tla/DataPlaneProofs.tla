-------------------------- MODULE DataPlaneProofs --------------------------
(***************************************************************************)
(* Proofs about DataPlane, for any number of connections and chunks.       *)
(***************************************************************************)
EXTENDS DataPlane, SequenceTheorems, TLAPS

-----------------------------------------------------------------------------
(* Types. *)

\* The messages are messages.
LEMMA MessageTypes ==
    New \in Message /\ Close \in Message /\ \A n \in Nat : Data(n) \in Message
  BY DEF New, Close, Data, Message

\* A sequence of a function that grows.
LEMMA AppendAt ==
    ASSUME NEW S, NEW D, NEW f \in [D -> Seq(S)], NEW d \in D, NEW e \in S
    PROVE  [f EXCEPT ![d] = Append(@, e)] \in [D -> Seq(S)]
  OBVIOUS

\* A sequence of a function that loses its head.
LEMMA TailAt ==
    ASSUME NEW S, NEW D, NEW f \in [D -> Seq(S)], NEW d \in D, f[d] # <<>>
    PROVE  [f EXCEPT ![d] = Tail(@)] \in [D -> Seq(S)] /\ Head(f[d]) \in S
  OBVIOUS

\* A counter of a function that is incremented.
LEMMA CountAt ==
    ASSUME NEW D, NEW f \in [D -> Nat], NEW d \in D
    PROVE  [f EXCEPT ![d] = @ + 1] \in [D -> Nat]
  OBVIOUS

\* What Put does to the type of the log.
LEMMA PutTypes ==
    ASSUME TypeOK, NEW c \in Conns, NEW m \in Message, Put(c, m)
    PROVE  log' \in [Conns -> Seq(Message)]
<1>1. log \in [Conns -> Seq(Message)]
  BY DEF TypeOK
<1>2. [log EXCEPT ![c] = Append(@, m)] \in [Conns -> Seq(Message)]
  BY <1>1, AppendAt
<1> QED
  BY <1>1, <1>2 DEF Put

\* The moves of clients and of the device keep the types.
LEMMA PeersType ==
    ASSUME TypeOK, NEW c \in Conns,
           Connect(c) \/ ClientSends(c) \/ ClientCloses(c)
           \/ DeviceGets(c) \/ DeviceSends(c) \/ DeviceCloses(c)
    PROVE  TypeOK'
<1>1. CASE Connect(c)
  BY <1>1 DEF TypeOK, Connect, link
<1>2. CASE ClientSends(c)
  <2>1. csent' \in [Conns -> Nat]
    BY <1>2, CountAt DEF TypeOK, ClientSends
  <2> QED
    BY <1>2, <2>1 DEF TypeOK, ClientSends, link
<1>3. CASE ClientCloses(c)
  BY <1>3 DEF TypeOK, ClientCloses, link
<1>4. CASE DeviceGets(c)
  <2>1. log \in [Conns -> Seq(Message)] /\ view \in [Conns -> Seq(Message)]
    BY DEF TypeOK
  <2>2. Len(view[c]) + 1 \in 1..Len(log[c])
    BY <1>4, <2>1 DEF DeviceGets
  <2>3. log[c][Len(view[c]) + 1] \in Message
    BY <2>1, <2>2
  <2>4. [view EXCEPT ![c] = Append(@, log[c][Len(view[c]) + 1])] \in [Conns -> Seq(Message)]
    BY <2>1, <2>3, AppendAt
  <2>5. view' \in [Conns -> Seq(Message)]
    BY <1>4, <2>4 DEF DeviceGets
  <2> QED
    BY <1>4, <2>5 DEF TypeOK, DeviceGets, link
<1>5. CASE DeviceSends(c)
  <2>1. dsent' \in [Conns -> Nat]
    BY <1>5, CountAt DEF TypeOK, DeviceSends
  <2> QED
    BY <1>5, <2>1 DEF TypeOK, DeviceSends, link
<1>6. CASE DeviceCloses(c)
  BY <1>6 DEF TypeOK, DeviceCloses, link
<1> QED
  BY <1>1, <1>2, <1>3, <1>4, <1>5, <1>6

\* The frames and the ends of the WebSocket keep the types.
LEMMA SocketType ==
    ASSUME TypeOK,
           (\E c \in Conns : FrameData(c) \/ FrameClose(c))
           \/ SendTaskEnds \/ ReceiveLoopEnds
    PROVE  TypeOK'
<1>1. ASSUME NEW c \in Conns, FrameData(c) PROVE TypeOK'
  <2>1. [rx EXCEPT ![c] = Append(@, handled[c] + 1)] \in [Conns -> Seq(Nat)]
    BY AppendAt, SMTT(60) DEF TypeOK
  <2>2. rx' \in [Conns -> Seq(Nat)]
    BY <1>1, <2>1 DEF TypeOK, FrameData
  <2>3. handled' \in [Conns -> Nat]
    BY <1>1, CountAt DEF TypeOK, FrameData
  <2> QED
    BY <1>1, <2>2, <2>3 DEF TypeOK, FrameData, link, peers
<1>2. ASSUME NEW c \in Conns, FrameClose(c) PROVE TypeOK'
  <2>1. handled' \in [Conns -> Nat]
    BY <1>2, CountAt DEF TypeOK, FrameClose
  <2> QED
    BY <1>2, <2>1 DEF TypeOK, FrameClose, link, peers
<1>3. CASE SendTaskEnds
  BY <1>3 DEF TypeOK, SendTaskEnds, peers
<1>4. CASE ReceiveLoopEnds
  BY <1>4 DEF TypeOK, ReceiveLoopEnds, peers
<1> QED
  BY <1>1, <1>2, <1>3, <1>4

\* The accept loop of a TCP tunnel keeps the types.
LEMMA TcpListenerType ==
    ASSUME TypeOK, (\E c \in Conns : Accept(c)) \/ Register
    PROVE  TypeOK'
<1>1. ASSUME NEW c \in Conns, Accept(c) PROVE TypeOK'
  <2>1. log' \in [Conns -> Seq(Message)]
    BY <1>1, PutTypes, MessageTypes DEF Accept
  <2> QED
    BY <1>1, <2>1 DEF TypeOK, Accept, ListenerStates, TaskStates, link, peers
<1>2. CASE Register
  <2>1. task' \in [Conns -> TaskStates]
    BY <1>2 DEF TypeOK, Register, TaskStates
  <2>2. registry' \subseteq Conns
    BY <1>2 DEF TypeOK, Register
  <2> QED
    BY <1>2, <2>1, <2>2 DEF TypeOK, Register, LoopTop, ListenerStates, link, peers
<1> QED
  BY <1>1, <1>2

\* The task of a TCP client keeps the types.
LEMMA TcpTaskType ==
    ASSUME TypeOK, NEW c \in Conns, TcpTask(c)
    PROVE  TypeOK'
<1>1. ASSUME Break(c) PROVE task' \in [Conns -> TaskStates] /\ log' \in [Conns -> Seq(Message)]
  <2>1. log' \in [Conns -> Seq(Message)]
    BY <1>1, PutTypes, MessageTypes DEF Break
  <2> QED
    BY <1>1, <2>1 DEF Break, TypeOK, TaskStates
<1>2. CASE ReadChunk(c)
  <2>1. log' \in [Conns -> Seq(Message)] /\ task' \in [Conns -> TaskStates]
    <3>1. Data(nread[c] + 1) \in Message
      BY MessageTypes DEF TypeOK
    <3>2. CASE sending
      BY <1>2, <3>1, <3>2, PutTypes DEF ReadChunk, TypeOK
    <3>3. CASE ~sending
      BY <1>1, <1>2, <3>3 DEF ReadChunk
    <3> QED
      BY <3>2, <3>3
  <2>2. nread' \in [Conns -> Nat]
    BY <1>2, CountAt DEF TypeOK, ReadChunk
  <2> QED
    BY <1>2, <2>1, <2>2 DEF ReadChunk, TypeOK, link, peers
<1>3. CASE ReadEnds(c)
  BY <1>1, <1>3 DEF ReadEnds, TypeOK, link, peers
<1>4. CASE TakeChunk(c)
  <2>1. Head(rx[c]) \in Nat /\ [rx EXCEPT ![c] = Tail(@)] \in [Conns -> Seq(Nat)]
    BY <1>4, TailAt DEF TypeOK, TakeChunk
  <2>2. rx' \in [Conns -> Seq(Nat)] /\ out' \in [Conns -> Seq(Nat)]
    BY <1>4, <2>1 DEF TypeOK, TakeChunk
  <2> QED
    BY <1>4, <2>2 DEF TakeChunk, TypeOK, TaskStates, link, peers
<1>5. CASE WriteChunk(c)
  <2>1. [got EXCEPT ![c] = @ \o out[c]] \in [Conns -> Seq(Nat)]
    BY DEF TypeOK
  <2>2. got' \in [Conns -> Seq(Nat)] /\ out' \in [Conns -> Seq(Nat)]
    BY <1>5, <2>1, SMTT(60) DEF TypeOK, WriteChunk
  <2> QED
    BY <1>5, <2>2 DEF WriteChunk, TypeOK, TaskStates, link, peers
<1>6. CASE WriteFails(c)
  <2>1. out' \in [Conns -> Seq(Nat)]
    BY <1>6 DEF TypeOK, WriteFails
  <2> QED
    BY <1>1, <1>6, <2>1 DEF WriteFails, TypeOK, link, peers
<1>7. CASE Unregister(c)
  BY <1>7 DEF Unregister, TypeOK, TaskStates, link, peers
<1> QED
  BY <1>2, <1>3, <1>4, <1>5, <1>6, <1>7 DEF TcpTask

\* The loop and the tasks of a UDP tunnel keep the types.
LEMMA UdpType ==
    ASSUME TypeOK, NEW c \in Conns,
           Datagram(c) \/ Forward(c) \/ Reply(c) \/ UdpTask(c)
    PROVE  TypeOK'
<1>1. CASE Datagram(c)
  <2>1. log' \in [Conns -> Seq(Message)]
    <3>1. CASE Unknown(c)
      BY <1>1, <3>1, PutTypes, MessageTypes DEF Datagram
    <3>2. CASE ~Unknown(c)
      BY <1>1, <3>2 DEF Datagram, TypeOK
    <3> QED
      BY <3>1, <3>2
  <2>2. nread' \in [Conns -> Nat]
    BY <1>1, CountAt DEF TypeOK, Datagram
  <2>3. task' \in [Conns -> TaskStates]
    BY <1>1 DEF TypeOK, TaskStates, Datagram
  <2> QED
    BY <1>1, <2>1, <2>2, <2>3 DEF Datagram, TypeOK, ListenerStates, link, peers
<1>2. CASE Forward(c)
  <2>1. log' \in [Conns -> Seq(Message)]
    <3>1. Data(nread[c]) \in Message
      BY MessageTypes DEF TypeOK
    <3> QED
      BY <1>2, <3>1, PutTypes DEF Forward
  <2> QED
    BY <1>2, <2>1 DEF Forward, TypeOK, ListenerStates, TaskStates, LoopTop, link, peers
<1>3. CASE Reply(c)
  <2>1. /\ Head(out[c]) \in Nat
        /\ [out EXCEPT ![c] = Tail(@)] \in [Conns -> Seq(Nat)]
    BY <1>3, TailAt DEF TypeOK, Reply
  <2>2. [got EXCEPT ![c] = Append(@, Head(out[c]))] \in [Conns -> Seq(Nat)]
    BY <2>1, AppendAt DEF TypeOK
  <2>3. out' \in [Conns -> Seq(Nat)] /\ got' \in [Conns -> Seq(Nat)]
    BY <1>3, <2>1, <2>2 DEF Reply, TypeOK
  <2> QED
    BY <1>3, <2>3 DEF Reply, TypeOK, ListenerStates, TaskStates, LoopTop, link, peers
<1>4. CASE RegisterAddress(c)
  BY <1>4 DEF RegisterAddress, TypeOK, ListenerStates, TaskStates, LoopTop, link, peers
<1>5. CASE Pump(c)
  <2>1. Head(rx[c]) \in Nat /\ [rx EXCEPT ![c] = Tail(@)] \in [Conns -> Seq(Nat)]
    BY <1>5, TailAt DEF TypeOK, Pump
  <2>2. [out EXCEPT ![c] = Append(@, Head(rx[c]))] \in [Conns -> Seq(Nat)]
    BY <2>1, AppendAt DEF TypeOK
  <2>3. rx' \in [Conns -> Seq(Nat)] /\ out' \in [Conns -> Seq(Nat)]
    BY <1>5, <2>1, <2>2 DEF TypeOK, Pump
  <2> QED
    BY <1>5, <2>3 DEF Pump, TypeOK, ListenerStates, TaskStates, LoopTop, link, peers
<1>6. CASE PumpEnds(c)
  BY <1>6 DEF PumpEnds, TypeOK, ListenerStates, TaskStates, LoopTop, link, peers
<1> QED
  BY <1>1, <1>2, <1>3, <1>4, <1>5, <1>6 DEF UdpTask

\* The types hold at the start.
LEMMA TypeInit == Init => TypeOK
  BY ProtocolsType DEF Init, TypeOK, ListenerStates, TaskStates

\* The types are inductive.
LEMMA TypeNext == TypeOK /\ [Next]_vars => TypeOK'
<1> SUFFICES ASSUME TypeOK, [Next]_vars PROVE TypeOK'
  OBVIOUS
<1>1. CASE Stop
  BY <1>1 DEF TypeOK, Stop, ListenerStates, TaskStates, link, peers
<1>2. CASE UNCHANGED vars
  BY <1>2 DEF TypeOK, vars
<1> QED
  BY <1>1, <1>2, PeersType, SocketType, TcpListenerType, TcpTaskType, UdpType
     DEF Next, Environment

\* Every variable keeps its type, for any number of connections and chunks.
THEOREM DataTypes == Spec => []TypeOK
  BY TypeInit, TypeNext, PTL DEF Spec

-----------------------------------------------------------------------------
(* The registry and the tasks. *)

\* At the start there is neither.
LEMMA RegistryInit == Init => RegistryMatchesTasks
  BY DEF Init, RegistryMatchesTasks, Spawned

\* A step that changes neither the registry nor which tasks are spawned.
LEMMA RegistryFrame ==
    ASSUME RegistryMatchesTasks, registry' = registry,
           \A c \in Conns : /\ Spawned(c)' <=> Spawned(c)
                            /\ CloseHandled(c) => CloseHandled(c)'
    PROVE  RegistryMatchesTasks'
  BY DEF RegistryMatchesTasks

\* The handling of a close stays known.
LEMMA CloseStays ==
    ASSUME TypeOK, [Next]_vars, NEW c \in Conns, CloseHandled(c)
    PROVE  CloseHandled(c)'
<1> USE DEF TypeOK, CloseHandled, link, peers
<1>1. CASE \/ UNCHANGED vars \/ Stop \/ SendTaskEnds \/ ReceiveLoopEnds \/ Register
           \/ \E d \in Conns : \/ Connect(d) \/ ClientSends(d) \/ ClientCloses(d)
                               \/ DeviceGets(d) \/ Accept(d) \/ Datagram(d)
                               \/ Forward(d) \/ Reply(d)
  BY <1>1 DEF vars, Stop, SendTaskEnds, ReceiveLoopEnds, Register, Connect, ClientSends,
     ClientCloses, DeviceGets, Accept, Datagram, Forward, Reply
<1>2. CASE \E d \in Conns : TcpTask(d) \/ UdpTask(d)
  BY <1>2 DEF TcpTask, ReadChunk, ReadEnds, TakeChunk, WriteChunk, WriteFails, Unregister,
     UdpTask, RegisterAddress, Pump, PumpEnds
<1>3. CASE \E d \in Conns : DeviceSends(d) \/ DeviceCloses(d)
  BY <1>3 DEF DeviceSends, DeviceCloses, Speaks
<1>4. ASSUME NEW d \in Conns, FrameData(d) \/ FrameClose(d) PROVE CloseHandled(c)'
  <2>1. handled' = [handled EXCEPT ![d] = @ + 1] /\ dsent' = dsent /\ dclosed' = dclosed
    BY <1>4 DEF FrameData, FrameClose
  <2>2. handled'[c] >= handled[c]
    BY <2>1, SMTT(60)
  <2> QED
    BY <2>1, <2>2
<1> QED
  BY <1>1, <1>2, <1>3, <1>4 DEF Next, Environment

\* The agreement is inductive: whatever removes an entry while its task lives
\* is the handling of a close of the device.
LEMMA RegistryNext == TypeOK /\ RegistryMatchesTasks /\ [Next]_vars => RegistryMatchesTasks'
<1> SUFFICES ASSUME TypeOK, RegistryMatchesTasks, [Next]_vars
             PROVE  RegistryMatchesTasks'
  OBVIOUS
<1>0. \A c \in Conns : CloseHandled(c) => CloseHandled(c)'
  BY CloseStays
<1>1. CASE \/ UNCHANGED vars \/ SendTaskEnds \/ ReceiveLoopEnds
           \/ \E d \in Conns : \/ Connect(d) \/ ClientSends(d) \/ ClientCloses(d)
                               \/ DeviceGets(d) \/ DeviceSends(d) \/ DeviceCloses(d)
                               \/ FrameData(d) \/ Forward(d) \/ Reply(d) \/ Pump(d)
  <2>1. registry' = registry /\ task' = task
    BY <1>1 DEF vars, SendTaskEnds, ReceiveLoopEnds, Connect, ClientSends, ClientCloses,
       DeviceGets, DeviceSends, DeviceCloses, FrameData, Forward, Reply, Pump
  <2> QED
    BY <1>0, <2>1, RegistryFrame DEF Spawned
<1>2. CASE Stop
  <2>1. registry' = registry /\ \A c \in Conns : Spawned(c)' <=> Spawned(c)
    BY <1>2 DEF Stop, Spawned, TypeOK
  <2> QED
    BY <1>0, <2>1, RegistryFrame
<1>3. ASSUME NEW d \in Conns,
             Accept(d) \/ Datagram(d) \/ ReadChunk(d) \/ ReadEnds(d) \/ TakeChunk(d)
             \/ WriteChunk(d) \/ WriteFails(d)
      PROVE  RegistryMatchesTasks'
  <2>1. registry' = registry
    BY <1>3 DEF Accept, Datagram, ReadChunk, ReadEnds, TakeChunk, WriteChunk, WriteFails
  <2>2. \A c \in Conns : Spawned(c)' <=> Spawned(c)
    BY <1>3 DEF Accept, Datagram, Unknown, ReadChunk, ReadEnds, TakeChunk, WriteChunk,
       WriteFails, Break, Spawned, TypeOK
  <2> QED
    BY <1>0, <2>1, <2>2, RegistryFrame
<1>4. ASSUME NEW d \in Conns, FrameClose(d) PROVE RegistryMatchesTasks'
  <2>1. CloseHandled(d)'
    BY <1>4 DEF FrameClose, CloseHandled, TypeOK, peers
  <2> QED
    BY <1>0, <1>4, <2>1 DEF FrameClose, RegistryMatchesTasks, Spawned
<1>5. CASE Register
  BY <1>0, <1>5 DEF Register, RegistryMatchesTasks, Spawned, TypeOK
<1>6. ASSUME NEW d \in Conns, RegisterAddress(d) PROVE RegistryMatchesTasks'
  BY <1>0, <1>6 DEF RegisterAddress, RegistryMatchesTasks, Spawned, TypeOK
<1>7. ASSUME NEW d \in Conns, Unregister(d) \/ PumpEnds(d) PROVE RegistryMatchesTasks'
  BY <1>0, <1>7 DEF Unregister, PumpEnds, RxEnds, RegistryMatchesTasks, Spawned, TypeOK
<1> QED
  BY <1>1, <1>2, <1>3, <1>4, <1>5, <1>6, <1>7 DEF Next, Environment, TcpTask, UdpTask

\* An entry of tcp_conn_senders has a task that serves it, and a task that
\* serves a connection has its entry unless the device closed the connection.
THEOREM RegistryAgrees == Spec => []RegistryMatchesTasks
  BY TypeInit, TypeNext, RegistryInit, RegistryNext, PTL DEF Spec

-----------------------------------------------------------------------------
(* The invariants the refinement rests on. *)

\* Each protocol has its own states of the loop and of the tasks.
ProtocolFits ==
    /\ proto = "tcp" =>
          /\ listener \in {"accept", "register", "stopped"}
          /\ \A c \in Conns : task[c] \notin {"register", "pump"}
    /\ proto = "udp" =>
          /\ listener \in {"select", "traffic", "stopped"}
          /\ \A c \in Conns : task[c] \in {"none", "register", "pump", "done"}

\* The connection a loop has at hand is where the loop left it.
CurAtHand ==
    \A c \in cur :
        /\ listener = "register" => task[c] = "accepted"
        /\ listener = "traffic" => task[c] # "none" /\ nread[c] >= 1

\* The message at a place of the log: New, then the chunks, at most one Close.
EntryOK(c, i) ==
    \/ i = 1 /\ log[c][i] = New
    \/ i > 1 /\ i - 1 <= nread[c] /\ log[c][i] = Data(i - 1)
    \/ /\ i > 1 /\ i = Len(log[c]) /\ log[c][i] = Close
       /\ proto = "tcp" /\ task[c] \in {"closing", "done"}

\* Towards the device.
WireOK(c) ==
    /\ task[c] = "none" => log[c] = <<>> /\ nread[c] = 0
    /\ nread[c] <= csent[c]
    /\ \A i \in 1..Len(log[c]) : EntryOK(c, i)
    /\ sending /\ Serving(c) => Len(log[c]) = nread[c] + 1 - Unsent(c)

\* What the device received is a prefix of what was sent.
SeenOK(c) ==
    /\ Len(view[c]) <= Len(log[c])
    /\ \A i \in 1..Len(view[c]) : view[c][i] = log[c][i]

\* What an address got was handled, and lies before what is on its way: the
\* datagrams that send_to lost are missing between the two.
GotOK(c) ==
    /\ \A i \in 1..Len(Pipe(c)) : Pipe(c)[i] <= handled[c]
    /\ got[c] # <<>> =>
          /\ got[c][Len(got[c])] <= handled[c]
          /\ Pipe(c) # <<>> => got[c][Len(got[c])] < Pipe(c)[1]

\* Towards the client.
PipeOK(c) ==
    /\ task[c] \in {"none", "accepted", "dropped", "register"} => Pipe(c) = <<>>
    /\ proto = "tcp" => Len(out[c]) = IF task[c] = "writing" THEN 1 ELSE 0
    /\ c \notin dclosed => handled[c] <= dsent[c]
    /\ Flowing(c) =>
          /\ Run(Pipe(c), dsent[c])
          /\ c \in registry /\ Pipe(c) # <<>> => Pipe(c)[Len(Pipe(c))] = handled[c]
          /\ proto = "udp" => GotOK(c)

\* The shape of the loops holds at the start.
LEMMA ShapeInit == Init => ProtocolFits /\ CurAtHand
  BY DEF Init, ProtocolFits, CurAtHand

\* The shape of the loops is inductive.
LEMMA ShapeNext ==
    TypeOK /\ ProtocolFits /\ CurAtHand /\ [Next]_vars => ProtocolFits' /\ CurAtHand'
<1> SUFFICES ASSUME TypeOK, ProtocolFits, CurAtHand, [Next]_vars
             PROVE  ProtocolFits' /\ CurAtHand'
  OBVIOUS
<1> USE DEF ProtocolFits, CurAtHand
<1>1. CASE \/ UNCHANGED vars \/ SendTaskEnds \/ ReceiveLoopEnds
           \/ \E d \in Conns : \/ Connect(d) \/ ClientSends(d) \/ ClientCloses(d)
                               \/ DeviceGets(d) \/ DeviceSends(d) \/ DeviceCloses(d)
                               \/ FrameData(d) \/ FrameClose(d) \/ Pump(d)
  BY <1>1 DEF vars, SendTaskEnds, ReceiveLoopEnds, Connect, ClientSends, ClientCloses,
     DeviceGets, DeviceSends, DeviceCloses, FrameData, FrameClose, Pump, peers, link
<1>2. CASE Stop
  BY <1>2 DEF Stop, TypeOK
<1>3. ASSUME NEW d \in Conns, Accept(d) PROVE ProtocolFits' /\ CurAtHand'
  BY <1>3, ProtocolsType, SMTT(60) DEF Accept, TypeOK
<1>4. CASE Register
  <2>1. proto = "tcp" /\ proto' = proto /\ listener' \in {"accept", "stopped"} /\ cur' = {}
    BY <1>4, ProtocolsType DEF Register, LoopTop, TypeOK
  <2>2. \A c \in Conns : task'[c] \in {task[c], "loop"}
    BY <1>4 DEF Register
  <2> QED
    BY <2>1, <2>2
<1>5. ASSUME NEW d \in Conns, TcpTask(d) PROVE ProtocolFits' /\ CurAtHand'
  <2>1. task[d] \in {"loop", "writing", "closing"}
    BY <1>5 DEF TcpTask, ReadChunk, ReadEnds, TakeChunk, WriteChunk, WriteFails, Unregister
  <2>2. proto = "tcp"
    BY <2>1, ProtocolsType DEF TypeOK
  <2>3. proto' = proto /\ listener' = listener /\ cur' = cur
    BY <1>5 DEF TcpTask, ReadChunk, ReadEnds, TakeChunk, WriteChunk, WriteFails, Unregister
  <2>4. /\ \A c \in Conns \ {d} : task'[c] = task[c]
        /\ task'[d] \in {"loop", "writing", "closing", "done"}
    BY <1>5, <2>1 DEF TcpTask, ReadChunk, ReadEnds, TakeChunk, WriteChunk, WriteFails,
       Unregister, Break, TypeOK
  <2>5. ProtocolFits'
    BY <2>2, <2>3, <2>4
  <2>6. CurAtHand'
    BY <2>1, <2>2, <2>3, <2>4 DEF TypeOK
  <2> QED
    BY <2>5, <2>6
<1>6. ASSUME NEW d \in Conns, Datagram(d) PROVE ProtocolFits' /\ CurAtHand'
  <2>1. proto = "udp" /\ proto' = proto /\ listener' = "traffic" /\ cur' = {d}
    BY <1>6, ProtocolsType DEF Datagram, TypeOK
  <2>2. /\ \A c \in Conns \ {d} : task'[c] = task[c]
        /\ task'[d] = IF task[d] = "none" THEN "register" ELSE task[d]
    BY <1>6 DEF Datagram, Unknown, TypeOK
  <2>3. nread'[d] = nread[d] + 1 /\ nread[d] \in Nat
    BY <1>6 DEF Datagram, TypeOK
  <2> QED
    BY <2>1, <2>2, <2>3
<1>7. ASSUME NEW d \in Conns, Forward(d) \/ Reply(d) PROVE ProtocolFits' /\ CurAtHand'
  BY <1>7 DEF Forward, Reply, LoopTop, TypeOK
<1>8. ASSUME NEW d \in Conns, RegisterAddress(d) \/ PumpEnds(d)
      PROVE  ProtocolFits' /\ CurAtHand'
  <2>1. task[d] \in {"register", "pump"}
    BY <1>8 DEF RegisterAddress, PumpEnds
  <2>2. proto = "udp"
    BY <2>1, ProtocolsType DEF TypeOK
  <2>3. proto' = proto /\ listener' = listener /\ cur' = cur /\ nread' = nread
    BY <1>8 DEF RegisterAddress, PumpEnds
  <2>4. \A c \in Conns : task'[c] = task[c] \/ task'[c] \in {"pump", "done"}
    BY <1>8 DEF RegisterAddress, PumpEnds, TypeOK
  <2>5. ProtocolFits'
    BY <2>2, <2>3, <2>4
  <2>6. CurAtHand'
    BY <2>2, <2>3, <2>4 DEF TypeOK
  <2> QED
    BY <2>5, <2>6
<1> QED
  BY <1>1, <1>2, <1>3, <1>4, <1>5, <1>6, <1>7, <1>8 DEF Next, Environment, UdpTask

-----------------------------------------------------------------------------
(* Towards the device. *)

\* The log is empty at the start.
LEMMA WireInit == Init => \A c \in Conns : WireOK(c) /\ SeenOK(c)
<1> SUFFICES ASSUME Init, NEW c \in Conns PROVE WireOK(c) /\ SeenOK(c)
  OBVIOUS
<1>1. log[c] = <<>> /\ view[c] = <<>> /\ nread[c] = 0 /\ csent[c] = 0 /\ ~Serving(c)
  BY DEF Init, Serving
<1>2. Len(log[c]) = 0 /\ Len(view[c]) = 0 /\ 1..0 = {}
  BY <1>1
<1> QED
  BY <1>1, <1>2 DEF WireOK, SeenOK

\* A step that puts nothing for a connection and reads nothing of it.
LEMMA WireFrame ==
    ASSUME TypeOK, NEW d \in Conns, WireOK(d),
           proto' = proto, log'[d] = log[d], nread'[d] = nread[d],
           csent'[d] >= csent[d], csent'[d] \in Nat,
           task'[d] = "none" => task[d] = "none",
           task[d] \in {"closing", "done"} => task'[d] \in {"closing", "done"},
           sending' /\ Serving(d)' => sending /\ Serving(d) /\ Unsent(d)' = Unsent(d)
    PROVE  WireOK(d)'
<1>1. nread[d] \in Nat /\ csent[d] \in Nat
  BY DEF TypeOK
<1>2. \A i \in 1..Len(log[d]) : EntryOK(d, i)'
  BY DEF WireOK, EntryOK
<1> QED
  BY <1>1, <1>2 DEF WireOK

\* A step that puts one message for a connection.
LEMMA WirePut ==
    ASSUME TypeOK, NEW d \in Conns, WireOK(d), NEW m \in Message,
           proto' = proto, log'[d] = Append(log[d], m),
           nread'[d] \in Nat, nread'[d] >= nread[d], nread'[d] <= csent'[d],
           proto = "tcp" => task[d] \notin {"closing", "done"},
           task'[d] # "none",
           \/ log[d] = <<>> /\ m = New
           \/ Len(log[d]) \in 1..nread'[d] /\ m = Data(Len(log[d]))
           \/ /\ log[d] # <<>> /\ m = Close
              /\ proto = "tcp" /\ task'[d] = "closing",
           sending' /\ Serving(d)' => Len(log[d]) = nread'[d] - Unsent(d)'
    PROVE  WireOK(d)'
<1>1. nread[d] \in Nat /\ log[d] \in Seq(Message) /\ Len(log[d]) \in Nat
  BY DEF TypeOK
<1>2. /\ Len(log'[d]) = Len(log[d]) + 1
      /\ log'[d][Len(log[d]) + 1] = m
      /\ \A i \in 1..Len(log[d]) : log'[d][i] = log[d][i]
  BY <1>1
<1>3. ASSUME NEW i \in 1..Len(log[d]) PROVE EntryOK(d, i)'
  <2>1. EntryOK(d, i)
    BY DEF WireOK
  <2> QED
    BY <1>1, <1>2, <2>1 DEF EntryOK
<1>4. ASSUME NEW i \in Nat, i = Len(log[d]) + 1 PROVE EntryOK(d, i)'
  <2>1. log'[d][i] = m /\ Len(log'[d]) = i
    BY <1>2, <1>4
  <2>2. CASE log[d] = <<>> /\ m = New
    <3>1. i = 1
      BY <1>4, <2>2
    <3> QED
      BY <2>1, <2>2, <3>1 DEF EntryOK
  <2>3. CASE Len(log[d]) \in 1..nread'[d] /\ m = Data(Len(log[d]))
    <3>1. i > 1 /\ i - 1 = Len(log[d]) /\ i - 1 <= nread'[d]
      BY <1>1, <1>4, <2>3
    <3> QED
      BY <2>1, <2>3, <3>1 DEF EntryOK
  <2>4. CASE log[d] # <<>> /\ m = Close /\ proto = "tcp" /\ task'[d] = "closing"
    <3>1. i > 1
      BY <1>1, <1>4, <2>4
    <3> QED
      BY <2>1, <2>4, <3>1 DEF EntryOK
  <2> QED
    BY <2>2, <2>3, <2>4
<1>5. \A i \in 1..Len(log'[d]) : i \in 1..Len(log[d]) \/ (i \in Nat /\ i = Len(log[d]) + 1)
  BY <1>1, <1>2
<1>6. \A i \in 1..Len(log'[d]) : EntryOK(d, i)'
  BY <1>3, <1>4, <1>5
<1>7. Unsent(d)' \in {0, 1}
  BY DEF Unsent
<1> QED
  BY <1>1, <1>2, <1>6, <1>7 DEF WireOK

\* Steps that put nothing.
LEMMA WireQuiet ==
    ASSUME TypeOK, ProtocolFits, CurAtHand, NEW d \in Conns, WireOK(d),
           \/ UNCHANGED vars \/ SendTaskEnds \/ ReceiveLoopEnds \/ Stop \/ Register
           \/ \E c \in Conns :
                 \/ Connect(c) \/ ClientSends(c) \/ ClientCloses(c)
                 \/ DeviceGets(c) \/ DeviceSends(c) \/ DeviceCloses(c)
                 \/ FrameData(c) \/ FrameClose(c) \/ Reply(c) \/ UdpTask(c)
                 \/ TakeChunk(c) \/ WriteChunk(c) \/ Unregister(c)
    PROVE  WireOK(d)'
<1> USE DEF link, peers
<1>0. csent[d] \in Nat /\ task \in [Conns -> TaskStates]
  BY DEF TypeOK
<1>1. CASE ReceiveLoopEnds \/ UNCHANGED vars
  BY <1>0, <1>1, WireFrame DEF ReceiveLoopEnds, vars, Serving, Unsent
<1>2. CASE SendTaskEnds
  BY <1>0, <1>2, WireFrame DEF SendTaskEnds
<1>3. CASE Stop
  BY <1>0, <1>3, WireFrame DEF Stop, Serving, Unsent, ProtocolFits
<1>4. CASE Register
  <2>1. proto = "tcp"
    BY <1>4, ProtocolsType DEF Register, ProtocolFits, TypeOK
  <2> QED
    BY <1>0, <1>4, <2>1, WireFrame
       DEF Register, LoopTop, Serving, Unsent, CurAtHand, ProtocolFits
<1>5. ASSUME NEW c \in Conns, \/ Connect(c) \/ ClientCloses(c) \/ DeviceGets(c)
             \/ DeviceSends(c) \/ DeviceCloses(c) \/ FrameData(c) \/ FrameClose(c)
             \/ Pump(c)
      PROVE  WireOK(d)'
  <2>1. UNCHANGED <<proto, listener, cur, log, nread, csent, task, sending>>
    BY <1>5 DEF Connect, ClientCloses, DeviceGets, DeviceSends, DeviceCloses, FrameData,
       FrameClose, Pump
  <2> QED
    BY <1>0, <2>1, WireFrame DEF Serving, Unsent
<1>6. ASSUME NEW c \in Conns, ClientSends(c) PROVE WireOK(d)'
  <2>1. UNCHANGED <<proto, listener, cur, log, nread, task, sending>>
    BY <1>6 DEF ClientSends
  <2>2. csent'[d] \in Nat /\ csent'[d] >= csent[d]
    BY <1>6, SMTT(60) DEF ClientSends, TypeOK
  <2> QED
    BY <1>0, <2>1, <2>2, WireFrame DEF Serving, Unsent
<1>7. ASSUME NEW c \in Conns, Reply(c) PROVE WireOK(d)'
  BY <1>0, <1>7, WireFrame DEF Reply, LoopTop, Serving, Unsent
<1>8. ASSUME NEW c \in Conns,
             TakeChunk(c) \/ WriteChunk(c) \/ Unregister(c) \/ RegisterAddress(c) \/ PumpEnds(c)
      PROVE  WireOK(d)'
  <2>1. UNCHANGED <<proto, listener, cur, log, nread, csent, sending>>
    BY <1>8 DEF TakeChunk, WriteChunk, Unregister, RegisterAddress, PumpEnds
  <2>2. \/ task'[d] = task[d]
        \/ task[d] = "loop" /\ task'[d] = "writing"
        \/ task[d] = "writing" /\ task'[d] = "loop"
        \/ task[d] = "closing" /\ task'[d] = "done"
        \/ task[d] = "register" /\ task'[d] = "pump"
        \/ task[d] = "pump" /\ task'[d] = "done"
    BY <1>0, <1>8 DEF TakeChunk, WriteChunk, Unregister, RegisterAddress, PumpEnds
  <2> QED
    BY <1>0, <2>1, <2>2, WireFrame DEF Serving, Unsent, ProtocolFits
<1> QED
  BY <1>1, <1>2, <1>3, <1>4, <1>5, <1>6, <1>7, <1>8 DEF UdpTask

\* Leaving the loop puts the only Close, as the last message.
LEMMA WireBreak ==
    ASSUME TypeOK, ProtocolFits, NEW c \in Conns, NEW d \in Conns, WireOK(d), Break(c),
           task[c] \in {"loop", "writing"}, UNCHANGED <<proto, listener, cur, sending, csent>>,
           nread[c] <= nread'[c], nread'[c] <= csent[c], nread'[c] \in Nat,
           nread'[c] # nread[c] => ~sending,
           \A e \in Conns \ {c} : nread'[e] = nread[e]
    PROVE  WireOK(d)'
<1>0. /\ csent[d] \in Nat /\ nread[d] \in Nat /\ task \in [Conns -> TaskStates]
      /\ log \in [Conns -> Seq(Message)]
      /\ proto = "tcp"
  BY ProtocolsType DEF TypeOK, ProtocolFits
<1>1. task' = [task EXCEPT ![c] = "closing"] /\ Put(c, Close)
  BY DEF Break
<1>2. CASE d # c
  BY <1>0, <1>1, <1>2, WireFrame DEF Put, Serving, Unsent
<1>3. CASE d = c /\ sending
  <2>1. log'[d] = Append(log[d], Close)
    BY <1>0, <1>1, <1>3 DEF Put
  <2>2. Len(log[d]) = nread[d] + 1 - Unsent(d) /\ Unsent(d) = 0
    BY <1>0, <1>3 DEF WireOK, Serving, Unsent, ProtocolFits
  <2>3. ~Serving(d)' /\ task'[d] = "closing"
    BY <1>0, <1>1, <1>3 DEF Serving
  <2> QED
    BY <1>0, <1>3, <2>1, <2>2, <2>3, WirePut, MessageTypes
<1>4. CASE d = c /\ ~sending
  <2>1. log' = log /\ task'[d] = "closing"
    BY <1>0, <1>1, <1>4 DEF Put
  <2>2. \A i \in 1..Len(log[d]) : EntryOK(d, i)'
    BY <1>0, <1>4, <2>1 DEF WireOK, EntryOK
  <2> QED
    BY <1>0, <1>4, <2>1, <2>2 DEF WireOK
<1> QED
  BY <1>2, <1>3, <1>4

\* The steps of a TCP tunnel that put a message.
LEMMA WireTcp ==
    ASSUME TypeOK, ProtocolFits, CurAtHand, NEW c \in Conns, NEW d \in Conns,
           WireOK(c), WireOK(d), Accept(c) \/ ReadChunk(c) \/ ReadEnds(c) \/ WriteFails(c)
    PROVE  WireOK(d)'
<1> USE DEF link, peers
<1>0. /\ \A e \in Conns : csent[e] \in Nat /\ nread[e] \in Nat
      /\ task \in [Conns -> TaskStates] /\ log \in [Conns -> Seq(Message)]
      /\ proto = "tcp" /\ listener # "traffic"
  BY ProtocolsType DEF TypeOK, ProtocolFits, Accept, ReadChunk, ReadEnds, WriteFails
<1>1. CASE Accept(c)
  <2>1. listener' \in {"register", "stopped"} /\ UNCHANGED <<proto, nread, csent, sending>>
    BY <1>1 DEF Accept
  <2>2. CASE d # c
    BY <1>0, <1>1, <2>1, <2>2, WireFrame DEF Accept, Put, Serving, Unsent
  <2>3. CASE d = c /\ sending
    <3>1. log'[d] = Append(log[d], New) /\ task'[d] = "accepted"
      BY <1>0, <1>1, <2>3 DEF Accept, Put
    <3>2. log[d] = <<>> /\ nread[d] = 0 /\ task[d] = "none"
      BY <1>1, <2>3 DEF Accept, WireOK
    <3>3. Unsent(d)' = 0 /\ nread'[d] = 0 /\ csent'[d] \in Nat
      BY <1>0, <2>1, <3>2 DEF Unsent
    <3>4. Len(log[d]) = nread'[d] - Unsent(d)'
      BY <3>2, <3>3
    <3>5. proto' = proto /\ task[d] \notin {"closing", "done"} /\ task'[d] # "none"
      BY <2>1, <3>1, <3>2
    <3>6. nread'[d] \in Nat /\ nread'[d] >= nread[d] /\ nread'[d] <= csent'[d]
      BY <3>2, <3>3
    <3>7. New \in Message
      BY MessageTypes
    <3> QED
      BY <3>1, <3>2, <3>4, <3>5, <3>6, <3>7, WirePut
  <2>4. CASE d = c /\ ~sending
    BY <1>0, <1>1, <2>1, <2>4, WireFrame DEF Accept, Put, Serving
  <2> QED
    BY <2>2, <2>3, <2>4
<1>2. CASE ReadChunk(c)
  <2>1. /\ UNCHANGED <<proto, listener, cur, csent, sending>>
        /\ nread' = [nread EXCEPT ![c] = @ + 1] /\ nread[c] < csent[c] /\ task[c] = "loop"
    BY <1>2 DEF ReadChunk
  <2>2. CASE ~sending
    <3>1. nread'[c] = nread[c] + 1 /\ \A e \in Conns \ {c} : nread'[e] = nread[e]
      BY <2>1 DEF TypeOK
    <3>2. nread[c] <= nread'[c] /\ nread'[c] <= csent[c] /\ nread'[c] \in Nat
      BY <1>0, <2>1, <3>1
    <3>3. Break(c)
      BY <1>2, <2>2 DEF ReadChunk
    <3> QED
      BY <2>1, <2>2, <3>1, <3>2, <3>3, WireBreak
  <2>3. CASE sending /\ d # c
    <3>1. nread'[d] = nread[d] /\ log'[d] = log[d] /\ task' = task
      BY <1>0, <1>2, <2>1, <2>3 DEF ReadChunk, Put, TypeOK
    <3>2. (Serving(d)' => Serving(d)) /\ Unsent(d)' = Unsent(d)
      BY <2>1, <3>1 DEF Serving, Unsent
    <3> QED
      BY <1>0, <2>1, <3>1, <3>2, WireFrame
  <2>4. CASE sending /\ d = c
    <3>1. log'[d] = Append(log[d], Data(nread[d] + 1)) /\ task' = task
      BY <1>0, <1>2, <2>4 DEF ReadChunk, Put
    <3>2. Len(log[d]) = nread[d] + 1 /\ nread'[d] = nread[d] + 1
      BY <1>0, <2>1, <2>4 DEF WireOK, Serving, Unsent, TypeOK
    <3>3. Unsent(d)' = 0
      BY <1>0, <2>1 DEF Unsent
    <3>4. Data(nread[d] + 1) \in Message
      BY <1>0, MessageTypes
    <3>5. /\ nread'[d] \in Nat /\ nread'[d] >= nread[d] /\ nread'[d] <= csent'[d]
          /\ Len(log[d]) = nread'[d] - Unsent(d)' /\ Len(log[d]) \in 1..nread'[d]
      BY <1>0, <2>1, <2>4, <3>2, <3>3
    <3>6. proto' = proto /\ task[d] \notin {"closing", "done"} /\ task'[d] # "none"
      BY <2>1, <2>4, <3>1
    <3> QED
      BY <3>1, <3>2, <3>4, <3>5, <3>6, WirePut
  <2> QED
    BY <2>2, <2>3, <2>4
<1>3. CASE ReadEnds(c) \/ WriteFails(c)
  <2>1. nread[c] <= csent[c]
    BY DEF WireOK
  <2> QED
    BY <1>0, <1>3, <2>1, WireBreak DEF ReadEnds, WriteFails
<1> QED
  BY <1>1, <1>2, <1>3

\* The steps of a UDP tunnel that put a message.
LEMMA WireUdp ==
    ASSUME TypeOK, ProtocolFits, CurAtHand, NEW c \in Conns, NEW d \in Conns,
           WireOK(d), Datagram(c) \/ Forward(c)
    PROVE  WireOK(d)'
<1> USE DEF link, peers
<1>0. /\ \A e \in Conns : csent[e] \in Nat /\ nread[e] \in Nat
      /\ task \in [Conns -> TaskStates] /\ log \in [Conns -> Seq(Message)]
      /\ proto = "udp"
  BY ProtocolsType DEF TypeOK, ProtocolFits, Datagram, Forward
<1>1. CASE Datagram(c)
  <2>1. /\ UNCHANGED <<proto, csent, sending>> /\ listener = "select" /\ listener' = "traffic"
        /\ nread' = [nread EXCEPT ![c] = @ + 1] /\ nread[c] < csent[c] /\ cur' = {c}
    BY <1>1 DEF Datagram
  <2>2. CASE d # c
    <3>1. nread'[d] = nread[d] /\ log'[d] = log[d] /\ task'[d] = task[d]
      BY <1>0, <1>1, <2>1, <2>2 DEF Datagram, Put, TypeOK
    <3>2. (Serving(d)' => Serving(d)) /\ Unsent(d)' = 0 /\ Unsent(d) = 0
      BY <1>0, <2>1, <2>2, <3>1 DEF Serving, Unsent
    <3> QED
      BY <1>0, <2>1, <3>1, <3>2, WireFrame, SMTT(60)
  <2>3. CASE d = c /\ Unknown(c)
    <3>1. log[d] = <<>> /\ nread[d] = 0 /\ nread'[d] = 1 /\ task'[d] = "register"
      BY <1>0, <1>1, <2>1, <2>3 DEF Datagram, Unknown, WireOK, TypeOK
    <3>2. Unsent(d)' = 1
      BY <2>1, <2>3 DEF Unsent
    <3>3. CASE sending
      <4>1. log'[d] = Append(log[d], New)
        BY <1>0, <1>1, <2>3, <3>3 DEF Datagram, Put
      <4> QED
        <5>1. /\ nread'[d] \in Nat /\ nread'[d] >= nread[d] /\ nread'[d] <= csent'[d]
              /\ Len(log[d]) = nread'[d] - Unsent(d)'
          BY <1>0, <2>1, <2>3, <3>1, <3>2
        <5> QED
          BY <1>0, <2>1, <3>1, <4>1, <5>1, WirePut, MessageTypes
    <3>4. CASE ~sending
      <4>1. log'[d] = <<>>
        BY <1>1, <2>3, <3>1, <3>4 DEF Datagram, Put
      <4> QED
        BY <1>0, <2>1, <2>3, <3>1, <3>4, <4>1 DEF WireOK
    <3> QED
      BY <3>3, <3>4
  <2>4. CASE d = c /\ ~Unknown(c)
    <3>1. log'[d] = log[d] /\ nread'[d] = nread[d] + 1 /\ task'[d] = task[d]
      BY <1>0, <1>1, <2>1, <2>4 DEF Datagram, TypeOK
    <3>2. Unsent(d)' = 1 /\ Unsent(d) = 0 /\ (Serving(d)' => Serving(d))
      BY <1>0, <2>1, <2>4, <3>1 DEF Unsent, Serving
    <3>3. \A i \in 1..Len(log[d]) : EntryOK(d, i)'
      BY <1>0, <2>1, <3>1 DEF WireOK, EntryOK
    <3> QED
      BY <1>0, <2>1, <2>4, <3>1, <3>2, <3>3 DEF WireOK, Unknown
  <2> QED
    BY <2>2, <2>3, <2>4
<1>2. CASE Forward(c)
  <2>1. /\ UNCHANGED <<proto, nread, csent, task, sending>> /\ listener = "traffic"
        /\ listener' = LoopTop("select") /\ cur = {c} /\ cur' = {} /\ Put(c, Data(nread[c]))
    BY <1>2 DEF Forward, TypeOK
  <2>2. Unsent(d)' = 0
    BY <2>1 DEF Unsent
  <2>3. CASE d # c
    <3>1. log'[d] = log[d] /\ Unsent(d) = 0
      BY <1>0, <2>1, <2>3 DEF Put, Unsent
    <3>2. Serving(d)' => Serving(d)
      BY <1>0, <2>1 DEF Serving
    <3> QED
      BY <1>0, <2>1, <2>2, <3>1, <3>2, WireFrame
  <2>4. CASE d = c /\ sending
    <3>1. log'[d] = Append(log[d], Data(nread[d]))
      BY <1>0, <2>1, <2>4 DEF Put
    <3>2. task[d] # "none" /\ nread[d] >= 1
      BY <2>1, <2>4 DEF CurAtHand
    <3>3. Len(log[d]) = nread[d]
      BY <1>0, <2>1, <2>4, <3>2 DEF WireOK, Serving, Unsent
    <3>4. Data(nread[d]) \in Message
      BY <1>0, MessageTypes
    <3>5. nread[d] <= csent[d]
      BY DEF WireOK
    <3> QED
      BY <1>0, <2>1, <2>2, <2>4, <3>1, <3>2, <3>3, <3>4, <3>5, WirePut
  <2>5. CASE d = c /\ ~sending
    BY <1>0, <2>1, <2>5, WireFrame DEF Put
  <2> QED
    BY <2>3, <2>4, <2>5
<1> QED
  BY <1>1, <1>2

\* The order towards the device is inductive.
LEMMA WireNext ==
    ASSUME TypeOK, ProtocolFits, CurAtHand, \A c \in Conns : WireOK(c), [Next]_vars
    PROVE  \A d \in Conns : WireOK(d)'
<1> TAKE d \in Conns
<1> QED
  BY WireQuiet, WireTcp, WireUdp DEF Next, Environment, TcpTask

\* A step lets the log of a connection as it is or puts one message.
LEMMA LogGrows ==
    ASSUME TypeOK, [Next]_vars, NEW d \in Conns
    PROVE  log'[d] = log[d] \/ \E m : log'[d] = Append(log[d], m)
<1>0. log \in [Conns -> Seq(Message)]
  BY DEF TypeOK
<1>1. ASSUME NEW c \in Conns, NEW m, Put(c, m)
      PROVE  log'[d] = log[d] \/ \E n : log'[d] = Append(log[d], n)
  BY <1>0, <1>1 DEF Put
<1>2. ASSUME NEW c \in Conns, Accept(c) \/ TcpTask(c)
      PROVE  log'[d] = log[d] \/ \E m : log'[d] = Append(log[d], m)
  <2>1. log' = log \/ \E m : Put(c, m)
    BY <1>2 DEF Accept, TcpTask, ReadChunk, ReadEnds, TakeChunk, WriteChunk, WriteFails,
       Unregister, Break
  <2> QED
    BY <1>1, <2>1
<1>3. ASSUME NEW c \in Conns, Datagram(c) \/ Forward(c) \/ Reply(c) \/ UdpTask(c)
      PROVE  log'[d] = log[d] \/ \E m : log'[d] = Append(log[d], m)
  <2>1. log' = log \/ \E m : Put(c, m)
    BY <1>3 DEF Datagram, Forward, Reply, UdpTask, RegisterAddress, Pump, PumpEnds
  <2> QED
    BY <1>1, <2>1
<1>4. CASE \/ UNCHANGED vars \/ Register \/ Environment
           \/ \E c \in Conns : FrameData(c) \/ FrameClose(c)
  BY <1>4 DEF vars, Register, Environment, Connect, ClientSends, ClientCloses, DeviceGets,
     DeviceSends, DeviceCloses, SendTaskEnds, ReceiveLoopEnds, Stop, FrameData, FrameClose
<1> QED
  BY <1>2, <1>3, <1>4 DEF Next

\* Only the device's own step changes what it received.
LEMMA ViewMoves ==
    ASSUME [Next]_vars
    PROVE  view' = view \/ \E c \in Conns : DeviceGets(c)
<1>1. ASSUME NEW c \in Conns, Accept(c) \/ TcpTask(c) PROVE view' = view
  BY <1>1 DEF Accept, TcpTask, ReadChunk, ReadEnds, TakeChunk, WriteChunk, WriteFails,
     Unregister, peers
<1>2. ASSUME NEW c \in Conns, Datagram(c) \/ Forward(c) \/ Reply(c) \/ UdpTask(c)
      PROVE  view' = view
  BY <1>2 DEF Datagram, Forward, Reply, UdpTask, RegisterAddress, Pump, PumpEnds, peers
<1>3. CASE \/ UNCHANGED vars \/ Register \/ SendTaskEnds \/ ReceiveLoopEnds \/ Stop
           \/ \E c \in Conns :
                 \/ Connect(c) \/ ClientSends(c) \/ ClientCloses(c) \/ DeviceSends(c)
                 \/ DeviceCloses(c) \/ FrameData(c) \/ FrameClose(c)
  BY <1>3 DEF vars, Register, SendTaskEnds, ReceiveLoopEnds, Stop, Connect, ClientSends,
     ClientCloses, DeviceSends, DeviceCloses, FrameData, FrameClose, peers
<1> QED
  BY <1>1, <1>2, <1>3 DEF Next, Environment

\* The device has a prefix of what was put, whatever happens.
LEMMA SeenNext ==
    ASSUME TypeOK, \A c \in Conns : SeenOK(c), [Next]_vars
    PROVE  \A d \in Conns : SeenOK(d)'
<1> TAKE d \in Conns
<1>0. /\ log[d] \in Seq(Message) /\ view \in [Conns -> Seq(Message)] /\ SeenOK(d)
      /\ Len(log[d]) \in Nat /\ Len(view[d]) \in Nat
  BY DEF TypeOK
<1>1. CASE view' = view
  <2>1. /\ Len(log'[d]) \in Nat /\ Len(log'[d]) >= Len(log[d])
        /\ \A i \in 1..Len(log[d]) : log'[d][i] = log[d][i]
    <3>1. CASE log'[d] = log[d]
      BY <1>0, <3>1
    <3>2. ASSUME NEW m, log'[d] = Append(log[d], m)
          PROVE  /\ Len(log'[d]) \in Nat /\ Len(log'[d]) >= Len(log[d])
                 /\ \A i \in 1..Len(log[d]) : log'[d][i] = log[d][i]
      BY <1>0, <3>2
    <3> QED
      BY <3>1, <3>2, LogGrows
  <2> QED
    BY <1>0, <1>1, <2>1 DEF SeenOK
<1>2. ASSUME NEW c \in Conns, DeviceGets(c) PROVE SeenOK(d)'
  <2>1. log' = log
    BY <1>2 DEF DeviceGets
  <2>2. CASE d # c
    BY <1>0, <1>2, <2>1, <2>2 DEF DeviceGets, SeenOK
  <2>3. CASE d = c
    <3>1. /\ view'[d] = Append(view[d], log[d][Len(view[d]) + 1])
          /\ Len(view[d]) < Len(log[d])
      BY <1>0, <1>2, <2>3 DEF DeviceGets
    <3>2. /\ Len(view'[d]) = Len(view[d]) + 1
          /\ \A i \in 1..Len(view[d]) : view'[d][i] = view[d][i]
          /\ view'[d][Len(view[d]) + 1] = log[d][Len(view[d]) + 1]
      BY <1>0, <3>1
    <3> QED
      BY <1>0, <2>1, <3>1, <3>2 DEF SeenOK
  <2> QED
    BY <2>2, <2>3
<1> QED
  BY <1>1, <1>2, ViewMoves

-----------------------------------------------------------------------------
(* Sequences on their way. *)

\* The head of a sequence moves to the one before it.
LEMMA Shift ==
    ASSUME NEW q \in Seq(Nat), NEW r \in Seq(Nat), r # <<>>
    PROVE  Append(q, Head(r)) \o Tail(r) = q \o r
  BY SMTT(60)

\* Moving the first chunk from one queue to the next changes nothing.
LEMMA Move ==
    ASSUME NEW g \in Seq(Nat), NEW o \in Seq(Nat), NEW r \in Seq(Nat), r # <<>>
    PROVE  (g \o Append(o, Head(r))) \o Tail(r) = (g \o o) \o r
<1>1. Head(r) \in Nat /\ g \o o \in Seq(Nat)
  OBVIOUS
<1>2. g \o Append(o, Head(r)) = Append(g \o o, Head(r))
  BY <1>1, SMTT(60)
<1> QED
  BY <1>1, <1>2, Shift

\* Neither does moving it when the pipe is only these two.
LEMMA MoveTwo ==
    ASSUME NEW o \in Seq(Nat), NEW r \in Seq(Nat), r # <<>>
    PROVE  Append(o, Head(r)) \o Tail(r) = o \o r
  BY Shift

\* Nor taking all out of the middle.
LEMMA GiveAll ==
    ASSUME NEW g \in Seq(Nat), NEW o \in Seq(Nat), NEW r \in Seq(Nat)
    PROVE  ((g \o o) \o <<>>) \o r = (g \o o) \o r
  OBVIOUS

\* A single chunk is appended.
LEMMA Single ==
    ASSUME NEW g \in Seq(Nat), NEW o \in Seq(Nat), Len(o) = 1
    PROVE  g \o o = Append(g, Head(o)) /\ o # <<>>
<1>1. o # <<>> /\ Append(g, Head(o)) \in Seq(Nat) /\ Tail(o) = <<>>
  <2>1. o # <<>>
    BY EmptySeq
  <2>2. Head(o) \in Nat /\ Tail(o) \in Seq(Nat) /\ Len(Tail(o)) = 0
    BY <2>1
  <2>3. Tail(o) = <<>>
    BY <2>2, EmptySeq
  <2> QED
    BY <2>1, <2>2, <2>3
<1>2. Append(g, Head(o)) \o Tail(o) = g \o o
  BY <1>1, Shift
<1>3. Append(g, Head(o)) \o <<>> = Append(g, Head(o))
  BY <1>1
<1> QED
  BY <1>1, <1>2, <1>3

\* A chunk that enters at the end.
LEMMA Grow ==
    ASSUME NEW g \in Seq(Nat), NEW o \in Seq(Nat), NEW r \in Seq(Nat), NEW x \in Nat
    PROVE  (g \o o) \o Append(r, x) = Append((g \o o) \o r, x)
  OBVIOUS

\* It is the last one then.
LEMMA Last ==
    ASSUME NEW s \in Seq(Nat), NEW x \in Nat
    PROVE  Append(s, x) # <<>> /\ Append(s, x)[Len(Append(s, x))] = x
  OBVIOUS

\* The same, when the pipe is only these two.
LEMMA GrowTwo ==
    ASSUME NEW o \in Seq(Nat), NEW r \in Seq(Nat), NEW x \in Nat
    PROVE  o \o Append(r, x) = Append(o \o r, x)
  OBVIOUS

\* The head of two sequences is that of the first.
LEMMA Take ==
    ASSUME NEW o \in Seq(Nat), NEW r \in Seq(Nat), o # <<>>
    PROVE  Tail(o) \o r = Tail(o \o r) /\ Head(o) = (o \o r)[1] /\ o \o r # <<>>
  OBVIOUS

\* A run without its head: its last number is the same.
LEMMA RunTail ==
    ASSUME NEW s \in Seq(Nat), NEW n \in Nat, s # <<>>, Run(s, n)
    PROVE  /\ Run(Tail(s), n) /\ s[1] \in 1..n
           /\ \A i \in 1..Len(Tail(s)) : Tail(s)[i] = s[i + 1] /\ i + 1 \in 1..Len(s)
           /\ Tail(s) # <<>> => Tail(s)[Len(Tail(s))] = s[Len(s)] /\ s[1] < Tail(s)[1]
<1>1. /\ Tail(s) \in Seq(Nat) /\ Len(Tail(s)) = Len(s) - 1 /\ Len(s) \in Nat /\ Len(s) >= 1
      /\ \A i \in 1..Len(Tail(s)) : Tail(s)[i] = s[i + 1] /\ i + 1 \in 1..Len(s)
  OBVIOUS
<1>2. s[1] \in 1..n
  BY <1>1 DEF Run
<1>3. Run(Tail(s), n)
  BY <1>1 DEF Run
<1>4. ASSUME Tail(s) # <<>>
      PROVE  Tail(s)[Len(Tail(s))] = s[Len(s)] /\ s[1] < Tail(s)[1]
  <2>1. Len(Tail(s)) >= 1
    BY <1>1, <1>4
  <2>2. s[2] = s[1] + 1
    BY <1>1, <2>1 DEF Run
  <2> QED
    BY <1>1, <1>2, <2>1, <2>2
<1> QED
  BY <1>1, <1>2, <1>3, <1>4

\* The next number continues a run.
LEMMA RunGrows ==
    ASSUME NEW s \in Seq(Nat), NEW n \in Nat, NEW x \in 1..n, Run(s, n),
           s # <<>> => s[Len(s)] + 1 = x
    PROVE  Run(Append(s, x), n)
  BY DEF Run

\* A run up to n is a run up to anything larger.
LEMMA RunUpTo ==
    ASSUME NEW s \in Seq(Nat), NEW n \in Nat, NEW m \in Nat, n <= m, Run(s, n)
    PROVE  Run(s, m)
  BY DEF Run

\* What follows the received part of a run is the number after it.
LEMMA RunInside ==
    ASSUME NEW g \in Seq(Nat), NEW o \in Seq(Nat), NEW r \in Seq(Nat), NEW n \in Nat,
           o # <<>>, Run((g \o o) \o r, n)
    PROVE  /\ Head(o) \in 1..n
           /\ g = <<>> \/ Head(o) = g[Len(g)] + 1
<1> DEFINE s == (g \o o) \o r
<1>1. /\ Len(s) = Len(g) + Len(o) + Len(r) /\ Len(g) \in Nat /\ Len(r) \in Nat
      /\ Len(o) \in Nat /\ Len(o) >= 1
  OBVIOUS
<1>2. s[Len(g) + 1] = Head(o) /\ (g # <<>> => s[Len(g)] = g[Len(g)] /\ Len(g) >= 1)
  BY <1>1
<1> HIDE DEF s
<1>3. Run(s, n)
  BY DEF s
<1> QED
  BY <1>1, <1>2, <1>3, SMTT(60) DEF Run

-----------------------------------------------------------------------------
(* Towards the client. *)

\* The tasks that have not started.
Early == {"none", "accepted", "dropped", "register"}

\* Nothing is on its way at the start.
LEMMA PipeInit == Init => \A c \in Conns : PipeOK(c)
<1> SUFFICES ASSUME Init, NEW c \in Conns PROVE PipeOK(c)
  OBVIOUS
<1>1. /\ got[c] = <<>> /\ out[c] = <<>> /\ rx[c] = <<>> /\ task[c] = "none"
      /\ handled[c] = 0 /\ dsent[c] = 0
  BY DEF Init
<1>2. Pipe(c) = <<>> /\ Len(Pipe(c)) = 0
  BY <1>1 DEF Pipe
<1> QED
  BY <1>1, <1>2 DEF PipeOK, GotOK, Run

\* The types of what is on its way.
LEMMA PipeTypes ==
    ASSUME TypeOK, NEW c \in Conns
    PROVE  /\ got[c] \in Seq(Nat) /\ out[c] \in Seq(Nat) /\ rx[c] \in Seq(Nat)
           /\ Pipe(c) \in Seq(Nat) /\ dsent[c] \in Nat /\ handled[c] \in Nat
  BY DEF TypeOK, Pipe

\* What an address got stays behind what is on its way when frames are handled
\* that do not enter the pipe.
LEMMA GotFrame ==
    ASSUME TypeOK, NEW c \in Conns, GotOK(c), got'[c] = got[c], Pipe(c)' = Pipe(c),
           handled'[c] \in Nat, handled'[c] >= handled[c]
    PROVE  GotOK(c)'
<1>1. Pipe(c) \in Seq(Nat) /\ got[c] \in Seq(Nat) /\ handled[c] \in Nat
  BY PipeTypes
<1>2. \A i \in 1..Len(Pipe(c)) : Pipe(c)[i] \in Nat /\ Pipe(c)[i] <= handled[c]
  BY <1>1 DEF GotOK
<1>3. got[c] # <<>> => got[c][Len(got[c])] \in Nat
  BY <1>1
<1> QED
  BY <1>1, <1>2, <1>3 DEF GotOK

\* A step that moves no chunk into or out of the pipe, except that what it
\* holds may be lost when it no longer flows.
LEMMA PipeFrame ==
    ASSUME TypeOK, NEW c \in Conns, PipeOK(c), proto' = proto,
           handled'[c] = handled[c], dsent'[c] \in Nat, dsent'[c] >= dsent[c],
           dclosed \subseteq dclosed',
           task'[c] \in Early => Pipe(c)' = <<>>,
           proto = "tcp" => Len(out'[c]) = IF task'[c] = "writing" THEN 1 ELSE 0,
           Flowing(c)' => Flowing(c) /\ Pipe(c)' = Pipe(c),
           proto = "udp" => got'[c] = got[c],
           c \in registry' => c \in registry \/ Pipe(c) = <<>>
    PROVE  PipeOK(c)'
<1>1. Pipe(c) \in Seq(Nat) /\ dsent[c] \in Nat /\ handled[c] \in Nat
  BY PipeTypes
<1>2. ASSUME Flowing(c)' PROVE Run(Pipe(c), dsent'[c])
  <2>1. Run(Pipe(c), dsent[c])
    BY <1>2 DEF PipeOK
  <2> QED
    BY <1>1, <2>1, RunUpTo
<1>3. Flowing(c)' => Run(Pipe(c), dsent[c])'
  BY <1>2 DEF Run
<1>4. Flowing(c)' /\ proto = "udp" => GotOK(c)'
  BY <1>1, GotFrame DEF PipeOK
<1> QED
  BY <1>1, <1>3, <1>4 DEF PipeOK, Early

\* Steps that leave the queues alone.
LEMMA PipeQuiet ==
    ASSUME TypeOK, ProtocolFits, CurAtHand, NEW d \in Conns, PipeOK(d),
           \/ UNCHANGED vars \/ SendTaskEnds \/ ReceiveLoopEnds \/ Stop \/ Register
           \/ \E c \in Conns :
                 \/ Connect(c) \/ ClientSends(c) \/ ClientCloses(c)
                 \/ DeviceGets(c) \/ DeviceSends(c) \/ DeviceCloses(c)
                 \/ Accept(c) \/ ReadChunk(c) \/ ReadEnds(c) \/ Unregister(c)
                 \/ Datagram(c) \/ Forward(c) \/ RegisterAddress(c) \/ PumpEnds(c)
    PROVE  PipeOK(d)'
<1> USE DEF link, peers
<1>0. /\ task \in [Conns -> TaskStates] /\ client \in [Conns -> {"away", "open", "eof", "gone"}]
      /\ dsent \in [Conns -> Nat] /\ dsent[d] \in Nat
  BY DEF TypeOK
<1>a. task[d] \in Early => Pipe(d) = <<>>
  BY DEF PipeOK, Early
<1>b. proto = "tcp" => Len(out[d]) = IF task[d] = "writing" THEN 1 ELSE 0
  BY DEF PipeOK
<1>1. UNCHANGED <<got, out, rx, handled, proto>>
  BY DEF vars, SendTaskEnds, ReceiveLoopEnds, Stop, Register, Connect, ClientSends,
     ClientCloses, DeviceGets, DeviceSends, DeviceCloses, Accept, ReadChunk, ReadEnds,
     Unregister, Datagram, Forward, RegisterAddress, PumpEnds
<1>2. Pipe(d)' = Pipe(d)
  BY <1>1 DEF Pipe
<1>3. dclosed \subseteq dclosed' /\ dsent'[d] \in Nat /\ dsent'[d] >= dsent[d]
  <2>1. ASSUME NEW c \in Conns, DeviceSends(c)
        PROVE  dclosed \subseteq dclosed' /\ dsent'[d] \in Nat /\ dsent'[d] >= dsent[d]
    BY <1>0, <2>1 DEF DeviceSends
  <2>2. dsent' = dsent \/ \E c \in Conns : DeviceSends(c)
    BY DEF vars, SendTaskEnds, ReceiveLoopEnds, Stop, Register, Connect, ClientSends,
       ClientCloses, DeviceGets, DeviceCloses, Accept, ReadChunk, ReadEnds, Unregister,
       Datagram, Forward, RegisterAddress, PumpEnds
  <2>3. dclosed' = dclosed \/ \E c \in Conns : DeviceSends(c) \/ DeviceCloses(c)
    BY DEF vars, SendTaskEnds, ReceiveLoopEnds, Stop, Register, Connect, ClientSends,
       ClientCloses, DeviceGets, Accept, ReadChunk, ReadEnds, Unregister,
       Datagram, Forward, RegisterAddress, PumpEnds
  <2> QED
    BY <1>0, <2>1, <2>2, <2>3 DEF DeviceCloses
<1>5. task'[d] \in Early => task[d] \in Early
  BY <1>0 DEF vars, SendTaskEnds, ReceiveLoopEnds, Stop, Register, Connect, ClientSends,
     ClientCloses, DeviceGets, DeviceSends, DeviceCloses, Accept, ReadChunk, ReadEnds,
     Break, Unregister, Datagram, Unknown, Forward, RegisterAddress, PumpEnds, Early
<1>6. proto = "tcp" => (task'[d] = "writing" <=> task[d] = "writing")
  BY <1>0 DEF vars, SendTaskEnds, ReceiveLoopEnds, Stop, Register, Connect, ClientSends,
     ClientCloses, DeviceGets, DeviceSends, DeviceCloses, Accept, ReadChunk, ReadEnds,
     Break, Unregister, Datagram, Unknown, Forward, RegisterAddress, PumpEnds, CurAtHand
<1>7. Flowing(d)' => Flowing(d)
  <2>1. proto = "tcp" => (client'[d] # "gone" => client[d] # "gone")
    BY <1>0 DEF vars, SendTaskEnds, ReceiveLoopEnds, Stop, Register, Connect, ClientSends,
       ClientCloses, DeviceGets, DeviceSends, DeviceCloses, Accept, ReadChunk, ReadEnds,
       Unregister, Datagram, Forward, RegisterAddress, PumpEnds
  <2>2. listener' # "stopped" => listener # "stopped"
    BY DEF vars, SendTaskEnds, ReceiveLoopEnds, Stop, Register, Connect, ClientSends,
       ClientCloses, DeviceGets, DeviceSends, DeviceCloses, Accept, ReadChunk, ReadEnds,
       Unregister, Datagram, Forward, RegisterAddress, PumpEnds
  <2> QED
    BY <1>1, <2>1, <2>2 DEF Flowing
<1>8. d \in registry' => d \in registry \/ task[d] \in Early
  BY DEF vars, SendTaskEnds, ReceiveLoopEnds, Stop, Register, Connect, ClientSends,
     ClientCloses, DeviceGets, DeviceSends, DeviceCloses, Accept, ReadChunk, ReadEnds,
     Unregister, Datagram, Forward, RegisterAddress, PumpEnds, CurAtHand, Early
<1> QED
  BY <1>0, <1>a, <1>b, <1>1, <1>2, <1>3, <1>5, <1>6, <1>7, <1>8, PipeFrame

\* The frames of the device: a chunk enters the pipe of a registered
\* connection, and a close takes the entry.
LEMMA PipeFrames ==
    ASSUME TypeOK, RegistryMatchesTasks, NEW c \in Conns, NEW d \in Conns, PipeOK(d),
           FrameData(c) \/ FrameClose(c)
    PROVE  PipeOK(d)'
<1> USE DEF link, peers
<1>0. /\ Pipe(d) \in Seq(Nat) /\ dsent[d] \in Nat /\ handled \in [Conns -> Nat]
      /\ rx \in [Conns -> Seq(Nat)] /\ got[d] \in Seq(Nat) /\ out[d] \in Seq(Nat)
  BY PipeTypes DEF TypeOK
<1>1. /\ UNCHANGED <<proto, listener, client, task, dsent, dclosed, got, out>>
      /\ handled' = [handled EXCEPT ![c] = @ + 1]
      /\ registry' \subseteq registry
  BY DEF FrameData, FrameClose
<1>2. Flowing(d)' <=> Flowing(d)
  BY <1>1 DEF Flowing
<1>3. CASE d # c
  <2>1. rx'[d] = rx[d] /\ handled'[d] = handled[d]
    BY <1>0, <1>1, <1>3 DEF FrameData, FrameClose
  <2>2. Pipe(d)' = Pipe(d)
    BY <1>1, <2>1 DEF Pipe
  <2> QED
    BY <1>0, <1>1, <1>2, <2>1, <2>2, PipeFrame DEF PipeOK, Early
<1>4. CASE d = c /\ FrameClose(c)
  <2>1. rx' = rx /\ d \in dclosed /\ d \notin registry'
    BY <1>4 DEF FrameClose
  <2>2. Pipe(d)' = Pipe(d)
    BY <1>1, <2>1 DEF Pipe
  <2>3. handled'[d] \in Nat /\ handled'[d] >= handled[d] /\ got'[d] = got[d]
    BY <1>0, <1>1
  <2>4. GotOK(d) => GotOK(d)'
    BY <2>2, <2>3, GotFrame
  <2> QED
    BY <1>1, <1>2, <2>1, <2>2, <2>4 DEF PipeOK, Run
<1>5. CASE d = c /\ FrameData(c) /\ c \notin registry
  <2>1. rx' = rx /\ d \notin registry' /\ handled'[d] = handled[d] + 1 /\ handled[d] < dsent[d]
    BY <1>0, <1>1, <1>5 DEF FrameData
  <2>2. Pipe(d)' = Pipe(d)
    BY <1>1, <2>1 DEF Pipe
  <2>3. handled'[d] <= dsent'[d]
    BY <1>0, <1>1, <2>1
  <2>4. GotOK(d) => GotOK(d)'
    <3>1. handled'[d] \in Nat /\ handled'[d] >= handled[d] /\ got'[d] = got[d]
      BY <1>0, <1>1
    <3> QED
      BY <2>2, <3>1, GotFrame
  <2> QED
    BY <1>1, <1>2, <2>1, <2>2, <2>3, <2>4 DEF PipeOK, Run
<1>6. CASE d = c /\ FrameData(c) /\ c \in registry
  <2>1. /\ rx'[d] = Append(rx[d], handled[d] + 1)
        /\ handled'[d] = handled[d] + 1 /\ handled[d] < dsent[d] /\ registry' = registry
    BY <1>0, <1>1, <1>6 DEF FrameData
  <2>2. Pipe(d)' = Append(Pipe(d), handled[d] + 1)
    <3>1. /\ got[d] \in Seq(Nat) /\ out[d] \in Seq(Nat) /\ rx[d] \in Seq(Nat)
          /\ handled[d] + 1 \in Nat
      BY <1>0
    <3>2. (got[d] \o out[d]) \o Append(rx[d], handled[d] + 1)
             = Append((got[d] \o out[d]) \o rx[d], handled[d] + 1)
      BY <3>1, Grow, Zenon
    <3>3. out[d] \o Append(rx[d], handled[d] + 1) = Append(out[d] \o rx[d], handled[d] + 1)
      BY <3>1, GrowTwo, Zenon
    <3>4. Pipe(d)' = IF proto = "tcp"
                       THEN (got[d] \o out[d]) \o Append(rx[d], handled[d] + 1)
                       ELSE out[d] \o Append(rx[d], handled[d] + 1)
      BY <1>1, <2>1 DEF Pipe
    <3> QED
      BY <3>2, <3>3, <3>4, Zenon DEF Pipe
  <2>3. task'[d] \notin Early
    BY <1>1, <1>6 DEF RegistryMatchesTasks, Spawned, Early
  <2>4. handled[d] + 1 \in 1..dsent[d]
    BY <1>0, <2>1
  <2>5. ASSUME Flowing(d)
        PROVE  /\ Run(Append(Pipe(d), handled[d] + 1), dsent[d])
               /\ Append(Pipe(d), handled[d] + 1)[Len(Pipe(d)) + 1] = handled[d] + 1
               /\ Len(Append(Pipe(d), handled[d] + 1)) = Len(Pipe(d)) + 1
    <3>1. Run(Pipe(d), dsent[d]) /\ (Pipe(d) # <<>> => Pipe(d)[Len(Pipe(d))] = handled[d])
      BY <1>6, <2>5 DEF PipeOK
    <3>2. Run(Append(Pipe(d), handled[d] + 1), dsent[d])
      BY <1>0, <2>4, <3>1, RunGrows
    <3> QED
      BY <1>0, <3>2
  <2>6. handled'[d] <= dsent'[d]
    BY <1>0, <1>1, <2>1
  <2>7. GotOK(d) => GotOK(d)'
    <3> SUFFICES ASSUME GotOK(d) PROVE GotOK(d)'
      OBVIOUS
    <3> DEFINE p == Pipe(d)
               x == handled[d] + 1
    <3>1. /\ p \in Seq(Nat) /\ x \in Nat /\ Pipe(d)' = Append(p, x) /\ handled'[d] = x
          /\ got'[d] = got[d] /\ got[d] \in Seq(Nat) /\ handled[d] \in Nat /\ x > handled[d]
          /\ \A i \in 1..Len(p) : p[i] <= handled[d]
          /\ got[d] # <<>> => /\ got[d][Len(got[d])] <= handled[d]
                              /\ p # <<>> => got[d][Len(got[d])] < p[1]
      BY <1>0, <1>1, <2>1, <2>2 DEF GotOK
    <3> HIDE DEF p, x
    <3>2. \A i \in 1..Len(Append(p, x)) : Append(p, x)[i] <= x
      BY <3>1
    <3>3. got[d] # <<>> => got[d][Len(got[d])] <= x /\ got[d][Len(got[d])] < Append(p, x)[1]
      <4>1. got[d] # <<>> => got[d][Len(got[d])] \in Nat
        BY <3>1
      <4>2. CASE p = <<>>
        BY <3>1, <4>1, <4>2
      <4>3. CASE p # <<>>
        <5>1. Append(p, x)[1] = p[1]
          BY <3>1, <4>3
        <5> QED
          BY <3>1, <4>1, <4>3, <5>1
      <4> QED
        BY <4>2, <4>3
    <3> QED
      BY <3>1, <3>2, <3>3 DEF GotOK
  <2> QED
    BY <1>1, <1>2, <2>1, <2>2, <2>3, <2>5, <2>6, <2>7 DEF PipeOK, Early, Run
<1> QED
  BY <1>3, <1>4, <1>5, <1>6

\* The steps that move chunks from one queue to the next.
LEMMA PipeMoves ==
    ASSUME TypeOK, ProtocolFits, NEW c \in Conns, NEW d \in Conns, PipeOK(c), PipeOK(d),
           TakeChunk(c) \/ WriteChunk(c) \/ WriteFails(c) \/ Pump(c) \/ Reply(c)
    PROVE  PipeOK(d)'
<1> USE DEF link, peers
<1>0. /\ rx \in [Conns -> Seq(Nat)] /\ got \in [Conns -> Seq(Nat)] /\ out \in [Conns -> Seq(Nat)]
      /\ dsent[d] \in Nat /\ task \in [Conns -> TaskStates]
  BY DEF TypeOK
<1>1. /\ UNCHANGED <<proto, client, registry, handled, dsent, dclosed>>
      /\ listener' # "stopped" => listener # "stopped"
  BY DEF TakeChunk, WriteChunk, WriteFails, Pump, Reply
<1>2. Flowing(d)' => Flowing(d)
  BY <1>1 DEF Flowing
<1>8. /\ got[d] \in Seq(Nat) /\ out[d] \in Seq(Nat) /\ rx[d] \in Seq(Nat)
      /\ proto' = proto /\ handled'[d] = handled[d] /\ registry' = registry
      /\ dsent'[d] \in Nat /\ dsent'[d] >= dsent[d] /\ dclosed \subseteq dclosed'
  BY <1>0, <1>1
<1>3. CASE d # c
  <2>1. rx'[d] = rx[d] /\ out'[d] = out[d] /\ got'[d] = got[d] /\ task'[d] = task[d]
    BY <1>0, <1>3 DEF TakeChunk, WriteChunk, WriteFails, Pump, Reply, Break
  <2>2. Pipe(d)' = Pipe(d)
    BY <1>1, <2>1 DEF Pipe
  <2> QED
    BY <1>0, <1>1, <1>2, <2>1, <2>2, PipeFrame DEF PipeOK, Early
<1>4. CASE d = c /\ TakeChunk(c)
  <2>1. proto = "tcp" /\ task[d] = "loop" /\ rx[d] # <<>> /\ got'[d] = got[d]
        /\ rx'[d] = Tail(rx[d]) /\ out'[d] = <<Head(rx[d])>> /\ task'[d] = "writing"
    BY <1>0, <1>4, ProtocolsType DEF TakeChunk, ProtocolFits, TypeOK
  <2>2. out[d] = <<>>
    BY <1>0, <2>1 DEF PipeOK
  <2>3. out'[d] = Append(out[d], Head(rx[d]))
    BY <2>1, <2>2
  <2>4. Pipe(d)' = Pipe(d)
    <3>1. (got[d] \o Append(out[d], Head(rx[d]))) \o Tail(rx[d]) = (got[d] \o out[d]) \o rx[d]
      BY <1>8, <2>1, Move
    <3> QED
      BY <1>1, <2>1, <2>3, <3>1 DEF Pipe
  <2>5. Len(out'[d]) = 1 /\ task'[d] \notin Early
    BY <2>1 DEF Early
  <2> QED
    BY <1>2, <1>8, <2>1, <2>4, <2>5, PipeFrame
<1>5. CASE d = c /\ (WriteChunk(c) \/ WriteFails(c))
  <2>1. proto = "tcp" /\ task[d] = "writing" /\ task'[d] \in {"loop", "closing"}
        /\ out'[d] = <<>> /\ rx'[d] = rx[d]
        /\ (client[d] # "gone" => got'[d] = got[d] \o out[d])
    BY <1>0, <1>5, ProtocolsType DEF WriteChunk, WriteFails, Break, ProtocolFits, TypeOK
  <2>2. ASSUME Flowing(d)' PROVE Pipe(d)' = Pipe(d)
    <3>1. got'[d] = got[d] \o out[d]
      BY <1>1, <2>1, <2>2 DEF Flowing
    <3>2. ((got[d] \o out[d]) \o <<>>) \o rx[d] = (got[d] \o out[d]) \o rx[d]
      BY <1>8, GiveAll, Zenon
    <3> QED
      BY <1>1, <2>1, <3>1, <3>2, Zenon DEF Pipe
  <2>3. Len(out'[d]) = 0 /\ task'[d] \notin Early /\ task'[d] # "writing"
    BY <2>1 DEF Early
  <2> QED
    BY <1>2, <1>8, <2>1, <2>2, <2>3, PipeFrame
<1>6. CASE d = c /\ Pump(c)
  <2>1. proto = "udp" /\ task'[d] = "pump" /\ listener' = listener
        /\ rx[d] # <<>> /\ rx'[d] = Tail(rx[d]) /\ got'[d] = got[d]
        /\ (listener # "stopped" => out'[d] = Append(out[d], Head(rx[d])))
    BY <1>0, <1>6, ProtocolsType DEF Pump, ProtocolFits, TypeOK
  <2>2. ASSUME Flowing(d)' PROVE Pipe(d)' = Pipe(d)
    <3>1. out'[d] = Append(out[d], Head(rx[d]))
      BY <1>1, <2>1, <2>2 DEF Flowing
    <3>2. Append(out[d], Head(rx[d])) \o Tail(rx[d]) = out[d] \o rx[d]
      BY <1>8, <2>1, MoveTwo
    <3> QED
      BY <1>1, <2>1, <3>1, <3>2 DEF Pipe
  <2>3. task'[d] \notin Early
    BY <2>1 DEF Early
  <2> QED
    BY <1>2, <1>8, <2>1, <2>2, <2>3, PipeFrame
<1>7. CASE d = c /\ Reply(c)
  <2>1. /\ proto = "udp" /\ task' = task /\ out[d] # <<>> /\ out'[d] = Tail(out[d])
        /\ got'[d] \in {got[d], Append(got[d], Head(out[d]))} /\ rx'[d] = rx[d]
    BY <1>0, <1>7, ProtocolsType DEF Reply, ProtocolFits, TypeOK
  <2> DEFINE p == Pipe(d)
  <2>2. /\ p \in Seq(Nat) /\ p # <<>> /\ Head(out[d]) = p[1] /\ Pipe(d)' = Tail(p)
        /\ handled[d] \in Nat
    <3>1. p = out[d] \o rx[d] /\ Pipe(d)' = Tail(out[d]) \o rx[d]
      BY <1>1, <2>1 DEF Pipe
    <3>2. Tail(out[d]) \o rx[d] = Tail(p) /\ Head(out[d]) = p[1] /\ p # <<>>
      BY <1>8, <2>1, <3>1, Take, Zenon
    <3>3. p \in Seq(Nat) /\ handled[d] \in Nat
      BY PipeTypes
    <3> QED
      BY <3>1, <3>2, <3>3
  <2> HIDE DEF p
  <2>3. ASSUME Flowing(d)'
        PROVE  /\ Run(Tail(p), dsent[d])
               /\ d \in registry /\ Tail(p) # <<>> => Tail(p)[Len(Tail(p))] = handled[d]
               /\ \A i \in 1..Len(Tail(p)) : Tail(p)[i] <= handled[d]
               /\ Tail(p) # <<>> => p[1] < Tail(p)[1]
               /\ p[1] <= handled[d]
               /\ got[d] # <<>> => /\ got[d][Len(got[d])] <= handled[d]
                                   /\ got[d][Len(got[d])] < p[1]
    <3>1. Run(p, dsent[d]) /\ GotOK(d) /\ (d \in registry => p[Len(p)] = handled[d])
      BY <1>2, <2>1, <2>2, <2>3 DEF PipeOK, p
    <3>2. /\ Run(Tail(p), dsent[d]) /\ p[1] \in 1..dsent[d]
          /\ \A i \in 1..Len(Tail(p)) : Tail(p)[i] = p[i + 1] /\ i + 1 \in 1..Len(p)
          /\ Tail(p) # <<>> => Tail(p)[Len(Tail(p))] = p[Len(p)] /\ p[1] < Tail(p)[1]
      BY <1>0, <2>2, <3>1, RunTail
    <3>3. /\ \A i \in 1..Len(p) : p[i] <= handled[d]
          /\ got[d] # <<>> => /\ got[d][Len(got[d])] <= handled[d]
                              /\ got[d][Len(got[d])] < p[1]
      BY <2>2, <3>1 DEF GotOK, p
    <3>4. 1 \in 1..Len(p)
      BY <2>2
    <3> QED
      BY <3>1, <3>2, <3>3, <3>4
  <2>4. ASSUME Flowing(d)' PROVE GotOK(d)'
    <3>1. CASE got'[d] = got[d]
      <4>1. got[d] # <<>> /\ Tail(p) # <<>> => got[d][Len(got[d])] < Tail(p)[1]
        <5>1. got[d] # <<>> => got[d][Len(got[d])] \in Nat
          BY <1>8
        <5>2. p[1] \in Nat
          BY <2>2
        <5>3. Tail(p) # <<>> => Tail(p)[1] \in Nat
          BY <2>2
        <5> QED
          BY <2>3, <2>4, <5>1, <5>2, <5>3
      <4> QED
        BY <1>8, <2>2, <2>3, <2>4, <3>1, <4>1 DEF GotOK
    <3>2. CASE got'[d] = Append(got[d], p[1])
      <4>1. got'[d] # <<>> /\ got'[d][Len(got'[d])] = p[1]
        <5>1. p[1] \in Nat
          BY <2>2
        <5>2. /\ Append(got[d], p[1]) # <<>>
              /\ Append(got[d], p[1])[Len(Append(got[d], p[1]))] = p[1]
          BY <1>8, <5>1, Last
        <5> QED
          BY <3>2, <5>2
      <4>2. handled'[d] = handled[d] /\ Pipe(d)' = Tail(p)
        BY <1>8, <2>2
      <4>3. /\ \A i \in 1..Len(Tail(p)) : Tail(p)[i] <= handled[d]
            /\ p[1] <= handled[d] /\ (Tail(p) # <<>> => p[1] < Tail(p)[1])
        BY <2>3, <2>4
      <4> QED
        BY <4>1, <4>2, <4>3 DEF GotOK
    <3> QED
      BY <2>1, <2>2, <3>1, <3>2
  <2>5. Flowing(d)' => Run(Pipe(d), dsent[d])'
    BY <1>1, <2>2, <2>3 DEF Run
  <2>6. task'[d] \in Early => Pipe(d)' = <<>>
    BY <2>1, <2>2 DEF PipeOK, Early, p
  <2> QED
    BY <1>1, <1>8, <2>1, <2>2, <2>3, <2>4, <2>5, <2>6 DEF PipeOK, Early
<1> QED
  BY <1>3, <1>4, <1>5, <1>6, <1>7

\* The order towards the client is inductive.
LEMMA PipeNext ==
    ASSUME TypeOK, RegistryMatchesTasks, ProtocolFits, CurAtHand,
           \A c \in Conns : PipeOK(c), [Next]_vars
    PROVE  \A d \in Conns : PipeOK(d)'
<1> TAKE d \in Conns
<1> QED
  BY PipeQuiet, PipeFrames, PipeMoves DEF Next, Environment, TcpTask, UdpTask

-----------------------------------------------------------------------------
(* The data path implements Circuits. *)

\* All that the refinement needs of a state.
Faithful ==
    /\ TypeOK /\ RegistryMatchesTasks /\ ProtocolFits /\ CurAtHand
    /\ \A c \in Conns : WireOK(c) /\ SeenOK(c) /\ PipeOK(c)

\* It holds at the start.
LEMMA FaithfulInit == Init => Faithful
  BY TypeInit, RegistryInit, ShapeInit, WireInit, PipeInit DEF Faithful

\* It is inductive.
LEMMA FaithfulNext == Faithful /\ [Next]_vars => Faithful'
  BY TypeNext, RegistryNext, ShapeNext, WireNext, SeenNext, PipeNext DEF Faithful

\* What the device gets next is New, the next chunk of the client, or Close.
LEMMA DeviceGetsImplements ==
    ASSUME Faithful, NEW c \in Conns, DeviceGets(c)
    PROVE  Abstract!Announce(c) \/ Abstract!Deliver(c) \/ Abstract!End(c)
<1> DEFINE i == Len(view[c]) + 1
<1>1. /\ view \in [Conns -> Seq(Message)] /\ log[c] \in Seq(Message)
      /\ Len(view[c]) \in Nat /\ Len(log[c]) \in Nat
      /\ nread[c] \in Nat /\ csent[c] \in Nat /\ nread[c] <= csent[c]
  BY DEF Faithful, TypeOK, WireOK
<1>2. /\ Len(view[c]) < Len(log[c])
      /\ view' = [view EXCEPT ![c] = Append(@, log[c][i])]
      /\ UNCHANGED <<proto, csent, dsent, got>>
  BY DEF DeviceGets
<1>3. i \in 1..Len(log[c])
  BY <1>1, <1>2
<1>4. EntryOK(c, i)
  BY <1>3 DEF Faithful, WireOK
<1>5. view[c] # <<>> => /\ Len(view[c]) \in 1..Len(log[c])
                        /\ view[c][Len(view[c])] = log[c][Len(view[c])]
  BY <1>1, <1>2 DEF Faithful, SeenOK
<1>6. view[c] # <<>> => log[c][Len(view[c])] # Close
  <2>1. ASSUME view[c] # <<>> PROVE EntryOK(c, Len(view[c]))
    BY <1>5, <2>1 DEF Faithful, WireOK
  <2> QED
    BY <1>1, <1>2, <2>1 DEF EntryOK, New, Data, Close
<1>7. i > 1 => view[c] # <<>>
  BY <1>1
<1>8. CASE i = 1 /\ log[c][i] = New
  <2>1. view[c] = <<>>
    BY <1>1, <1>8
  <2> QED
    BY <1>2, <1>8, <2>1 DEF Abstract!Announce, Abstract!Announced, Abstract!See,
       Abstract!New, New
<1>9. CASE i > 1 /\ i - 1 <= nread[c] /\ log[c][i] = Data(i - 1)
  <2>1. i - 1 = Len(view[c]) /\ Len(view[c]) <= csent[c]
    BY <1>1, <1>9
  <2>2. log[c][i] = Abstract!Data(Len(view[c]))
    BY <1>9, <2>1 DEF Abstract!Data, Data
  <2>3. Abstract!Announced(c) /\ ~Abstract!Closed(c)
    BY <1>5, <1>6, <1>7, <1>9 DEF Abstract!Announced, Abstract!Closed, Abstract!Close, Close
  <2> QED
    BY <1>2, <2>1, <2>2, <2>3 DEF Abstract!Deliver, Abstract!See
<1>10. CASE i > 1 /\ log[c][i] = Close
  <2>1. Abstract!Announced(c) /\ ~Abstract!Closed(c)
    BY <1>5, <1>6, <1>7, <1>10 DEF Abstract!Announced, Abstract!Closed, Abstract!Close, Close
  <2>2. log[c][i] = Abstract!Close
    BY <1>10 DEF Abstract!Close, Close
  <2> QED
    BY <1>2, <2>1, <2>2 DEF Abstract!End, Abstract!See
<1> QED
  BY <1>4, <1>8, <1>9, <1>10 DEF EntryOK

\* The chunk the client gets follows the one it got before; a datagram that is
\* lost is no step of Circuits.
LEMMA ClientGetsImplements ==
    ASSUME Faithful, NEW c \in Conns, WriteChunk(c) \/ Reply(c)
    PROVE  Abstract!Receive(c) \/ UNCHANGED Abstract!vars
<1>1. /\ got \in [Conns -> Seq(Nat)] /\ got[c] \in Seq(Nat) /\ out[c] \in Seq(Nat)
      /\ rx[c] \in Seq(Nat) /\ dsent[c] \in Nat /\ PipeOK(c)
  BY DEF Faithful, TypeOK
<1>2. UNCHANGED <<proto, csent, view, dsent>>
  BY DEF WriteChunk, Reply, peers
<1>3. CASE WriteChunk(c) /\ client[c] = "gone"
  BY <1>2, <1>3 DEF WriteChunk, Abstract!vars
<1>4. CASE WriteChunk(c) /\ client[c] # "gone"
  <2>1. proto = "tcp" /\ Flowing(c)
    BY <1>4, ProtocolsType DEF Flowing, WriteChunk, Faithful, ProtocolFits, TypeOK
  <2>2. Run((got[c] \o out[c]) \o rx[c], dsent[c]) /\ Len(out[c]) = 1
    BY <1>1, <1>4, <2>1 DEF PipeOK, Pipe, WriteChunk
  <2>3. got[c] \o out[c] = Append(got[c], Head(out[c])) /\ out[c] # <<>>
    BY <1>1, <2>2, Single
  <2>4. got' = [got EXCEPT ![c] = Append(@, Head(out[c]))]
    BY <1>4, <2>3 DEF WriteChunk
  <2>5. /\ Head(out[c]) \in 1..dsent[c]
        /\ got[c] = <<>> \/ Head(out[c]) = got[c][Len(got[c])] + 1
    BY <1>1, <2>2, <2>3, RunInside
  <2>6. got[c] = <<>> \/ Abstract!Follows(got[c][Len(got[c])], Head(out[c]))
    BY <2>1, <2>5 DEF Abstract!Follows
  <2> QED
    BY <1>2, <2>4, <2>5, <2>6 DEF Abstract!Receive
<1>5. CASE Reply(c) /\ got' = [got EXCEPT ![c] = Append(@, Head(out[c]))]
  <2>1. proto = "udp" /\ Flowing(c) /\ out[c] # <<>>
    BY <1>5, ProtocolsType DEF Flowing, Reply, Faithful, ProtocolFits, TypeOK
  <2>2. /\ Run(Pipe(c), dsent[c]) /\ GotOK(c) /\ Pipe(c) \in Seq(Nat)
        /\ Pipe(c) # <<>> /\ Head(out[c]) = Pipe(c)[1]
    <3>1. Pipe(c) = out[c] \o rx[c]
      BY <2>1 DEF Pipe
    <3>2. Pipe(c) # <<>> /\ Head(out[c]) = Pipe(c)[1]
      BY <1>1, <2>1, <3>1, Take, Zenon
    <3>3. Pipe(c) \in Seq(Nat)
      BY PipeTypes DEF Faithful
    <3> QED
      BY <1>1, <2>1, <3>2, <3>3 DEF PipeOK
  <2>3. Head(out[c]) \in 1..dsent[c]
    BY <1>1, <2>2, RunTail
  <2>4. got[c] = <<>> \/ Abstract!Follows(got[c][Len(got[c])], Head(out[c]))
    BY <2>1, <2>2 DEF GotOK, Abstract!Follows
  <2> QED
    BY <1>2, <1>5, <2>3, <2>4 DEF Abstract!Receive
<1>6. CASE Reply(c) /\ UNCHANGED got
  BY <1>2, <1>6 DEF Abstract!vars
<1> QED
  BY <1>3, <1>4, <1>5, <1>6 DEF Reply

\* Every step is a step of Circuits, or changes nothing it knows of.
LEMMA StepImplements ==
    ASSUME Faithful, [Next]_vars
    PROVE  [Abstract!Next]_(Abstract!vars)
<1>1. ASSUME NEW c \in Conns, DeviceGets(c) PROVE Abstract!Next
  BY <1>1, DeviceGetsImplements DEF Abstract!Next
<1>2. ASSUME NEW c \in Conns, WriteChunk(c) \/ Reply(c)
      PROVE  Abstract!Next \/ UNCHANGED Abstract!vars
  BY <1>2, ClientGetsImplements DEF Abstract!Next
<1>3. ASSUME NEW c \in Conns, ClientSends(c) PROVE Abstract!Next
  <2>1. Abstract!ClientSends(c)
    BY <1>3 DEF ClientSends, Abstract!ClientSends
  <2> QED
    BY <2>1 DEF Abstract!Next
<1>4. ASSUME NEW c \in Conns, DeviceSends(c) PROVE Abstract!Next
  <2>1. Abstract!DeviceSends(c)
    BY <1>4 DEF DeviceSends, Speaks, Close, Abstract!DeviceSends, Abstract!Announced,
       Abstract!Closed, Abstract!Close
  <2> QED
    BY <2>1 DEF Abstract!Next
<1>5. CASE \/ UNCHANGED vars \/ SendTaskEnds \/ ReceiveLoopEnds \/ Stop \/ Register
           \/ \E c \in Conns : \/ Connect(c) \/ ClientCloses(c) \/ DeviceCloses(c)
                               \/ FrameData(c) \/ FrameClose(c)
  BY <1>5 DEF vars, SendTaskEnds, ReceiveLoopEnds, Stop, Register, Connect, ClientCloses,
     DeviceCloses, FrameData, FrameClose, peers, Abstract!vars
<1>6. ASSUME NEW c \in Conns, \/ Accept(c) \/ ReadChunk(c) \/ ReadEnds(c) \/ TakeChunk(c)
                              \/ WriteFails(c) \/ Unregister(c) \/ Datagram(c) \/ Forward(c)
                              \/ UdpTask(c)
      PROVE  UNCHANGED Abstract!vars
  BY <1>6 DEF Accept, ReadChunk, ReadEnds, TakeChunk, WriteFails, Unregister, Datagram,
     Forward, UdpTask, RegisterAddress, Pump, PumpEnds, peers, Abstract!vars
<1> QED
  BY <1>1, <1>2, <1>3, <1>4, <1>5, <1>6 DEF Next, Environment, TcpTask

\* At the start nothing was sent or received.
LEMMA InitImplements == Init => Abstract!Init
  BY DEF Init, Abstract!Init

\* At the end of the log stands what the channel took last: all that was read
\* is there while the relay serves, and the pipe is without a gap and ends with
\* the last frame.
LEMMA FaithfulLosesNothing == Faithful => NothingLost
<1> SUFFICES ASSUME Faithful, NEW c \in Conns
             PROVE  /\ sending /\ Serving(c) =>
                          \A n \in 1..(nread[c] - Unsent(c)) :
                              n < Len(log[c]) /\ log[c][n + 1] = Data(n)
                    /\ Flowing(c) => Run(Pipe(c), dsent[c])
                    /\ c \in registry /\ Flowing(c) /\ Pipe(c) # <<>> =>
                          Pipe(c)[Len(Pipe(c))] = handled[c]
  BY DEF NothingLost
<1>1. ASSUME sending, Serving(c), NEW n \in 1..(nread[c] - Unsent(c))
      PROVE  n < Len(log[c]) /\ log[c][n + 1] = Data(n)
  <2>1. /\ nread[c] \in Nat /\ Unsent(c) \in {0, 1} /\ Len(log[c]) \in Nat
        /\ Len(log[c]) = nread[c] + 1 - Unsent(c)
    BY <1>1 DEF Faithful, TypeOK, WireOK, Unsent
  <2>2. n + 1 \in 1..Len(log[c]) /\ n + 1 > 1 /\ (n + 1) - 1 = n
    BY <2>1
  <2>3. EntryOK(c, n + 1)
    BY <2>2 DEF Faithful, WireOK
  <2>4. ~(proto = "tcp" /\ task[c] \in {"closing", "done"})
    BY <1>1 DEF Serving
  <2> QED
    BY <2>1, <2>2, <2>3, <2>4 DEF EntryOK
<1>2. /\ Flowing(c) => Run(Pipe(c), dsent[c])
      /\ c \in registry /\ Flowing(c) /\ Pipe(c) # <<>> => Pipe(c)[Len(Pipe(c))] = handled[c]
  BY DEF Faithful, PipeOK
<1> QED
  BY <1>1, <1>2

(***************************************************************************)
(* Nothing that the relay took over is lost while it serves a connection.  *)
(* The losses are those at its ends: a frame before the registration or    *)
(* after the close, ws_handler.rs 151, and what a closed channel or a      *)
(* client that left no longer takes, tcp_proxy.rs 64 and 80.  For UDP it   *)
(* is said up to send_to, whose errors are ignored, udp_proxy.rs 84.       *)
(***************************************************************************)
THEOREM ServedWithoutLoss == Spec => []NothingLost
<1> QED
  BY FaithfulInit, FaithfulNext, FaithfulLosesNothing, PTL DEF Spec

\* The data path implements Circuits, for TCP and UDP and for any number of
\* connections and chunks: connections are announced first and once, chunks
\* arrive in order and once in both directions, without a gap except among the
\* datagrams to a client (send_to, udp_proxy.rs 84), and nothing follows the
\* notice of the end.
THEOREM DataPathImplements == Spec => ImplementsCircuits
<1>1. Spec => []Faithful
  BY FaithfulInit, FaithfulNext, PTL DEF Spec
<1>2. Spec => Abstract!Init
  BY InitImplements DEF Spec
<1>3. Faithful /\ [Next]_vars => [Abstract!Next]_(Abstract!vars)
  BY StepImplements
<1> QED
  BY <1>1, <1>2, <1>3, PTL DEF Spec, ImplementsCircuits, Abstract!Spec

-----------------------------------------------------------------------------
(* What Circuits promises of every state, from its own steps. *)

Promised == Abstract!TypeOK /\ Abstract!Intact

\* A step of one connection keeps what is promised of it.
LEMMA PromisedStep ==
    ASSUME Promised, NEW c \in Conns,
           \/ Abstract!ClientSends(c) \/ Abstract!Announce(c) \/ Abstract!Deliver(c)
           \/ Abstract!End(c) \/ Abstract!DeviceSends(c) \/ Abstract!Receive(c)
    PROVE  Promised'
<1> USE DEF Promised, Abstract!TypeOK, Abstract!Announced, Abstract!Closed
<1>1. /\ csent \in [Conns -> Nat] /\ dsent \in [Conns -> Nat]
      /\ view \in [Conns -> Seq(Abstract!Message)] /\ got \in [Conns -> Seq(Nat)]
  OBVIOUS
<1>0. (proto = "udp")' = (proto = "udp")
  BY DEF Abstract!ClientSends, Abstract!Announce, Abstract!Deliver, Abstract!End,
     Abstract!See, Abstract!DeviceSends, Abstract!Receive
<1>2. CASE Abstract!ClientSends(c)
  <2>1. csent' \in [Conns -> Nat] /\ \A d \in Conns : csent[d] <= csent'[d]
    BY <1>1, <1>2 DEF Abstract!ClientSends
  <2> QED
    BY <1>0, <1>1, <1>2, <2>1 DEF Abstract!ClientSends, Abstract!Intact, Abstract!EntryFits,
       Abstract!Follows
<1>3. ASSUME NEW m \in Abstract!Message, Abstract!See(c, m),
             \/ view[c] = <<>> /\ m = Abstract!New
             \/ /\ view[c] # <<>> /\ ~Abstract!Closed(c)
                /\ \/ Len(view[c]) <= csent[c] /\ m = Abstract!Data(Len(view[c]))
                   \/ m = Abstract!Close
      PROVE  Promised'
  <2>1. /\ view' = [view EXCEPT ![c] = Append(@, m)] /\ UNCHANGED <<csent, dsent, got>>
        /\ view' \in [Conns -> Seq(Abstract!Message)]
        /\ \A d \in Conns : d # c => view'[d] = view[d]
        /\ view'[c] = Append(view[c], m) /\ view[c] \in Seq(Abstract!Message)
    BY <1>1, <1>3, AppendAt DEF Abstract!See
  <2>2. ASSUME NEW i \in 1..Len(view'[c]) PROVE Abstract!EntryFits(c, i)'
    <3>1. CASE i = Len(view[c]) + 1
      <4>1. view'[c][i] = m /\ i = Len(view'[c])
        BY <2>1, <3>1
      <4>2. view[c] = <<>> => i = 1
        BY <3>1
      <4>3. view[c] # <<>> => i > 1 /\ i - 1 = Len(view[c])
        BY <2>1, <3>1
      <4> QED
        BY <1>3, <2>1, <4>1, <4>2, <4>3 DEF Abstract!EntryFits
    <3>2. CASE i # Len(view[c]) + 1
      <4>1. i \in 1..Len(view[c]) /\ view'[c][i] = view[c][i] /\ view[c] # <<>>
        BY <2>1, <3>2
      <4>2. Abstract!EntryFits(c, i)
        BY <4>1 DEF Abstract!Intact
      <4>3. ~(i = Len(view[c]) /\ view[c][i] = Abstract!Close)
        BY <1>3, <4>1
      <4> QED
        BY <2>1, <4>1, <4>2, <4>3 DEF Abstract!EntryFits
    <3> QED
      BY <3>1, <3>2
  <2>3. ASSUME NEW d \in Conns, d # c, NEW i \in 1..Len(view'[d])
        PROVE  Abstract!EntryFits(d, i)'
    BY <2>1, <2>3 DEF Abstract!Intact, Abstract!EntryFits
  <2>4. \A d \in Conns : view[d] # <<>> => view'[d] # <<>>
    BY <2>1
  <2> QED
    BY <1>0, <1>1, <2>1, <2>2, <2>3, <2>4 DEF Abstract!Intact, Abstract!Follows
<1>4. CASE Abstract!Announce(c) \/ Abstract!Deliver(c) \/ Abstract!End(c)
  <2>1. /\ Abstract!New \in Abstract!Message /\ Abstract!Close \in Abstract!Message
        /\ Abstract!Data(Len(view[c])) \in Abstract!Message
    BY <1>1 DEF Abstract!New, Abstract!Close, Abstract!Data, Abstract!Message
  <2> QED
    BY <1>3, <1>4, <2>1 DEF Abstract!Announce, Abstract!Deliver, Abstract!End
<1>5. CASE Abstract!DeviceSends(c)
  <2>1. /\ dsent' \in [Conns -> Nat] /\ \A d \in Conns : dsent[d] <= dsent'[d]
        /\ \A d \in Conns : dsent'[d] > 0 => dsent[d] > 0 \/ view[d] # <<>>
    BY <1>1, <1>5 DEF Abstract!DeviceSends
  <2> QED
    <3>1. UNCHANGED <<csent, view, got>>
      BY <1>5 DEF Abstract!DeviceSends
    <3>2. ASSUME NEW d \in Conns, NEW i \in 1..Len(got[d]) PROVE got[d][i] \in 1..dsent'[d]
      BY <1>1, <2>1 DEF Abstract!Intact
    <3>3. \A d \in Conns : \A i \in 1..Len(view[d]) : Abstract!EntryFits(d, i)'
      BY <3>1 DEF Abstract!Intact, Abstract!EntryFits
    <3>4. Abstract!Intact'
      BY <1>0, <2>1, <3>1, <3>2, <3>3 DEF Abstract!Intact, Abstract!Follows
    <3> QED
      BY <1>1, <2>1, <3>1, <3>4
<1>6. CASE Abstract!Receive(c)
  <2>1. PICK n \in 1..dsent[c] :
              /\ got[c] = <<>> \/ Abstract!Follows(got[c][Len(got[c])], n)
              /\ got' = [got EXCEPT ![c] = Append(@, n)]
    BY <1>6 DEF Abstract!Receive
  <2>2. /\ n \in Nat /\ got' \in [Conns -> Seq(Nat)] /\ got'[c] = Append(got[c], n)
        /\ (\A d \in Conns : d # c => got'[d] = got[d]) /\ got[c] \in Seq(Nat)
        /\ UNCHANGED <<csent, view, dsent>>
    BY <1>1, <1>6, <2>1, AppendAt DEF Abstract!Receive
  <2>3. /\ \A i \in 1..Len(got'[c]) : got'[c][i] \in 1..dsent[c]
        /\ \A i \in 1..(Len(got'[c]) - 1) : Abstract!Follows(got'[c][i], got'[c][i + 1])
    <3>1. ASSUME NEW i \in 1..Len(got'[c]) PROVE got'[c][i] \in 1..dsent[c]
      BY <2>1, <2>2 DEF Abstract!Intact
    <3>2. ASSUME NEW i \in 1..(Len(got'[c]) - 1)
          PROVE  Abstract!Follows(got'[c][i], got'[c][i + 1])
      <4>1. CASE i < Len(got[c])
        <5>1. /\ i \in 1..(Len(got[c]) - 1)
              /\ got'[c][i] = got[c][i] /\ got'[c][i + 1] = got[c][i + 1]
          BY <2>2, <4>1
        <5> QED
          BY <5>1 DEF Abstract!Intact
      <4>2. CASE i = Len(got[c])
        <5>1. got[c] # <<>> /\ got'[c][i] = got[c][Len(got[c])] /\ got'[c][i + 1] = n
          BY <2>2, <4>2
        <5> QED
          BY <2>1, <5>1
      <4>3. i < Len(got[c]) \/ i = Len(got[c])
        BY <2>2
      <4> QED
        BY <4>1, <4>2, <4>3
    <3> QED
      BY <3>1, <3>2
  <2>4. \A d \in Conns :
              /\ \A i \in 1..Len(got'[d]) : got'[d][i] \in 1..dsent[d]
              /\ \A i \in 1..(Len(got'[d]) - 1) :
                    Abstract!Follows(got'[d][i], got'[d][i + 1])
    BY <2>2, <2>3 DEF Abstract!Intact
  <2>5. \A d \in Conns : /\ \A i \in 1..Len(view[d]) : Abstract!EntryFits(d, i)'
                         /\ dsent[d] > 0 => view[d] # <<>>
    BY <2>2 DEF Abstract!Intact, Abstract!EntryFits
  <2>6. Abstract!Intact'
    BY <1>0, <2>2, <2>4, <2>5 DEF Abstract!Intact, Abstract!Follows
  <2> QED
    BY <1>1, <2>2, <2>6
<1> QED
  BY <1>2, <1>4, <1>5, <1>6

(***************************************************************************)
(* Whatever implements Circuits shows a device and a client only what is   *)
(* promised.                                                               *)
(***************************************************************************)
THEOREM CircuitsIntact == Abstract!Spec => []Abstract!Intact
<1>1. Abstract!Init => Promised
  BY DEF Promised, Abstract!Init, Abstract!TypeOK, Abstract!Intact
<1>2. Promised /\ [Abstract!Next]_(Abstract!vars) => Promised'
  <2>1. Promised /\ Abstract!Next => Promised'
    BY PromisedStep DEF Abstract!Next
  <2>2. Promised /\ UNCHANGED Abstract!vars => Promised'
    BY DEF Promised, Abstract!vars, Abstract!TypeOK, Abstract!Intact, Abstract!EntryFits,
       Abstract!Follows
  <2> QED
    BY <2>1, <2>2
<1>3. Promised => Abstract!Intact
  BY DEF Promised
<1> QED
  BY <1>1, <1>2, <1>3, PTL DEF Abstract!Spec

(***************************************************************************)
(* So the device of a tunnel sees New, then the first chunks of the client *)
(* in order, then at most one Close, and the client gets chunks of those   *)
(* the device sent in order and once, consecutive ones over TCP.           *)
(* tcp_proxy.rs 20-97, udp_proxy.rs 20-89, ws_handler.rs 148-159.          *)
(***************************************************************************)
THEOREM DataPathIntact == Spec => []Abstract!Intact
  BY DataPathImplements, CircuitsIntact, PTL DEF ImplementsCircuits
=============================================================================
