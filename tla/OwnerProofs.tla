----------------------------- MODULE OwnerProofs -----------------------------
(***************************************************************************)
(* The traffic of an agent goes only to peers that have its token: the     *)
(* proof of TrafficToOwner for all values of the constants.                *)
(*                                                                         *)
(* A claim code leads to an agent: through its row while it is unclaimed,  *)
(* and through the request that has just confirmed it.  A connection is    *)
(* filed under a code: in pending_claims, or in its own local.  The claim  *)
(* is safe because whoever is filed under a code has the token of the one  *)
(* agent the code leads to.                                                *)
(***************************************************************************)
EXTENDS RelayProofs

\* What the proof needs of the codes: two agents are never given the same one.
DistinctCodes ==
    /\ "collide" \notin Ops
    /\ \A x, y \in Agents0 : (x.claim # {} /\ x.claim = y.claim) => x.id = y.id

Confirming(p, a, c) ==
    pc[p] = "claim.take" /\ job[p].agent = {a} /\ job[p].code = {c}

LeadsTo(c, a) ==
    \/ \E x \in agents : x.id = a /\ x.claim = {c}
    \/ \E p \in Procs : Confirming(p, a, c)

FiledUnder(s, c) == pending[c] = {s} \/ sess[s].code = {c}

CodesInv ==
    /\ \A c \in Codes, a \in Agents : LeadsTo(c, a) => c \in issued
    /\ \A c \in Codes, s \in Sessions : FiledUnder(s, c) => c \in issued
    /\ \A c \in Codes, a, b \in Agents : (LeadsTo(c, a) /\ LeadsTo(c, b)) => a = b
    /\ \A c \in Codes, a \in Agents, s \in Sessions :
          (LeadsTo(c, a) /\ FiledUnder(s, c)) => a \in sess[s].knows

AuthedInv == \A s \in Sessions : sess[s].authed \subseteq sess[s].knows

\* A handler works for agents whose token the channel it was given knows.
WorksForOwner(p) ==
    \A s \in job[p].via :
        /\ job[p].agent \subseteq sess[s].knows
        /\ \A t \in job[p].cfg \cup job[p].todo : t.agent \in sess[s].knows

\* What the handlers that are given a channel on the way have in their locals.
LocalsFit(p) ==
    /\ pc[p] = "claim.take" => job[p].cfg = {} /\ job[p].todo = {}
    /\ pc[p] \in {"create.allocate", "create.insert", "create.notify",
                  "toggle.write", "toggle.notify"}
          => job[p].agent = {} /\ job[p].todo = {}

OwnerInv ==
    /\ CodesInv
    /\ AuthedInv
    /\ \A p \in Procs : WorksForOwner(p) /\ LocalsFit(p)
    /\ TrafficToOwner

-----------------------------------------------------------------------------
(* What a step may do to the parts of the invariant that it does not       *)
(* mention: no new way from a code to an agent, no new file under a code,  *)
(* no new pair of an agent and the connection that serves it.              *)

NothingForgotten ==
    /\ issued \subseteq issued'
    /\ \A s \in Sessions : sess[s].knows \subseteq sess'[s].knows

NoNewLead == \A c \in Codes, a \in Agents : LeadsTo(c, a)' => LeadsTo(c, a)

NoNewFile == \A c \in Codes, s \in Sessions : FiledUnder(s, c)' => FiledUnder(s, c)

NoNewTraffic ==
    /\ \A l \in listeners' :
          \E k \in listeners : k.agent = l.agent /\ k.via = l.via
    /\ \A a \in Agents, s \in Sessions : senders'[a] = {s} => senders[a] = {s}

OnlyMoves(p) ==
    \A q \in Procs \ {p} : pc'[q] = pc[q] /\ job'[q] = job[q]

\* CodesInv is kept where no lead and no file is new.
LEMMA CodesKept ==
  ASSUME CodesInv, NothingForgotten, NoNewLead, NoNewFile
  PROVE  CodesInv'
<1>1. \A c \in Codes, a \in Agents : LeadsTo(c, a)' => c \in issued'
  BY DEF CodesInv, NothingForgotten, NoNewLead
<1>2. \A c \in Codes, s \in Sessions : FiledUnder(s, c)' => c \in issued'
  BY DEF CodesInv, NothingForgotten, NoNewFile
<1>3. \A c \in Codes, a, b \in Agents : (LeadsTo(c, a)' /\ LeadsTo(c, b)') => a = b
  BY DEF CodesInv, NoNewLead
<1>4. \A c \in Codes, a \in Agents, s \in Sessions :
         (LeadsTo(c, a)' /\ FiledUnder(s, c)') => a \in sess'[s].knows
  BY DEF CodesInv, NothingForgotten, NoNewLead, NoNewFile
<1> QED
  BY <1>1, <1>2, <1>3, <1>4 DEF CodesInv

\* A step of p leaves the locals of the other handlers as they are.
LEMMA OthersKept ==
  ASSUME TypeOK, NEW p \in Procs, NothingForgotten, OnlyMoves(p),
         \A q \in Procs : WorksForOwner(q) /\ LocalsFit(q),
         WorksForOwner(p)', LocalsFit(p)'
  PROVE  \A q \in Procs : WorksForOwner(q)' /\ LocalsFit(q)'
<1> SUFFICES ASSUME NEW q \in Procs, q # p
             PROVE  WorksForOwner(q)' /\ LocalsFit(q)'
  OBVIOUS
<1>1. pc'[q] = pc[q] /\ job'[q] = job[q]
  BY DEF OnlyMoves
<1>2. job[q].via \subseteq Sessions
  BY OptMember DEF TypeOK, Job
<1>3. WorksForOwner(q)'
  BY <1>1, <1>2 DEF WorksForOwner, NothingForgotten
<1>4. LocalsFit(q)'
  BY <1>1 DEF LocalsFit
<1> QED
  BY <1>3, <1>4

\* Traffic stays with its owner where no pair of agent and connection is new.
LEMMA TrafficKept ==
  ASSUME TypeOK, TypeOK', TrafficToOwner, NothingForgotten, NoNewTraffic
  PROVE  TrafficToOwner'
<1>1. ASSUME NEW l \in listeners' PROVE l.agent \in sess'[l.via].knows
  <2>1. PICK k \in listeners : k.agent = l.agent /\ k.via = l.via
    BY DEF NoNewTraffic
  <2>2. k.via \in Sessions
    BY DEF TypeOK, Listener
  <2> QED
    BY <2>1, <2>2 DEF TrafficToOwner, NothingForgotten
<1>2. ASSUME NEW a \in Agents, NEW s \in Sessions, senders'[a] = {s}
      PROVE  a \in sess'[s].knows
  BY <1>2 DEF NoNewTraffic, TrafficToOwner, NothingForgotten
<1> QED
  BY <1>1, <1>2 DEF TrafficToOwner

\* Rows of agents keep the claim code they have, or lose it.
RowsKept ==
    \A x \in agents' : x.claim = {} \/ \E y \in agents : y.id = x.id /\ y.claim = x.claim

\* A lead is new only with a new row, or with a request that confirms a claim.
LEMMA LeadsKept ==
  ASSUME NEW p \in Procs, OnlyMoves(p), pc'[p] # "claim.take", RowsKept
  PROVE  NoNewLead
<1> SUFFICES ASSUME NEW c \in Codes, NEW a \in Agents, LeadsTo(c, a)'
             PROVE  LeadsTo(c, a)
  BY DEF NoNewLead
<1>1. CASE \E x \in agents' : x.id = a /\ x.claim = {c}
  BY <1>1 DEF RowsKept, LeadsTo
<1>2. CASE \E q \in Procs : Confirming(q, a, c)'
  BY <1>2 DEF Confirming, OnlyMoves, LeadsTo
<1> QED
  BY <1>1, <1>2 DEF LeadsTo

\* A step of p that touches neither the waiters nor the locals of a connection.
LEMMA QuietStep ==
  ASSUME TypeOK, TypeOK', OwnerInv, NEW p \in Procs, OnlyMoves(p), RowsKept,
         UNCHANGED <<pending, sess>>, issued \subseteq issued',
         pc'[p] # "claim.take", WorksForOwner(p)', LocalsFit(p)',
         TrafficToOwner'
  PROVE  OwnerInv'
<1>1. NoNewLead
  BY LeadsKept
<1>2. NoNewFile
  BY DEF NoNewFile, FiledUnder
<1>3. NothingForgotten
  BY DEF NothingForgotten
<1>4. CodesInv'
  BY <1>1, <1>2, <1>3, CodesKept DEF OwnerInv
<1>5. \A q \in Procs : WorksForOwner(q)' /\ LocalsFit(q)'
  BY <1>3, OthersKept DEF OwnerInv
<1>6. AuthedInv'
  BY DEF AuthedInv, OwnerInv
<1> QED
  BY <1>4, <1>5, <1>6 DEF OwnerInv

\* The same, where no proxy task and no entry of agent_senders is new either.
LEMMA QuieterStep ==
  ASSUME TypeOK, TypeOK', OwnerInv, NEW p \in Procs, OnlyMoves(p), RowsKept,
         UNCHANGED <<pending, sess>>, issued \subseteq issued', NoNewTraffic,
         pc'[p] # "claim.take", WorksForOwner(p)', LocalsFit(p)'
  PROVE  OwnerInv'
<1>1. TrafficToOwner'
  <2>1. NothingForgotten
    BY DEF NothingForgotten
  <2> QED
    BY <2>1, TrafficKept DEF OwnerInv
<1> QED
  BY <1>1, QuietStep

\* Where Goto, Begin and Return leave a process.
LEMMA GotoMoves ==
  ASSUME TypeOK, NEW p \in Procs, NEW label, Goto(p, label), job' = job
  PROVE  OnlyMoves(p) /\ pc'[p] = label /\ job'[p] = job[p]
  BY DEF TypeOK, Goto, OnlyMoves

\* Begin moves its process only.
LEMMA BeginMoves ==
  ASSUME TypeOK, NEW p \in Procs, NEW label, NEW j, Begin(p, label, j)
  PROVE  OnlyMoves(p) /\ pc'[p] = label /\ job'[p] = j
  BY DEF TypeOK, Begin, Goto, OnlyMoves

\* Finish moves its process only.
LEMMA FinishMoves ==
  ASSUME TypeOK, NEW p \in Procs, NEW label, Finish(p, label)
  PROVE  OnlyMoves(p) /\ pc'[p] = label /\ job'[p] = NoJob
  BY DEF TypeOK, Finish, OnlyMoves

\* A process without a channel works for nobody, and outside the handlers that
\* LocalsFit names nothing is asked of the locals.
LEMMA NoChannel ==
  ASSUME NEW p, job'[p].via = {} PROVE WorksForOwner(p)'
  BY DEF WorksForOwner

Plain == Labels \ {"claim.take", "create.allocate", "create.insert",
                   "create.notify", "toggle.write", "toggle.notify"}

\* At a plain label nothing is asked of the locals.
LEMMA PlainFits ==
  ASSUME NEW p, pc'[p] \in Plain PROVE LocalsFit(p)' /\ pc'[p] # "claim.take"
  BY DEF Plain, LocalsFit

\* A handler that returns works for nobody any more.
LEMMA ReturnFits ==
  ASSUME TypeOK, NEW p \in Procs, Return(p)
  PROVE  /\ OnlyMoves(p)
         /\ WorksForOwner(p)' /\ LocalsFit(p)' /\ pc'[p] # "claim.take"
<1>1. OnlyMoves(p) /\ pc'[p] = Home(p) /\ job'[p] = NoJob
  BY FinishMoves DEF Return
<1>2. pc'[p] \in Plain
  BY <1>1 DEF Home, Plain, Labels, SessionLabels, ReqLabels
<1> QED
  BY <1>1, <1>2, NoChannel, PlainFits DEF NoJob

-----------------------------------------------------------------------------
(* The steps of tunnel_manager.rs. *)

\* The rows keep their codes where the table is unchanged.
LEMMA SameRows == ASSUME UNCHANGED agents PROVE RowsKept
  BY DEF RowsKept

\* No traffic is new where tasks and senders are unchanged.
LEMMA SameTraffic ==
  ASSUME UNCHANGED <<listeners, senders>> PROVE NoNewTraffic
  BY DEF NoNewTraffic

\* Stopping, filing or dropping a task changes its handle only.
LEMMA StopListenerTraffic ==
  ASSUME TypeOK, NEW t, listeners' = StopListener(t), UNCHANGED senders
  PROVE  NoNewTraffic
  BY DEF TypeOK, StopListener, NoNewTraffic, Listener

\* Filing a handle brings no traffic.
LEMMA InsertTaskTraffic ==
  ASSUME TypeOK, NEW p, NEW t, listeners' = InsertTask(p, t), UNCHANGED senders
  PROVE  NoNewTraffic
  BY DEF TypeOK, InsertTask, NoNewTraffic, Listener

\* Aborting the old task of a tunnel keeps the invariant.
LEMMA StartStopOwner ==
  ASSUME TypeOK, TypeOK', OwnerInv, NEW p \in Procs, StartStop(p)
  PROVE  OwnerInv'
<1>1. OnlyMoves(p) /\ pc'[p] = "start.bind" /\ job'[p] = job[p]
  BY GotoMoves DEF StartStop
<1>2. NoNewTraffic
  BY StopListenerTraffic DEF StartStop
<1>3. WorksForOwner(p)'
  BY <1>1 DEF StartStop, WorksForOwner, OwnerInv
<1>4. LocalsFit(p)' /\ pc'[p] # "claim.take"
  BY <1>1, PlainFits DEF Plain, Labels, SharedLabels
<1> QED
  BY <1>1, <1>2, <1>3, <1>4, QuieterStep, SameRows DEF StartStop

\* The one step that makes a proxy task: for the channel the handler was given.
LEMMA StartBindOwner ==
  ASSUME TypeOK, TypeOK', OwnerInv, NEW p \in Procs, StartBind(p)
  PROVE  OwnerInv'
<1>1. OnlyMoves(p) /\ pc'[p] = "start.insert" /\ job'[p] = job[p]
  BY GotoMoves DEF StartBind
<1>2. PICK t \in job[p].cfg, s \in job[p].via :
         listeners' = listeners \cup
            {[tunnel |-> t.id, agent |-> t.agent, proto |-> t.proto,
              port |-> t.port, via |-> s, handle |-> p]}
  BY DEF StartBind
<1>3. t.agent \in sess[s].knows
  BY <1>2 DEF OwnerInv, WorksForOwner
<1>4. TrafficToOwner'
  BY <1>2, <1>3 DEF StartBind, OwnerInv, TrafficToOwner
<1>5. WorksForOwner(p)'
  BY <1>1 DEF StartBind, WorksForOwner, OwnerInv
<1>6. LocalsFit(p)' /\ pc'[p] # "claim.take"
  BY <1>1, PlainFits DEF Plain, Labels, SharedLabels
<1> QED
  BY <1>1, <1>4, <1>5, <1>6, QuietStep, SameRows DEF StartBind

\* Going on to the next row works for the same agent.
LEMMA NextRowFits ==
  ASSUME TypeOK, OwnerInv, NEW p \in Procs, NextRow(p), UNCHANGED sess
  PROVE  /\ OnlyMoves(p)
         /\ WorksForOwner(p)' /\ LocalsFit(p)' /\ pc'[p] # "claim.take"
<1>1. CASE job[p].todo = {}
  BY <1>1, ReturnFits DEF NextRow
<1>2. CASE job[p].todo # {}
  <2>1. job' = [job EXCEPT ![p].cfg = {}] /\ Goto(p, "sync.reserve")
    BY <1>2 DEF NextRow
  <2>2. OnlyMoves(p) /\ pc'[p] = "sync.reserve"
    BY <2>1 DEF OnlyMoves, Goto, TypeOK
  <2>3. /\ job'[p].via = job[p].via /\ job'[p].agent = job[p].agent
        /\ job'[p].cfg = {} /\ job'[p].todo = job[p].todo
    BY <2>1 DEF TypeOK, Job
  <2>4. WorksForOwner(p)'
    BY <2>3 DEF WorksForOwner, OwnerInv
  <2>5. pc'[p] \in Plain
    BY <2>2 DEF Plain, Labels, SharedLabels
  <2> QED
    BY <2>2, <2>4, <2>5, PlainFits
<1> QED
  BY <1>1, <1>2

\* A bind that fails keeps the invariant.
LEMMA StartBindFailsOwner ==
  ASSUME TypeOK, TypeOK', OwnerInv, NEW p \in Procs, StartBindFails(p)
  PROVE  OwnerInv'
  BY NextRowFits, QuieterStep, SameRows, SameTraffic DEF StartBindFails

\* Filing the handle of a new task keeps the invariant.
LEMMA StartInsertOwner ==
  ASSUME TypeOK, TypeOK', OwnerInv, NEW p \in Procs, StartInsert(p)
  PROVE  OwnerInv'
<1>1. NoNewTraffic
  BY InsertTaskTraffic DEF StartInsert
<1> QED
  BY <1>1, NextRowFits, QuieterStep, SameRows DEF StartInsert

\* Reading the tunnels of an agent to start keeps the invariant.
LEMMA SyncListOwner ==
  ASSUME TypeOK, TypeOK', OwnerInv, NEW p \in Procs, SyncList(p)
  PROVE  OwnerInv'
<1> DEFINE rows == {t \in tunnels : t.agent \in job[p].agent /\ t.enabled}
<1>1. /\ OnlyMoves(p)
      /\ WorksForOwner(p)' /\ LocalsFit(p)' /\ pc'[p] # "claim.take"
  <2>1. CASE rows = {}
    BY <2>1, ReturnFits DEF SyncList
  <2>2. CASE rows # {}
    <3>1. job' = [job EXCEPT ![p].todo = rows] /\ Goto(p, "sync.reserve")
      BY <2>2 DEF SyncList
    <3>2. OnlyMoves(p) /\ pc'[p] = "sync.reserve"
      BY <3>1 DEF OnlyMoves, Goto, TypeOK
    <3>3. /\ job'[p].via = job[p].via /\ job'[p].agent = job[p].agent
          /\ job'[p].cfg = job[p].cfg /\ job'[p].todo = rows
      BY <3>1 DEF TypeOK, Job
    <3>4. WorksForOwner(p)'
      <4>1. ASSUME NEW s \in job[p].via, NEW t \in job[p].cfg \cup rows
            PROVE  t.agent \in sess[s].knows
        BY DEF WorksForOwner, OwnerInv
      <4>2. ASSUME NEW s \in job[p].via PROVE job[p].agent \subseteq sess[s].knows
        BY DEF WorksForOwner, OwnerInv
      <4> HIDE DEF rows
      <4> QED
        BY <3>3, <4>1, <4>2 DEF WorksForOwner, SyncList
    <3>5. pc'[p] \in Plain
      BY <3>2 DEF Plain, Labels, SharedLabels
    <3> QED
      BY <3>2, <3>4, <3>5, PlainFits
  <2> QED
    BY <2>1, <2>2
<1> QED
  BY <1>1, QuieterStep, SameRows, SameTraffic DEF SyncList

\* Both loops take one row of todo into cfg.
LEMMA TakeRowFits ==
  ASSUME TypeOK, OwnerInv, NEW p \in Procs, UNCHANGED sess,
         NEW t \in job[p].todo, NEW label \in Plain, Goto(p, label),
         job' = [job EXCEPT ![p].cfg = {t}, ![p].todo = @ \ {t}]
  PROVE  /\ OnlyMoves(p)
         /\ WorksForOwner(p)' /\ LocalsFit(p)' /\ pc'[p] # "claim.take"
<1>1. OnlyMoves(p) /\ pc'[p] = label
  BY DEF OnlyMoves, Goto, TypeOK
<1>2. /\ job'[p].via = job[p].via /\ job'[p].agent = job[p].agent
      /\ job'[p].cfg = {t} /\ job'[p].todo = job[p].todo \ {t}
  BY DEF TypeOK, Job
<1>3. WorksForOwner(p)'
  BY <1>2 DEF WorksForOwner, OwnerInv
<1> QED
  BY <1>1, <1>3, PlainFits

\* Reserving the port of the next tunnel keeps the invariant.
LEMMA SyncReserveOwner ==
  ASSUME TypeOK, TypeOK', OwnerInv, NEW p \in Procs, SyncReserve(p)
  PROVE  OwnerInv'
<1>1. "start.stop" \in Plain
  BY DEF Plain, Labels, SharedLabels
<1>2. /\ OnlyMoves(p)
      /\ WorksForOwner(p)' /\ LocalsFit(p)' /\ pc'[p] # "claim.take"
  BY <1>1, TakeRowFits DEF SyncReserve
<1> QED
  BY <1>2, QuieterStep, SameRows, SameTraffic DEF SyncReserve

\* Stopping the task of the next tunnel keeps the invariant.
LEMMA StopOneOwner ==
  ASSUME TypeOK, TypeOK', OwnerInv, NEW p \in Procs, StopOne(p)
  PROVE  OwnerInv'
<1>1. "stop.free" \in Plain
  BY DEF Plain, Labels, SharedLabels
<1>2. /\ OnlyMoves(p)
      /\ WorksForOwner(p)' /\ LocalsFit(p)' /\ pc'[p] # "claim.take"
  BY <1>1, TakeRowFits DEF StopOne
<1>3. NoNewTraffic
  BY StopListenerTraffic DEF StopOne
<1> QED
  BY <1>2, <1>3, QuieterStep, SameRows DEF StopOne

\* A handler that goes on with the same locals works for the same agent.
LEMMA StayFits ==
  ASSUME TypeOK, OwnerInv, NEW p \in Procs, UNCHANGED <<sess, job>>,
         NEW label \in Plain, Goto(p, label)
  PROVE  /\ OnlyMoves(p)
         /\ WorksForOwner(p)' /\ LocalsFit(p)' /\ pc'[p] # "claim.take"
<1>1. OnlyMoves(p) /\ pc'[p] = label /\ job'[p] = job[p]
  BY GotoMoves
<1>2. WorksForOwner(p)'
  BY <1>1 DEF WorksForOwner, OwnerInv
<1> QED
  BY <1>1, <1>2, PlainFits

\* Freeing the port of a stopped tunnel keeps the invariant.
LEMMA FreeOneOwner ==
  ASSUME TypeOK, TypeOK', OwnerInv, NEW p \in Procs, FreeOne(p)
  PROVE  OwnerInv'
<1>1. /\ OnlyMoves(p)
      /\ WorksForOwner(p)' /\ LocalsFit(p)' /\ pc'[p] # "claim.take"
  <2>1. CASE job[p].todo # {}
    <3>1. "stop.one" \in Plain
      BY DEF Plain, Labels, SharedLabels
    <3> QED
      BY <2>1, <3>1, StayFits DEF FreeOne
  <2>2. CASE job[p].todo = {} /\ job[p].ret = "gone"
    <3>1. OnlyMoves(p) /\ pc'[p] = "gone" /\ job'[p] = NoJob
      BY <2>2, FinishMoves DEF FreeOne, LoopEnds
    <3>2. pc'[p] \in Plain
      BY <3>1 DEF Plain, Labels, SessionLabels
    <3> QED
      BY <3>1, <3>2, NoChannel, PlainFits DEF NoJob
  <2>3. CASE job[p].todo = {} /\ job[p].ret = "delete.notify"
    <3>1. "delete.notify" \in Plain
      BY DEF Plain, Labels, ReqLabels
    <3> QED
      BY <2>3, <3>1, StayFits DEF FreeOne, LoopEnds
  <2>4. CASE job[p].todo = {} /\ job[p].ret = "home"
    BY <2>4, ReturnFits DEF FreeOne, LoopEnds
  <2> QED
    BY <2>1, <2>2, <2>3, <2>4 DEF TypeOK, Job
<1> QED
  BY <1>1, QuieterStep, SameRows, SameTraffic DEF FreeOne

\* Every step of tunnel_manager.rs keeps the invariant.
LEMMA TunnelStepOwner ==
  ASSUME TypeOK, TypeOK', OwnerInv, NEW p \in Procs, TunnelStep(p)
  PROVE  OwnerInv'
  BY StartStopOwner, StartBindOwner, StartBindFailsOwner, StartInsertOwner,
     SyncListOwner, SyncReserveOwner, StopOneOwner, FreeOneOwner DEF TunnelStep

\* Queueing for agent_senders, and the end of a proxy task.
LEMMA QueueWriterOwner ==
  ASSUME TypeOK, TypeOK', OwnerInv, NEW p \in Procs, QueueWriter(p)
  PROVE  OwnerInv'
<1>1. UNCHANGED <<agents, issued, senders, pending, listeners, sess, pc, job>>
  BY DEF QueueWriter
<1> QED
  BY <1>1 DEF OwnerInv, CodesInv, LeadsTo, Confirming, FiledUnder, AuthedInv,
              WorksForOwner, LocalsFit, TrafficToOwner

\* The end of a proxy task keeps the invariant.
LEMMA ProxyStepOwner ==
  ASSUME OwnerInv, NEW l \in listeners, Reap(l) \/ ListenerExits(l)
  PROVE  OwnerInv'
<1>1. /\ UNCHANGED <<agents, issued, senders, pending, sess, pc, job>>
      /\ listeners' \subseteq listeners
  BY DEF Reap, ListenerExits
<1> QED
  BY <1>1 DEF OwnerInv, CodesInv, LeadsTo, Confirming, FiledUnder, AuthedInv,
              WorksForOwner, LocalsFit, TrafficToOwner

-----------------------------------------------------------------------------
(* The steps of ws_handler.rs. *)

\* A step of p that may change the waiters and the locals of a connection.
LEMMA FullStep ==
  ASSUME TypeOK, OwnerInv, NEW p \in Procs, OnlyMoves(p), NothingForgotten,
         CodesInv', AuthedInv', TrafficToOwner', WorksForOwner(p)', LocalsFit(p)'
  PROVE  OwnerInv'
<1>1. \A q \in Procs : WorksForOwner(q)' /\ LocalsFit(q)'
  BY OthersKept DEF OwnerInv
<1> QED
  BY <1>1 DEF OwnerInv

\* A step that changes at most rx among the locals of the connections.
LEMMA SameLocals ==
  ASSUME TypeOK, OwnerInv, UNCHANGED <<pending, issued>>,
         \A s \in Sessions : /\ sess'[s].code = sess[s].code
                             /\ sess'[s].authed = sess[s].authed
                             /\ sess'[s].knows = sess[s].knows
  PROVE  NothingForgotten /\ NoNewFile /\ AuthedInv'
<1>1. NothingForgotten
  BY DEF NothingForgotten
<1>2. NoNewFile
  BY DEF NoNewFile, FiledUnder
<1>3. AuthedInv'
  BY DEF AuthedInv, OwnerInv
<1> QED
  BY <1>1, <1>2, <1>3

\* The upgrade of a connection keeps the invariant.
LEMMA ConnectOwner ==
  ASSUME TypeOK, TypeOK', OwnerInv, NEW s \in Sessions, Connect(s)
  PROVE  OwnerInv'
<1>1. \A z \in Sessions : /\ sess'[z].code = sess[z].code
                          /\ sess'[z].authed = sess[z].authed
                          /\ sess'[z].knows = sess[z].knows
  BY DEF Connect, TypeOK, SessionLocals
<1>2. s \in Procs
  BY SessInProcs
<1>3. NothingForgotten /\ NoNewFile /\ AuthedInv'
  BY <1>1, SameLocals DEF Connect
<1>4. OnlyMoves(s) /\ pc'[s] = "recv" /\ job'[s] = job[s]
  BY <1>2, GotoMoves DEF Connect
<1>5. LocalsFit(s)' /\ pc'[s] # "claim.take"
  BY <1>4, PlainFits DEF Plain, Labels, SessionLabels
<1>6. WorksForOwner(s)'
  <2>1. job[s].via \subseteq Sessions
    BY <1>2, OptMember DEF TypeOK, Job
  <2> QED
    BY <1>1, <1>2, <1>4, <2>1 DEF WorksForOwner, OwnerInv
<1>7. CodesInv'
  BY <1>2, <1>3, <1>4, <1>5, SameRows, LeadsKept, CodesKept DEF Connect, OwnerInv
<1>8. TrafficToOwner'
  BY <1>3, SameTraffic, TrafficKept DEF Connect, OwnerInv
<1> QED
  BY <1>2, <1>3, <1>4, <1>5, <1>6, <1>7, <1>8, FullStep

\* The end of a sending task keeps the invariant.
LEMMA SendTaskEndsOwner ==
  ASSUME TypeOK, TypeOK', OwnerInv, NEW s \in Sessions, SendTaskEnds(s)
  PROVE  OwnerInv'
<1>1. \A z \in Sessions : /\ sess'[z].code = sess[z].code
                          /\ sess'[z].authed = sess[z].authed
                          /\ sess'[z].knows = sess[z].knows
  BY DEF SendTaskEnds, TypeOK, SessionLocals
<1>2. NothingForgotten /\ NoNewFile /\ AuthedInv'
  BY <1>1, SameLocals DEF SendTaskEnds
<1>3. NoNewLead
  BY DEF SendTaskEnds, NoNewLead, LeadsTo, Confirming
<1>4. CodesInv'
  BY <1>2, <1>3, CodesKept DEF OwnerInv
<1>5. TrafficToOwner'
  BY <1>2, SameTraffic, TrafficKept DEF SendTaskEnds, OwnerInv
<1>6. s \in Procs
  BY SessInProcs
<1>7. OnlyMoves(s)
  BY DEF SendTaskEnds, OnlyMoves
<1>8. LocalsFit(s)'
  BY <1>6 DEF SendTaskEnds, LocalsFit, OwnerInv
<1>9. WorksForOwner(s)'
  <2>1. job[s].via \subseteq Sessions
    BY <1>6, OptMember DEF TypeOK, Job
  <2> QED
    BY <1>1, <1>6, <2>1 DEF SendTaskEnds, WorksForOwner, OwnerInv
<1> QED
  BY <1>2, <1>4, <1>5, <1>6, <1>7, <1>8, <1>9, FullStep

\* A new agent and a new code, given to the peer that is filed under the code.
LEMMA RequestClaimOwner ==
  ASSUME TypeOK, TypeOK', OwnerInv, DistinctCodes, NEW s \in Sessions,
         RequestClaim(s)
  PROVE  OwnerInv'
<1> USE SessInProcs
<1>1. PICK a \in Agents \ issued, c \in Codes :
          /\ FreshCode(c)
          /\ agents' = agents \cup {[id |-> a, user |-> {}, claim |-> {c},
                                     online |-> FALSE]}
          /\ issued' = issued \cup {a, c}
          /\ pending' = [pending EXCEPT ![c] = {s}]
          /\ sess' = [sess EXCEPT ![s].code = {c}, ![s].knows = @ \cup {a}]
  BY DEF RequestClaim
<1>2. c \notin issued
  BY <1>1 DEF FreshCode, DistinctCodes
<1>3. /\ sess'[s].knows = sess[s].knows \cup {a}
      /\ sess'[s].code = {c}
      /\ sess'[s].authed = sess[s].authed
      /\ \A z \in Sessions \ {s} : sess'[z] = sess[z]
  BY <1>1 DEF TypeOK, SessionLocals
<1>4. NothingForgotten
  BY <1>1, <1>3 DEF NothingForgotten
<1>5. ASSUME NEW d \in Codes, NEW b \in Agents, LeadsTo(d, b)'
      PROVE  LeadsTo(d, b) \/ (d = c /\ b = a)
  <2>1. CASE \E x \in agents' : x.id = b /\ x.claim = {d}
    BY <1>1, <2>1 DEF LeadsTo
  <2>2. CASE \E q \in Procs : Confirming(q, b, d)'
    BY <2>2 DEF RequestClaim, Confirming, LeadsTo
  <2> QED
    BY <1>5, <2>1, <2>2 DEF LeadsTo
<1>6. ASSUME NEW d \in Codes, NEW z \in Sessions, FiledUnder(z, d)'
      PROVE  FiledUnder(z, d) \/ (d = c /\ z = s)
  <2>1. CASE pending'[d] = {z}
    <3>1. pending'[d] = IF d = c THEN {s} ELSE pending[d]
      BY <1>1 DEF TypeOK
    <3> QED
      BY <2>1, <3>1 DEF FiledUnder
  <2>2. CASE sess'[z].code = {d}
    BY <1>3, <2>2 DEF FiledUnder
  <2> QED
    BY <1>6, <2>1, <2>2 DEF FiledUnder
<1>7. \A b \in Agents : ~LeadsTo(c, b)
  BY <1>2 DEF OwnerInv, CodesInv
<1>8. \A z \in Sessions : ~FiledUnder(z, c)
  BY <1>2 DEF OwnerInv, CodesInv
<1>9. CodesInv'
  <2>1. \A d \in Codes, b \in Agents : LeadsTo(d, b)' => d \in issued'
    BY <1>1, <1>5 DEF OwnerInv, CodesInv
  <2>2. \A d \in Codes, z \in Sessions : FiledUnder(z, d)' => d \in issued'
    BY <1>1, <1>6 DEF OwnerInv, CodesInv
  <2>3. \A d \in Codes, b, e \in Agents :
           (LeadsTo(d, b)' /\ LeadsTo(d, e)') => b = e
    BY <1>5, <1>7 DEF OwnerInv, CodesInv
  <2>4. \A d \in Codes, b \in Agents, z \in Sessions :
           (LeadsTo(d, b)' /\ FiledUnder(z, d)') => b \in sess'[z].knows
    <3> SUFFICES ASSUME NEW d \in Codes, NEW b \in Agents, NEW z \in Sessions,
                        LeadsTo(d, b)', FiledUnder(z, d)'
                 PROVE  b \in sess'[z].knows
      OBVIOUS
    <3>1. CASE d = c
      BY <1>3, <1>5, <1>6, <1>7, <1>8, <3>1
    <3>2. CASE d # c
      <4>1. LeadsTo(d, b) /\ FiledUnder(z, d)
        BY <1>5, <1>6, <3>2
      <4> QED
        BY <1>4, <4>1 DEF OwnerInv, CodesInv, NothingForgotten
    <3> QED
      BY <3>1, <3>2
  <2> QED
    BY <2>1, <2>2, <2>3, <2>4 DEF CodesInv
<1>10. AuthedInv'
  BY <1>3 DEF OwnerInv, AuthedInv
<1>11. TrafficToOwner'
  BY <1>4, SameTraffic, TrafficKept DEF RequestClaim, OwnerInv
<1>12. OnlyMoves(s)
  BY DEF RequestClaim, OnlyMoves
<1>13. LocalsFit(s)'
  BY DEF RequestClaim, LocalsFit, OwnerInv
<1>14. WorksForOwner(s)'
  <2>1. job[s].via \subseteq Sessions
    BY OptMember DEF TypeOK, Job
  <2> QED
    BY <1>4, <2>1 DEF RequestClaim, WorksForOwner, OwnerInv, NothingForgotten
<1> QED
  BY <1>4, <1>9, <1>10, <1>11, <1>12, <1>13, <1>14, FullStep

\* The peer presents a token: the connection is authenticated, or is filed
\* under the code of an agent whose token it has.
LEMMA AuthReadOwner ==
  ASSUME TypeOK, TypeOK', OwnerInv, NEW s \in Sessions, AuthRead(s)
  PROVE  OwnerInv'
<1> USE SessInProcs
<1>1. PICK r \in agents :
          /\ r.id \in sess[s].knows
          /\ \/ /\ r.claim # {}
                /\ sess' = [sess EXCEPT ![s].code = r.claim]
                /\ Goto(s, "auth.pending")
             \/ /\ sess' = [sess EXCEPT ![s].authed = {r.id}]
                /\ Goto(s, "auth.online")
  BY DEF AuthRead
<1>2. r.id \in Agents /\ r.claim \in Opt(Codes)
  BY DEF TypeOK, AgentRow
<1>3. /\ \A z \in Sessions : sess'[z].knows = sess[z].knows
      /\ \A z \in Sessions : sess'[z].authed \in {sess[z].authed, {r.id}}
      /\ \A z \in Sessions \ {s} : sess'[z] = sess[z]
      /\ sess'[s].code \in {sess[s].code, r.claim}
  <2>1. CASE sess' = [sess EXCEPT ![s].code = r.claim]
    BY <2>1 DEF TypeOK, SessionLocals
  <2>2. CASE sess' = [sess EXCEPT ![s].authed = {r.id}]
    BY <2>2 DEF TypeOK, SessionLocals
  <2> QED
    BY <1>1, <2>1, <2>2
<1>4. NothingForgotten
  BY <1>3 DEF NothingForgotten, AuthRead
<1>5. OnlyMoves(s) /\ job'[s] = job[s] /\ pc'[s] \in {"auth.pending", "auth.online"}
  BY <1>1 DEF AuthRead, OnlyMoves, Goto, TypeOK
<1>6. LocalsFit(s)' /\ pc'[s] # "claim.take"
  BY <1>5, PlainFits DEF Plain, Labels, SessionLabels
<1>7. NoNewLead
  BY <1>5, <1>6, SameRows, LeadsKept DEF AuthRead
<1>8. CodesInv'
  <2>1. ASSUME NEW d \in Codes, NEW z \in Sessions, FiledUnder(z, d)'
        PROVE  FiledUnder(z, d) \/ (z = s /\ r.claim = {d})
    BY <1>3, <2>1 DEF FiledUnder, AuthRead
  <2>2. ASSUME NEW d \in Codes, r.claim = {d} PROVE LeadsTo(d, r.id)
    BY <2>2 DEF LeadsTo
  <2>3. \A d \in Codes, b \in Agents : LeadsTo(d, b)' => d \in issued'
    BY <1>4, <1>7 DEF NoNewLead, NothingForgotten, OwnerInv, CodesInv
  <2>4. \A d \in Codes, z \in Sessions : FiledUnder(z, d)' => d \in issued'
    BY <1>2, <1>4, <2>1, <2>2 DEF NothingForgotten, OwnerInv, CodesInv
  <2>5. \A d \in Codes, b, e \in Agents :
           (LeadsTo(d, b)' /\ LeadsTo(d, e)') => b = e
    BY <1>7 DEF NoNewLead, OwnerInv, CodesInv
  <2>6. \A d \in Codes, b \in Agents, z \in Sessions :
           (LeadsTo(d, b)' /\ FiledUnder(z, d)') => b \in sess'[z].knows
    <3> SUFFICES ASSUME NEW d \in Codes, NEW b \in Agents, NEW z \in Sessions,
                        LeadsTo(d, b), FiledUnder(z, d)'
                 PROVE  b \in sess[z].knows
      BY <1>3, <1>7 DEF NoNewLead
    <3>1. CASE FiledUnder(z, d)
      BY <3>1 DEF OwnerInv, CodesInv
    <3>2. CASE z = s /\ r.claim = {d}
      <4>1. b = r.id
        BY <1>2, <2>2, <3>2 DEF OwnerInv, CodesInv
      <4> QED
        BY <1>1, <3>2, <4>1
    <3> QED
      BY <2>1, <3>1, <3>2
  <2> QED
    BY <2>3, <2>4, <2>5, <2>6 DEF CodesInv
<1>9. AuthedInv'
  BY <1>1, <1>3 DEF OwnerInv, AuthedInv, TypeOK, SessionLocals
<1>10. TrafficToOwner'
  BY <1>4, SameTraffic, TrafficKept DEF AuthRead, OwnerInv
<1>11. WorksForOwner(s)'
  <2>1. job[s].via \subseteq Sessions
    BY OptMember DEF TypeOK, Job
  <2> QED
    BY <1>3, <1>5, <2>1 DEF WorksForOwner, OwnerInv
<1> QED
  BY <1>4, <1>5, <1>6, <1>8, <1>9, <1>10, <1>11, FullStep

\* A step of p that files a connection under no other code than before.
LEMMA WaiterStep ==
  ASSUME TypeOK, TypeOK', OwnerInv, NEW p \in Procs, OnlyMoves(p), NoNewFile,
         UNCHANGED <<agents, issued, senders, listeners, sess>>,
         pc'[p] # "claim.take", WorksForOwner(p)', LocalsFit(p)'
  PROVE  OwnerInv'
<1>1. NothingForgotten
  BY DEF NothingForgotten
<1>2. CodesInv'
  BY <1>1, SameRows, LeadsKept, CodesKept DEF OwnerInv
<1>3. TrafficToOwner'
  BY <1>1, SameTraffic, TrafficKept DEF OwnerInv
<1>4. AuthedInv'
  BY DEF AuthedInv, OwnerInv
<1> QED
  BY <1>1, <1>2, <1>3, <1>4, FullStep

\* Filing a device under its open code keeps the invariant.
LEMMA AuthPendingOwner ==
  ASSUME TypeOK, TypeOK', OwnerInv, NEW s \in Sessions, AuthPending(s)
  PROVE  OwnerInv'
<1> USE SessInProcs
<1>1. PICK c \in sess[s].code : pending' = [pending EXCEPT ![c] = {s}]
  BY DEF AuthPending
<1>2. c \in Codes /\ sess[s].code = {c}
  BY OptMember DEF TypeOK, SessionLocals
<1>3. NoNewFile
  <2> SUFFICES ASSUME NEW d \in Codes, NEW z \in Sessions, FiledUnder(z, d)'
               PROVE  FiledUnder(z, d)
    BY DEF NoNewFile
  <2>1. pending'[d] = IF d = c THEN {s} ELSE pending[d]
    BY <1>1, <1>2 DEF TypeOK
  <2> QED
    BY <1>2, <2>1 DEF FiledUnder, AuthPending
<1>4. "recv" \in Plain
  BY DEF Plain, Labels, SessionLabels
<1>5. /\ OnlyMoves(s)
      /\ WorksForOwner(s)' /\ LocalsFit(s)' /\ pc'[s] # "claim.take"
  BY <1>4, StayFits DEF AuthPending
<1> QED
  BY <1>3, <1>5, WaiterStep DEF AuthPending

\* The online flag leaves the codes alone.
LEMMA OnlineRows ==
  ASSUME NEW a, NEW on, agents' = SetAgentOnline(a, on), TypeOK PROVE RowsKept
  BY DEF SetAgentOnline, RowsKept, TypeOK, AgentRow

\* Marking an agent online keeps the invariant.
LEMMA AuthOnlineOwner ==
  ASSUME TypeOK, TypeOK', OwnerInv, NEW s \in Sessions, AuthOnline(s)
  PROVE  OwnerInv'
<1> USE SessInProcs
<1>1. "auth.register" \in Plain
  BY DEF Plain, Labels, SessionLabels
<1>2. /\ OnlyMoves(s)
      /\ WorksForOwner(s)' /\ LocalsFit(s)' /\ pc'[s] # "claim.take"
  BY <1>1, StayFits DEF AuthOnline
<1>3. RowsKept
  BY OnlineRows DEF AuthOnline
<1> QED
  BY <1>2, <1>3, SameTraffic, QuieterStep DEF AuthOnline

\* A new entry of agent_senders: the agent the connection authenticated for.
LEMMA AuthRegisterOwner ==
  ASSUME TypeOK, TypeOK', OwnerInv, NEW s \in Sessions, AuthRegister(s)
  PROVE  OwnerInv'
<1> USE SessInProcs
<1>1. PICK a \in sess[s].authed : senders' = [senders EXCEPT ![a] = {s}]
  BY DEF AuthRegister, WriteSenders
<1>2. sess[s].authed \subseteq sess[s].knows /\ a \in Agents
  BY OptMember DEF OwnerInv, AuthedInv, TypeOK, SessionLocals
<1>3. TrafficToOwner'
  <2>1. ASSUME NEW b \in Agents, NEW z \in Sessions, senders'[b] = {z}
        PROVE  b \in sess[z].knows
    <3>1. senders'[b] = IF b = a THEN {s} ELSE senders[b]
      BY <1>1 DEF TypeOK
    <3> QED
      BY <1>2, <2>1, <3>1 DEF OwnerInv, TrafficToOwner
  <2> QED
    BY <2>1 DEF OwnerInv, TrafficToOwner, AuthRegister
<1>4. /\ OnlyMoves(s) /\ pc'[s] = "sync.list"
      /\ job'[s] = [NoJob EXCEPT !.agent = sess[s].authed, !.via = {s}]
  BY DEF AuthRegister, OnlyMoves, Goto, TypeOK
<1>5. /\ job'[s].via = {s} /\ job'[s].agent = sess[s].authed
      /\ job'[s].cfg = {} /\ job'[s].todo = {}
  BY <1>4 DEF NoJob
<1>6. WorksForOwner(s)'
  BY <1>2, <1>5 DEF WorksForOwner, AuthRegister
<1>7. LocalsFit(s)' /\ pc'[s] # "claim.take"
  BY <1>4, PlainFits DEF Plain, Labels, SharedLabels
<1> QED
  BY <1>3, <1>4, <1>6, <1>7, SameRows, QuietStep DEF AuthRegister

\* The clean-up is at plain labels.
LEMMA AfterPendingPlain == ASSUME NEW s PROVE AfterPending(s) \in Plain
  BY DEF AfterPending, Plain, Labels, SessionLabels

\* The end of the receive loop keeps the invariant.
LEMMA DisconnectOwner ==
  ASSUME TypeOK, TypeOK', OwnerInv, NEW s \in Sessions, Disconnect(s)
  PROVE  OwnerInv'
<1> USE SessInProcs
<1>1. (IF sess[s].code # {} THEN "close.pending" ELSE AfterPending(s)) \in Plain
  BY AfterPendingPlain DEF Plain, Labels, SessionLabels
<1>2. /\ OnlyMoves(s)
      /\ WorksForOwner(s)' /\ LocalsFit(s)' /\ pc'[s] # "claim.take"
  BY <1>1, StayFits DEF Disconnect
<1> QED
  BY <1>2, SameRows, SameTraffic, QuieterStep DEF Disconnect

\* Giving up a waiter's code keeps the invariant.
LEMMA ClosePendingOwner ==
  ASSUME TypeOK, TypeOK', OwnerInv, NEW s \in Sessions, ClosePending(s)
  PROVE  OwnerInv'
<1> USE SessInProcs
<1>1. NoNewFile
  <2>1. PICK c \in sess[s].code : pending' = [pending EXCEPT ![c] = {}]
    BY DEF ClosePending
  <2> SUFFICES ASSUME NEW d \in Codes, NEW z \in Sessions, FiledUnder(z, d)'
               PROVE  FiledUnder(z, d)
    BY DEF NoNewFile
  <2>2. pending'[d] = {} \/ pending'[d] = pending[d]
    BY <2>1 DEF TypeOK
  <2> QED
    BY <2>2 DEF FiledUnder, ClosePending
<1>2. /\ OnlyMoves(s)
      /\ WorksForOwner(s)' /\ LocalsFit(s)' /\ pc'[s] # "claim.take"
  BY AfterPendingPlain, StayFits DEF ClosePending
<1> QED
  BY <1>1, <1>2, WaiterStep DEF ClosePending

\* Removing an entry of agent_senders makes no new traffic.
LEMMA SenderRemoved ==
  ASSUME TypeOK, NEW a, senders' = [senders EXCEPT ![a] = {}],
         UNCHANGED listeners
  PROVE  NoNewTraffic
<1>1. \A b \in Agents : senders'[b] = {} \/ senders'[b] = senders[b]
  BY DEF TypeOK
<1> QED
  BY <1>1 DEF NoNewTraffic

\* Removing the sender of an agent keeps the invariant.
LEMMA CleanupSendersOwner ==
  ASSUME TypeOK, TypeOK', OwnerInv, NEW s \in Sessions, CleanupSenders(s)
  PROVE  OwnerInv'
<1> USE SessInProcs
<1>1. NoNewTraffic
  BY SenderRemoved DEF CleanupSenders, WriteSenders
<1>2. "clean.offline" \in Plain
  BY DEF Plain, Labels, SessionLabels
<1>3. /\ OnlyMoves(s)
      /\ WorksForOwner(s)' /\ LocalsFit(s)' /\ pc'[s] # "claim.take"
  BY <1>2, StayFits DEF CleanupSenders
<1> QED
  BY <1>1, <1>3, SameRows, QuieterStep DEF CleanupSenders

\* Marking an agent offline keeps the invariant.
LEMMA CleanupOfflineOwner ==
  ASSUME TypeOK, TypeOK', OwnerInv, NEW s \in Sessions, CleanupOffline(s)
  PROVE  OwnerInv'
<1> USE SessInProcs
<1>1. "clean.list" \in Plain
  BY DEF Plain, Labels, SessionLabels
<1>2. /\ OnlyMoves(s)
      /\ WorksForOwner(s)' /\ LocalsFit(s)' /\ pc'[s] # "claim.take"
  BY <1>1, StayFits DEF CleanupOffline
<1>3. RowsKept
  BY OnlineRows DEF CleanupOffline
<1> QED
  BY <1>2, <1>3, SameTraffic, QuieterStep DEF CleanupOffline

\* A handler that starts a loop without a channel.
LEMMA NoChannelFits ==
  ASSUME TypeOK, NEW p \in Procs, NEW label \in Plain, NEW j, j.via = {},
         Goto(p, label), job' = [job EXCEPT ![p] = j]
  PROVE  /\ OnlyMoves(p)
         /\ WorksForOwner(p)' /\ LocalsFit(p)' /\ pc'[p] # "claim.take"
<1>1. OnlyMoves(p) /\ pc'[p] = label /\ job'[p] = j
  BY DEF OnlyMoves, Goto, TypeOK
<1> QED
  BY <1>1, NoChannel, PlainFits

\* Reading the tunnels to clean up keeps the invariant.
LEMMA CleanupListOwner ==
  ASSUME TypeOK, TypeOK', OwnerInv, NEW s \in Sessions, CleanupList(s)
  PROVE  OwnerInv'
<1> USE SessInProcs
<1>1. PICK a \in sess[s].authed :
        IF ListTunnelsForAgent(a) = {}
          THEN Goto(s, "gone") /\ UNCHANGED job
          ELSE /\ Goto(s, "stop.one")
               /\ job' = [job EXCEPT ![s] = [NoJob EXCEPT
                            !.todo = ListTunnelsForAgent(a), !.ret = "gone"]]
  BY DEF CleanupList
<1>2. "gone" \in Plain /\ "stop.one" \in Plain
  BY DEF Plain, Labels, SessionLabels, SharedLabels
<1>3. [NoJob EXCEPT !.todo = ListTunnelsForAgent(a), !.ret = "gone"].via = {}
  BY DEF NoJob
<1>4. /\ OnlyMoves(s)
      /\ WorksForOwner(s)' /\ LocalsFit(s)' /\ pc'[s] # "claim.take"
  BY <1>1, <1>2, <1>3, StayFits, NoChannelFits DEF CleanupList
<1> QED
  BY <1>4, SameRows, SameTraffic, QuieterStep DEF CleanupList

\* Every step of a connection keeps the invariant.
LEMMA SessionStepOwner ==
  ASSUME TypeOK, TypeOK', OwnerInv, DistinctCodes, NEW s \in Sessions,
         SessionStep(s)
  PROVE  OwnerInv'
  BY ConnectOwner, RequestClaimOwner, AuthReadOwner, AuthPendingOwner,
     AuthOnlineOwner, AuthRegisterOwner, DisconnectOwner, ClosePendingOwner,
     CleanupSendersOwner, CleanupOfflineOwner, CleanupListOwner DEF SessionStep

-----------------------------------------------------------------------------
(* The steps of admin.rs. *)

RowWriters == {"create.allocate", "create.insert", "create.notify",
               "toggle.write", "toggle.notify"}

\* A handler begins with a row in cfg and no channel.
LEMMA BeginRow ==
  ASSUME TypeOK, NEW p \in Procs, NEW label \in Plain \cup RowWriters, NEW t,
         Begin(p, label, [NoJob EXCEPT !.cfg = {t}])
  PROVE  /\ OnlyMoves(p)
         /\ WorksForOwner(p)' /\ LocalsFit(p)' /\ pc'[p] # "claim.take"
<1>1. OnlyMoves(p) /\ pc'[p] = label /\ job'[p] = [NoJob EXCEPT !.cfg = {t}]
  BY BeginMoves
<1>2. job'[p].via = {} /\ job'[p].agent = {} /\ job'[p].todo = {}
  BY <1>1 DEF NoJob
<1>3. pc'[p] # "claim.take"
  BY <1>1 DEF Plain, RowWriters
<1> QED
  BY <1>1, <1>2, <1>3, NoChannel DEF LocalsFit

\* It goes on to the next of its steps with the same locals.
LEMMA StayRow ==
  ASSUME TypeOK, OwnerInv, NEW p \in Procs, UNCHANGED <<sess, job>>,
         pc[p] \in RowWriters, NEW label \in RowWriters, Goto(p, label)
  PROVE  /\ OnlyMoves(p)
         /\ WorksForOwner(p)' /\ LocalsFit(p)' /\ pc'[p] # "claim.take"
<1>1. OnlyMoves(p) /\ pc'[p] = label /\ job'[p] = job[p]
  BY GotoMoves
<1>2. WorksForOwner(p)'
  BY <1>1 DEF WorksForOwner, OwnerInv
<1>3. LocalsFit(p)' /\ pc'[p] # "claim.take"
  BY <1>1 DEF LocalsFit, OwnerInv, RowWriters
<1> QED
  BY <1>1, <1>2, <1>3

\* It is given the channel that the agent of its row is registered under.
LEMMA GivenChannel ==
  ASSUME TypeOK, OwnerInv, NEW p \in Procs, UNCHANGED sess,
         pc[p] \in RowWriters, NEW t \in job[p].cfg, NEW label \in Plain,
         Begin(p, label, [job[p] EXCEPT !.via = senders[t.agent]])
  PROVE  /\ OnlyMoves(p)
         /\ WorksForOwner(p)' /\ LocalsFit(p)' /\ pc'[p] # "claim.take"
<1>1. /\ OnlyMoves(p) /\ pc'[p] = label
      /\ job'[p] = [job[p] EXCEPT !.via = senders[t.agent]]
  BY BeginMoves
<1>2. job[p] \in Job
  BY DEF TypeOK
<1>3. /\ job'[p].via = senders[t.agent] /\ job'[p].agent = job[p].agent
      /\ job'[p].cfg = job[p].cfg /\ job'[p].todo = job[p].todo
  BY <1>1, <1>2 DEF Job
<1>4. job[p].agent = {} /\ job[p].todo = {}
  BY DEF OwnerInv, LocalsFit, RowWriters
<1>5. job[p].cfg = {t} /\ t \in TunnelRow
  BY <1>2, OptMember DEF Job
<1>6. t.agent \in Agents
  BY <1>5 DEF TunnelRow
<1>7. ASSUME NEW s \in senders[t.agent] PROVE t.agent \in sess[s].knows
  <2>1. s \in Sessions /\ senders[t.agent] = {s}
    BY <1>6, OptMember DEF TypeOK
  <2> QED
    BY <1>6, <2>1 DEF OwnerInv, TrafficToOwner
<1>8. WorksForOwner(p)'
  BY <1>3, <1>4, <1>5, <1>7 DEF WorksForOwner
<1> QED
  BY <1>1, <1>8, PlainFits

\* The checks of a creation keeps the invariant.
LEMMA CreateCheckOwner ==
  ASSUME TypeOK, TypeOK', OwnerInv, NEW r \in Reqs, CreateCheck(r)
  PROVE  OwnerInv'
<1> USE SessInProcs
<1>1. PICK t : Begin(r, "create.allocate", [NoJob EXCEPT !.cfg = {t}])
  BY DEF CreateCheck
<1>2. /\ OnlyMoves(r)
      /\ WorksForOwner(r)' /\ LocalsFit(r)' /\ pc'[r] # "claim.take"
  BY <1>1, BeginRow DEF RowWriters
<1>3. issued \subseteq issued'
  BY DEF CreateCheck
<1> QED
  BY <1>2, <1>3, SameRows, SameTraffic, QuieterStep DEF CreateCheck, NoNewFile, FiledUnder

\* Allocating the port of a new tunnel keeps the invariant.
LEMMA CreateAllocateOwner ==
  ASSUME TypeOK, TypeOK', OwnerInv, NEW r \in Reqs, CreateAllocate(r)
  PROVE  OwnerInv'
<1> USE SessInProcs
<1>1. /\ OnlyMoves(r)
      /\ WorksForOwner(r)' /\ LocalsFit(r)' /\ pc'[r] # "claim.take"
  BY StayRow DEF CreateAllocate, RowWriters
<1> QED
  BY <1>1, SameRows, SameTraffic, QuieterStep DEF CreateAllocate

\* A creation refused for its port keeps the invariant.
LEMMA CreateConflictOwner ==
  ASSUME TypeOK, TypeOK', OwnerInv, NEW r \in Reqs, CreateConflict(r)
  PROVE  OwnerInv'
  BY SessInProcs, ReturnFits, SameRows, SameTraffic, QuieterStep DEF CreateConflict

\* Inserting a new tunnel keeps the invariant.
LEMMA CreateInsertOwner ==
  ASSUME TypeOK, TypeOK', OwnerInv, NEW r \in Reqs, CreateInsert(r)
  PROVE  OwnerInv'
<1> USE SessInProcs
<1>1. \/ Goto(r, "create.notify") /\ UNCHANGED job
      \/ Return(r)
  BY DEF CreateInsert
<1>2. /\ OnlyMoves(r)
      /\ WorksForOwner(r)' /\ LocalsFit(r)' /\ pc'[r] # "claim.take"
  BY <1>1, StayRow, ReturnFits DEF CreateInsert, RowWriters
<1> QED
  BY <1>2, SameRows, SameTraffic, QuieterStep DEF CreateInsert

\* Announcing a new tunnel keeps the invariant.
LEMMA CreateNotifyOwner ==
  ASSUME TypeOK, TypeOK', OwnerInv, NEW r \in Reqs, CreateNotify(r)
  PROVE  OwnerInv'
<1> USE SessInProcs
<1>1. PICK t \in job[r].cfg :
         \/ Return(r)
         \/ Begin(r, "start.stop", [job[r] EXCEPT !.via = senders[t.agent]])
  BY DEF CreateNotify
<1>2. "start.stop" \in Plain
  BY DEF Plain, Labels, SharedLabels
<1>3. /\ OnlyMoves(r)
      /\ WorksForOwner(r)' /\ LocalsFit(r)' /\ pc'[r] # "claim.take"
  BY <1>1, <1>2, GivenChannel, ReturnFits DEF CreateNotify, RowWriters
<1> QED
  BY <1>3, SameRows, SameTraffic, QuieterStep DEF CreateNotify

\* Reading the tunnel to toggle keeps the invariant.
LEMMA ToggleReadOwner ==
  ASSUME TypeOK, TypeOK', OwnerInv, NEW r \in Reqs, ToggleRead(r)
  PROVE  OwnerInv'
<1> USE SessInProcs
<1>1. PICK t : Begin(r, "toggle.write", [NoJob EXCEPT !.cfg = {t}])
  BY DEF ToggleRead
<1>2. /\ OnlyMoves(r)
      /\ WorksForOwner(r)' /\ LocalsFit(r)' /\ pc'[r] # "claim.take"
  BY <1>1, BeginRow DEF RowWriters
<1> QED
  BY <1>2, SameRows, SameTraffic, QuieterStep DEF ToggleRead

\* Writing the flag of a toggled tunnel keeps the invariant.
LEMMA ToggleWriteOwner ==
  ASSUME TypeOK, TypeOK', OwnerInv, NEW r \in Reqs, ToggleWrite(r)
  PROVE  OwnerInv'
<1> USE SessInProcs
<1>1. /\ OnlyMoves(r)
      /\ WorksForOwner(r)' /\ LocalsFit(r)' /\ pc'[r] # "claim.take"
  BY StayRow DEF ToggleWrite, RowWriters
<1> QED
  BY <1>1, SameRows, SameTraffic, QuieterStep DEF ToggleWrite

\* Announcing a toggle keeps the invariant.
LEMMA ToggleNotifyOwner ==
  ASSUME TypeOK, TypeOK', OwnerInv, NEW r \in Reqs, ToggleNotify(r)
  PROVE  OwnerInv'
<1> USE SessInProcs
<1>1. PICK t \in job[r].cfg :
         \/ Begin(r, "toggle.reserve", [job[r] EXCEPT !.via = senders[t.agent]])
         \/ Begin(r, "stop.one", [NoJob EXCEPT !.todo = {t}])
  BY DEF ToggleNotify
<1>2. "toggle.reserve" \in Plain /\ "stop.one" \in Plain
  BY DEF Plain, Labels, ReqLabels, SharedLabels
<1>3. [NoJob EXCEPT !.todo = {t}].via = {}
  BY DEF NoJob
<1>4. /\ OnlyMoves(r)
      /\ WorksForOwner(r)' /\ LocalsFit(r)' /\ pc'[r] # "claim.take"
  <2>1. CASE Begin(r, "toggle.reserve", [job[r] EXCEPT !.via = senders[t.agent]])
    BY <1>2, <2>1, GivenChannel DEF ToggleNotify, RowWriters
  <2>2. CASE Begin(r, "stop.one", [NoJob EXCEPT !.todo = {t}])
    BY <1>2, <1>3, <2>2, NoChannelFits DEF Begin
  <2> QED
    BY <1>1, <2>1, <2>2
<1> QED
  BY <1>4, SameRows, SameTraffic, QuieterStep DEF ToggleNotify

\* Reserving the port of a tunnel switched on keeps the invariant.
LEMMA ToggleReserveOwner ==
  ASSUME TypeOK, TypeOK', OwnerInv, NEW r \in Reqs, ToggleReserve(r)
  PROVE  OwnerInv'
<1> USE SessInProcs
<1>1. "start.stop" \in Plain
  BY DEF Plain, Labels, SharedLabels
<1>2. Return(r) \/ (Goto(r, "start.stop") /\ UNCHANGED job)
  BY DEF ToggleReserve
<1>3. /\ OnlyMoves(r)
      /\ WorksForOwner(r)' /\ LocalsFit(r)' /\ pc'[r] # "claim.take"
  BY <1>1, <1>2, StayFits, ReturnFits DEF ToggleReserve
<1> QED
  BY <1>3, SameRows, SameTraffic, QuieterStep DEF ToggleReserve

\* The checks of an update keeps the invariant.
LEMMA UpdateCheckOwner ==
  ASSUME TypeOK, TypeOK', OwnerInv, NEW r \in Reqs, UpdateCheck(r)
  PROVE  OwnerInv'
<1> USE SessInProcs
<1>1. PICK t, a : Begin(r, "update.write", [NoJob EXCEPT !.agent = {a}, !.cfg = {t}])
  BY DEF UpdateCheck
<1>2. [NoJob EXCEPT !.agent = {a}, !.cfg = {t}].via = {}
  BY DEF NoJob
<1>3. "update.write" \in Plain
  BY DEF Plain, Labels, ReqLabels
<1>4. /\ OnlyMoves(r)
      /\ WorksForOwner(r)' /\ LocalsFit(r)' /\ pc'[r] # "claim.take"
  BY <1>1, <1>2, <1>3, NoChannelFits DEF Begin
<1> QED
  BY <1>4, SameRows, SameTraffic, QuieterStep DEF UpdateCheck

\* Writing an update keeps the invariant.
LEMMA UpdateWriteOwner ==
  ASSUME TypeOK, TypeOK', OwnerInv, NEW r \in Reqs, UpdateWrite(r)
  PROVE  OwnerInv'
<1> USE SessInProcs
<1>1. "update.notify" \in Plain
  BY DEF Plain, Labels, ReqLabels
<1>2. /\ OnlyMoves(r)
      /\ WorksForOwner(r)' /\ LocalsFit(r)' /\ pc'[r] # "claim.take"
  BY <1>1, StayFits DEF UpdateWrite
<1> QED
  BY <1>2, SameRows, SameTraffic, QuieterStep DEF UpdateWrite

\* Announcing an update keeps the invariant.
LEMMA UpdateNotifyOwner ==
  ASSUME TypeOK, TypeOK', OwnerInv, NEW r \in Reqs, UpdateNotify(r)
  PROVE  OwnerInv'
<1> USE SessInProcs
<1>1. PICK a \in job[r].agent :
         \/ Return(r)
         \/ Begin(r, "sync.list", [NoJob EXCEPT !.agent = {a}, !.via = senders[a]])
  BY DEF UpdateNotify
<1>2. a \in Agents
  BY OptMember DEF TypeOK, Job
<1>3. /\ OnlyMoves(r)
      /\ WorksForOwner(r)' /\ LocalsFit(r)' /\ pc'[r] # "claim.take"
  <2>1. CASE Return(r)
    BY <2>1, ReturnFits
  <2>2. CASE Begin(r, "sync.list", [NoJob EXCEPT !.agent = {a}, !.via = senders[a]])
    <3>1. OnlyMoves(r) /\ pc'[r] = "sync.list"
          /\ job'[r] = [NoJob EXCEPT !.agent = {a}, !.via = senders[a]]
      BY <2>2, BeginMoves
    <3>2. /\ job'[r].via = senders[a] /\ job'[r].agent = {a}
          /\ job'[r].cfg = {} /\ job'[r].todo = {}
      BY <3>1 DEF NoJob
    <3>3. ASSUME NEW s \in senders[a] PROVE a \in sess[s].knows
      <4>1. s \in Sessions /\ senders[a] = {s}
        BY <1>2, OptMember DEF TypeOK
      <4> QED
        BY <1>2, <4>1 DEF OwnerInv, TrafficToOwner
    <3>4. WorksForOwner(r)'
      BY <3>2, <3>3 DEF WorksForOwner, UpdateNotify
    <3>5. pc'[r] \in Plain
      BY <3>1 DEF Plain, Labels, SharedLabels
    <3> QED
      BY <3>1, <3>4, <3>5, PlainFits
  <2> QED
    BY <1>1, <2>1, <2>2
<1> QED
  BY <1>3, SameRows, SameTraffic, QuieterStep DEF UpdateNotify

\* Reading the tunnel to delete keeps the invariant.
LEMMA DeleteReadOwner ==
  ASSUME TypeOK, TypeOK', OwnerInv, NEW r \in Reqs, DeleteRead(r)
  PROVE  OwnerInv'
<1> USE SessInProcs
<1>1. PICK t : Begin(r, "stop.one", [NoJob EXCEPT !.todo = {t}, !.ret = "delete.notify"])
  BY DEF DeleteRead
<1>2. [NoJob EXCEPT !.todo = {t}, !.ret = "delete.notify"].via = {}
  BY DEF NoJob
<1>3. "stop.one" \in Plain
  BY DEF Plain, Labels, SharedLabels
<1>4. /\ OnlyMoves(r)
      /\ WorksForOwner(r)' /\ LocalsFit(r)' /\ pc'[r] # "claim.take"
  BY <1>1, <1>2, <1>3, NoChannelFits DEF Begin
<1> QED
  BY <1>4, SameRows, SameTraffic, QuieterStep DEF DeleteRead

\* Telling the agent that a tunnel goes keeps the invariant.
LEMMA DeleteNotifyOwner ==
  ASSUME TypeOK, TypeOK', OwnerInv, NEW r \in Reqs, DeleteNotify(r)
  PROVE  OwnerInv'
<1> USE SessInProcs
<1>1. "delete.row" \in Plain
  BY DEF Plain, Labels, ReqLabels
<1>2. /\ OnlyMoves(r)
      /\ WorksForOwner(r)' /\ LocalsFit(r)' /\ pc'[r] # "claim.take"
  BY <1>1, StayFits DEF DeleteNotify
<1> QED
  BY <1>2, SameRows, SameTraffic, QuieterStep DEF DeleteNotify

\* Deleting a tunnel keeps the invariant.
LEMMA DeleteRowOwner ==
  ASSUME TypeOK, TypeOK', OwnerInv, NEW r \in Reqs, DeleteRow(r)
  PROVE  OwnerInv'
  BY SessInProcs, ReturnFits, SameRows, SameTraffic, QuieterStep DEF DeleteRow

\* A request to delete an agent keeps the invariant.
LEMMA DeleteAgentOwner ==
  ASSUME TypeOK, TypeOK', OwnerInv, NEW r \in Reqs, DeleteAgent(r)
  PROVE  OwnerInv'
<1> USE SessInProcs
<1>1. PICK a : Begin(r, "delete_agent.sender", [NoJob EXCEPT !.agent = {a}])
  BY DEF DeleteAgent
<1>2. [NoJob EXCEPT !.agent = {a}].via = {}
  BY DEF NoJob
<1>3. "delete_agent.sender" \in Plain
  BY DEF Plain, Labels, ReqLabels
<1>4. /\ OnlyMoves(r)
      /\ WorksForOwner(r)' /\ LocalsFit(r)' /\ pc'[r] # "claim.take"
  BY <1>1, <1>2, <1>3, NoChannelFits DEF Begin
<1> QED
  BY <1>4, SameRows, SameTraffic, QuieterStep DEF DeleteAgent

\* Dropping the sender of a deleted agent keeps the invariant.
LEMMA DeleteAgentSenderOwner ==
  ASSUME TypeOK, TypeOK', OwnerInv, NEW r \in Reqs, DeleteAgentSender(r)
  PROVE  OwnerInv'
<1> USE SessInProcs
<1>1. PICK a : senders' = [senders EXCEPT ![a] = {}]
  BY DEF DeleteAgentSender, WriteSenders
<1>2. "delete_agent.row" \in Plain
  BY DEF Plain, Labels, ReqLabels
<1>3. /\ OnlyMoves(r)
      /\ WorksForOwner(r)' /\ LocalsFit(r)' /\ pc'[r] # "claim.take"
  BY <1>2, StayFits DEF DeleteAgentSender
<1>4. NoNewTraffic
  BY <1>1, SenderRemoved DEF DeleteAgentSender
<1> QED
  BY <1>3, <1>4, SameRows, QuieterStep DEF DeleteAgentSender

\* Deleting an agent with its tunnels keeps the invariant.
LEMMA DeleteAgentRowOwner ==
  ASSUME TypeOK, TypeOK', OwnerInv, NEW r \in Reqs, DeleteAgentRow(r)
  PROVE  OwnerInv'
<1>1. RowsKept
  BY DEF DeleteAgentRow, RowsKept
<1> QED
  BY <1>1, SessInProcs, ReturnFits, SameTraffic, QuieterStep DEF DeleteAgentRow

\* A ban keeps the invariant.
LEMMA BanOwner ==
  ASSUME TypeOK, TypeOK', OwnerInv, NEW r \in Reqs, Ban(r) PROVE OwnerInv'
<1> USE SessInProcs
<1>1. PICK u \in Users :
         \/ UNCHANGED <<pc, job>>
         \/ Begin(r, "stop.one", [NoJob EXCEPT !.todo = ListTunnelsForUser(u)])
  BY DEF Ban
<1>2. [NoJob EXCEPT !.todo = ListTunnelsForUser(u)].via = {}
  BY DEF NoJob
<1>3. "stop.one" \in Plain
  BY DEF Plain, Labels, SharedLabels
<1>4. CASE UNCHANGED <<pc, job>>
  BY <1>4 DEF Ban, OwnerInv, CodesInv, LeadsTo, Confirming, FiledUnder,
              AuthedInv, WorksForOwner, LocalsFit, TrafficToOwner
<1>5. CASE Begin(r, "stop.one", [NoJob EXCEPT !.todo = ListTunnelsForUser(u)])
  <2>1. /\ OnlyMoves(r)
        /\ WorksForOwner(r)' /\ LocalsFit(r)' /\ pc'[r] # "claim.take"
    BY <1>2, <1>3, <1>5, NoChannelFits DEF Begin
  <2> QED
    BY <2>1, SameRows, SameTraffic, QuieterStep DEF Ban
<1> QED
  BY <1>1, <1>4, <1>5

\* An unban keeps the invariant.
LEMMA UnbanOwner ==
  ASSUME TypeOK, TypeOK', OwnerInv, NEW r \in Reqs, Unban(r) PROVE OwnerInv'
  BY DEF Unban, OwnerInv, CodesInv, LeadsTo, Confirming, FiledUnder, AuthedInv,
         WorksForOwner, LocalsFit, TrafficToOwner

\* The code leaves its row and is in the hands of the request.
LEMMA ClaimRowOwner ==
  ASSUME TypeOK, TypeOK', OwnerInv, NEW r \in Reqs, ClaimRow(r)
  PROVE  OwnerInv'
<1> USE SessInProcs
<1>1. PICK u \in users, x \in agents :
          /\ agents' = (agents \ {x}) \cup {ClaimAgentToUser(x, u.id)}
          /\ Begin(r, "claim.take", [NoJob EXCEPT !.agent = {x.id}, !.code = x.claim])
  BY DEF ClaimRow
<1>2. /\ OnlyMoves(r) /\ pc'[r] = "claim.take"
      /\ job'[r] = [NoJob EXCEPT !.agent = {x.id}, !.code = x.claim]
  BY <1>1, BeginMoves
<1>3. /\ job'[r].agent = {x.id} /\ job'[r].code = x.claim
      /\ job'[r].via = {} /\ job'[r].cfg = {} /\ job'[r].todo = {}
  BY <1>2 DEF NoJob
<1>4. x \in AgentRow
  BY DEF TypeOK
<1>5. ClaimAgentToUser(x, u.id).claim = {}
  BY <1>4 DEF ClaimAgentToUser, AgentRow
<1>6. NoNewLead
  <2> SUFFICES ASSUME NEW c \in Codes, NEW a \in Agents, LeadsTo(c, a)'
               PROVE  LeadsTo(c, a)
    BY DEF NoNewLead
  <2>1. CASE \E y \in agents' : y.id = a /\ y.claim = {c}
    BY <1>1, <1>5, <2>1 DEF LeadsTo
  <2>2. CASE \E q \in Procs : Confirming(q, a, c)'
    <3>1. PICK q \in Procs : Confirming(q, a, c)'
      BY <2>2
    <3>2. CASE q = r
      BY <1>3, <3>1, <3>2 DEF Confirming, LeadsTo
    <3>3. CASE q # r
      BY <1>2, <3>1, <3>3 DEF Confirming, LeadsTo, OnlyMoves
    <3> QED
      BY <3>2, <3>3
  <2> QED
    BY <2>1, <2>2 DEF LeadsTo
<1>7. NothingForgotten /\ NoNewFile
  BY DEF ClaimRow, NothingForgotten, NoNewFile, FiledUnder
<1>8. CodesInv'
  BY <1>6, <1>7, CodesKept DEF OwnerInv
<1>9. AuthedInv' /\ TrafficToOwner'
  BY DEF ClaimRow, OwnerInv, AuthedInv, TrafficToOwner
<1>10. WorksForOwner(r)' /\ LocalsFit(r)'
  BY <1>2, <1>3, NoChannel DEF LocalsFit
<1> QED
  BY <1>2, <1>7, <1>8, <1>9, <1>10, FullStep

\* The waiter the request takes is filed under the code that led to its agent.
LEMMA ClaimTakeOwner ==
  ASSUME TypeOK, TypeOK', OwnerInv, NEW r \in Reqs, ClaimTake(r)
  PROVE  OwnerInv'
<1> USE SessInProcs
<1>1. PICK c \in job[r].code :
          \/ Return(r) /\ UNCHANGED pending
          \/ /\ pending' = [pending EXCEPT ![c] = {}]
             /\ Begin(r, "claim.online", [job[r] EXCEPT !.via = pending[c]])
  BY DEF ClaimTake
<1>2. job[r] \in Job
  BY DEF TypeOK
<1>3. c \in Codes /\ job[r].code = {c}
  BY <1>2, OptMember DEF Job
<1>4. CASE Return(r) /\ UNCHANGED pending
  BY <1>4, ReturnFits, SameRows, SameTraffic, QuieterStep DEF ClaimTake
<1>5. CASE /\ pending' = [pending EXCEPT ![c] = {}]
           /\ Begin(r, "claim.online", [job[r] EXCEPT !.via = pending[c]])
  <2>1. /\ OnlyMoves(r) /\ pc'[r] = "claim.online"
        /\ job'[r] = [job[r] EXCEPT !.via = pending[c]]
    BY <1>5, BeginMoves
  <2>2. /\ job'[r].via = pending[c] /\ job'[r].agent = job[r].agent
        /\ job'[r].cfg = {} /\ job'[r].todo = {}
    BY <1>2, <2>1 DEF Job, ClaimTake, OwnerInv, LocalsFit
  <2>3. ASSUME NEW s \in pending[c], NEW a \in job[r].agent
        PROVE  a \in sess[s].knows
    <3>1. s \in Sessions /\ pending[c] = {s}
      BY <1>3, OptMember DEF TypeOK
    <3>2. a \in Agents /\ job[r].agent = {a}
      BY <1>2, OptMember DEF Job
    <3>3. LeadsTo(c, a) /\ FiledUnder(s, c)
      BY <1>3, <3>1, <3>2 DEF ClaimTake, LeadsTo, Confirming, FiledUnder
    <3> QED
      BY <1>3, <3>1, <3>2, <3>3 DEF OwnerInv, CodesInv
  <2>4. WorksForOwner(r)'
    BY <2>2, <2>3 DEF WorksForOwner, ClaimTake
  <2>5. LocalsFit(r)' /\ pc'[r] # "claim.take"
    BY <2>1, PlainFits DEF Plain, Labels, ReqLabels
  <2>6. NoNewFile
    <3> SUFFICES ASSUME NEW d \in Codes, NEW z \in Sessions, FiledUnder(z, d)'
                 PROVE  FiledUnder(z, d)
      BY DEF NoNewFile
    <3>1. pending'[d] = {} \/ pending'[d] = pending[d]
      BY <1>5 DEF TypeOK
    <3> QED
      BY <3>1 DEF FiledUnder, ClaimTake
  <2> QED
    BY <2>1, <2>4, <2>5, <2>6, WaiterStep DEF ClaimTake
<1> QED
  BY <1>1, <1>4, <1>5

\* Marking a claimed agent online keeps the invariant.
LEMMA ClaimOnlineOwner ==
  ASSUME TypeOK, TypeOK', OwnerInv, NEW r \in Reqs, ClaimOnline(r)
  PROVE  OwnerInv'
<1> USE SessInProcs
<1>1. "claim.register" \in Plain
  BY DEF Plain, Labels, ReqLabels
<1>2. /\ OnlyMoves(r)
      /\ WorksForOwner(r)' /\ LocalsFit(r)' /\ pc'[r] # "claim.take"
  BY <1>1, StayFits DEF ClaimOnline
<1>3. RowsKept
  BY OnlineRows DEF ClaimOnline
<1> QED
  BY <1>2, <1>3, SameTraffic, QuieterStep DEF ClaimOnline

\* A new entry of agent_senders: the waiter that was taken for the agent.
LEMMA ClaimRegisterOwner ==
  ASSUME TypeOK, TypeOK', OwnerInv, NEW r \in Reqs, ClaimRegister(r)
  PROVE  OwnerInv'
<1> USE SessInProcs
<1>1. PICK a \in job[r].agent : senders' = [senders EXCEPT ![a] = job[r].via]
  BY DEF ClaimRegister, WriteSenders
<1>2. TrafficToOwner'
  <2>1. ASSUME NEW b \in Agents, NEW z \in Sessions, senders'[b] = {z}
        PROVE  b \in sess[z].knows
    <3>1. senders'[b] = IF b = a THEN job[r].via ELSE senders[b]
      BY <1>1 DEF TypeOK
    <3>2. CASE b = a
      BY <1>1, <2>1, <3>1, <3>2 DEF OwnerInv, WorksForOwner
    <3>3. CASE b # a
      BY <2>1, <3>1, <3>3 DEF OwnerInv, TrafficToOwner
    <3> QED
      BY <3>2, <3>3
  <2> QED
    BY <2>1 DEF OwnerInv, TrafficToOwner, ClaimRegister
<1>3. "sync.list" \in Plain
  BY DEF Plain, Labels, SharedLabels
<1>4. /\ OnlyMoves(r)
      /\ WorksForOwner(r)' /\ LocalsFit(r)' /\ pc'[r] # "claim.take"
  BY <1>3, StayFits DEF ClaimRegister
<1> QED
  BY <1>2, <1>4, SameRows, QuietStep DEF ClaimRegister

\* A token made in the dashboard keeps the invariant.
LEMMA GenerateTokenOwner ==
  ASSUME TypeOK, TypeOK', OwnerInv, NEW r \in Reqs, GenerateToken(r)
  PROVE  OwnerInv'
<1> USE SessInProcs
<1>1. RowsKept /\ issued \subseteq issued'
  BY DEF GenerateToken, RowsKept
<1>2. Idle(r) /\ OnlyMoves(r)
  BY DEF GenerateToken, OnlyMoves
<1>3. WorksForOwner(r)' /\ LocalsFit(r)' /\ pc'[r] # "claim.take"
  BY <1>2 DEF GenerateToken, Idle, OwnerInv, WorksForOwner, LocalsFit
<1> QED
  BY <1>1, <1>2, <1>3, SameTraffic, QuieterStep DEF GenerateToken

\* A registration keeps the invariant.
LEMMA RegisterOwner ==
  ASSUME TypeOK, TypeOK', OwnerInv, NEW r \in Reqs, Register(r) PROVE OwnerInv'
  BY DEF Register, OwnerInv, CodesInv, LeadsTo, Confirming, FiledUnder, AuthedInv,
         WorksForOwner, LocalsFit, TrafficToOwner

\* A request dropped at an await keeps the invariant.
LEMMA CancelOwner ==
  ASSUME TypeOK, TypeOK', OwnerInv, NEW r \in Reqs, Cancel(r) PROVE OwnerInv'
<1>1. NoNewTraffic
  BY DEF TypeOK, Cancel, NoNewTraffic, Listener
<1> QED
  BY <1>1, SessInProcs, ReturnFits, SameRows, QuieterStep DEF Cancel

\* Every step of a request keeps the invariant.
LEMMA RequestStepOwner ==
  ASSUME TypeOK, TypeOK', OwnerInv, NEW r \in Reqs, RequestStep(r)
  PROVE  OwnerInv'
  BY CreateCheckOwner, CreateAllocateOwner, CreateConflictOwner,
     CreateInsertOwner, CreateNotifyOwner, ToggleReadOwner, ToggleWriteOwner,
     ToggleNotifyOwner, ToggleReserveOwner, UpdateCheckOwner, UpdateWriteOwner,
     UpdateNotifyOwner, DeleteReadOwner, DeleteNotifyOwner, DeleteRowOwner,
     DeleteAgentOwner, DeleteAgentSenderOwner,
     DeleteAgentRowOwner, BanOwner, UnbanOwner, ClaimRowOwner, ClaimTakeOwner,
     ClaimOnlineOwner, ClaimRegisterOwner, GenerateTokenOwner, RegisterOwner,
     CancelOwner DEF RequestStep

-----------------------------------------------------------------------------
(* The whole specification. *)

\* A restart of the process keeps the invariant.
LEMMA RestartOwner ==
  ASSUME TypeOK, OwnerInv, Restart PROVE OwnerInv'
<1>1. \A s \in Sessions : /\ sess'[s].authed = {} /\ sess'[s].code = {}
                          /\ sess'[s].knows = sess[s].knows
  BY DEF Restart, TypeOK, SessionLocals
<1>2. NothingForgotten
  BY <1>1 DEF NothingForgotten, Restart
<1>3. NoNewFile
  BY <1>1 DEF NoNewFile, FiledUnder, Restart
<1>4. NoNewLead
  BY DEF NoNewLead, LeadsTo, Confirming, Restart
<1>5. CodesInv'
  BY <1>2, <1>3, <1>4, CodesKept DEF OwnerInv
<1>6. AuthedInv'
  BY <1>1 DEF AuthedInv
<1>7. TrafficToOwner'
  BY DEF TrafficToOwner, Restart
<1>8. \A p \in Procs : job'[p] = NoJob /\ pc'[p] \in {"idle", "new", "gone"}
  BY DEF Restart
<1>9. \A p \in Procs : WorksForOwner(p)' /\ LocalsFit(p)'
  BY <1>8 DEF WorksForOwner, LocalsFit, NoJob
<1> QED
  BY <1>5, <1>6, <1>7, <1>9 DEF OwnerInv

\* The invariant holds at the start.
LEMMA OwnerInit == ASSUME DistinctCodes PROVE Init => OwnerInv
<1> SUFFICES ASSUME Init PROVE OwnerInv
  OBVIOUS
<1>1. \A p \in Procs : job[p] = NoJob /\ pc[p] \in {"idle", "new"}
  BY DEF Init
<1>2. \A p \in Procs : WorksForOwner(p) /\ LocalsFit(p)
  BY <1>1 DEF WorksForOwner, LocalsFit, NoJob
<1>3. AuthedInv /\ TrafficToOwner
  BY DEF Init, AuthedInv, TrafficToOwner
<1>4. \A c \in Codes, s \in Sessions : ~FiledUnder(s, c)
  BY DEF Init, FiledUnder
<1>5. ASSUME NEW c \in Codes, NEW a \in Agents, LeadsTo(c, a)
      PROVE  \E x \in Agents0 : x.id = a /\ x.claim = {c}
  BY <1>1, <1>5 DEF Init, LeadsTo, Confirming
<1>6. ASSUME NEW c \in Codes, NEW a \in Agents, LeadsTo(c, a) PROVE c \in issued
  <2>1. PICK x \in Agents0 : x.claim = {c}
    BY <1>5, <1>6
  <2>2. c \in UNION {r.claim : r \in Agents0}
    BY <2>1
  <2> QED
    BY <2>2 DEF Init
<1>7. ASSUME NEW c \in Codes, NEW a \in Agents, NEW b \in Agents,
             LeadsTo(c, a), LeadsTo(c, b)
      PROVE  a = b
  <2>1. PICK x \in Agents0 : x.id = a /\ x.claim = {c}
    BY <1>5, <1>7
  <2>2. PICK y \in Agents0 : y.id = b /\ y.claim = {c}
    BY <1>5, <1>7
  <2> QED
    BY <2>1, <2>2 DEF DistinctCodes
<1> QED
  BY <1>2, <1>3, <1>4, <1>6, <1>7 DEF OwnerInv, CodesInv

\* Every step keeps the invariant.
LEMMA OwnerNext ==
  ASSUME DistinctCodes PROVE TypeOK /\ OwnerInv /\ [Next]_vars => OwnerInv'
<1> SUFFICES ASSUME TypeOK, OwnerInv, [Next]_vars PROVE OwnerInv'
  OBVIOUS
<1> TypeOK'
  BY NextType
<1>1. CASE UNCHANGED vars
  BY <1>1 DEF vars, OwnerInv, CodesInv, LeadsTo, Confirming, FiledUnder,
              AuthedInv, WorksForOwner, LocalsFit, TrafficToOwner
<1>2. CASE \E p \in Procs : TunnelStep(p) \/ QueueWriter(p)
  BY <1>2, TunnelStepOwner, QueueWriterOwner
<1>3. CASE \E s \in Sessions : SessionStep(s) \/ SendTaskEnds(s)
  BY <1>3, SessionStepOwner, SendTaskEndsOwner
<1>4. CASE \E r \in Reqs : RequestStep(r)
  BY <1>4, RequestStepOwner
<1>5. CASE \E l \in listeners : Reap(l) \/ ListenerExits(l)
  BY <1>5, ProxyStepOwner
<1>6. CASE Restart
  BY <1>6, RestartOwner
<1> QED
  BY <1>1, <1>2, <1>3, <1>4, <1>5, <1>6 DEF Next

(***************************************************************************)
(* An agent is reached, and its tunnels are served, only through           *)
(* connections whose peer has its token, whatever devices, users and the   *)
(* administrator do at the same time and through restarts, if two agents   *)
(* are never given the same claim code.                                    *)
(***************************************************************************)
THEOREM TrafficStaysWithOwner ==
  ASSUME DistinctCodes PROVE Spec => []TrafficToOwner
<1>1. Init => TypeOK /\ OwnerInv
  BY InitType, OwnerInit
<1>2. TypeOK /\ OwnerInv /\ [Next]_vars => (TypeOK /\ OwnerInv)'
  BY NextType, OwnerNext
<1>3. OwnerInv => TrafficToOwner
  BY DEF OwnerInv
<1> QED
  BY <1>1, <1>2, <1>3, PTL DEF Spec
=============================================================================
