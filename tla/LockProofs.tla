----------------------------- MODULE LockProofs -----------------------------
(***************************************************************************)
(* What a request was told of agent_senders stays true while it holds the  *)
(* lock for reading, for all values of the constants: the proof of         *)
(* StartsForRegistered.                                                    *)
(*                                                                         *)
(* Every write of agent_senders waits until no request reads it.  Between  *)
(* the read and the start of a listener a request only goes from one row   *)
(* of its agent to the next, so the channel it was given is, for each row  *)
(* it holds, the one the agent is registered under.                        *)
(***************************************************************************)
EXTENDS RelayProofs

\* The handlers before they read agent_senders: they have no loop to go through.
Before == {"create.allocate", "create.insert", "create.notify", "toggle.write",
           "toggle.notify"}

\* The handlers that were given a channel, for the rows in their locals.
Starting == {"toggle.reserve", "sync.reserve", "start.stop", "start.bind",
             "start.insert"}

Reads(r) == r \in held["senders"]

ChannelFits(r) ==
    /\ pc[r] \in Before => job[r].todo = {}
    /\ (Reads(r) /\ pc[r] = "sync.list")
          => job[r].cfg = {} /\ \A a \in job[r].agent : senders[a] = job[r].via
    /\ (Reads(r) /\ pc[r] \in Starting)
          => \A t \in job[r].cfg \cup job[r].todo : senders[t.agent] = job[r].via

LockInv == \A r \in Reqs : ChannelFits(r)

-----------------------------------------------------------------------------
(* The frame of a step. *)

OnlyMoves(p) ==
    \A q \in Procs \ {p} : pc'[q] = pc[q] /\ job'[q] = job[q]

\* A step of p changes agent_senders only when no one reads it.
SendersStay(p) ==
    \/ held'["senders"] = {}
    \/ senders' = senders /\ held'["senders"] \subseteq held["senders"] \cup {p}

\* The other handlers keep what they were told.
LEMMA OthersFit ==
  ASSUME LockInv, NEW p \in Procs, OnlyMoves(p), SendersStay(p),
         p \in Reqs => ChannelFits(p)'
  PROVE  LockInv'
<1> SUFFICES ASSUME NEW r \in Reqs, r # p PROVE ChannelFits(r)'
  BY DEF LockInv
<1>1. pc'[r] = pc[r] /\ job'[r] = job[r]
  BY SessInProcs DEF OnlyMoves
<1>2. Reads(r)' => Reads(r) /\ senders' = senders
  BY DEF Reads, SendersStay
<1>3. ChannelFits(r)
  BY DEF LockInv
<1> QED
  BY <1>1, <1>2, <1>3 DEF ChannelFits

Quiet == Labels \ (Before \cup Starting \cup {"sync.list"})

\* At the other labels nothing is asked of the locals.
LEMMA QuietFits == ASSUME NEW p, pc'[p] \in Quiet PROVE ChannelFits(p)'
  BY DEF Quiet, Before, Starting, ChannelFits

\* Where Goto, Begin and Finish leave a process.
LEMMA GotoMoves ==
  ASSUME TypeOK, NEW p \in Procs, NEW label, Goto(p, label)
  PROVE  pc'[p] = label /\ \A q \in Procs \ {p} : pc'[q] = pc[q]
  BY DEF TypeOK, Goto

\* Begin moves its process only.
LEMMA BeginMoves ==
  ASSUME TypeOK, NEW p \in Procs, NEW label, NEW j, Begin(p, label, j)
  PROVE  OnlyMoves(p) /\ pc'[p] = label /\ job'[p] = j
  BY DEF TypeOK, Begin, Goto, OnlyMoves

\* A handler that returns gives its locks back and is told nothing.
LEMMA FinishFits ==
  ASSUME TypeOK, NEW p \in Procs, NEW label \in Quiet, Finish(p, label),
         UNCHANGED senders
  PROVE  OnlyMoves(p) /\ SendersStay(p) /\ ChannelFits(p)'
<1>1. OnlyMoves(p) /\ pc'[p] = label
  BY DEF TypeOK, Finish, OnlyMoves
<1>2. SendersStay(p)
  BY DEF Finish, SendersStay, Locks
<1> QED
  BY <1>1, <1>2, QuietFits

\* So does Return.
LEMMA ReturnFits ==
  ASSUME TypeOK, NEW p \in Procs, Return(p), UNCHANGED senders
  PROVE  OnlyMoves(p) /\ SendersStay(p) /\ ChannelFits(p)'
<1>1. Home(p) \in Quiet
  BY DEF Home, Quiet, Before, Starting, Labels, SessionLabels, ReqLabels
<1> QED
  BY <1>1, FinishFits DEF Return

\* A write of agent_senders is over at once and waited for the readers.
LEMMA WriteSendersStay ==
  ASSUME TypeOK, NEW p, NEW q, NEW a, NEW via, WriteSenders(q, a, via)
  PROVE  SendersStay(p)
  BY DEF TypeOK, WriteSenders, Unlocked, SendersStay, Locks

\* Reading agent_senders adds the reader only.
LEMMA ReadSendersStay ==
  ASSUME TypeOK, NEW p, ReadSenders(p), UNCHANGED senders PROVE SendersStay(p)
  BY DEF TypeOK, ReadSenders, Acquire, SendersStay, Locks

\* Another lock does not matter.
LEMMA OtherLockStays ==
  ASSUME TypeOK, NEW p, NEW lock \in Locks \ {"senders"}, Acquire(lock, p),
         UNCHANGED senders
  PROVE  SendersStay(p) /\ held'["senders"] = held["senders"]
  BY DEF TypeOK, Acquire, SendersStay, Locks

-----------------------------------------------------------------------------
(* The steps of tunnel_manager.rs. *)

\* A step that goes to a label of Starting, with rows it had before.
LEMMA StaysStarting ==
  ASSUME NEW p, ChannelFits(p), pc[p] \in Starting, pc'[p] \in Starting,
         job'[p].via = job[p].via,
         job'[p].cfg \cup job'[p].todo \subseteq job[p].cfg \cup job[p].todo,
         UNCHANGED <<senders, held>>
  PROVE  ChannelFits(p)'
  BY DEF ChannelFits, Reads, Before, Starting

\* The next row of a loop was in it.
LEMMA NextRowFits ==
  ASSUME TypeOK, NEW p \in Procs, ChannelFits(p), pc[p] \in Starting, NextRow(p),
         UNCHANGED senders
  PROVE  OnlyMoves(p) /\ SendersStay(p) /\ ChannelFits(p)'
<1>1. CASE job[p].todo = {}
  BY <1>1, ReturnFits DEF NextRow
<1>2. CASE job[p].todo # {}
  <2>1. Goto(p, "sync.reserve") /\ job' = [job EXCEPT ![p].cfg = {}] /\ UNCHANGED held
    BY <1>2 DEF NextRow
  <2>2. pc'[p] \in Starting /\ OnlyMoves(p)
    BY <2>1, GotoMoves DEF TypeOK, OnlyMoves, Starting
  <2>3. /\ job'[p].via = job[p].via
        /\ job'[p].cfg = {} /\ job'[p].todo = job[p].todo
    BY <2>1 DEF TypeOK, Job
  <2>4. ChannelFits(p)'
    BY <2>1, <2>2, <2>3, StaysStarting
  <2> QED
    BY <2>1, <2>2, <2>4 DEF SendersStay
<1> QED
  BY <1>1, <1>2

\* The start of a listener, the loops around it and a stop keep the invariant.
LEMMA TunnelStepLock ==
  ASSUME TypeOK, LockInv, NEW p \in Procs, TunnelStep(p) PROVE LockInv'
<1> SUFFICES /\ OnlyMoves(p) /\ SendersStay(p)
             /\ p \in Reqs => ChannelFits(p)'
  BY OthersFit
<1> DEFINE Goal == OnlyMoves(p) /\ SendersStay(p) /\ (p \in Reqs => ChannelFits(p)')
<1>1. p \in Reqs => ChannelFits(p)
  BY DEF LockInv
<1>2. CASE StartStop(p) \/ StartBind(p)
  <2>1. /\ pc[p] \in Starting /\ pc'[p] \in Starting
        /\ OnlyMoves(p) /\ UNCHANGED <<senders, held, job>>
    BY <1>2, GotoMoves DEF StartStop, StartBind, Starting, OnlyMoves
  <2> QED
    BY <1>1, <2>1, StaysStarting DEF SendersStay
<1>3. CASE StartBindFails(p) \/ StartInsert(p)
  <2>1. pc[p] \in Starting /\ NextRow(p) /\ UNCHANGED senders
    BY <1>3 DEF StartBindFails, StartInsert, Starting
  <2>2. CASE p \in Reqs
    BY <1>1, <2>1, <2>2, NextRowFits
  <2>3. CASE p \notin Reqs
    <3>1. CASE Return(p)
      BY <2>1, <2>3, <3>1, ReturnFits
    <3>2. CASE Goto(p, "sync.reserve") /\ job' = [job EXCEPT ![p].cfg = {}]
               /\ UNCHANGED held
      BY <2>1, <2>3, <3>2, GotoMoves DEF TypeOK, OnlyMoves, SendersStay
    <3> QED
      BY <2>1, <3>1, <3>2 DEF NextRow
  <2> QED
    BY <2>2, <2>3
<1>4. CASE SyncList(p)
  <2> DEFINE rows == {t \in tunnels : t.agent \in job[p].agent /\ t.enabled}
  <2>1. CASE rows = {}
    BY <1>4, <2>1, ReturnFits DEF SyncList
  <2>2. CASE rows # {}
    <3>1. /\ Goto(p, "sync.reserve") /\ job' = [job EXCEPT ![p].todo = rows]
          /\ UNCHANGED <<senders, held>>
      BY <1>4, <2>2 DEF SyncList
    <3>2. OnlyMoves(p) /\ pc'[p] = "sync.reserve"
      BY <3>1, GotoMoves DEF TypeOK, OnlyMoves
    <3>3. /\ job'[p].todo = rows /\ job'[p].via = job[p].via
          /\ job'[p].cfg = job[p].cfg
      BY <3>1 DEF TypeOK, Job
    <3> QED
      BY <1>1, <1>4, <3>1, <3>2, <3>3
         DEF SyncList, SendersStay, ChannelFits, Reads, Before, Starting
  <2> QED
    BY <2>1, <2>2
<1>5. CASE SyncReserve(p)
  <2>1. PICK t \in job[p].todo :
           job' = [job EXCEPT ![p].cfg = {t}, ![p].todo = @ \ {t}]
    BY <1>5 DEF SyncReserve
  <2>2. /\ pc[p] \in Starting /\ pc'[p] \in Starting
        /\ OnlyMoves(p) /\ UNCHANGED <<senders, held>>
    BY <1>5, <2>1, GotoMoves DEF SyncReserve, TypeOK, Starting, OnlyMoves
  <2>3. /\ job'[p].via = job[p].via
        /\ job'[p].cfg = {t} /\ job'[p].todo = job[p].todo \ {t}
    BY <2>1 DEF TypeOK, Job
  <2> QED
    BY <1>1, <2>2, <2>3, StaysStarting DEF SendersStay
<1>6. CASE StopOne(p)
  <2>1. OnlyMoves(p) /\ pc'[p] = "stop.free" /\ UNCHANGED <<senders, held>>
    BY <1>6, GotoMoves DEF StopOne, TypeOK, OnlyMoves
  <2>2. "stop.free" \in Quiet
    BY DEF Quiet, Before, Starting, Labels, SharedLabels
  <2> QED
    BY <2>1, <2>2, QuietFits DEF SendersStay
<1>7. CASE FreeOne(p)
  <2>1. UNCHANGED senders
    BY <1>7 DEF FreeOne
  <2>2. {"gone", "delete.notify", "stop.one"} \subseteq Quiet
    BY DEF Quiet, Before, Starting, Labels, SharedLabels, SessionLabels, ReqLabels
  <2>3. ASSUME NEW label \in Quiet, Goto(p, label), UNCHANGED <<job, held>>
        PROVE  Goal
    BY <2>1, <2>3, GotoMoves, QuietFits DEF OnlyMoves, SendersStay
  <2>4. CASE Finish(p, "gone")
    BY <2>1, <2>2, <2>4, FinishFits
  <2>5. CASE Return(p)
    BY <2>1, <2>5, ReturnFits
  <2> QED
    BY <1>7, <2>2, <2>3, <2>4, <2>5 DEF FreeOne, LoopEnds
<1> QED
  BY <1>2, <1>3, <1>4, <1>5, <1>6, <1>7 DEF TunnelStep

-----------------------------------------------------------------------------
(* Connections and requests. *)

\* A connection is no request, and waits for the readers before it writes.
LEMMA SessionStepLock ==
  ASSUME TypeOK, LockInv, NEW s \in Sessions, SessionStep(s) \/ SendTaskEnds(s)
  PROVE  LockInv'
<1>1. s \in Procs /\ s \notin Reqs
  BY SessInProcs, ProcsDisjoint
<1>2. OnlyMoves(s)
  BY DEF TypeOK, SessionStep, Connect, RequestClaim, AuthRead, AuthPending, AuthOnline,
         AuthRegister, Disconnect, ClosePending, CleanupSenders, CleanupOffline,
         CleanupList, SendTaskEnds, Goto, OnlyMoves
<1>3. CASE AuthRegister(s) \/ CleanupSenders(s)
  <2>1. SendersStay(s)
    BY <1>3, WriteSendersStay DEF AuthRegister, CleanupSenders
  <2> QED
    BY <1>1, <1>2, <2>1, OthersFit
<1>4. CASE \/ Connect(s) \/ RequestClaim(s) \/ AuthRead(s) \/ AuthPending(s)
           \/ AuthOnline(s) \/ Disconnect(s) \/ ClosePending(s) \/ CleanupOffline(s)
           \/ CleanupList(s) \/ SendTaskEnds(s)
  <2>1. UNCHANGED <<senders, held>>
    BY <1>4 DEF Connect, RequestClaim, AuthRead, AuthPending, AuthOnline, Disconnect,
                ClosePending, CleanupOffline, CleanupList, SendTaskEnds
  <2> QED
    BY <1>1, <1>2, <2>1, OthersFit DEF SendersStay
<1> QED
  BY <1>3, <1>4 DEF SessionStep

\* What a step of a request has to show.
StepFits(r) == OnlyMoves(r) /\ SendersStay(r) /\ ChannelFits(r)'

\* A request that begins with an empty loop, and has read no channel yet.
LEMMA BeginFits ==
  ASSUME TypeOK, NEW r \in Reqs, NEW label \in Before \cup Quiet, NEW j,
         Begin(r, label, j), label \in Before => j.todo = {}, SendersStay(r)
  PROVE  StepFits(r)
<1>1. OnlyMoves(r) /\ pc'[r] = label /\ job'[r] = j
  BY SessInProcs, BeginMoves
<1>2. CASE label \in Before
  BY <1>1, <1>2 DEF StepFits, ChannelFits, Before, Starting
<1>3. CASE label \in Quiet
  BY <1>1, <1>3, QuietFits DEF StepFits
<1> QED
  BY <1>2, <1>3

\* A request that goes on, with the locals it had, where it is asked no more.
LEMMA GoesOnFits ==
  ASSUME TypeOK, LockInv, NEW r \in Reqs, NEW label \in Before \cup Quiet,
         Goto(r, label), UNCHANGED job, label \in Before => pc[r] \in Before,
         SendersStay(r)
  PROVE  StepFits(r)
<1>1. OnlyMoves(r) /\ pc'[r] = label /\ job'[r] = job[r]
  BY SessInProcs, GotoMoves DEF OnlyMoves
<1>2. CASE label \in Before
  BY <1>1, <1>2 DEF StepFits, LockInv, ChannelFits, Before, Starting
<1>3. CASE label \in Quiet
  BY <1>1, <1>3, QuietFits DEF StepFits
<1> QED
  BY <1>2, <1>3

\* A request that just read the channel of the tunnel at hand.
LEMMA GivenFits ==
  ASSUME TypeOK, LockInv, NEW r \in Reqs, pc[r] \in Before, NEW label \in Starting,
         NEW t \in job[r].cfg,
         Begin(r, label, [job[r] EXCEPT !.via = senders[t.agent]]),
         UNCHANGED senders, SendersStay(r)
  PROVE  StepFits(r)
<1>1. r \in Procs
  BY SessInProcs
<1>2. OnlyMoves(r) /\ pc'[r] = label
      /\ job'[r] = [job[r] EXCEPT !.via = senders[t.agent]]
  BY <1>1, BeginMoves
<1>3. job[r] \in Job
  BY <1>1 DEF TypeOK
<1>4. /\ job'[r].cfg = job[r].cfg /\ job'[r].todo = job[r].todo
      /\ job'[r].via = senders[t.agent]
  BY <1>2, <1>3 DEF Job
<1>5. \A x \in job[r].cfg : x = t
  BY <1>3, OptMember DEF Job
<1>6. job[r].todo = {}
  BY DEF LockInv, ChannelFits
<1> QED
  BY <1>2, <1>4, <1>5, <1>6 DEF StepFits, ChannelFits, Before, Starting

\* Creations keep the invariant.
LEMMA CreateLock ==
  ASSUME TypeOK, LockInv, NEW r \in Reqs,
         \/ CreateCheck(r) \/ CreateAllocate(r) \/ CreateConflict(r)
         \/ CreateInsert(r) \/ CreateNotify(r)
  PROVE  StepFits(r)
<1>1. r \in Procs
  BY SessInProcs
<1>2. ASSUME Return(r), UNCHANGED senders PROVE StepFits(r)
  BY <1>1, <1>2, ReturnFits DEF StepFits
<1>3. CASE CreateCheck(r)
  <2>1. PICK z : Begin(r, "create.allocate", [NoJob EXCEPT !.cfg = {z}])
    BY <1>3 DEF CreateCheck
  <2>2. [NoJob EXCEPT !.cfg = {z}].todo = {}
    BY DEF NoJob
  <2>3. SendersStay(r)
    BY <1>3 DEF CreateCheck, SendersStay
  <2> QED
    BY <2>1, <2>2, <2>3, BeginFits DEF Before
<1>4. CASE CreateAllocate(r)
  <2>1. SendersStay(r)
    BY <1>4 DEF CreateAllocate, SendersStay
  <2> QED
    BY <1>4, <2>1, GoesOnFits DEF CreateAllocate, Before
<1>5. CASE CreateConflict(r)
  BY <1>2, <1>5 DEF CreateConflict
<1>6. CASE CreateInsert(r)
  <2>1. CASE Goto(r, "create.notify") /\ UNCHANGED <<job, held>>
    <3>1. SendersStay(r)
      BY <1>6, <2>1 DEF CreateInsert, SendersStay
    <3> QED
      BY <1>6, <2>1, <3>1, GoesOnFits DEF CreateInsert, Before
  <2> QED
    BY <1>2, <1>6, <2>1 DEF CreateInsert
<1>7. CASE CreateNotify(r)
  <2>1. PICK t \in job[r].cfg :
           IF senders[t.agent] = {}
             THEN Return(r)
             ELSE /\ Begin(r, "start.stop", [job[r] EXCEPT !.via = senders[t.agent]])
                  /\ ReadSenders(r)
    BY <1>7 DEF CreateNotify
  <2>2. UNCHANGED senders /\ pc[r] \in Before
    BY <1>7 DEF CreateNotify, Before
  <2>3. CASE /\ Begin(r, "start.stop", [job[r] EXCEPT !.via = senders[t.agent]])
             /\ ReadSenders(r)
    <3>1. SendersStay(r)
      BY <2>2, <2>3, ReadSendersStay
    <3> QED
      BY <2>2, <2>3, <3>1, GivenFits DEF Starting
  <2> QED
    BY <1>2, <2>1, <2>2, <2>3
<1> QED
  BY <1>3, <1>4, <1>5, <1>6, <1>7

\* The switch of a tunnel keeps the invariant.
LEMMA ToggleLock ==
  ASSUME TypeOK, LockInv, NEW r \in Reqs,
         ToggleRead(r) \/ ToggleWrite(r) \/ ToggleNotify(r) \/ ToggleReserve(r)
  PROVE  StepFits(r)
<1>1. r \in Procs
  BY SessInProcs
<1>2. "stop.one" \in Quiet
  BY DEF Quiet, Before, Starting, Labels, SharedLabels
<1>3. CASE ToggleRead(r)
  <2>1. PICK z : Begin(r, "toggle.write", [NoJob EXCEPT !.cfg = {z}])
    BY <1>3 DEF ToggleRead
  <2>2. [NoJob EXCEPT !.cfg = {z}].todo = {}
    BY DEF NoJob
  <2>3. SendersStay(r)
    BY <1>3 DEF ToggleRead, SendersStay
  <2> QED
    BY <2>1, <2>2, <2>3, BeginFits DEF Before
<1>4. CASE ToggleWrite(r)
  <2>1. SendersStay(r)
    BY <1>4 DEF ToggleWrite, SendersStay
  <2> QED
    BY <1>4, <2>1, GoesOnFits DEF ToggleWrite, Before
<1>5. CASE ToggleNotify(r)
  <2>1. PICK t \in job[r].cfg :
           IF t.enabled
             THEN Begin(r, "toggle.reserve", [job[r] EXCEPT !.via = senders[t.agent]])
             ELSE Begin(r, "stop.one", [NoJob EXCEPT !.todo = {t}])
    BY <1>5 DEF ToggleNotify
  <2>2. UNCHANGED senders /\ pc[r] \in Before /\ ReadSenders(r)
    BY <1>5 DEF ToggleNotify, Before
  <2>3. SendersStay(r)
    BY <2>2, ReadSendersStay
  <2>4. CASE Begin(r, "toggle.reserve", [job[r] EXCEPT !.via = senders[t.agent]])
    BY <2>2, <2>3, <2>4, GivenFits DEF Starting
  <2>5. CASE Begin(r, "stop.one", [NoJob EXCEPT !.todo = {t}])
    BY <1>2, <2>3, <2>5, BeginFits DEF Quiet
  <2> QED
    BY <2>1, <2>4, <2>5
<1>6. CASE ToggleReserve(r)
  <2>1. UNCHANGED senders /\ pc[r] \in Starting
    BY <1>6 DEF ToggleReserve, Starting
  <2>2. CASE Return(r)
    BY <1>1, <2>1, <2>2, ReturnFits DEF StepFits
  <2>3. CASE Goto(r, "start.stop") /\ Acquire("allocated", r) /\ UNCHANGED job
    <3>1. SendersStay(r) /\ held'["senders"] = held["senders"]
      BY <2>1, <2>3, OtherLockStays DEF Locks
    <3>2. OnlyMoves(r) /\ pc'[r] = "start.stop"
      BY <1>1, <2>3, GotoMoves DEF OnlyMoves
    <3> QED
      BY <2>1, <2>3, <3>1, <3>2
         DEF StepFits, LockInv, ChannelFits, Reads, Before, Starting
  <2> QED
    BY <1>6, <2>2, <2>3 DEF ToggleReserve
<1> QED
  BY <1>3, <1>4, <1>5, <1>6

\* An update keeps the invariant: it hands its sync the channel it has just read.
LEMMA UpdateLock ==
  ASSUME TypeOK, LockInv, NEW r \in Reqs,
         UpdateCheck(r) \/ UpdateWrite(r) \/ UpdateNotify(r)
  PROVE  StepFits(r)
<1>1. r \in Procs
  BY SessInProcs
<1>2. {"update.write", "update.notify"} \subseteq Quiet
  BY DEF Quiet, Before, Starting, Labels, ReqLabels
<1>3. CASE UpdateCheck(r)
  <2>1. PICK j : Begin(r, "update.write", j)
    BY <1>3 DEF UpdateCheck
  <2>2. SendersStay(r)
    BY <1>3 DEF UpdateCheck, SendersStay
  <2> QED
    BY <1>2, <2>1, <2>2, BeginFits DEF Quiet
<1>4. CASE UpdateWrite(r)
  <2>1. SendersStay(r)
    BY <1>4 DEF UpdateWrite, SendersStay
  <2> QED
    BY <1>2, <1>4, <2>1, GoesOnFits DEF UpdateWrite, Quiet
<1>5. CASE UpdateNotify(r)
  <2>1. PICK a \in job[r].agent :
           IF senders[a] = {}
             THEN Return(r)
             ELSE /\ Begin(r, "sync.list", [NoJob EXCEPT !.agent = {a},
                                                         !.via = senders[a]])
                  /\ ReadSenders(r)
    BY <1>5 DEF UpdateNotify
  <2>2. UNCHANGED senders
    BY <1>5 DEF UpdateNotify
  <2>3. CASE Return(r)
    BY <1>1, <2>2, <2>3, ReturnFits DEF StepFits
  <2>4. CASE /\ Begin(r, "sync.list", [NoJob EXCEPT !.agent = {a}, !.via = senders[a]])
             /\ ReadSenders(r)
    <3>1. OnlyMoves(r) /\ pc'[r] = "sync.list"
          /\ job'[r] = [NoJob EXCEPT !.agent = {a}, !.via = senders[a]]
      BY <1>1, <2>4, BeginMoves
    <3>2. job'[r].cfg = {} /\ job'[r].agent = {a} /\ job'[r].via = senders[a]
      BY <3>1 DEF NoJob
    <3>3. SendersStay(r)
      BY <2>2, <2>4, ReadSendersStay
    <3> QED
      BY <2>2, <3>1, <3>2, <3>3 DEF StepFits, ChannelFits, Before, Starting
  <2> QED
    BY <2>1, <2>3, <2>4
<1> QED
  BY <1>3, <1>4, <1>5

\* Deletions keep the invariant: the one of an agent waits for the readers.
LEMMA DeleteLock ==
  ASSUME TypeOK, LockInv, NEW r \in Reqs,
         \/ DeleteRead(r) \/ DeleteNotify(r) \/ DeleteRow(r)
         \/ DeleteAgent(r) \/ DeleteAgentSender(r) \/ DeleteAgentRow(r) \/ Cancel(r)
  PROVE  StepFits(r)
<1>1. r \in Procs
  BY SessInProcs
<1>2. {"stop.one", "delete.row", "delete_agent.sender", "delete_agent.row"} \subseteq Quiet
  BY DEF Quiet, Before, Starting, Labels, ReqLabels, SharedLabels
<1>3. CASE DeleteRead(r)
  <2>1. PICK j : Begin(r, "stop.one", j)
    BY <1>3 DEF DeleteRead
  <2>2. SendersStay(r)
    BY <1>3 DEF DeleteRead, SendersStay
  <2> QED
    BY <1>2, <2>1, <2>2, BeginFits DEF Quiet
<1>4. CASE DeleteAgentSender(r)
  <2>1. PICK a : WriteSenders(r, a, {})
    BY <1>4 DEF DeleteAgentSender
  <2>2. SendersStay(r)
    BY <2>1, WriteSendersStay
  <2> QED
    BY <1>2, <1>4, <2>2, GoesOnFits DEF DeleteAgentSender, Quiet
<1>5. CASE DeleteRow(r) \/ DeleteAgentRow(r) \/ Cancel(r)
  BY <1>1, <1>5, ReturnFits DEF DeleteRow, DeleteAgentRow, Cancel, StepFits
<1>6. CASE DeleteNotify(r)
  <2>1. SendersStay(r)
    BY <1>6 DEF DeleteNotify, SendersStay
  <2> QED
    BY <1>2, <1>6, <2>1, GoesOnFits DEF DeleteNotify, Quiet
<1>7. CASE DeleteAgent(r)
  <2>1. PICK j : Begin(r, "delete_agent.sender", j)
    BY <1>7 DEF DeleteAgent
  <2>2. SendersStay(r)
    BY <1>7 DEF DeleteAgent, SendersStay
  <2> QED
    BY <1>2, <2>1, <2>2, BeginFits DEF Quiet
<1> QED
  BY <1>3, <1>4, <1>5, <1>6, <1>7

\* Bans, registrations and new tokens keep the invariant.
LEMMA PlainLock ==
  ASSUME TypeOK, LockInv, NEW r \in Reqs,
         Ban(r) \/ Unban(r) \/ GenerateToken(r) \/ Register(r)
  PROVE  StepFits(r)
<1>1. CASE UNCHANGED <<pc, job, held, senders>>
  BY <1>1 DEF StepFits, OnlyMoves, SendersStay, LockInv, ChannelFits, Reads
<1>2. ASSUME NEW j, Begin(r, "stop.one", j), Acquire("db", r), UNCHANGED senders
      PROVE  StepFits(r)
  <2>1. "stop.one" \in Quiet
    BY DEF Quiet, Before, Starting, Labels, SharedLabels
  <2>2. SendersStay(r)
    BY <1>2, OtherLockStays DEF Locks
  <2> QED
    BY <1>2, <2>1, <2>2, BeginFits DEF Quiet
<1>3. CASE Ban(r)
  BY <1>1, <1>2, <1>3 DEF Ban
<1>4. CASE Unban(r) \/ GenerateToken(r) \/ Register(r)
  BY <1>1, <1>4 DEF Unban, GenerateToken, Register
<1> QED
  BY <1>3, <1>4

\* A claim starts its listeners without the lock: it is told nothing for sure.
LEMMA ClaimLock ==
  ASSUME TypeOK, LockInv, NEW r \in Reqs,
         ClaimRow(r) \/ ClaimTake(r) \/ ClaimOnline(r) \/ ClaimRegister(r)
  PROVE  StepFits(r)
<1>1. r \in Procs
  BY SessInProcs
<1>2. {"claim.take", "claim.online", "claim.register"} \subseteq Quiet
  BY DEF Quiet, Before, Starting, Labels, ReqLabels
<1>3. CASE ClaimRow(r)
  <2>1. PICK j : Begin(r, "claim.take", j)
    BY <1>3 DEF ClaimRow
  <2>2. SendersStay(r)
    BY <1>3 DEF ClaimRow, SendersStay
  <2> QED
    BY <1>2, <2>1, <2>2, BeginFits DEF Quiet
<1>4. CASE ClaimTake(r)
  <2>1. UNCHANGED senders
    BY <1>4 DEF ClaimTake
  <2>2. ASSUME NEW j, Begin(r, "claim.online", j), UNCHANGED held PROVE StepFits(r)
    <3>1. SendersStay(r)
      BY <2>1, <2>2 DEF SendersStay
    <3> QED
      BY <1>2, <2>2, <3>1, BeginFits DEF Quiet
  <2>3. CASE Return(r)
    BY <1>1, <2>1, <2>3, ReturnFits DEF StepFits
  <2> QED
    BY <1>4, <2>2, <2>3 DEF ClaimTake
<1>5. CASE ClaimOnline(r)
  <2>1. SendersStay(r)
    BY <1>5 DEF ClaimOnline, SendersStay
  <2> QED
    BY <1>2, <1>5, <2>1, GoesOnFits DEF ClaimOnline, Quiet
<1>6. CASE ClaimRegister(r)
  <2>1. PICK a : WriteSenders(r, a, job[r].via)
    BY <1>6 DEF ClaimRegister
  <2>2. held'["senders"] = {} /\ SendersStay(r)
    BY <2>1 DEF TypeOK, WriteSenders, Unlocked, SendersStay, Locks
  <2>3. OnlyMoves(r) /\ pc'[r] = "sync.list"
    BY <1>1, <1>6, GotoMoves DEF ClaimRegister, OnlyMoves
  <2> QED
    BY <2>2, <2>3 DEF StepFits, ChannelFits, Reads, Before, Starting
<1> QED
  BY <1>3, <1>4, <1>5, <1>6

\* Every step keeps the invariant.
LEMMA LockNext == TypeOK /\ LockInv /\ [Next]_vars => LockInv'
<1> SUFFICES ASSUME TypeOK, LockInv, [Next]_vars PROVE LockInv'
  OBVIOUS
<1>1. CASE UNCHANGED vars
  BY <1>1 DEF vars, LockInv, ChannelFits, Reads
<1>2. ASSUME NEW p \in Procs, QueueWriter(p) PROVE LockInv'
  <2>1. UNCHANGED <<pc, job, senders>> /\ held'["senders"] = held["senders"]
    BY <1>2 DEF QueueWriter, Acquire, TypeOK, Locks
  <2> QED
    BY <2>1 DEF LockInv, ChannelFits, Reads
<1>3. ASSUME NEW r \in Reqs, RequestStep(r) PROVE LockInv'
  <2>1. StepFits(r)
    BY <1>3, CreateLock, ToggleLock, UpdateLock, DeleteLock, PlainLock, ClaimLock
       DEF RequestStep
  <2> QED
    BY <2>1, SessInProcs, OthersFit DEF StepFits
<1>4. CASE \E l \in listeners : Reap(l) \/ ListenerExits(l)
  BY <1>4 DEF Reap, ListenerExits, LockInv, ChannelFits, Reads
<1>5. CASE Restart
  <2>1. \A r \in Reqs : ~Reads(r)' /\ job'[r].todo = {}
    BY <1>5, SessInProcs DEF Restart, Reads, Locks, NoJob
  <2> QED
    BY <2>1 DEF LockInv, ChannelFits
<1> QED
  BY <1>1, <1>2, <1>3, <1>4, <1>5, TunnelStepLock, SessionStepLock DEF Next

(***************************************************************************)
(* A request that starts a listener while it holds agent_senders starts it *)
(* for the connection the agent is registered under then, whatever         *)
(* connects, disconnects, is deleted, claimed or cancelled meanwhile.      *)
(***************************************************************************)
THEOREM StartsStayRegistered == Spec => []StartsForRegistered
<1>1. Init => TypeOK /\ LockInv
  BY InitType, SessInProcs DEF Init, LockInv, ChannelFits, Reads, Before, Starting, Locks
<1>2. TypeOK /\ LockInv /\ [Next]_vars => (TypeOK /\ LockInv)'
  BY NextType, LockNext
<1>3. LockInv => StartsForRegistered
  BY DEF LockInv, ChannelFits, Reads, Starting, StartsForRegistered
<1> QED
  BY <1>1, <1>2, <1>3, PTL DEF Spec

-----------------------------------------------------------------------------
(***************************************************************************)
(* No deadlock.  A handler that holds allocated_ports waits for nothing,   *)
(* one that holds the database only for allocated_ports, a reader of       *)
(* agent_senders for these two, and a writer that queues only for the      *)
(* readers: whoever holds what another waits for is a rank lower, and      *)
(* there are four ranks.                                                   *)
(***************************************************************************)
HoldsPorts(p) ==
    pc[p] \in {"start.stop", "start.bind", "start.insert"} /\ job[p].todo = {}

HoldsDb(p) == pc[p] \in {"stop.one", "stop.free"} /\ job[p].ret = "home"

HoldsSenders(p) ==
    \/ pc[p] \in Starting \cup {"sync.list"}
    \/ pc[p] \in {"stop.one", "stop.free"} /\ job[p].ret = "home"

Toggling == {"toggle.write", "toggle.notify", "toggle.reserve"}

HoldsFit(p) ==
    /\ p \in held["allocated"] => HoldsPorts(p)
    /\ p \in held["db"] => HoldsDb(p)
    /\ p \in held["senders"] => HoldsSenders(p)
    /\ p \in held["writers"] => pc[p] \in WritesSenders
    /\ pc[p] \in Toggling => job[p].todo = {}

HoldsInv == \A p \in Procs : HoldsFit(p)

\* A handler waits for one that holds a lock.
LEMMA WaitsForHolder ==
  ASSUME NEW p, NEW q, WaitsFor(p, q) PROVE \E k \in Locks : q \in held[k]
  BY DEF WaitsFor, Locks

\* The ranks, from the lowest.
LEMMA PortsWaitForNone ==
  ASSUME HoldsInv, NEW p \in Procs, p \in held["allocated"], NEW q
  PROVE  ~WaitsFor(p, q)
  BY DEF HoldsInv, HoldsFit, HoldsPorts, WaitsFor, NeedsDb, NeedsPorts, ReadsSenders,
         WritesSenders

\* Whoever holds the database waits for allocated_ports at most.
LEMMA DbWaitsForPorts ==
  ASSUME HoldsInv, NEW p \in Procs, p \in held["db"], NEW q, WaitsFor(p, q)
  PROVE  q \in held["allocated"]
  BY DEF HoldsInv, HoldsFit, HoldsDb, WaitsFor, NeedsDb, NeedsPorts, ReadsSenders,
         WritesSenders

\* A reader of agent_senders waits for the database or allocated_ports at most.
LEMMA SendersWaitForBoth ==
  ASSUME HoldsInv, NEW p \in Procs, p \in held["senders"], NEW q, WaitsFor(p, q)
  PROVE  q \in held["db"] \/ q \in held["allocated"]
  BY DEF HoldsInv, HoldsFit, HoldsSenders, Starting, WaitsFor, NeedsDb, NeedsPorts,
         ReadsSenders, WritesSenders

\* A writer that queues waits for the readers.
LEMMA WritersWaitForReaders ==
  ASSUME HoldsInv, NEW p \in Procs, p \in held["writers"], NEW q, WaitsFor(p, q)
  PROVE  q \in held["senders"]
  BY DEF HoldsInv, HoldsFit, WaitsFor, NeedsDb, NeedsPorts, ReadsSenders, WritesSenders

\* Hence no set of handlers waits for itself.
LEMMA HoldsNoCycle == HoldsInv => NoWaitCycle
<1> SUFFICES ASSUME HoldsInv, NEW S \in SUBSET Procs, S # {},
                    \A p \in S : \E q \in S : WaitsFor(p, q)
             PROVE  FALSE
  BY DEF NoWaitCycle
<1>1. \A p \in S : p \notin held["allocated"]
  BY PortsWaitForNone
<1>2. \A p \in S : p \notin held["db"]
  BY <1>1, DbWaitsForPorts
<1>3. \A p \in S : p \notin held["senders"]
  BY <1>1, <1>2, SendersWaitForBoth
<1>4. \A p \in S : p \notin held["writers"]
  BY <1>3, WritersWaitForReaders
<1> QED
  BY <1>1, <1>2, <1>3, <1>4, WaitsForHolder DEF Locks

\* A step takes a lock for its own process only.
KeepsHeld(p) == \A k \in Locks : held'[k] \subseteq held[k] \cup {p}

StepHolds(p) == OnlyMoves(p) /\ KeepsHeld(p) /\ HoldsFit(p)'

\* The other handlers hold no more than they did.
LEMMA OthersHold ==
  ASSUME HoldsInv, NEW p \in Procs, StepHolds(p) PROVE HoldsInv'
<1> SUFFICES ASSUME NEW q \in Procs, q # p PROVE HoldsFit(q)'
  BY DEF HoldsInv, StepHolds
<1>1. pc'[q] = pc[q] /\ job'[q] = job[q] /\ HoldsFit(q)
  BY DEF StepHolds, OnlyMoves, HoldsInv
<1>2. \A k \in Locks : q \in held'[k] => q \in held[k]
  BY DEF StepHolds, KeepsHeld
<1> QED
  BY <1>1, <1>2 DEF HoldsFit, HoldsPorts, HoldsDb, HoldsSenders, Locks

HoldsNothing(p) == \A k \in Locks : p \notin held[k]

\* The labels at which a handler may hold a lock.
Holding == Starting \cup WritesSenders \cup {"sync.list", "stop.one", "stop.free"}

\* Elsewhere it holds none.
LEMMA HoldsNone ==
  ASSUME NEW p, HoldsFit(p), pc[p] \notin Holding PROVE HoldsNothing(p)
  BY DEF HoldsFit, HoldsPorts, HoldsDb, HoldsSenders, Holding, Starting, HoldsNothing,
         Locks

\* A handler that holds nothing goes on and takes nothing.
LEMMA QuietHolds ==
  ASSUME NEW p, HoldsNothing(p), OnlyMoves(p), UNCHANGED held,
         pc'[p] \in Toggling => job'[p].todo = {}
  PROVE  StepHolds(p)
  BY DEF HoldsNothing, StepHolds, KeepsHeld, HoldsFit, Locks

\* A handler that ends gives back what it holds.
LEMMA FinishHolds ==
  ASSUME TypeOK, NEW p \in Procs, NEW label, label \notin Toggling, Finish(p, label)
  PROVE  StepHolds(p)
<1>1. OnlyMoves(p) /\ pc'[p] = label
  BY DEF TypeOK, Finish, OnlyMoves
<1>2. KeepsHeld(p) /\ \A k \in Locks : p \notin held'[k]
  BY DEF Finish, KeepsHeld
<1> QED
  BY <1>1, <1>2 DEF StepHolds, HoldsFit, Locks

\* So does one that returns.
LEMMA ReturnHolds ==
  ASSUME TypeOK, NEW p \in Procs, Return(p) PROVE StepHolds(p)
<1>1. Home(p) \notin Toggling
  BY DEF Home, Toggling
<1> QED
  BY <1>1, FinishHolds DEF Return

\* A writer of agent_senders holds nothing once it has written.
LEMMA WriteHolds ==
  ASSUME TypeOK, NEW p \in Procs, HoldsFit(p), pc[p] \in WritesSenders,
         NEW a, NEW via, WriteSenders(p, a, via), OnlyMoves(p), pc'[p] \notin Toggling
  PROVE  StepHolds(p)
<1>1. held' = [held EXCEPT !["writers"] = @ \ {p}]
  BY DEF WriteSenders
<1>2. KeepsHeld(p)
  BY <1>1 DEF TypeOK, KeepsHeld
<1>3. \A k \in Locks : p \notin held'[k]
  BY <1>1 DEF TypeOK, HoldsFit, HoldsPorts, HoldsDb, HoldsSenders, Starting,
              WritesSenders, Locks
<1> QED
  BY <1>2, <1>3 DEF StepHolds, HoldsFit, Locks

\* A handler that held nothing holds the one lock it takes.
LEMMA AcquireHolds ==
  ASSUME TypeOK, NEW p \in Procs, HoldsNothing(p), NEW lock \in Locks, Acquire(lock, p)
  PROVE  KeepsHeld(p) /\ \A k \in Locks \ {lock} : p \notin held'[k]
  BY DEF TypeOK, HoldsNothing, Acquire, KeepsHeld

\* The start of a listener gives no lock back before the handler returns, and the
\* loops around it wait with the locks their handler came with.
LEMMA TunnelStepHolds ==
  ASSUME TypeOK, HoldsInv, NEW p \in Procs, TunnelStep(p) PROVE StepHolds(p)
<1>1. HoldsFit(p) /\ job[p] \in Job
  BY DEF HoldsInv, TypeOK
<1>2. ASSUME UNCHANGED held, OnlyMoves(p), pc'[p] \notin Toggling,
             p \in held["allocated"] => HoldsPorts(p)',
             p \in held["db"] => HoldsDb(p)',
             p \in held["senders"] => HoldsSenders(p)',
             pc[p] \notin WritesSenders
      PROVE  StepHolds(p)
  BY <1>1, <1>2 DEF StepHolds, KeepsHeld, HoldsFit
<1>3. ASSUME NextRow(p), pc[p] \in {"start.bind", "start.insert"} PROVE StepHolds(p)
  <2>1. CASE Goto(p, "sync.reserve") /\ job[p].todo # {} /\ UNCHANGED held
             /\ job' = [job EXCEPT ![p].cfg = {}]
    <3>1. OnlyMoves(p) /\ pc'[p] = "sync.reserve"
      BY <2>1, GotoMoves DEF TypeOK, OnlyMoves
    <3>2. p \notin held["allocated"] /\ p \notin held["db"]
      BY <1>1, <1>3, <2>1 DEF HoldsFit, HoldsPorts, HoldsDb
    <3> QED
      BY <1>2, <1>3, <2>1, <3>1, <3>2 DEF HoldsSenders, Starting, Toggling, WritesSenders
  <2> QED
    BY <1>3, <2>1, ReturnHolds DEF NextRow
<1>4. CASE StartStop(p) \/ StartBind(p)
  <2>1. /\ pc[p] \in {"start.stop", "start.bind"}
        /\ pc'[p] \in {"start.bind", "start.insert"}
        /\ OnlyMoves(p) /\ UNCHANGED <<held, job>>
    BY <1>4, GotoMoves DEF StartStop, StartBind, OnlyMoves
  <2> QED
    BY <1>1, <1>2, <2>1 DEF HoldsFit, HoldsPorts, HoldsDb, HoldsSenders, Starting,
                            Toggling, WritesSenders
<1>5. CASE StartBindFails(p) \/ StartInsert(p)
  BY <1>3, <1>5 DEF StartBindFails, StartInsert
<1>6. CASE SyncList(p) \/ SyncReserve(p)
  <2>1. CASE OnlyMoves(p) /\ pc'[p] \in {"sync.reserve", "start.stop"} /\ UNCHANGED held
    <3>1. pc[p] \in {"sync.list", "sync.reserve"}
      BY <1>6 DEF SyncList, SyncReserve
    <3> QED
      BY <1>1, <1>2, <2>1, <3>1 DEF HoldsFit, HoldsPorts, HoldsDb, HoldsSenders,
                                    Starting, Toggling, WritesSenders
  <2>2. \/ /\ OnlyMoves(p) /\ UNCHANGED held
           /\ pc'[p] \in {"sync.reserve", "start.stop"}
        \/ Return(p)
    <3>1. CASE SyncReserve(p)
      BY <3>1, GotoMoves DEF SyncReserve, TypeOK, OnlyMoves
    <3>2. CASE SyncList(p)
      BY <3>2, GotoMoves DEF SyncList, TypeOK, OnlyMoves
    <3> QED
      BY <1>6, <3>1, <3>2
  <2> QED
    BY <2>1, <2>2, ReturnHolds
<1>7. ASSUME UNCHANGED held, OnlyMoves(p), pc'[p] \in {"stop.one", "stop.free"},
             pc[p] \in {"stop.one", "stop.free"}, job'[p].ret = job[p].ret
      PROVE  StepHolds(p)
  BY <1>1, <1>2, <1>7 DEF HoldsFit, HoldsPorts, HoldsDb, HoldsSenders, Starting,
                          Toggling, WritesSenders
<1>8. CASE StopOne(p)
  <2>1. PICK t \in job[p].todo :
           job' = [job EXCEPT ![p].cfg = {t}, ![p].todo = @ \ {t}]
    BY <1>8 DEF StopOne
  <2>2. job'[p].ret = job[p].ret /\ \A q \in Procs \ {p} : job'[q] = job[q]
    BY <1>1, <2>1 DEF TypeOK, Job
  <2> QED
    BY <1>7, <1>8, <2>2, GotoMoves DEF StopOne, OnlyMoves
<1>9. CASE FreeOne(p)
  <2>1. CASE Goto(p, "stop.one") /\ UNCHANGED <<job, held>>
    BY <1>7, <1>9, <2>1, GotoMoves DEF FreeOne, OnlyMoves
  <2>2. CASE /\ job[p].ret = "delete.notify"
             /\ Goto(p, "delete.notify") /\ UNCHANGED <<job, held>>
    <3>1. p \notin held["allocated"] /\ p \notin held["db"] /\ p \notin held["senders"]
      BY <1>1, <1>9, <2>2 DEF FreeOne, HoldsFit, HoldsPorts, HoldsDb, HoldsSenders,
                              Starting
    <3> QED
      BY <1>2, <1>9, <2>2, <3>1, GotoMoves DEF FreeOne, OnlyMoves, Toggling,
                                               WritesSenders
  <2>3. CASE Finish(p, "gone")
    BY <2>3, FinishHolds DEF Toggling
  <2>4. CASE LoopEnds(p)
    BY <2>2, <2>3, <2>4, ReturnHolds DEF LoopEnds
  <2> QED
    BY <1>9, <2>1, <2>4 DEF FreeOne
<1> QED
  BY <1>4, <1>5, <1>6, <1>8, <1>9 DEF TunnelStep

\* A connection holds nothing but the place in the queue of agent_senders.
LEMMA SessionStepHolds ==
  ASSUME TypeOK, HoldsInv, NEW s \in Sessions, SessionStep(s) \/ SendTaskEnds(s)
  PROVE  HoldsInv'
<1>1. s \in Procs /\ s \notin Reqs /\ HoldsFit(s)
  BY SessInProcs, ProcsDisjoint DEF HoldsInv
<1>2. CASE SendTaskEnds(s)
  BY <1>2 DEF SendTaskEnds, HoldsInv, HoldsFit, HoldsPorts, HoldsDb, HoldsSenders
<1>3. CASE SessionStep(s)
  <2>1. OnlyMoves(s)
    BY <1>3 DEF TypeOK, SessionStep, Connect, RequestClaim, AuthRead, AuthPending,
           AuthOnline, AuthRegister, Disconnect, ClosePending, CleanupSenders,
           CleanupOffline, CleanupList, Goto, OnlyMoves
  <2>2. pc'[s] \notin Toggling
    <3>1. CASE pc' = pc
      BY <1>1, <1>3, <3>1
         DEF SessionStep, Connect, RequestClaim, AuthRead, AuthPending, AuthOnline,
             AuthRegister, Disconnect, ClosePending, CleanupSenders, CleanupOffline,
             CleanupList, Toggling
    <3>2. ASSUME NEW label, label \notin Toggling, Goto(s, label)
          PROVE  pc'[s] \notin Toggling
      BY <1>1, <3>2, GotoMoves
    <3>3. pc' = pc \/ \E label : label \notin Toggling /\ Goto(s, label)
      BY <1>3 DEF SessionStep, Connect, RequestClaim, AuthRead, AuthPending, AuthOnline,
             AuthRegister, Disconnect, ClosePending, CleanupSenders, CleanupOffline,
             CleanupList, AfterPending, Toggling
    <3> QED
      BY <3>1, <3>2, <3>3
  <2>3. CASE AuthRegister(s) \/ CleanupSenders(s)
    BY <1>1, <2>1, <2>2, <2>3, WriteHolds, OthersHold
       DEF AuthRegister, CleanupSenders, WritesSenders
  <2>4. CASE ~AuthRegister(s) /\ ~CleanupSenders(s)
    <3>1. UNCHANGED held /\ pc[s] \notin Holding
      BY <1>3, <2>4 DEF SessionStep, Connect, RequestClaim, AuthRead, AuthPending,
         AuthOnline, Disconnect, ClosePending, CleanupOffline, CleanupList,
         Holding, Starting, WritesSenders
    <3> QED
      BY <1>1, <2>1, <2>2, <3>1, HoldsNone, QuietHolds, OthersHold
  <2> QED
    BY <2>3, <2>4
<1> QED
  BY <1>2, <1>3

\* A request that begins or goes on with no lock, and takes none.
LEMMA BeginHolds ==
  ASSUME TypeOK, NEW r \in Procs, HoldsNothing(r), NEW label, NEW j,
         Begin(r, label, j), UNCHANGED held, label \in Toggling => j.todo = {}
  PROVE  StepHolds(r)
<1>1. OnlyMoves(r) /\ pc'[r] = label /\ job'[r] = j
  BY BeginMoves
<1> QED
  BY <1>1, QuietHolds

\* So does one that keeps its locals.
LEMMA GotoHolds ==
  ASSUME TypeOK, NEW r \in Procs, HoldsNothing(r), NEW label, Goto(r, label),
         UNCHANGED <<held, job>>, label \in Toggling => job[r].todo = {}
  PROVE  StepHolds(r)
<1>1. OnlyMoves(r) /\ pc'[r] = label /\ job'[r] = job[r]
  BY GotoMoves DEF OnlyMoves
<1> QED
  BY <1>1, QuietHolds

\* A reader of agent_senders goes on to its listeners.
LEMMA ReadHolds ==
  ASSUME TypeOK, NEW r \in Procs, HoldsNothing(r), NEW label, NEW j,
         Begin(r, label, j), ReadSenders(r), HoldsSenders(r)',
         label \in Toggling => j.todo = {}
  PROVE  StepHolds(r)
<1>1. OnlyMoves(r) /\ pc'[r] = label /\ job'[r] = j
  BY BeginMoves
<1>2. KeepsHeld(r) /\ \A k \in Locks \ {"senders"} : r \notin held'[k]
  BY AcquireHolds DEF ReadSenders, Locks
<1> QED
  BY <1>1, <1>2 DEF StepHolds, HoldsFit, Locks

\* Creations wait with nothing in their hands.
LEMMA CreateHolds ==
  ASSUME TypeOK, HoldsInv, NEW r \in Reqs,
         \/ CreateCheck(r) \/ CreateAllocate(r) \/ CreateConflict(r)
         \/ CreateInsert(r) \/ CreateNotify(r)
  PROVE  StepHolds(r)
<1>1. r \in Procs /\ HoldsFit(r)
  BY SessInProcs DEF HoldsInv
<1>2. HoldsNothing(r)
  <2>1. pc[r] \notin Holding
    BY DEF CreateCheck, CreateAllocate, CreateConflict, CreateInsert, CreateNotify,
           Idle, Holding, Starting, WritesSenders
  <2> QED
    BY <1>1, <2>1, HoldsNone
<1>3. CASE CreateCheck(r)
  BY <1>1, <1>2, <1>3, BeginHolds DEF CreateCheck, Toggling
<1>4. CASE CreateAllocate(r)
  BY <1>1, <1>2, <1>4, GotoHolds DEF CreateAllocate, Toggling
<1>5. CASE CreateConflict(r)
  BY <1>1, <1>5, ReturnHolds DEF CreateConflict
<1>6. CASE CreateInsert(r)
  BY <1>1, <1>2, <1>6, ReturnHolds, GotoHolds DEF CreateInsert, Toggling
<1>7. CASE CreateNotify(r)
  <2>1. ASSUME NEW j, Begin(r, "start.stop", j), ReadSenders(r) PROVE StepHolds(r)
    <3>1. HoldsSenders(r)'
      BY <1>1, <2>1, BeginMoves DEF HoldsSenders, Starting
    <3> QED
      BY <1>1, <1>2, <2>1, <3>1, ReadHolds DEF Toggling
  <2> QED
    BY <1>1, <1>7, <2>1, ReturnHolds DEF CreateNotify
<1> QED
  BY <1>3, <1>4, <1>5, <1>6, <1>7

\* A switch takes agent_senders first and allocated_ports second.
LEMMA ToggleHolds ==
  ASSUME TypeOK, HoldsInv, NEW r \in Reqs,
         ToggleRead(r) \/ ToggleWrite(r) \/ ToggleNotify(r) \/ ToggleReserve(r)
  PROVE  StepHolds(r)
<1>1. r \in Procs /\ HoldsFit(r)
  BY SessInProcs DEF HoldsInv
<1>2. ~ToggleReserve(r) => HoldsNothing(r)
  <2>1. ~ToggleReserve(r) => pc[r] \notin Holding
    BY DEF ToggleRead, ToggleWrite, ToggleNotify, Idle, Holding, Starting, WritesSenders
  <2> QED
    BY <1>1, <2>1, HoldsNone
<1>3. CASE ToggleRead(r) /\ ~ToggleReserve(r)
  <2>1. PICK z : Begin(r, "toggle.write", [NoJob EXCEPT !.cfg = {z}]) /\ UNCHANGED held
    BY <1>3 DEF ToggleRead
  <2>2. [NoJob EXCEPT !.cfg = {z}].todo = {}
    BY DEF NoJob
  <2> QED
    BY <1>1, <1>2, <1>3, <2>1, <2>2, BeginHolds
<1>4. CASE ToggleWrite(r) /\ ~ToggleReserve(r)
  BY <1>1, <1>2, <1>4, GotoHolds DEF ToggleWrite, HoldsFit, Toggling
<1>5. CASE ToggleNotify(r) /\ ~ToggleReserve(r)
  <2>1. PICK t \in job[r].cfg :
           IF t.enabled
             THEN Begin(r, "toggle.reserve", [job[r] EXCEPT !.via = senders[t.agent]])
             ELSE Begin(r, "stop.one", [NoJob EXCEPT !.todo = {t}])
    BY <1>5 DEF ToggleNotify
  <2>2. ReadSenders(r) /\ job[r].todo = {}
    BY <1>1, <1>5 DEF ToggleNotify, HoldsFit, Toggling
  <2>3. CASE Begin(r, "toggle.reserve", [job[r] EXCEPT !.via = senders[t.agent]])
    <3>1. HoldsSenders(r)'
      BY <1>1, <2>3, BeginMoves DEF HoldsSenders, Starting
    <3>2. [job[r] EXCEPT !.via = senders[t.agent]].todo = {}
      BY <1>1, <2>2 DEF TypeOK, Job
    <3> QED
      BY <1>1, <1>2, <1>5, <2>2, <2>3, <3>1, <3>2, ReadHolds
  <2>4. CASE Begin(r, "stop.one", [NoJob EXCEPT !.todo = {t}])
    <3>1. [NoJob EXCEPT !.todo = {t}].ret = "home"
      BY DEF NoJob
    <3>2. HoldsSenders(r)'
      BY <1>1, <2>4, <3>1, BeginMoves DEF HoldsSenders
    <3> QED
      BY <1>1, <1>2, <1>5, <2>2, <2>4, <3>2, ReadHolds DEF Toggling
  <2> QED
    BY <2>1, <2>3, <2>4
<1>6. CASE ToggleReserve(r)
  <2>1. pc[r] = "toggle.reserve" /\ job[r].todo = {}
    BY <1>1, <1>6 DEF ToggleReserve, HoldsFit, Toggling
  <2>2. CASE Goto(r, "start.stop") /\ Acquire("allocated", r) /\ UNCHANGED job
    <3>1. OnlyMoves(r) /\ pc'[r] = "start.stop" /\ job'[r].todo = {}
      BY <1>1, <2>1, <2>2, GotoMoves DEF OnlyMoves
    <3>2. KeepsHeld(r) /\ \A k \in Locks \ {"allocated"} : held'[k] = held[k]
      BY <2>2 DEF TypeOK, Acquire, KeepsHeld
    <3>3. r \notin held["db"] /\ r \notin held["writers"]
      BY <1>1, <2>1 DEF HoldsFit, HoldsDb, WritesSenders
    <3> QED
      BY <3>1, <3>2, <3>3
         DEF StepHolds, HoldsFit, HoldsPorts, HoldsSenders, Starting, Toggling, Locks
  <2> QED
    BY <1>1, <1>6, <2>2, ReturnHolds DEF ToggleReserve
<1> QED
  BY <1>3, <1>4, <1>5, <1>6

\* An update takes agent_senders and then, in its sync, waits for the database.
LEMMA UpdateHolds ==
  ASSUME TypeOK, HoldsInv, NEW r \in Reqs,
         UpdateCheck(r) \/ UpdateWrite(r) \/ UpdateNotify(r)
  PROVE  StepHolds(r)
<1>1. r \in Procs /\ HoldsFit(r)
  BY SessInProcs DEF HoldsInv
<1>2. HoldsNothing(r)
  <2>1. pc[r] \notin Holding
    BY DEF UpdateCheck, UpdateWrite, UpdateNotify, Idle, Holding, Starting, WritesSenders
  <2> QED
    BY <1>1, <2>1, HoldsNone
<1>3. CASE UpdateCheck(r)
  BY <1>1, <1>2, <1>3, BeginHolds DEF UpdateCheck, Toggling
<1>4. CASE UpdateWrite(r)
  BY <1>1, <1>2, <1>4, GotoHolds DEF UpdateWrite, Toggling
<1>5. CASE UpdateNotify(r)
  <2>1. ASSUME NEW j, Begin(r, "sync.list", j), ReadSenders(r) PROVE StepHolds(r)
    <3>1. HoldsSenders(r)'
      BY <1>1, <2>1, BeginMoves DEF HoldsSenders
    <3> QED
      BY <1>1, <1>2, <2>1, <3>1, ReadHolds DEF Toggling
  <2> QED
    BY <1>1, <1>5, <2>1, ReturnHolds DEF UpdateNotify
<1> QED
  BY <1>3, <1>4, <1>5

\* Deletions take one lock at a time, a claim before its sync as well.
LEMMA DeleteHolds ==
  ASSUME TypeOK, HoldsInv, NEW r \in Reqs,
         \/ DeleteRead(r) \/ DeleteNotify(r) \/ DeleteRow(r)
         \/ DeleteAgent(r) \/ DeleteAgentSender(r) \/ DeleteAgentRow(r)
         \/ ClaimRow(r) \/ ClaimTake(r) \/ ClaimOnline(r) \/ ClaimRegister(r)
  PROVE  StepHolds(r)
<1>1. r \in Procs /\ HoldsFit(r)
  BY SessInProcs DEF HoldsInv
<1>2. CASE DeleteAgentSender(r) \/ ClaimRegister(r)
  <2>1. /\ pc[r] \in WritesSenders /\ \E a, via : WriteSenders(r, a, via)
        /\ OnlyMoves(r) /\ pc'[r] \in {"delete_agent.row", "sync.list"}
    BY <1>1, <1>2, GotoMoves
       DEF DeleteAgentSender, ClaimRegister, WritesSenders, OnlyMoves
  <2> QED
    BY <1>1, <2>1, WriteHolds DEF Toggling
<1>3. CASE ~(DeleteAgentSender(r) \/ ClaimRegister(r))
  <2>1. HoldsNothing(r)
    <3>1. pc[r] \notin Holding
      BY <1>3 DEF DeleteRead, DeleteNotify, DeleteRow, DeleteAgent, DeleteAgentRow,
                  ClaimRow, ClaimTake, ClaimOnline, Idle, Holding, Starting,
                  WritesSenders
    <3> QED
      BY <1>1, <3>1, HoldsNone
  <2>2. CASE DeleteRead(r) \/ DeleteAgent(r) \/ ClaimRow(r)
    BY <1>1, <2>1, <2>2, BeginHolds DEF DeleteRead, DeleteAgent, ClaimRow, Toggling
  <2>3. CASE DeleteNotify(r) \/ ClaimOnline(r)
    BY <1>1, <2>1, <2>3, GotoHolds DEF DeleteNotify, ClaimOnline, Toggling
  <2>4. CASE DeleteRow(r) \/ DeleteAgentRow(r)
    BY <1>1, <2>4, ReturnHolds DEF DeleteRow, DeleteAgentRow
  <2>5. CASE ClaimTake(r)
    BY <1>1, <2>1, <2>5, ReturnHolds, BeginHolds DEF ClaimTake, Toggling
  <2> QED
    BY <1>3, <2>2, <2>3, <2>4, <2>5
<1> QED
  BY <1>2, <1>3

\* A ban takes the database, and its loop waits for allocated_ports.
LEMMA PlainHolds ==
  ASSUME TypeOK, HoldsInv, NEW r \in Reqs,
         \/ Ban(r) \/ Unban(r) \/ GenerateToken(r) \/ Register(r) \/ Cancel(r)
  PROVE  StepHolds(r)
<1>1. r \in Procs /\ HoldsFit(r)
  BY SessInProcs DEF HoldsInv
<1>2. CASE Cancel(r)
  BY <1>1, <1>2, ReturnHolds DEF Cancel
<1>3. CASE ~Cancel(r)
  <2>1. Idle(r)
    BY <1>3 DEF Ban, Unban, GenerateToken, Register
  <2>2. HoldsNothing(r)
    BY <1>1, <2>1, HoldsNone DEF Idle, Holding, Starting, WritesSenders
  <2>3. CASE UNCHANGED <<pc, job, held>>
    BY <2>1, <2>2, <2>3, QuietHolds DEF OnlyMoves, Idle, Toggling
  <2>4. ASSUME NEW u, Begin(r, "stop.one", [NoJob EXCEPT !.todo = ListTunnelsForUser(u)]),
               Acquire("db", r)
        PROVE  StepHolds(r)
    <3> DEFINE j == [NoJob EXCEPT !.todo = ListTunnelsForUser(u)]
    <3>1. j.ret = "home"
      BY DEF NoJob
    <3>2. Begin(r, "stop.one", j)
      BY <2>4
    <3> HIDE DEF j
    <3>3. OnlyMoves(r) /\ pc'[r] = "stop.one" /\ job'[r].ret = "home"
      BY <1>1, <3>1, <3>2, BeginMoves
    <3>4. KeepsHeld(r) /\ \A k \in Locks \ {"db"} : r \notin held'[k]
      BY <1>1, <2>2, <2>4, AcquireHolds DEF Locks
    <3> QED
      BY <3>3, <3>4 DEF StepHolds, HoldsFit, HoldsDb, Toggling, Locks
  <2> QED
    BY <1>3, <2>3, <2>4 DEF Ban, Unban, GenerateToken, Register
<1> QED
  BY <1>2, <1>3

\* Every step keeps the invariant.
LEMMA HoldsNext == TypeOK /\ HoldsInv /\ [Next]_vars => HoldsInv'
<1> SUFFICES ASSUME TypeOK, HoldsInv, [Next]_vars PROVE HoldsInv'
  OBVIOUS
<1>1. CASE UNCHANGED vars
  BY <1>1 DEF vars, HoldsInv, HoldsFit, HoldsPorts, HoldsDb, HoldsSenders
<1>2. ASSUME NEW p \in Procs, QueueWriter(p) PROVE HoldsInv'
  <2>1. UNCHANGED <<pc, job>> /\ Acquire("writers", p) /\ pc[p] \in WritesSenders
    BY <1>2 DEF QueueWriter, WritesSenders
  <2>2. /\ \A k \in Locks \ {"writers"} : held'[k] = held[k]
        /\ held'["writers"] \subseteq held["writers"] \cup {p}
    BY <2>1 DEF TypeOK, Acquire
  <2> QED
    BY <2>1, <2>2 DEF HoldsInv, HoldsFit, HoldsPorts, HoldsDb, HoldsSenders, Locks
<1>3. ASSUME NEW r \in Reqs, RequestStep(r) PROVE HoldsInv'
  <2>1. StepHolds(r)
    BY <1>3, CreateHolds, ToggleHolds, UpdateHolds, DeleteHolds, PlainHolds
       DEF RequestStep
  <2> QED
    BY <2>1, SessInProcs, OthersHold
<1>4. CASE \E l \in listeners : Reap(l) \/ ListenerExits(l)
  BY <1>4 DEF Reap, ListenerExits, HoldsInv, HoldsFit, HoldsPorts, HoldsDb, HoldsSenders
<1>5. CASE Restart
  BY <1>5, SessInProcs DEF Restart, HoldsInv, HoldsFit, Locks, NoJob
<1> QED
  BY <1>1, <1>2, <1>3, <1>4, <1>5, TunnelStepHolds, OthersHold, SessionStepHolds DEF Next

(***************************************************************************)
(* No handlers ever wait for one another in a circle, nor one for itself,  *)
(* whatever is served, interrupted or restarted at the same time.          *)
(***************************************************************************)
THEOREM NoDeadlock == Spec => []NoWaitCycle
<1>1. Init => TypeOK /\ HoldsInv
  BY InitType DEF Init, HoldsInv, HoldsFit, Locks, NoJob
<1>2. TypeOK /\ HoldsInv /\ [Next]_vars => (TypeOK /\ HoldsInv)'
  BY NextType, HoldsNext
<1> QED
  BY <1>1, <1>2, HoldsNoCycle, PTL DEF Spec

-----------------------------------------------------------------------------
(***************************************************************************)
(* No handler runs in circles.  The moves from a stage to a later one are  *)
(* named edge by edge; the moves that are left are those of the two loops. *)
(***************************************************************************)
Edge(p, l, m) == pc[p] = l /\ pc'[p] = m

Climbs(p) ==
    \/ Edge(p, "create.allocate", "create.insert")
    \/ Edge(p, "create.insert", "create.notify")
    \/ Edge(p, "create.notify", "start.stop")
    \/ Edge(p, "toggle.write", "toggle.notify")
    \/ Edge(p, "toggle.notify", "toggle.reserve")
    \/ Edge(p, "toggle.notify", "stop.one")
    \/ Edge(p, "toggle.reserve", "start.stop")
    \/ Edge(p, "update.write", "update.notify")
    \/ Edge(p, "update.notify", "sync.list")
    \/ Edge(p, "delete_agent.sender", "delete_agent.row")
    \/ Edge(p, "claim.take", "claim.online")
    \/ Edge(p, "claim.online", "claim.register")
    \/ Edge(p, "claim.register", "sync.list")
    \/ Edge(p, "auth.online", "auth.register")
    \/ Edge(p, "auth.register", "sync.list")
    \/ Edge(p, "close.pending", "clean.senders")
    \/ Edge(p, "clean.senders", "clean.offline")
    \/ Edge(p, "clean.offline", "clean.list")
    \/ Edge(p, "clean.list", "stop.one")
    \/ Edge(p, "sync.list", "sync.reserve")
    \/ Edge(p, "stop.free", "delete.notify")
    \/ Edge(p, "delete.notify", "delete.row")

\* An edge leads to a later stage.
LEMMA ClimbsAdvance == ASSUME NEW p, Climbs(p) PROVE Advances(p)
<1>1. ASSUME NEW i \in 1..8, NEW j \in 1..8, i < j,
             pc[p] \in Course[i], pc'[p] \in Course[j]
      PROVE  Advances(p)
  BY <1>1 DEF Advances, Later
<1>2. CASE pc[p] \in Course[1] /\ pc'[p] \in Course[2]
  BY <1>1, <1>2
<1>3. CASE pc[p] \in Course[2] /\ pc'[p] \in Course[3]
  BY <1>1, <1>3
<1>4. CASE pc[p] \in Course[2] /\ pc'[p] \in Course[4]
  BY <1>1, <1>4
<1>5. CASE pc[p] \in Course[2] /\ pc'[p] \in Course[6]
  BY <1>1, <1>5
<1>6. CASE pc[p] \in Course[3] /\ pc'[p] \in Course[4]
  BY <1>1, <1>6
<1>7. CASE pc[p] \in Course[3] /\ pc'[p] \in Course[5]
  BY <1>1, <1>7
<1>8. CASE pc[p] \in Course[4] /\ pc'[p] \in Course[5]
  BY <1>1, <1>8
<1>9. CASE pc[p] \in Course[4] /\ pc'[p] \in Course[6]
  BY <1>1, <1>9
<1>10. CASE pc[p] \in Course[6] /\ pc'[p] \in Course[7]
  BY <1>1, <1>10
<1>11. CASE pc[p] \in Course[7] /\ pc'[p] \in Course[8]
  BY <1>1, <1>11
<1> QED
  BY <1>2, <1>3, <1>4, <1>5, <1>6, <1>7, <1>8, <1>9, <1>10, <1>11
     DEF Climbs, Edge, Course

\* A step of p is no step of another handler.
LEMMA OneAdvances ==
  ASSUME NEW p \in Procs, OnlyMoves(p), Advances(p)
  PROVE  \A q \in Procs : Advances(q)
  BY DEF OnlyMoves, Advances

\* A handler that returns is at rest.
LEMMA ReturnRests == ASSUME TypeOK, NEW p \in Procs, Return(p) PROVE AtRest(p)'
  BY DEF TypeOK, Return, Finish, Home, AtRest

\* In the loop over the rows to start: on to the next part of the work for this row.
LEMMA StartRowAdvances ==
  ASSUME NEW p, job'[p].todo = job[p].todo,
         \/ Edge(p, "start.stop", "start.bind")
         \/ Edge(p, "start.bind", "start.insert")
         \/ Edge(p, "start.bind", "sync.reserve")
         \/ Edge(p, "start.insert", "sync.reserve")
  PROVE  Advances(p)
<1>1. SameStage(p)
  <2>1. {pc[p], pc'[p]} \subseteq Course[5]
    BY DEF Edge, Course
  <2> QED
    BY <2>1 DEF SameStage
<1>2. NextRowStep(p)
  <2>1. ASSUME NEW i \in 1..6, NEW j \in 1..6, i < j,
               pc[p] = RowSteps[i], pc'[p] = RowSteps[j]
        PROVE  NextRowStep(p)
    BY <2>1 DEF NextRowStep
  <2>2. CASE pc[p] = RowSteps[1] /\ pc'[p] = RowSteps[2]
    BY <2>1, <2>2
  <2>3. CASE pc[p] = RowSteps[2] /\ pc'[p] = RowSteps[3]
    BY <2>1, <2>3
  <2>4. CASE pc[p] = RowSteps[2] /\ pc'[p] = RowSteps[4]
    BY <2>1, <2>4
  <2>5. CASE pc[p] = RowSteps[3] /\ pc'[p] = RowSteps[4]
    BY <2>1, <2>5
  <2> QED
    BY <2>2, <2>3, <2>4, <2>5 DEF Edge, RowSteps
<1> QED
  BY <1>1, <1>2 DEF Advances

\* Back to the head of the loop over the rows to stop.
LEMMA StopRowAdvances ==
  ASSUME NEW p, UNCHANGED job, Edge(p, "stop.free", "stop.one") PROVE Advances(p)
<1>1. {pc[p], pc'[p]} \subseteq Course[6]
  BY DEF Edge, Course
<1>2. pc[p] = RowSteps[5] /\ pc'[p] = RowSteps[6]
  BY DEF Edge, RowSteps
<1>3. SameStage(p) /\ NextRowStep(p)
  BY <1>1, <1>2 DEF SameStage, NextRowStep
<1> QED
  BY <1>3 DEF Advances

\* A row is taken off the list.
LEMMA TakesRow ==
  ASSUME TypeOK, NEW p \in Procs, NEW t \in job[p].todo,
         job' = [job EXCEPT ![p].cfg = {t}, ![p].todo = @ \ {t}],
         Edge(p, "sync.reserve", "start.stop") \/ Edge(p, "stop.one", "stop.free")
  PROVE  Advances(p)
<1>1. job'[p].todo = job[p].todo \ {t}
  BY DEF TypeOK, Job
<1>2. {pc[p], pc'[p]} \subseteq Course[5] \/ {pc[p], pc'[p]} \subseteq Course[6]
  BY DEF Edge, Course
<1>3. SameStage(p)
  BY <1>2 DEF SameStage
<1> QED
  BY <1>1, <1>3 DEF Advances

\* The steps of a start and of the two loops.
LEMMA TunnelStepAdvances ==
  ASSUME TypeOK, NEW p \in Procs, TunnelStep(p) PROVE Advances(p)
<1>1. job[p] \in Job
  BY DEF TypeOK
<1>2. ASSUME NextRow(p), pc[p] \in {"start.bind", "start.insert"} PROVE Advances(p)
  <2>1. CASE Goto(p, "sync.reserve") /\ job' = [job EXCEPT ![p].cfg = {}]
    <3>1. job'[p].todo = job[p].todo
      BY <1>1, <2>1 DEF TypeOK, Job
    <3> QED
      BY <1>2, <2>1, <3>1, GotoMoves, StartRowAdvances DEF Edge
  <2>2. CASE Return(p)
    BY <2>2, ReturnRests DEF Advances
  <2> QED
    BY <1>2, <2>1, <2>2 DEF NextRow
<1>3. CASE StartStop(p) \/ StartBind(p)
  BY <1>3, GotoMoves, StartRowAdvances DEF StartStop, StartBind, Edge
<1>4. CASE StartBindFails(p) \/ StartInsert(p)
  BY <1>2, <1>4 DEF StartBindFails, StartInsert
<1>5. CASE SyncList(p)
  <2>1. CASE Goto(p, "sync.reserve")
    BY <1>5, <2>1, GotoMoves, ClimbsAdvance DEF SyncList, Climbs, Edge
  <2>2. CASE Return(p)
    BY <2>2, ReturnRests DEF Advances
  <2> QED
    BY <1>5, <2>1, <2>2 DEF SyncList
<1>6. CASE SyncReserve(p)
  BY <1>6, GotoMoves, TakesRow DEF SyncReserve, Edge
<1>7. CASE StopOne(p)
  BY <1>7, GotoMoves, TakesRow DEF StopOne, Edge
<1>8. CASE FreeOne(p)
  <2>1. CASE Goto(p, "stop.one") /\ UNCHANGED job
    BY <1>8, <2>1, GotoMoves, StopRowAdvances DEF FreeOne, Edge
  <2>2. CASE Goto(p, "delete.notify")
    BY <1>8, <2>2, GotoMoves, ClimbsAdvance DEF FreeOne, Climbs, Edge
  <2>3. CASE Finish(p, "gone") \/ Return(p)
    BY <2>3, ReturnRests DEF TypeOK, Finish, Advances, AtRest
  <2> QED
    BY <1>8, <2>1, <2>2, <2>3 DEF FreeOne, LoopEnds
<1> QED
  BY <1>3, <1>4, <1>5, <1>6, <1>7, <1>8 DEF TunnelStep

\* A connection handles a frame, or cleans up after itself, once.
LEMMA SessionStepAdvances ==
  ASSUME TypeOK, NEW s \in Sessions, SessionStep(s) PROVE OnlyMoves(s) /\ Advances(s)
<1>1. s \in Procs
  BY SessInProcs
<1>2. OnlyMoves(s)
  BY DEF TypeOK, SessionStep, Connect, RequestClaim, AuthRead, AuthPending,
         AuthOnline, AuthRegister, Disconnect, ClosePending, CleanupSenders,
         CleanupOffline, CleanupList, Goto, OnlyMoves
<1> SUFFICES Advances(s)
  BY <1>2
<1>3. CASE \/ Connect(s) \/ RequestClaim(s) \/ AuthRead(s) \/ Disconnect(s)
  BY <1>3 DEF Connect, RequestClaim, AuthRead, Disconnect, Advances, AtRest
<1>4. CASE AuthPending(s)
  BY <1>1, <1>4, GotoMoves DEF AuthPending, Advances, AtRest
<1>5. CASE AuthOnline(s) \/ AuthRegister(s) \/ CleanupSenders(s) \/ CleanupOffline(s)
  BY <1>1, <1>5, GotoMoves, ClimbsAdvance
     DEF AuthOnline, AuthRegister, CleanupSenders, CleanupOffline, Climbs, Edge
<1>6. CASE ClosePending(s) \/ CleanupList(s)
  <2>1. /\ pc[s] \in {"close.pending", "clean.list"}
        /\ \/ Goto(s, "gone")
           \/ pc[s] = "close.pending" /\ Goto(s, "clean.senders")
           \/ pc[s] = "clean.list" /\ Goto(s, "stop.one")
    BY <1>6 DEF ClosePending, CleanupList, AfterPending
  <2>2. CASE Goto(s, "gone")
    BY <1>1, <2>2, GotoMoves DEF Advances, AtRest
  <2> QED
    BY <1>1, <2>1, <2>2, GotoMoves, ClimbsAdvance DEF Climbs, Edge
<1> QED
  BY <1>3, <1>4, <1>5, <1>6 DEF SessionStep

\* So does a request.
LEMMA RequestStepAdvances ==
  ASSUME TypeOK, NEW r \in Reqs, RequestStep(r) PROVE Advances(r)
<1>1. r \in Procs
  BY SessInProcs
<1>2. CASE Return(r)
  BY <1>1, <1>2, ReturnRests DEF Advances
<1>3. CASE Idle(r)
  BY <1>3 DEF Idle, Advances, AtRest
<1>4. CASE \/ CreateAllocate(r) \/ ToggleWrite(r) \/ UpdateWrite(r) \/ DeleteNotify(r)
           \/ DeleteAgentSender(r) \/ ClaimOnline(r) \/ ClaimRegister(r)
  BY <1>1, <1>4, GotoMoves, ClimbsAdvance
     DEF CreateAllocate, ToggleWrite, UpdateWrite, DeleteNotify, DeleteAgentSender,
         ClaimOnline, ClaimRegister, Climbs, Edge
<1>5. CASE CreateInsert(r) \/ ToggleReserve(r)
  <2>1. \/ Return(r)
        \/ pc[r] = "create.insert" /\ Goto(r, "create.notify")
        \/ pc[r] = "toggle.reserve" /\ Goto(r, "start.stop")
    BY <1>5 DEF CreateInsert, ToggleReserve
  <2> QED
    BY <1>1, <1>2, <2>1, GotoMoves, ClimbsAdvance DEF Climbs, Edge
<1>6. CASE CreateNotify(r) \/ ToggleNotify(r) \/ UpdateNotify(r) \/ ClaimTake(r)
  <2>1. \/ Return(r)
        \/ pc[r] = "create.notify" /\ Goto(r, "start.stop")
        \/ pc[r] = "toggle.notify" /\ (Goto(r, "toggle.reserve") \/ Goto(r, "stop.one"))
        \/ pc[r] = "update.notify" /\ Goto(r, "sync.list")
        \/ pc[r] = "claim.take" /\ Goto(r, "claim.online")
    BY <1>6 DEF CreateNotify, ToggleNotify, UpdateNotify, ClaimTake, Begin
  <2> QED
    BY <1>1, <1>2, <2>1, GotoMoves, ClimbsAdvance DEF Climbs, Edge
<1>7. \/ Return(r) \/ Idle(r)
      \/ CreateAllocate(r) \/ ToggleWrite(r) \/ UpdateWrite(r) \/ DeleteNotify(r)
      \/ DeleteAgentSender(r) \/ ClaimOnline(r) \/ ClaimRegister(r)
      \/ CreateInsert(r) \/ ToggleReserve(r)
      \/ CreateNotify(r) \/ ToggleNotify(r) \/ UpdateNotify(r) \/ ClaimTake(r)
  BY DEF RequestStep, CreateCheck, CreateConflict, ToggleRead, UpdateCheck, DeleteRead,
         DeleteRow, DeleteAgent, DeleteAgentRow, Ban, Unban, ClaimRow, GenerateToken,
         Register, Cancel
<1> QED
  BY <1>2, <1>3, <1>4, <1>5, <1>6, <1>7

\* Whatever steps, every handler advances or stays.
LEMMA AdvanceNext ==
  TypeOK /\ HoldsInv /\ [Next]_vars => \A p \in Procs : Advances(p)
<1> SUFFICES ASSUME TypeOK, HoldsInv, [Next]_vars PROVE \A p \in Procs : Advances(p)
  OBVIOUS
<1>1. CASE UNCHANGED <<pc, job>>
  BY <1>1 DEF Advances
<1>2. CASE Restart
  BY <1>2, SessInProcs DEF Restart, Advances, AtRest, Procs
<1>3. ASSUME NEW p \in Procs, TunnelStep(p) PROVE \A q \in Procs : Advances(q)
  BY <1>3, TunnelStepHolds, TunnelStepAdvances, OneAdvances DEF StepHolds
<1>4. ASSUME NEW r \in Reqs, RequestStep(r) PROVE \A q \in Procs : Advances(q)
  <2>1. OnlyMoves(r)
    BY <1>4, CreateHolds, ToggleHolds, UpdateHolds, DeleteHolds, PlainHolds
       DEF RequestStep, StepHolds
  <2> QED
    BY <1>4, <2>1, SessInProcs, RequestStepAdvances, OneAdvances
<1>5. ASSUME NEW s \in Sessions, SessionStep(s) PROVE \A q \in Procs : Advances(q)
  BY <1>5, SessInProcs, SessionStepAdvances, OneAdvances
<1>6. \/ UNCHANGED <<pc, job>> \/ Restart
      \/ \E p \in Procs : TunnelStep(p)
      \/ \E r \in Reqs : RequestStep(r)
      \/ \E s \in Sessions : SessionStep(s)
  BY DEF Next, vars, QueueWriter, SendTaskEnds, Reap, ListenerExits
<1> QED
  BY <1>1, <1>2, <1>3, <1>4, <1>5, <1>6

(***************************************************************************)
(* Every step of a handler returns, enters a later stage, takes a row off  *)
(* its list or goes on with the row at hand.  With NoDeadlock this leaves  *)
(* one way not to end: to be passed over for ever at a lock, which the     *)
(* queues of tokio exclude.                                                *)
(***************************************************************************)
THEOREM HandlersOnlyAdvance == Spec => HandlersAdvance
<1>1. Init => TypeOK /\ HoldsInv
  BY InitType DEF Init, HoldsInv, HoldsFit, Locks, NoJob
<1>2. TypeOK /\ HoldsInv /\ [Next]_vars => (TypeOK /\ HoldsInv)'
  BY NextType, HoldsNext
<1> QED
  BY <1>1, <1>2, AdvanceNext, PTL DEF Spec, HandlersAdvance
=============================================================================
