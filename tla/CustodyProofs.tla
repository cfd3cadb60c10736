---------------------------- MODULE CustodyProofs ----------------------------
(***************************************************************************)
(* The control plane implements Custody, for all values of the constants:  *)
(* the proof of ImplementsCustody.                                         *)
(*                                                                         *)
(* That a peer has the token of an agent it serves is TrafficToOwner, that *)
(* an owner stays is OwnersInv.  What is left is that an agent in use      *)
(* anywhere, in a handler, by a connection or a proxy task, is settled: it *)
(* waits for no claim, and as its id is never drawn again it never will.   *)
(***************************************************************************)
EXTENDS OwnerProofs, RowProofs

Settled(a) == a \in issued /\ \A x \in agents : x.id = a => x.claim = {}

\* A handler that has a channel, or is about to take one, will use it for a.
Hands(p, a) ==
    /\ job[p].via # {} \/ pc[p] = "claim.take"
    /\ a \in job[p].agent \/ \E t \in job[p].cfg \cup job[p].todo : t.agent = a

Attached(a) == senders[a] # {} \/ \E l \in listeners : l.agent = a

InUse(a) ==
    \/ Attached(a)
    \/ \E s \in Sessions : a \in sess[s].authed
    \/ \E p \in Procs : Hands(p, a)

CustodyInv == \A a \in Agents : InUse(a) => Settled(a)

-----------------------------------------------------------------------------
(* Settled agents stay settled. *)

\* An agent stays settled where its rows lose their code or keep it.
LEMMA RowsKeptSettled ==
  ASSUME NEW a, Settled(a), issued \subseteq issued',
         \A x \in agents' : x.id = a => \/ x.claim = {}
                                        \/ \E y \in agents : y.id = a /\ y.claim = x.claim
  PROVE  Settled(a)'
  BY DEF Settled

\* set_agent_online keeps the code.
LEMMA OnlineSettled ==
  ASSUME TypeOK, NEW a, Settled(a), NEW b, NEW on, agents' = SetAgentOnline(b, on),
         UNCHANGED issued
  PROVE  Settled(a)'
<1>1. \A x \in agents' : \E y \in agents : y.id = x.id /\ y.claim = x.claim
  BY DEF SetAgentOnline, TypeOK, AgentRow
<1> QED
  BY <1>1, RowsKeptSettled

\* No step brings a code to an agent that was drawn before.
LEMMA SettledStays ==
  ASSUME TypeOK, [Next]_vars, NEW a \in Agents, Settled(a) PROVE Settled(a)'
<1>1. CASE SameTables
  BY <1>1 DEF SameTables, Settled
<1>2. ASSUME NEW s \in Sessions, RequestClaim(s) PROVE Settled(a)'
  <2>1. PICK b \in Agents \ issued, c \in Codes :
           /\ agents' = agents \cup {[id |-> b, user |-> {}, claim |-> {c},
                                      online |-> FALSE]}
           /\ issued' = issued \cup {b, c}
    BY <1>2 DEF RequestClaim
  <2>2. a # b
    BY DEF Settled
  <2> QED
    BY <2>1, <2>2 DEF Settled
<1>3. ASSUME NEW s \in Sessions, AuthOnline(s) \/ CleanupOffline(s) PROVE Settled(a)'
  BY <1>3, OnlineSettled DEF AuthOnline, CleanupOffline
<1>4. ASSUME NEW r \in Reqs,
             \/ CreateInsert(r) \/ ToggleWrite(r) \/ UpdateWrite(r)
             \/ DeleteRow(r) \/ DeleteAgentRow(r)
      PROVE  Settled(a)'
  <2>1. agents' \subseteq agents /\ UNCHANGED issued
    BY <1>4 DEF CreateInsert, ToggleWrite, UpdateWrite, DeleteRow, DeleteAgentRow
  <2> QED
    BY <2>1 DEF Settled
<1>5. ASSUME NEW r \in Reqs, ClaimRow(r) PROVE Settled(a)'
  <2>1. PICK u \in users, x \in agents :
           agents' = (agents \ {x}) \cup {ClaimAgentToUser(x, u.id)}
    BY <1>5 DEF ClaimRow
  <2>2. ClaimAgentToUser(x, u.id).claim = {}
    BY DEF ClaimAgentToUser, TypeOK, AgentRow
  <2>3. UNCHANGED issued
    BY <1>5 DEF ClaimRow
  <2> QED
    BY <2>1, <2>2, <2>3 DEF Settled
<1>6. ASSUME NEW r \in Reqs, ClaimOnline(r) PROVE Settled(a)'
  BY <1>6, OnlineSettled DEF ClaimOnline
<1>7. ASSUME NEW r \in Reqs, GenerateToken(r) PROVE Settled(a)'
  BY <1>7 DEF GenerateToken, Settled
<1> QED
  BY <1>1, <1>2, <1>3, <1>4, <1>5, <1>6, <1>7, StepRows DEF Writes

-----------------------------------------------------------------------------
(* What comes into use. *)

\* An agent that a step attaches was in use.
NoNewAttached ==
    \A a \in Agents : Attached(a)' => InUse(a)

NoNewAuthed == \A s \in Sessions : sess'[s].authed \subseteq sess[s].authed

\* After a step of p, what it has in hand was in use.
TakesUsed(p) ==
    /\ OnlyMoves(p)
    /\ \A a \in Agents : Hands(p, a)' => InUse(a)

\* Nothing comes into use that was not.
NoneNew == \A a \in Agents : InUse(a)' => InUse(a)

\* The parts of that, for a step of p.
LEMMA NoneNewParts ==
  ASSUME NEW p \in Procs, NoNewAttached, NoNewAuthed, TakesUsed(p) PROVE NoneNew
<1> SUFFICES ASSUME NEW a \in Agents, InUse(a)' PROVE InUse(a)
  BY DEF NoneNew
<1>1. CASE Attached(a)'
  BY <1>1 DEF NoNewAttached
<1>2. CASE \E s \in Sessions : a \in sess'[s].authed
  BY <1>2 DEF NoNewAuthed, InUse
<1>3. CASE Hands(p, a)'
  BY <1>3 DEF TakesUsed
<1>4. ASSUME NEW q \in Procs, q # p, Hands(q, a)' PROVE InUse(a)
  BY <1>4 DEF TakesUsed, OnlyMoves, Hands, InUse
<1> QED
  BY <1>1, <1>2, <1>3, <1>4 DEF InUse

\* Nothing is attached where tasks and senders are unchanged.
LEMMA SameAttached ==
  ASSUME UNCHANGED <<listeners, senders>> PROVE NoNewAttached
  BY DEF NoNewAttached, Attached, InUse

\* Nor where no pair of an agent and a connection is new, see OwnerProofs.
LEMMA TrafficAttached ==
  ASSUME TypeOK', NoNewTraffic PROVE NoNewAttached
<1> SUFFICES ASSUME NEW a \in Agents, Attached(a)' PROVE Attached(a)
  BY DEF NoNewAttached, InUse
<1>1. CASE \E l \in listeners' : l.agent = a
  BY <1>1 DEF NoNewTraffic, Attached
<1>2. CASE senders'[a] # {}
  <2>1. PICK s \in Sessions : senders'[a] = {s}
    BY <1>2 DEF TypeOK, Opt
  <2> QED
    BY <2>1 DEF NoNewTraffic, Attached
<1> QED
  BY <1>1, <1>2 DEF Attached

\* A process without a channel has nothing in hand.
LEMMA IdleTakes ==
  ASSUME NEW p, OnlyMoves(p), job'[p].via = {}, pc'[p] # "claim.take"
  PROVE  TakesUsed(p)
  BY DEF TakesUsed, Hands

\* A handler goes on with what it had, or with rows of its agent.
LEMMA GoesOnTakes ==
  ASSUME NEW p \in Procs, OnlyMoves(p), pc'[p] # "claim.take",
         job'[p].via = job[p].via, job'[p].agent = job[p].agent,
         \A t \in job'[p].cfg \cup job'[p].todo :
            t \in job[p].cfg \cup job[p].todo \/ t.agent \in job[p].agent
  PROVE  TakesUsed(p)
  BY DEF TakesUsed, Hands, InUse

\* A handler that returns has nothing in hand.
LEMMA ReturnTakes == ASSUME TypeOK, NEW p \in Procs, Return(p) PROVE TakesUsed(p)
<1>1. OnlyMoves(p) /\ pc'[p] = Home(p) /\ job'[p] = NoJob
  BY FinishMoves DEF Return
<1> QED
  BY <1>1, IdleTakes DEF Home, NoJob

\* A handler moves on with its locals.
LEMMA GotoTakes ==
  ASSUME TypeOK, NEW p \in Procs, NEW label, label # "claim.take", Goto(p, label),
         UNCHANGED job
  PROVE  TakesUsed(p)
<1>1. OnlyMoves(p) /\ pc'[p] = label /\ job'[p] = job[p]
  BY GotoMoves
<1> QED
  BY <1>1, GoesOnTakes

\* A handler that begins without a channel has nothing in hand.
LEMMA BeginTakes ==
  ASSUME TypeOK, NEW p \in Procs, NEW label, label # "claim.take", NEW j, j.via = {},
         Begin(p, label, j)
  PROVE  TakesUsed(p)
<1>1. OnlyMoves(p) /\ pc'[p] = label /\ job'[p] = j
  BY BeginMoves
<1> QED
  BY <1>1, IdleTakes

\* The next row of a loop was in it.
LEMMA NextRowTakes ==
  ASSUME TypeOK, NEW p \in Procs, NextRow(p) PROVE TakesUsed(p)
<1>1. CASE Goto(p, "sync.reserve") /\ job' = [job EXCEPT ![p].cfg = {}]
  <2>1. OnlyMoves(p) /\ pc'[p] = "sync.reserve"
    BY <1>1 DEF TypeOK, Goto, OnlyMoves
  <2>2. /\ job'[p].via = job[p].via /\ job'[p].agent = job[p].agent
        /\ job'[p].cfg = {} /\ job'[p].todo = job[p].todo
    BY <1>1 DEF TypeOK, Job
  <2> QED
    BY <2>1, <2>2, GoesOnTakes
<1> QED
  BY <1>1, ReturnTakes DEF NextRow

\* The start of a listener serves the agent of the row at hand.
LEMMA StartBindUse ==
  ASSUME TypeOK, NEW p \in Procs, StartBind(p) PROVE NoNewAttached
<1>1. PICK t \in job[p].cfg, s \in job[p].via :
         listeners' = listeners \cup
               {[tunnel |-> t.id, agent |-> t.agent, proto |-> t.proto,
                 port |-> t.port, via |-> s, handle |-> p]}
  BY DEF StartBind
<1> SUFFICES ASSUME NEW a \in Agents, Attached(a)' PROVE InUse(a)
  BY DEF NoNewAttached
<1>2. CASE senders'[a] # {}
  BY <1>2 DEF StartBind, InUse, Attached
<1>3. CASE \E l \in listeners : l.agent = a
  BY <1>3 DEF InUse, Attached
<1>4. CASE t.agent = a
  <2>1. Hands(p, a)
    BY <1>4 DEF Hands
  <2> QED
    BY <2>1 DEF InUse
<1> QED
  BY <1>1, <1>2, <1>3, <1>4 DEF Attached

\* The rows a sync visits are its agent's.
LEMMA SyncListTakes ==
  ASSUME TypeOK, NEW p \in Procs, SyncList(p) PROVE TakesUsed(p)
<1> DEFINE rows == {t \in tunnels : t.agent \in job[p].agent /\ t.enabled}
<1>1. CASE rows = {}
  BY <1>1, ReturnTakes DEF SyncList
<1>2. CASE rows # {}
  <2>1. Goto(p, "sync.reserve") /\ job' = [job EXCEPT ![p].todo = rows]
    BY <1>2 DEF SyncList
  <2>2. OnlyMoves(p) /\ pc'[p] = "sync.reserve"
    BY <2>1 DEF TypeOK, Goto, OnlyMoves
  <2>3. /\ job'[p].via = job[p].via /\ job'[p].agent = job[p].agent
        /\ job'[p].cfg = job[p].cfg /\ job'[p].todo = rows
    BY <2>1 DEF TypeOK, Job
  <2>4. \A t \in job'[p].cfg \cup job'[p].todo :
           t \in job[p].cfg \cup job[p].todo \/ t.agent \in job[p].agent
    BY <2>3
  <2> QED
    BY <2>2, <2>3, <2>4, GoesOnTakes
<1> QED
  BY <1>1, <1>2

\* A loop takes one of its rows.
LEMMA TakeRowTakes ==
  ASSUME TypeOK, NEW p \in Procs, NEW t \in job[p].todo,
         NEW label, label # "claim.take", Goto(p, label),
         job' = [job EXCEPT ![p].cfg = {t}, ![p].todo = @ \ {t}]
  PROVE  TakesUsed(p)
<1>1. OnlyMoves(p) /\ pc'[p] = label
  BY DEF TypeOK, Goto, OnlyMoves
<1>2. /\ job'[p].via = job[p].via /\ job'[p].agent = job[p].agent
      /\ job'[p].cfg = {t} /\ job'[p].todo = job[p].todo \ {t}
  BY DEF TypeOK, Job
<1>3. \A x \in job'[p].cfg \cup job'[p].todo : x \in job[p].cfg \cup job[p].todo
  BY <1>2
<1> QED
  BY <1>1, <1>2, <1>3, GoesOnTakes

\* The end of a loop takes nothing.
LEMMA FreeOneTakes ==
  ASSUME TypeOK, NEW p \in Procs, FreeOne(p) PROVE TakesUsed(p)
<1>1. CASE Finish(p, "gone")
  <2>1. OnlyMoves(p) /\ pc'[p] = "gone" /\ job'[p] = NoJob
    BY <1>1, FinishMoves
  <2> QED
    BY <2>1, IdleTakes DEF NoJob
<1>2. CASE \E label \in {"delete.notify", "stop.one"} : Goto(p, label) /\ UNCHANGED job
  BY <1>2, GotoTakes
<1>3. CASE Return(p)
  BY <1>3, ReturnTakes
<1>4. CASE job[p].todo = {}
  BY <1>1, <1>2, <1>3, <1>4 DEF FreeOne, LoopEnds
<1>5. CASE job[p].todo # {}
  BY <1>2, <1>5 DEF FreeOne
<1> QED
  BY <1>4, <1>5

\* The steps of tunnel_manager.rs bring nothing into use.
LEMMA TunnelStepUse ==
  ASSUME TypeOK, TypeOK', NEW p \in Procs, TunnelStep(p) \/ QueueWriter(p)
  PROVE  NoneNew
<1>1. NoNewAuthed
  BY DEF TunnelStep, StartStop, StartBind, StartBindFails, StartInsert, SyncList,
         SyncReserve, StopOne, FreeOne, QueueWriter, NoNewAuthed
<1>2. CASE StartStop(p)
  <2>1. NoNewAttached
    BY <1>2, StopListenerTraffic, TrafficAttached DEF StartStop
  <2>2. TakesUsed(p)
    BY <1>2, GotoTakes DEF StartStop
  <2> QED
    BY <1>1, <2>1, <2>2, NoneNewParts
<1>3. CASE StartBind(p)
  <2>1. TakesUsed(p)
    BY <1>3, GotoTakes DEF StartBind
  <2> QED
    BY <1>1, <1>3, <2>1, StartBindUse, NoneNewParts
<1>4. CASE StartBindFails(p)
  BY <1>1, <1>4, NextRowTakes, SameAttached, NoneNewParts DEF StartBindFails
<1>5. CASE StartInsert(p)
  <2>1. NoNewAttached
    BY <1>5, InsertTaskTraffic, TrafficAttached DEF StartInsert
  <2> QED
    BY <1>1, <1>5, <2>1, NextRowTakes, NoneNewParts DEF StartInsert
<1>6. CASE SyncList(p)
  BY <1>1, <1>6, SyncListTakes, SameAttached, NoneNewParts DEF SyncList
<1>8. CASE SyncReserve(p)
  BY <1>1, <1>8, TakeRowTakes, SameAttached, NoneNewParts DEF SyncReserve
<1>9. CASE StopOne(p)
  <2>1. NoNewAttached
    BY <1>9, StopListenerTraffic, TrafficAttached DEF StopOne
  <2> QED
    BY <1>1, <1>9, <2>1, TakeRowTakes, NoneNewParts DEF StopOne
<1>10. CASE FreeOne(p)
  BY <1>1, <1>10, FreeOneTakes, SameAttached, NoneNewParts DEF FreeOne
<1>11. CASE QueueWriter(p)
  BY <1>11 DEF QueueWriter, NoneNew, InUse, Attached, Hands
<1> QED
  BY <1>2, <1>3, <1>4, <1>5, <1>6, <1>8, <1>9, <1>10, <1>11 DEF TunnelStep

-----------------------------------------------------------------------------
(* Connections. *)

\* A step that moves no handler takes nothing.
LEMMA SameTakes == ASSUME NEW p \in Procs, UNCHANGED <<pc, job>> PROVE TakesUsed(p)
  BY DEF TakesUsed, OnlyMoves, Hands, InUse

\* An authenticated agent is registered with the connection it came by.
LEMMA AuthRegisterUse ==
  ASSUME TypeOK, NEW s \in Sessions, AuthRegister(s) PROVE NoneNew
<1> s \in Procs
  BY DEF Procs
<1> DEFINE j == [NoJob EXCEPT !.agent = sess[s].authed, !.via = {s}]
<1>1. NoNewAuthed
  BY DEF AuthRegister, NoNewAuthed
<1>2. NoNewAttached
  <2>1. PICK b \in sess[s].authed : senders' = [senders EXCEPT ![b] = {s}]
    BY DEF AuthRegister, WriteSenders
  <2> SUFFICES ASSUME NEW a \in Agents, Attached(a)' PROVE InUse(a)
    BY DEF NoNewAttached
  <2>2. CASE a = b
    BY <2>1, <2>2 DEF InUse
  <2>3. CASE a # b
    <3>1. senders'[a] = senders[a] /\ listeners' = listeners
      BY <2>1, <2>3 DEF TypeOK, AuthRegister
    <3> QED
      BY <3>1 DEF Attached, InUse
  <2> QED
    BY <2>2, <2>3
<1>3. TakesUsed(s)
  <2>1. OnlyMoves(s) /\ pc'[s] = "sync.list" /\ job'[s] = j
    BY DEF AuthRegister, TypeOK, Goto, OnlyMoves
  <2>2. j.agent = sess[s].authed /\ j.cfg = {} /\ j.todo = {}
    BY DEF NoJob
  <2> QED
    BY <2>1, <2>2 DEF TakesUsed, Hands, InUse
<1> QED
  BY <1>1, <1>2, <1>3, NoneNewParts

\* The steps of ws_handler.rs bring an agent into use only where one authenticates.
LEMMA SessionStepUse ==
  ASSUME TypeOK, TypeOK', NEW s \in Sessions, SessionStep(s) \/ SendTaskEnds(s),
         ~AuthRead(s)
  PROVE  NoneNew
<1> s \in Procs
  BY DEF Procs
<1>1. CASE Connect(s)
  <2>1. NoNewAuthed
    BY <1>1 DEF Connect, NoNewAuthed, TypeOK, SessionLocals
  <2>2. TakesUsed(s)
    BY <1>1, GotoTakes DEF Connect
  <2> QED
    BY <1>1, <2>1, <2>2, SameAttached, NoneNewParts DEF Connect
<1>2. CASE SendTaskEnds(s)
  <2>1. NoNewAuthed
    BY <1>2 DEF SendTaskEnds, NoNewAuthed, TypeOK, SessionLocals
  <2> QED
    BY <1>2, <2>1, SameTakes, SameAttached, NoneNewParts DEF SendTaskEnds
<1>3. CASE RequestClaim(s)
  <2>1. NoNewAuthed
    BY <1>3 DEF RequestClaim, NoNewAuthed, TypeOK, SessionLocals
  <2> QED
    BY <1>3, <2>1, SameTakes, SameAttached, NoneNewParts DEF RequestClaim
<1>4. CASE AuthPending(s) \/ AuthOnline(s) \/ CleanupOffline(s)
  <2>1. NoNewAuthed
    BY <1>4 DEF AuthPending, AuthOnline, CleanupOffline, NoNewAuthed
  <2>2. TakesUsed(s)
    BY <1>4, GotoTakes DEF AuthPending, AuthOnline, CleanupOffline
  <2> QED
    BY <1>4, <2>1, <2>2, SameAttached, NoneNewParts
       DEF AuthPending, AuthOnline, CleanupOffline
<1>5. CASE Disconnect(s) \/ ClosePending(s)
  <2>1. NoNewAuthed
    BY <1>5 DEF Disconnect, ClosePending, NoNewAuthed
  <2>2. PICK label \in {"gone", "clean.senders", "close.pending"} : Goto(s, label)
    BY <1>5 DEF Disconnect, ClosePending, AfterPending
  <2>3. UNCHANGED job
    BY <1>5 DEF Disconnect, ClosePending
  <2>4. TakesUsed(s)
    BY <2>2, <2>3, GotoTakes
  <2> QED
    BY <1>5, <2>1, <2>4, SameAttached, NoneNewParts DEF Disconnect, ClosePending
<1>6. CASE CleanupSenders(s)
  <2>1. NoNewAuthed
    BY <1>6 DEF CleanupSenders, NoNewAuthed
  <2>2. NoNewAttached
    BY <1>6, SenderRemoved, TrafficAttached DEF CleanupSenders, WriteSenders
  <2>3. TakesUsed(s)
    BY <1>6, GotoTakes DEF CleanupSenders
  <2> QED
    BY <2>1, <2>2, <2>3, NoneNewParts
<1>7. CASE CleanupList(s)
  <2>1. NoNewAuthed
    BY <1>7 DEF CleanupList, NoNewAuthed
  <2>2. PICK a \in sess[s].authed :
          \/ Goto(s, "gone") /\ UNCHANGED job
          \/ /\ Goto(s, "stop.one")
             /\ job' = [job EXCEPT ![s] = [NoJob EXCEPT
                          !.todo = ListTunnelsForAgent(a), !.ret = "gone"]]
    BY <1>7 DEF CleanupList
  <2>3. [NoJob EXCEPT !.todo = ListTunnelsForAgent(a), !.ret = "gone"].via = {}
    BY DEF NoJob
  <2>4. TakesUsed(s)
    BY <2>2, <2>3, GotoTakes, BeginTakes DEF Begin
  <2> QED
    BY <1>7, <2>1, <2>4, SameAttached, NoneNewParts DEF CleanupList
<1> QED
  BY <1>1, <1>2, <1>3, <1>4, <1>5, <1>6, <1>7, AuthRegisterUse DEF SessionStep

\* An agent comes into use settled.
NewSettled == \A a \in Agents : InUse(a)' => InUse(a) \/ Settled(a)'

\* The agent that authenticates has no code.
LEMMA AuthReadUse ==
  ASSUME TypeOK, OwnersInv, NEW s \in Sessions, AuthRead(s) PROVE NewSettled
<1> s \in Procs
  BY DEF Procs
<1>1. PICK r \in agents :
         \/ /\ r.claim # {}
            /\ sess' = [sess EXCEPT ![s].code = r.claim]
            /\ Goto(s, "auth.pending")
         \/ /\ r.claim = {}
            /\ sess' = [sess EXCEPT ![s].authed = {r.id}]
            /\ Goto(s, "auth.online")
  BY DEF AuthRead
<1>2. UNCHANGED <<agents, issued, listeners, senders, job>>
  BY DEF AuthRead
<1>3. TakesUsed(s) /\ NoNewAttached
  BY <1>1, <1>2, GotoTakes, SameAttached
<1>4. CASE sess' = [sess EXCEPT ![s].code = r.claim]
  <2>1. NoNewAuthed
    BY <1>4 DEF NoNewAuthed, TypeOK, SessionLocals
  <2> QED
    BY <1>3, <2>1, NoneNewParts DEF NoneNew, NewSettled
<1>5. CASE r.claim = {} /\ sess' = [sess EXCEPT ![s].authed = {r.id}]
  <2>1. Settled(r.id)'
    BY <1>2, <1>5 DEF OwnersInv, Settled
  <2>2. \A z \in Sessions : sess'[z].authed \subseteq sess[z].authed \cup {r.id}
    BY <1>5 DEF TypeOK, SessionLocals
  <2> SUFFICES ASSUME NEW a \in Agents, InUse(a)', a # r.id PROVE InUse(a)
    BY <2>1 DEF NewSettled
  <2>3. CASE Attached(a)'
    BY <1>3, <2>3 DEF NoNewAttached
  <2>4. CASE \E z \in Sessions : a \in sess'[z].authed
    BY <2>2, <2>4 DEF InUse
  <2>5. CASE \E q \in Procs : Hands(q, a)'
    BY <1>3, <2>5 DEF TakesUsed, OnlyMoves, Hands, InUse
  <2> QED
    BY <2>3, <2>4, <2>5 DEF InUse
<1> QED
  BY <1>1, <1>4, <1>5

-----------------------------------------------------------------------------
(* Requests. *)

\* A step of p that attaches no agent and takes none that was not in use.
LEMMA TakesNoneNew ==
  ASSUME NEW p \in Procs, UNCHANGED <<sess, listeners, senders>>, TakesUsed(p)
  PROVE  NoneNew
  BY SameAttached, NoneNewParts DEF NoNewAuthed

\* The handler of one row takes the channel its agent is registered under.
LEMMA NotifyTakes ==
  ASSUME TypeOK, OwnerInv, NEW r \in Procs, pc[r] \in {"create.notify", "toggle.notify"},
         NEW t \in job[r].cfg, NEW label, label # "claim.take",
         Begin(r, label, [job[r] EXCEPT !.via = senders[t.agent]])
  PROVE  TakesUsed(r)
<1>1. /\ OnlyMoves(r) /\ pc'[r] = label
      /\ job'[r] = [job[r] EXCEPT !.via = senders[t.agent]]
  BY BeginMoves
<1>2. job[r].cfg = {t}
  BY OptMember DEF TypeOK, Job
<1>3. job[r].agent = {} /\ job[r].todo = {}
  BY DEF OwnerInv, LocalsFit
<1>4. /\ job'[r].via = senders[t.agent] /\ job'[r].agent = {}
      /\ job'[r].cfg = {t} /\ job'[r].todo = {}
  BY <1>1, <1>2, <1>3 DEF TypeOK, Job
<1> QED
  BY <1>1, <1>4 DEF TakesUsed, Hands, InUse, Attached

\* The creation of a tunnel.
LEMMA CreateStepUse ==
  ASSUME TypeOK, OwnerInv, NEW r \in Reqs,
         \/ CreateCheck(r) \/ CreateAllocate(r) \/ CreateConflict(r)
         \/ CreateInsert(r) \/ CreateNotify(r)
  PROVE  NoneNew
<1> r \in Procs
  BY DEF Procs
<1>1. CASE CreateCheck(r)
  <2>1. PICK t : Begin(r, "create.allocate", [NoJob EXCEPT !.cfg = {t}])
    BY <1>1 DEF CreateCheck
  <2>2. [NoJob EXCEPT !.cfg = {t}].via = {}
    BY DEF NoJob
  <2>3. TakesUsed(r)
    BY <2>1, <2>2, BeginTakes
  <2> QED
    BY <1>1, <2>3, TakesNoneNew DEF CreateCheck
<1>2. CASE CreateAllocate(r)
  BY <1>2, GotoTakes, TakesNoneNew DEF CreateAllocate
<1>3. CASE CreateConflict(r)
  BY <1>3, ReturnTakes, TakesNoneNew DEF CreateConflict
<1>4. CASE CreateInsert(r)
  <2>1. (Goto(r, "create.notify") /\ UNCHANGED job) \/ Return(r)
    BY <1>4 DEF CreateInsert
  <2>2. TakesUsed(r)
    BY <2>1, GotoTakes, ReturnTakes
  <2> QED
    BY <1>4, <2>2, TakesNoneNew DEF CreateInsert
<1>5. CASE CreateNotify(r)
  <2>1. PICK t \in job[r].cfg :
           \/ Return(r)
           \/ /\ senders[t.agent] # {}
              /\ Begin(r, "start.stop", [job[r] EXCEPT !.via = senders[t.agent]])
    BY <1>5 DEF CreateNotify
  <2>2. TakesUsed(r)
    BY <2>1, <1>5, ReturnTakes, NotifyTakes DEF CreateNotify
  <2> QED
    BY <1>5, <2>2, TakesNoneNew DEF CreateNotify
<1> QED
  BY <1>1, <1>2, <1>3, <1>4, <1>5

\* The switch of a tunnel.
LEMMA ToggleStepUse ==
  ASSUME TypeOK, OwnerInv, NEW r \in Reqs,
         ToggleRead(r) \/ ToggleWrite(r) \/ ToggleNotify(r) \/ ToggleReserve(r)
  PROVE  NoneNew
<1> r \in Procs
  BY DEF Procs
<1>1. CASE ToggleRead(r)
  <2>1. PICK t : Begin(r, "toggle.write", [NoJob EXCEPT !.cfg = {t}])
    BY <1>1 DEF ToggleRead
  <2>2. [NoJob EXCEPT !.cfg = {t}].via = {}
    BY DEF NoJob
  <2>3. TakesUsed(r)
    BY <2>1, <2>2, BeginTakes
  <2> QED
    BY <1>1, <2>3, TakesNoneNew DEF ToggleRead
<1>2. CASE ToggleWrite(r)
  BY <1>2, GotoTakes, TakesNoneNew DEF ToggleWrite
<1>3. CASE ToggleNotify(r)
  <2>1. PICK t \in job[r].cfg :
           \/ Begin(r, "toggle.reserve", [job[r] EXCEPT !.via = senders[t.agent]])
           \/ Begin(r, "stop.one", [NoJob EXCEPT !.todo = {t}])
    BY <1>3 DEF ToggleNotify
  <2>2. [NoJob EXCEPT !.todo = {t}].via = {}
    BY DEF NoJob
  <2>3. TakesUsed(r)
    BY <2>1, <2>2, <1>3, BeginTakes, NotifyTakes DEF ToggleNotify
  <2> QED
    BY <1>3, <2>3, TakesNoneNew DEF ToggleNotify
<1>4. CASE ToggleReserve(r)
  <2>1. (Goto(r, "start.stop") /\ UNCHANGED job) \/ Return(r)
    BY <1>4 DEF ToggleReserve
  <2>2. TakesUsed(r)
    BY <2>1, GotoTakes, ReturnTakes
  <2> QED
    BY <1>4, <2>2, TakesNoneNew DEF ToggleReserve
<1> QED
  BY <1>1, <1>2, <1>3, <1>4

\* The change of a tunnel.
LEMMA UpdateStepUse ==
  ASSUME TypeOK, NEW r \in Reqs, UpdateCheck(r) \/ UpdateWrite(r) \/ UpdateNotify(r)
  PROVE  NoneNew
<1> r \in Procs
  BY DEF Procs
<1>1. CASE UpdateCheck(r)
  <2>1. PICK b, t :
           Begin(r, "update.write", [NoJob EXCEPT !.agent = {b}, !.cfg = {t}])
    BY <1>1 DEF UpdateCheck
  <2>2. [NoJob EXCEPT !.agent = {b}, !.cfg = {t}].via = {}
    BY DEF NoJob
  <2>3. TakesUsed(r)
    BY <2>1, <2>2, BeginTakes
  <2> QED
    BY <1>1, <2>3, TakesNoneNew DEF UpdateCheck
<1>2. CASE UpdateWrite(r)
  BY <1>2, GotoTakes, TakesNoneNew DEF UpdateWrite
<1>3. CASE UpdateNotify(r)
  <2>1. PICK b \in job[r].agent :
           \/ Return(r)
           \/ /\ senders[b] # {}
              /\ Begin(r, "sync.list", [NoJob EXCEPT !.agent = {b}, !.via = senders[b]])
    BY <1>3 DEF UpdateNotify
  <2>2. ASSUME Return(r) PROVE TakesUsed(r)
    BY <2>2, ReturnTakes
  <2>3. ASSUME senders[b] # {},
               Begin(r, "sync.list", [NoJob EXCEPT !.agent = {b}, !.via = senders[b]])
        PROVE  TakesUsed(r)
    <3>1. /\ OnlyMoves(r) /\ pc'[r] = "sync.list"
          /\ job'[r] = [NoJob EXCEPT !.agent = {b}, !.via = senders[b]]
      BY <2>3, BeginMoves
    <3>2. job'[r].agent = {b} /\ job'[r].cfg = {} /\ job'[r].todo = {}
      BY <3>1 DEF NoJob
    <3> SUFFICES ASSUME NEW a \in Agents, Hands(r, a)' PROVE InUse(a)
      BY <3>1 DEF TakesUsed
    <3>3. a = b
      BY <3>2 DEF Hands
    <3> QED
      BY <2>3, <3>3 DEF InUse, Attached
  <2>4. TakesUsed(r)
    BY <2>1, <2>2, <2>3
  <2> QED
    BY <1>3, <2>4, TakesNoneNew DEF UpdateNotify
<1> QED
  BY <1>1, <1>2, <1>3

\* The deletion of a tunnel or of an agent.
LEMMA DeleteStepUse ==
  ASSUME TypeOK, TypeOK', NEW r \in Reqs,
         \/ DeleteRead(r) \/ DeleteNotify(r) \/ DeleteRow(r)
         \/ DeleteAgent(r) \/ DeleteAgentSender(r) \/ DeleteAgentRow(r)
  PROVE  NoneNew
<1> r \in Procs
  BY DEF Procs
<1>1. CASE DeleteRead(r)
  <2>1. PICK t : Begin(r, "stop.one", [NoJob EXCEPT !.todo = {t}, !.ret = "delete.notify"])
    BY <1>1 DEF DeleteRead
  <2>2. [NoJob EXCEPT !.todo = {t}, !.ret = "delete.notify"].via = {}
    BY DEF NoJob
  <2>3. TakesUsed(r)
    BY <2>1, <2>2, BeginTakes
  <2> QED
    BY <1>1, <2>3, TakesNoneNew DEF DeleteRead
<1>2. CASE DeleteNotify(r)
  BY <1>2, GotoTakes, TakesNoneNew DEF DeleteNotify
<1>3. CASE DeleteRow(r)
  BY <1>3, ReturnTakes, TakesNoneNew DEF DeleteRow
<1>4. CASE DeleteAgent(r)
  <2>1. PICK b : Begin(r, "delete_agent.sender", [NoJob EXCEPT !.agent = {b}])
    BY <1>4 DEF DeleteAgent
  <2>2. [NoJob EXCEPT !.agent = {b}].via = {}
    BY DEF NoJob
  <2>3. TakesUsed(r)
    BY <2>1, <2>2, BeginTakes
  <2> QED
    BY <1>4, <2>3, TakesNoneNew DEF DeleteAgent
<1>5. CASE DeleteAgentSender(r)
  <2>1. NoNewAuthed
    BY <1>5 DEF DeleteAgentSender, NoNewAuthed
  <2>2. NoNewAttached
    BY <1>5, SenderRemoved, TrafficAttached DEF DeleteAgentSender, WriteSenders
  <2>3. TakesUsed(r)
    BY <1>5, GotoTakes DEF DeleteAgentSender
  <2> QED
    BY <2>1, <2>2, <2>3, NoneNewParts
<1>6. CASE DeleteAgentRow(r)
  BY <1>6, ReturnTakes, TakesNoneNew DEF DeleteAgentRow
<1> QED
  BY <1>1, <1>2, <1>3, <1>4, <1>5, <1>6

\* Accounts, and what ends a request.
LEMMA AccountStepUse ==
  ASSUME TypeOK, TypeOK', NEW r \in Reqs,
         Ban(r) \/ Unban(r) \/ GenerateToken(r) \/ Register(r) \/ Cancel(r)
  PROVE  NoneNew
<1> r \in Procs
  BY DEF Procs
<1>1. CASE Ban(r)
  <2>1. PICK u \in Users :
           \/ UNCHANGED <<pc, job>>
           \/ Begin(r, "stop.one", [NoJob EXCEPT !.todo = ListTunnelsForUser(u)])
    BY <1>1 DEF Ban
  <2>2. [NoJob EXCEPT !.todo = ListTunnelsForUser(u)].via = {}
    BY DEF NoJob
  <2>3. TakesUsed(r)
    BY <2>1, <2>2, SameTakes, BeginTakes
  <2> QED
    BY <1>1, <2>3, TakesNoneNew DEF Ban
<1>2. CASE Unban(r) \/ GenerateToken(r) \/ Register(r)
  BY <1>2, SameTakes, TakesNoneNew DEF Unban, GenerateToken, Register
<1>3. CASE Cancel(r)
  <2>1. NoNewTraffic
    BY <1>3 DEF TypeOK, Cancel, NoNewTraffic, Listener
  <2>2. NoNewAuthed
    BY <1>3 DEF Cancel, NoNewAuthed
  <2> QED
    BY <1>3, <2>1, <2>2, TrafficAttached, ReturnTakes, NoneNewParts DEF Cancel
<1> QED
  BY <1>1, <1>2, <1>3

\* What a confirmed claim does after its row is written.
LEMMA ClaimStepUse ==
  ASSUME TypeOK, NEW r \in Reqs, ClaimTake(r) \/ ClaimOnline(r) \/ ClaimRegister(r)
  PROVE  NoneNew
<1> r \in Procs
  BY DEF Procs
<1>1. CASE ClaimTake(r)
  <2>1. PICK c \in job[r].code :
           \/ Return(r)
           \/ Begin(r, "claim.online", [job[r] EXCEPT !.via = pending[c]])
    BY <1>1 DEF ClaimTake
  <2>2. ASSUME Begin(r, "claim.online", [job[r] EXCEPT !.via = pending[c]])
        PROVE  TakesUsed(r)
    <3>1. /\ OnlyMoves(r) /\ pc'[r] = "claim.online"
          /\ job'[r] = [job[r] EXCEPT !.via = pending[c]]
      BY <2>2, BeginMoves
    <3>2. /\ job'[r].agent = job[r].agent /\ job'[r].cfg = job[r].cfg
          /\ job'[r].todo = job[r].todo
      BY <3>1 DEF TypeOK, Job
    <3> QED
      BY <1>1, <3>1, <3>2 DEF ClaimTake, TakesUsed, Hands, InUse
  <2>3. TakesUsed(r)
    BY <2>1, <2>2, ReturnTakes
  <2> QED
    BY <1>1, <2>3, TakesNoneNew DEF ClaimTake
<1>2. CASE ClaimOnline(r)
  BY <1>2, GotoTakes, TakesNoneNew DEF ClaimOnline
<1>3. CASE ClaimRegister(r)
  <2>1. PICK b \in job[r].agent : senders' = [senders EXCEPT ![b] = job[r].via]
    BY <1>3 DEF ClaimRegister, WriteSenders
  <2>2. NoNewAttached
    <3> SUFFICES ASSUME NEW a \in Agents, Attached(a)' PROVE InUse(a)
      BY DEF NoNewAttached
    <3>1. CASE a = b /\ job[r].via # {}
      BY <2>1, <3>1 DEF InUse, Hands
    <3>2. CASE a # b \/ job[r].via = {}
      <4>1. senders'[a] = {} \/ senders'[a] = senders[a]
        BY <2>1, <3>2 DEF TypeOK
      <4>2. UNCHANGED listeners
        BY <1>3 DEF ClaimRegister
      <4> QED
        BY <4>1, <4>2 DEF Attached, InUse
    <3> QED
      BY <3>1, <3>2
  <2>3. NoNewAuthed
    BY <1>3 DEF ClaimRegister, NoNewAuthed
  <2>4. TakesUsed(r)
    BY <1>3, GotoTakes DEF ClaimRegister
  <2> QED
    BY <2>2, <2>3, <2>4, NoneNewParts
<1> QED
  BY <1>1, <1>2, <1>3

\* The claim that is confirmed gives up the code of its agent.
LEMMA ClaimRowUse ==
  ASSUME TypeOK, OwnersInv, NEW r \in Reqs, ClaimRow(r) PROVE NewSettled
<1> r \in Procs
  BY DEF Procs
<1>1. PICK u \in users, x \in agents :
         /\ agents' = (agents \ {x}) \cup {ClaimAgentToUser(x, u.id)}
         /\ Begin(r, "claim.take", [NoJob EXCEPT !.agent = {x.id}, !.code = x.claim])
  BY DEF ClaimRow
<1>2. ClaimAgentToUser(x, u.id).claim = {}
  BY DEF ClaimAgentToUser, TypeOK, AgentRow
<1>3. UNCHANGED <<issued, listeners, senders, sess>>
  BY DEF ClaimRow
<1>4. Settled(x.id)'
  <2>1. \A y \in agents' : y.id = x.id => y = ClaimAgentToUser(x, u.id)
    BY <1>1 DEF OwnersInv
  <2>2. x.id \in issued
    BY DEF OwnersInv
  <2> QED
    BY <1>2, <1>3, <2>1, <2>2 DEF Settled
<1>5. /\ OnlyMoves(r)
      /\ job'[r] = [NoJob EXCEPT !.agent = {x.id}, !.code = x.claim]
  BY <1>1, BeginMoves
<1>6. job'[r].agent = {x.id} /\ job'[r].cfg = {} /\ job'[r].todo = {}
  BY <1>5 DEF NoJob
<1>7. \A a \in Agents : Hands(r, a)' => a = x.id
  BY <1>6 DEF Hands
<1>8. ASSUME NEW a \in Agents, NEW q \in Procs, q # r, Hands(q, a)' PROVE InUse(a)
  BY <1>5, <1>8 DEF OnlyMoves, Hands, InUse
<1> QED
  BY <1>3, <1>4, <1>7, <1>8 DEF NewSettled, InUse, Attached

-----------------------------------------------------------------------------
(* The invariant. *)

\* Every step of a request brings only settled agents into use.
LEMMA RequestStepUse ==
  ASSUME TypeOK, TypeOK', OwnerInv, OwnersInv, NEW r \in Reqs, RequestStep(r)
  PROVE  NewSettled
<1>1. CASE ClaimRow(r)
  BY <1>1, ClaimRowUse
<1>2. CASE ~ClaimRow(r)
  <2>1. NoneNew
    BY <1>2, CreateStepUse, ToggleStepUse, UpdateStepUse, DeleteStepUse,
       AccountStepUse, ClaimStepUse DEF RequestStep
  <2> QED
    BY <2>1 DEF NoneNew, NewSettled
<1> QED
  BY <1>1, <1>2

\* The end of a proxy task, and of the process, bring nothing into use.
LEMMA EndsUse ==
  ASSUME TypeOK, (\E l \in listeners : Reap(l) \/ ListenerExits(l)) \/ Restart
  PROVE  NoneNew
<1>1. CASE \E l \in listeners : Reap(l) \/ ListenerExits(l)
  <2>1. listeners' \subseteq listeners /\ UNCHANGED <<senders, sess, pc, job>>
    BY <1>1 DEF Reap, ListenerExits
  <2> QED
    BY <2>1 DEF NoneNew, InUse, Attached, Hands
<1>2. CASE Restart
  <2>1. \A a \in Agents : ~Attached(a)'
    BY <1>2 DEF Restart, Attached
  <2>2. ASSUME NEW s \in Sessions PROVE sess'[s].authed = {}
    <3>1. sess'[s] = [sess[s] EXCEPT !.authed = {}, !.code = {}, !.rx = FALSE]
      BY <1>2 DEF Restart
    <3>2. sess[s] \in SessionLocals
      BY DEF TypeOK
    <3> QED
      BY <3>1, <3>2 DEF SessionLocals
  <2>3. \A p \in Procs : job'[p].via = {} /\ pc'[p] # "claim.take"
    <3>1. \A p \in Procs : job'[p] = NoJob
      BY <1>2 DEF Restart
    <3>2. \A p \in Procs : pc'[p] \in {"idle", "new", "gone"}
      BY <1>2 DEF Restart
    <3> QED
      BY <3>1, <3>2 DEF NoJob
  <2>4. \A p \in Procs, a \in Agents : ~Hands(p, a)'
    BY <2>3 DEF Hands
  <2> QED
    BY <2>1, <2>2, <2>4 DEF NoneNew, InUse
<1> QED
  BY <1>1, <1>2

\* Whatever comes into use is settled after the step.
LEMMA StepUse ==
  ASSUME TypeOK, TypeOK', OwnerInv, OwnersInv, [Next]_vars PROVE NewSettled
<1>1. CASE UNCHANGED vars
  BY <1>1 DEF vars, NewSettled, InUse, Attached, Hands
<1>2. CASE \E r \in Reqs : RequestStep(r)
  BY <1>2, RequestStepUse
<1>3. CASE \E s \in Sessions : AuthRead(s)
  BY <1>3, AuthReadUse
<1>4. ASSUME NoneNew PROVE NewSettled
  BY <1>4 DEF NoneNew, NewSettled
<1>5. CASE \E s \in Sessions : (SessionStep(s) \/ SendTaskEnds(s)) /\ ~AuthRead(s)
  BY <1>4, <1>5, SessionStepUse
<1>6. CASE \E p \in Procs : TunnelStep(p) \/ QueueWriter(p)
  BY <1>4, <1>6, TunnelStepUse
<1>7. CASE (\E l \in listeners : Reap(l) \/ ListenerExits(l)) \/ Restart
  BY <1>4, <1>7, EndsUse
<1> QED
  BY <1>1, <1>2, <1>3, <1>5, <1>6, <1>7 DEF Next

\* Every step keeps the agents in use settled.
LEMMA CustodyNext ==
  ASSUME TypeOK, TypeOK', OwnerInv, OwnersInv, CustodyInv, [Next]_vars
  PROVE  CustodyInv'
  BY StepUse, SettledStays DEF NewSettled, CustodyInv

\* At the start no agent is in use.
LEMMA CustodyInit == Init => CustodyInv
<1> SUFFICES ASSUME Init, NEW a \in Agents PROVE ~InUse(a)
  BY DEF CustodyInv
<1>1. ~Attached(a)
  BY DEF Init, Attached
<1>2. \A s \in Sessions : sess[s].authed = {}
  BY DEF Init
<1>3. \A p \in Procs : job[p].via = {} /\ pc[p] # "claim.take"
  BY DEF Init, NoJob
<1> QED
  BY <1>1, <1>2, <1>3 DEF InUse, Hands

-----------------------------------------------------------------------------
(* The refinement mapping. *)

stage == [a \in Agents |-> StageOf(a)]
owner == [a \in Agents |-> OwnerOf(a)]
keys == [s \in Sessions |-> sess[s].knows]

\* The same stages, owners and keys after a step.
SameStages == \A a \in Agents : StageOf(a)' = StageOf(a) /\ OwnerOf(a)' = OwnerOf(a)
SameKeys == \A s \in Sessions : sess'[s].knows = sess[s].knows

\* An agent keeps its stage and its owner with its row.
LEMMA SameRowStage ==
  ASSUME NEW a, RowOf(a)' = RowOf(a), a \in issued' <=> a \in issued
  PROVE  StageOf(a)' = StageOf(a) /\ OwnerOf(a)' = OwnerOf(a)
  BY DEF StageOf, OwnerOf

SameIssued == \A a \in Agents : a \in issued' <=> a \in issued

\* Every agent keeps its stage where the table is unchanged and no agent is drawn.
LEMMA SameTableStages == ASSUME UNCHANGED agents, SameIssued PROVE SameStages
<1>1. \A a \in Agents : RowOf(a)' = RowOf(a)
  BY DEF RowOf
<1> QED
  BY <1>1, SameRowStage DEF SameStages, SameIssued

\* set_agent_online changes no stage.
LEMMA OnlineStages ==
  ASSUME TypeOK, NEW b, NEW on, agents' = SetAgentOnline(b, on), UNCHANGED issued
  PROVE  SameStages
<1> DEFINE new(x) == IF x.id = b THEN [x EXCEPT !.online = on] ELSE x
<1>1. ASSUME NEW x \in agents
      PROVE  new(x).id = x.id /\ new(x).user = x.user /\ new(x).claim = x.claim
  BY DEF TypeOK, AgentRow
<1>2. agents' = {new(x) : x \in agents}
  BY DEF SetAgentOnline
<1> HIDE DEF new
<1> SUFFICES ASSUME NEW a \in Agents
             PROVE  StageOf(a)' = StageOf(a) /\ OwnerOf(a)' = OwnerOf(a)
  BY DEF SameStages
<1>3. RowOf(a)' = {new(x) : x \in RowOf(a)}
  BY <1>1, <1>2 DEF RowOf
<1>4. \A x \in RowOf(a) : new(x).user = x.user /\ new(x).claim = x.claim
  BY <1>1 DEF RowOf
<1>5. RowOf(a)' = {} <=> RowOf(a) = {}
  BY <1>3
<1>6. (\E x \in RowOf(a)' : x.claim # {}) <=> (\E x \in RowOf(a) : x.claim # {})
  BY <1>3, <1>4
<1>7. {x.user : x \in RowOf(a)'} = {x.user : x \in RowOf(a)}
  BY <1>3, <1>4
<1> QED
  BY <1>5, <1>6, <1>7 DEF StageOf, OwnerOf

\* Steps of Custody, one argument for each.
LEMMA DetachStep ==
  ASSUME SameStages, SameKeys, Reach' \subseteq Reach
  PROVE  Book!Next
<1>1. stage' = stage /\ owner' = owner /\ keys' = keys
  BY DEF SameStages, SameKeys, stage, owner, keys
<1>2. Book!Detach
  BY <1>1 DEF Book!Detach, stage, owner, keys
<1> QED
  BY <1>2 DEF Book!Next

\* A settled agent is attached to a peer that has its token.
LEMMA AttachStep ==
  ASSUME SameStages, SameKeys, NEW a \in Agents, NEW s \in Sessions,
         a \in sess[s].knows, Settled(a), <<a, s>> \in Reach',
         Reach' \subseteq Reach \cup {<<a, s>>}
  PROVE  Book!Next
<1>1. stage' = stage /\ owner' = owner /\ keys' = keys
  BY DEF SameStages, SameKeys, stage, owner, keys
<1>2. StageOf(a) \in {"owned", "removed"}
  BY DEF Settled, StageOf, RowOf
<1>3. Book!Attach(a, s)
  BY <1>1, <1>2 DEF Book!Attach, stage, owner, keys
<1> QED
  BY <1>3 DEF Book!Next

\* The stage of one agent changes.
LEMMA StageBecomes ==
  ASSUME NEW a \in Agents, NEW from, NEW to, StageOf(a) \in from, StageOf(a)' = to,
         \A b \in Agents \ {a} : StageOf(b)' = StageOf(b)
  PROVE  Book!Becomes(a, from, to)
<1>1. stage[a] \in from
  BY DEF stage
<1>2. stage' = [stage EXCEPT ![a] = to]
  BY DEF stage
<1> QED
  BY <1>1, <1>2 DEF Book!Becomes, stage

\* So does its owner.
LEMMA OwnerBecomes ==
  ASSUME NEW a \in Agents, NEW o, OwnerOf(a)' = o,
         \A b \in Agents \ {a} : OwnerOf(b)' = OwnerOf(b)
  PROVE  owner' = [owner EXCEPT ![a] = o]
  BY DEF owner

\* Whom an agent is reached through.
LEMMA ReachPairs ==
  \A z : z \in Reach <=> \/ \E l \in listeners : z = <<l.agent, l.via>>
                        \/ \E a \in Agents : \E s \in senders[a] : z = <<a, s>>
<1>1. \A z : z \in UNION {{a} \X senders[a] : a \in Agents}
                <=> \E a \in Agents : \E s \in senders[a] : z = <<a, s>>
  OBVIOUS
<1> QED
  BY <1>1 DEF Reach

\* The same after a step.
LEMMA ReachPairsNext ==
  \A z : z \in Reach' <=> \/ \E l \in listeners' : z = <<l.agent, l.via>>
                         \/ \E a \in Agents : \E s \in senders'[a] : z = <<a, s>>
<1>1. \A z : z \in UNION {{a} \X senders'[a] : a \in Agents}
                <=> \E a \in Agents : \E s \in senders'[a] : z = <<a, s>>
  OBVIOUS
<1> QED
  BY <1>1 DEF Reach

\* No pair is new where no traffic is.
LEMMA ReachKept == ASSUME TypeOK', NoNewTraffic PROVE Reach' \subseteq Reach
<1> SUFFICES ASSUME NEW z \in Reach' PROVE z \in Reach
  OBVIOUS
<1>1. CASE \E l \in listeners' : z = <<l.agent, l.via>>
  <2>1. PICK l \in listeners : z = <<l.agent, l.via>>
    BY <1>1 DEF NoNewTraffic
  <2> QED
    BY <2>1, ReachPairs
<1>2. CASE \E a \in Agents : \E s \in senders'[a] : z = <<a, s>>
  <2> PICK a \in Agents : \E s \in senders'[a] : z = <<a, s>>
    BY <1>2
  <2>1. PICK s \in senders'[a] : z = <<a, s>>
    OBVIOUS
  <2>2. s \in Sessions /\ senders'[a] = {s}
    BY OptMember DEF TypeOK
  <2>3. senders[a] = {s}
    BY <2>2 DEF NoNewTraffic
  <2> QED
    BY <2>1, <2>3, ReachPairs
<1> QED
  BY <1>1, <1>2, ReachPairsNext

\* A step that leaves agents and tokens alone and brings no traffic.
LEMMA QuietBook ==
  ASSUME TypeOK', UNCHANGED agents, SameIssued, SameKeys, NoNewTraffic
  PROVE  Book!Next
  BY SameTableStages, ReachKept, DetachStep

-----------------------------------------------------------------------------
(* The steps that Custody knows. *)

\* An id that was not drawn has no row.
LEMMA UnknownStage ==
  ASSUME OwnersInv, NEW a \in Agents \ issued
  PROVE  RowOf(a) = {} /\ StageOf(a) = "unknown" /\ OwnerOf(a) = {}
  BY DEF OwnersInv, RowOf, StageOf, OwnerOf

\* An id with one row has the stage and the owner the row says.
LEMMA OneRowStage ==
  ASSUME NEW a, NEW z, RowOf(a)' = {z}, a \in issued'
  PROVE  /\ OwnerOf(a)' = z.user
         /\ StageOf(a)' = IF z.claim # {} THEN "waiting" ELSE "owned"
  BY DEF StageOf, OwnerOf

\* A request for a claim code enrolls an agent.
LEMMA RequestClaimBook ==
  ASSUME TypeOK, OwnersInv, NEW s \in Sessions, RequestClaim(s) PROVE Book!Next
<1>1. PICK a \in Agents \ issued, c \in Codes :
         /\ agents' = agents \cup {[id |-> a, user |-> {}, claim |-> {c},
                                    online |-> FALSE]}
         /\ issued' = issued \cup {a, c}
         /\ sess' = [sess EXCEPT ![s].code = {c}, ![s].knows = @ \cup {a}]
  BY DEF RequestClaim
<1> DEFINE z == [id |-> a, user |-> {}, claim |-> {c}, online |-> FALSE]
<1>2. z.id = a /\ z.user = {} /\ z.claim # {} /\ agents' = agents \cup {z}
  BY <1>1
<1> HIDE DEF z
<1>3. RowOf(a) = {} /\ StageOf(a) = "unknown" /\ OwnerOf(a) = {}
  BY UnknownStage
<1>4. RowOf(a)' = {z}
  BY <1>2, <1>3 DEF RowOf
<1>5. StageOf(a)' = "waiting" /\ OwnerOf(a)' = {}
  BY <1>1, <1>2, <1>4, OneRowStage
<1>6. ASSUME NEW b \in Agents \ {a}
      PROVE  StageOf(b)' = StageOf(b) /\ OwnerOf(b)' = OwnerOf(b)
  <2>1. RowOf(b)' = RowOf(b)
    BY <1>2 DEF RowOf
  <2>2. b \in issued' <=> b \in issued
    BY <1>1, IdsDistinct
  <2> QED
    BY <2>1, <2>2, SameRowStage
<1>7. Book!Becomes(a, {"unknown"}, "waiting")
  BY <1>3, <1>5, <1>6, StageBecomes
<1>8. owner' = owner
  BY <1>3, <1>5, <1>6 DEF owner
<1>9. keys' = [keys EXCEPT ![s] = @ \cup {a}]
  <2>1. \A y \in Sessions :
           sess'[y].knows = IF y = s THEN sess[s].knows \cup {a} ELSE sess[y].knows
    BY <1>1 DEF TypeOK, SessionLocals
  <2> QED
    BY <2>1 DEF keys
<1>10. Reach' = Reach
  BY DEF RequestClaim, Reach
<1>11. Book!Enroll(a, s)
  BY <1>7, <1>8, <1>9, <1>10 DEF Book!Enroll, owner, keys
<1> QED
  BY <1>11 DEF Book!Next

\* A confirmed claim, and a token made in the dashboard, give an agent its owner.
LEMMA OwnStep ==
  ASSUME OwnersInv, NEW a \in Agents, NEW u \in Users, NEW z,
         z.id = a, z.user = {u}, z.claim = {}, RowOf(a)' = {z},
         StageOf(a) \in {"unknown", "waiting"}, a \in issued',
         \A b \in Agents \ {a} : RowOf(b)' = RowOf(b) /\ (b \in issued' <=> b \in issued),
         UNCHANGED <<listeners, senders, sess>>
  PROVE  Book!Next
<1>1. StageOf(a)' = "owned" /\ OwnerOf(a)' = {u}
  BY OneRowStage
<1>2. \A b \in Agents \ {a} : StageOf(b)' = StageOf(b) /\ OwnerOf(b)' = OwnerOf(b)
  BY SameRowStage
<1>3. Book!Becomes(a, {"unknown", "waiting"}, "owned")
  BY <1>1, <1>2, StageBecomes
<1>4. owner' = [owner EXCEPT ![a] = {u}]
  BY <1>1, <1>2, OwnerBecomes
<1>5. keys' = keys /\ Reach' = Reach
  BY DEF keys, Reach
<1>6. Book!Own(a, u)
  BY <1>3, <1>4, <1>5 DEF Book!Own, owner, keys
<1> QED
  BY <1>6 DEF Book!Next

\* A token made in the dashboard.
LEMMA GenerateTokenBook ==
  ASSUME TypeOK, OwnersInv, NEW r \in Reqs, GenerateToken(r) PROVE Book!Next
<1>1. PICK u \in users, a \in Agents \ issued :
         /\ agents' = agents \cup {[id |-> a, user |-> {u.id}, claim |-> {},
                                    online |-> FALSE]}
         /\ issued' = issued \cup {a}
  BY DEF GenerateToken
<1> DEFINE z == [id |-> a, user |-> {u.id}, claim |-> {}, online |-> FALSE]
<1>2. z.id = a /\ z.user = {u.id} /\ z.claim = {} /\ agents' = agents \cup {z}
  BY <1>1
<1> HIDE DEF z
<1>3. RowOf(a) = {} /\ StageOf(a) = "unknown"
  BY UnknownStage
<1>4. RowOf(a)' = {z}
  BY <1>2, <1>3 DEF RowOf
<1>5. \A b \in Agents \ {a} : RowOf(b)' = RowOf(b) /\ (b \in issued' <=> b \in issued)
  BY <1>1, <1>2 DEF RowOf
<1>6. u.id \in Users
  BY DEF TypeOK, UserRow
<1> QED
  BY <1>1, <1>2, <1>3, <1>4, <1>5, <1>6, OwnStep DEF GenerateToken

\* A confirmed claim.
LEMMA ClaimRowBook ==
  ASSUME TypeOK, OwnersInv, NEW r \in Reqs, ClaimRow(r) PROVE Book!Next
<1>1. PICK u \in users, x \in agents :
         /\ x.claim # {}
         /\ agents' = (agents \ {x}) \cup {ClaimAgentToUser(x, u.id)}
  BY DEF ClaimRow
<1> DEFINE z == ClaimAgentToUser(x, u.id)
<1>2. z.id = x.id /\ z.user = {u.id} /\ z.claim = {}
  BY DEF ClaimAgentToUser, TypeOK, AgentRow
<1> HIDE DEF z
<1>3. agents' = (agents \ {x}) \cup {z}
  BY <1>1 DEF z
<1>4. \A y \in agents : y.id = x.id => y = x
  BY DEF OwnersInv
<1>5. RowOf(x.id)' = {z}
  BY <1>2, <1>3, <1>4 DEF RowOf
<1>6. StageOf(x.id) = "waiting"
  BY <1>1 DEF StageOf, RowOf, OwnersInv
<1>7. x.id \in Agents /\ x.id \in issued /\ u.id \in Users
  BY DEF TypeOK, AgentRow, UserRow, OwnersInv
<1>8. UNCHANGED <<issued, listeners, senders, sess>>
  BY DEF ClaimRow
<1>9. \A b \in Agents \ {x.id} : RowOf(b)' = RowOf(b) /\ (b \in issued' <=> b \in issued)
  BY <1>2, <1>3, <1>8 DEF RowOf
<1> QED
  BY <1>2, <1>5, <1>6, <1>7, <1>8, <1>9, OwnStep

\* The deletion of an agent removes it, if it is still there.
LEMMA DeleteAgentRowBook ==
  ASSUME TypeOK, TypeOK', OwnersInv, NEW r \in Reqs, DeleteAgentRow(r) PROVE Book!Next
<1>1. PICK a \in job[r].agent : agents' = {x \in agents : x.id # a}
  BY DEF DeleteAgentRow
<1>2. UNCHANGED <<issued, listeners, senders, sess>>
  BY DEF DeleteAgentRow
<1>3. a \in Agents
  BY OptMember DEF TypeOK, Job, Procs
<1>4. CASE RowOf(a) = {}
  <2>1. UNCHANGED agents
    BY <1>1, <1>4 DEF RowOf
  <2> QED
    BY <1>2, <2>1, SameTraffic, QuietBook DEF SameIssued, SameKeys
<1>5. CASE RowOf(a) # {}
  <2>1. a \in issued
    BY <1>5 DEF RowOf, OwnersInv
  <2>2. StageOf(a) \in {"waiting", "owned"}
    BY <1>5, <2>1 DEF StageOf
  <2>3. RowOf(a)' = {}
    BY <1>1 DEF RowOf
  <2>4. StageOf(a)' = "removed" /\ OwnerOf(a)' = {}
    BY <1>2, <2>1, <2>3 DEF StageOf, OwnerOf
  <2>5. ASSUME NEW b \in Agents \ {a}
        PROVE  StageOf(b)' = StageOf(b) /\ OwnerOf(b)' = OwnerOf(b)
    <3>1. RowOf(b)' = RowOf(b)
      BY <1>1 DEF RowOf
    <3> QED
      BY <1>2, <3>1, SameRowStage
  <2>6. Book!Becomes(a, {"waiting", "owned"}, "removed")
    BY <1>3, <2>2, <2>4, <2>5, StageBecomes
  <2>7. owner' = [owner EXCEPT ![a] = {}]
    BY <1>3, <2>4, <2>5, OwnerBecomes
  <2>8. keys' = keys /\ Reach' = Reach
    BY <1>2 DEF keys, Reach
  <2>9. Book!Remove(a)
    BY <2>6, <2>7, <2>8 DEF Book!Remove, owner, keys
  <2> QED
    BY <1>3, <2>9 DEF Book!Next
<1> QED
  BY <1>4, <1>5

\* A new entry of agent_senders is one new pair.
LEMMA SenderReach ==
  ASSUME TypeOK, NEW a \in Agents, NEW s, senders' = [senders EXCEPT ![a] = {s}],
         UNCHANGED listeners
  PROVE  <<a, s>> \in Reach' /\ Reach' \subseteq Reach \cup {<<a, s>>}
<1>1. senders'[a] = {s} /\ \A b \in Agents \ {a} : senders'[b] = senders[b]
  BY DEF TypeOK
<1>2. <<a, s>> \in Reach'
  BY <1>1, ReachPairsNext
<1>3. ASSUME NEW z \in Reach' PROVE z \in Reach \cup {<<a, s>>}
  <2>1. CASE \E l \in listeners' : z = <<l.agent, l.via>>
    BY <2>1, ReachPairs
  <2>2. ASSUME NEW b \in Agents, NEW y \in senders'[b], z = <<b, y>>
        PROVE  z \in Reach \cup {<<a, s>>}
    <3>1. CASE b = a
      BY <1>1, <2>2, <3>1
    <3>2. CASE b # a
      <4>1. y \in senders[b]
        BY <1>1, <2>2, <3>2
      <4> QED
        BY <2>2, <4>1, ReachPairs
    <3> QED
      BY <3>1, <3>2
  <2> QED
    BY <2>1, <2>2, ReachPairsNext
<1> QED
  BY <1>2, <1>3

\* An agent that authenticates is attached to the connection it came by.
LEMMA AuthRegisterBook ==
  ASSUME TypeOK, OwnerInv, CustodyInv, NEW s \in Sessions, AuthRegister(s)
  PROVE  Book!Next
<1>1. PICK a \in sess[s].authed : senders' = [senders EXCEPT ![a] = {s}]
  BY DEF AuthRegister, WriteSenders
<1>2. a \in Agents /\ a \in sess[s].knows
  BY OptMember DEF TypeOK, SessionLocals, OwnerInv, AuthedInv
<1>3. Settled(a)
  BY <1>2 DEF CustodyInv, InUse
<1>4. UNCHANGED <<agents, issued, sess, listeners>>
  BY DEF AuthRegister
<1>5. SameStages /\ SameKeys
  BY <1>4, SameTableStages DEF SameIssued, SameKeys
<1> QED
  BY <1>1, <1>2, <1>3, <1>4, <1>5, SenderReach, AttachStep

\* The agent of a confirmed claim is attached to the device that waited.
LEMMA ClaimRegisterBook ==
  ASSUME TypeOK, TypeOK', OwnerInv, CustodyInv, NEW r \in Reqs, ClaimRegister(r)
  PROVE  Book!Next
<1> r \in Procs
  BY DEF Procs
<1>1. PICK a \in job[r].agent : senders' = [senders EXCEPT ![a] = job[r].via]
  BY DEF ClaimRegister, WriteSenders
<1>2. job[r] \in Job
  BY DEF TypeOK
<1>3. a \in Agents
  BY <1>2, OptMember DEF Job
<1>4. UNCHANGED <<agents, issued, sess, listeners>>
  BY DEF ClaimRegister
<1>5. SameStages /\ SameKeys
  BY <1>4, SameTableStages DEF SameIssued, SameKeys
<1>6. CASE job[r].via = {}
  <2>1. NoNewTraffic
    BY <1>1, <1>4, <1>6, SenderRemoved
  <2> QED
    BY <1>4, <2>1, QuietBook DEF SameIssued, SameKeys
<1>7. ASSUME NEW s \in job[r].via PROVE Book!Next
  <2>1. s \in Sessions /\ job[r].via = {s}
    BY <1>2, OptMember DEF Job
  <2>2. a \in sess[s].knows
    BY DEF OwnerInv, WorksForOwner
  <2>3. Settled(a)
    BY <1>3, <2>1 DEF CustodyInv, InUse, Hands
  <2> QED
    BY <1>1, <1>3, <1>4, <1>5, <2>1, <2>2, <2>3, SenderReach, AttachStep
<1> QED
  BY <1>6, <1>7

\* A proxy task is started for an agent and the channel of the handler.
LEMMA StartBindBook ==
  ASSUME TypeOK, OwnerInv, CustodyInv, NEW p \in Procs, StartBind(p)
  PROVE  Book!Next
<1>1. PICK t \in job[p].cfg, s \in job[p].via :
         listeners' = listeners \cup
               {[tunnel |-> t.id, agent |-> t.agent, proto |-> t.proto,
                 port |-> t.port, via |-> s, handle |-> p]}
  BY DEF StartBind
<1>2. job[p] \in Job
  BY DEF TypeOK
<1>3. t.agent \in Agents /\ s \in Sessions
  <2>1. t \in TunnelRow /\ s \in Sessions
    BY <1>2, OptMember DEF Job
  <2> QED
    BY <2>1 DEF TunnelRow
<1>4. t.agent \in sess[s].knows
  BY DEF OwnerInv, WorksForOwner
<1>5. Settled(t.agent)
  BY <1>3 DEF CustodyInv, InUse, Hands
<1>6. UNCHANGED <<agents, issued, sess, senders>>
  BY DEF StartBind
<1>7. SameStages /\ SameKeys
  BY <1>6, SameTableStages DEF SameIssued, SameKeys
<1>8. <<t.agent, s>> \in Reach'
  <2> DEFINE l == [tunnel |-> t.id, agent |-> t.agent, proto |-> t.proto,
                   port |-> t.port, via |-> s, handle |-> p]
  <2>1. l \in listeners' /\ <<t.agent, s>> = <<l.agent, l.via>>
    BY <1>1
  <2> HIDE DEF l
  <2> QED
    BY <2>1, ReachPairsNext
<1>9. Reach' \subseteq Reach \cup {<<t.agent, s>>}
  BY <1>1, <1>6, ReachPairs, ReachPairsNext
<1> QED
  BY <1>3, <1>4, <1>5, <1>7, <1>8, <1>9, AttachStep

-----------------------------------------------------------------------------
(* The steps that Custody sees at most as a detachment. *)

\* The steps of tunnel_manager.rs.
LEMMA TunnelStepBook ==
  ASSUME TypeOK, TypeOK', OwnerInv, CustodyInv,
         NEW p \in Procs, TunnelStep(p) \/ QueueWriter(p)
  PROVE  Book!Next
<1>1. CASE StartBind(p)
  BY <1>1, StartBindBook
<1>2. CASE StartStop(p) \/ StopOne(p)
  <2>1. NoNewTraffic
    BY <1>2, StopListenerTraffic DEF StartStop, StopOne
  <2> QED
    BY <1>2, <2>1, QuietBook DEF StartStop, StopOne, SameIssued, SameKeys
<1>3. CASE StartInsert(p)
  BY <1>3, InsertTaskTraffic, QuietBook DEF StartInsert, SameIssued, SameKeys
<1>4. CASE \/ StartBindFails(p) \/ SyncList(p) \/ SyncReserve(p)
           \/ FreeOne(p) \/ QueueWriter(p)
  <2>1. UNCHANGED <<agents, issued, senders, listeners, sess>>
    BY <1>4 DEF StartBindFails, SyncList, SyncReserve, FreeOne, QueueWriter
  <2> QED
    BY <2>1, SameTraffic, QuietBook DEF SameIssued, SameKeys
<1> QED
  BY <1>1, <1>2, <1>3, <1>4 DEF TunnelStep

\* Marking an agent online or offline.
LEMMA OnlineBook ==
  ASSUME TypeOK, TypeOK', NEW b, NEW on, agents' = SetAgentOnline(b, on),
         UNCHANGED <<issued, listeners, senders, sess>>
  PROVE  Book!Next
  BY OnlineStages, SameTraffic, ReachKept, DetachStep DEF SameKeys

\* The steps of ws_handler.rs.
LEMMA SessionStepBook ==
  ASSUME TypeOK, TypeOK', OwnerInv, OwnersInv, CustodyInv,
         NEW s \in Sessions, SessionStep(s) \/ SendTaskEnds(s)
  PROVE  Book!Next
<1>1. CASE RequestClaim(s)
  BY <1>1, RequestClaimBook
<1>2. CASE AuthRegister(s)
  BY <1>2, AuthRegisterBook
<1>3. CASE AuthOnline(s) \/ CleanupOffline(s)
  BY <1>3, OnlineBook DEF AuthOnline, CleanupOffline
<1>4. CASE CleanupSenders(s)
  <2>1. NoNewTraffic
    BY <1>4, SenderRemoved DEF CleanupSenders, WriteSenders
  <2> QED
    BY <1>4, <2>1, QuietBook DEF CleanupSenders, SameIssued, SameKeys
<1>5. CASE Connect(s) \/ SendTaskEnds(s)
  <2>1. SameKeys
    BY <1>5 DEF Connect, SendTaskEnds, TypeOK, SessionLocals, SameKeys
  <2> QED
    BY <1>5, <2>1, SameTraffic, QuietBook DEF Connect, SendTaskEnds, SameIssued
<1>6. CASE AuthRead(s)
  <2>1. SameKeys
    BY <1>6 DEF AuthRead, TypeOK, SessionLocals, SameKeys
  <2> QED
    BY <1>6, <2>1, SameTraffic, QuietBook DEF AuthRead, SameIssued
<1>7. CASE \/ AuthPending(s) \/ Disconnect(s) \/ ClosePending(s) \/ CleanupList(s)
  <2>1. UNCHANGED <<agents, issued, senders, listeners, sess>>
    BY <1>7 DEF AuthPending, Disconnect, ClosePending, CleanupList
  <2> QED
    BY <2>1, SameTraffic, QuietBook DEF SameIssued, SameKeys
<1> QED
  BY <1>1, <1>2, <1>3, <1>4, <1>5, <1>6, <1>7 DEF SessionStep

\* The steps of admin.rs.
LEMMA RequestStepBook ==
  ASSUME TypeOK, TypeOK', OwnerInv, OwnersInv, CustodyInv,
         NEW r \in Reqs, RequestStep(r)
  PROVE  Book!Next
<1>1. CASE ClaimRow(r) \/ GenerateToken(r) \/ DeleteAgentRow(r) \/ ClaimRegister(r)
  BY <1>1, ClaimRowBook, GenerateTokenBook, DeleteAgentRowBook, ClaimRegisterBook
<1>2. CASE ClaimOnline(r)
  BY <1>2, OnlineBook DEF ClaimOnline
<1>3. CASE DeleteAgentSender(r)
  <2>1. NoNewTraffic
    BY <1>3, SenderRemoved DEF DeleteAgentSender, WriteSenders
  <2> QED
    BY <1>3, <2>1, QuietBook DEF DeleteAgentSender, SameIssued, SameKeys
<1>4. CASE Cancel(r)
  <2>1. NoNewTraffic
    BY <1>4 DEF TypeOK, Cancel, NoNewTraffic, Listener
  <2> QED
    BY <1>4, <2>1, QuietBook DEF Cancel, SameIssued, SameKeys
<1>5. CASE CreateCheck(r)
  <2>1. PICK t \in Tunnels : issued' = issued \cup {t}
    BY <1>5 DEF CreateCheck
  <2>2. SameIssued
    BY <2>1, IdsDistinct DEF SameIssued
  <2> QED
    BY <1>5, <2>2, SameTraffic, QuietBook DEF CreateCheck, SameKeys
<1>6. CASE \/ CreateAllocate(r) \/ CreateConflict(r) \/ CreateInsert(r) \/ CreateNotify(r)
           \/ ToggleRead(r) \/ ToggleWrite(r) \/ ToggleNotify(r) \/ ToggleReserve(r)
           \/ UpdateCheck(r) \/ UpdateWrite(r) \/ UpdateNotify(r)
  <2>1. UNCHANGED <<agents, issued, senders, listeners, sess>>
    BY <1>6 DEF CreateAllocate, CreateConflict, CreateInsert, CreateNotify,
                ToggleRead, ToggleWrite, ToggleNotify, ToggleReserve,
                UpdateCheck, UpdateWrite, UpdateNotify
  <2> QED
    BY <2>1, SameTraffic, QuietBook DEF SameIssued, SameKeys
<1>7. CASE \/ DeleteRead(r) \/ DeleteNotify(r) \/ DeleteRow(r) \/ DeleteAgent(r)
           \/ Ban(r) \/ Unban(r) \/ ClaimTake(r) \/ Register(r)
  <2>1. UNCHANGED <<agents, issued, senders, listeners, sess>>
    BY <1>7 DEF DeleteRead, DeleteNotify, DeleteRow, DeleteAgent, Ban, Unban,
                ClaimTake, Register
  <2> QED
    BY <2>1, SameTraffic, QuietBook DEF SameIssued, SameKeys
<1> QED
  BY <1>1, <1>2, <1>3, <1>4, <1>5, <1>6, <1>7 DEF RequestStep

\* The end of a proxy task, and of the process.
LEMMA EndsBook ==
  ASSUME TypeOK, TypeOK', (\E l \in listeners : Reap(l) \/ ListenerExits(l)) \/ Restart
  PROVE  Book!Next
<1>1. CASE \E l \in listeners : Reap(l) \/ ListenerExits(l)
  <2>1. /\ UNCHANGED <<agents, issued, senders, sess>>
        /\ listeners' \subseteq listeners
    BY <1>1 DEF Reap, ListenerExits
  <2> QED
    BY <2>1, QuietBook DEF NoNewTraffic, SameIssued, SameKeys
<1>2. CASE Restart
  <2>1. NoNewTraffic
    BY <1>2 DEF Restart, NoNewTraffic
  <2>2. SameKeys
    BY <1>2 DEF Restart, SameKeys, TypeOK, SessionLocals
  <2> QED
    BY <1>2, <2>1, <2>2, QuietBook DEF Restart, SameIssued
<1> QED
  BY <1>1, <1>2

-----------------------------------------------------------------------------
(* The whole specification. *)

\* Every step is a step of Custody.
LEMMA BookNext ==
  ASSUME TypeOK, TypeOK', OwnerInv, OwnersInv, CustodyInv, [Next]_vars
  PROVE  [Book!Next]_(Book!vars)
<1>1. CASE UNCHANGED vars
  BY <1>1 DEF vars, Book!vars, StageOf, OwnerOf, RowOf, Reach
<1>2. CASE Next
  BY <1>2, TunnelStepBook, SessionStepBook, RequestStepBook, EndsBook DEF Next
<1> QED
  BY <1>1, <1>2

\* What the proof needs of the database file: a row without a code has an owner.
OwnedOrOpen0 == \A x \in Agents0 : x.claim = {} => x.user # {}

\* At the start each agent in the file is owned or waits for its claim.
LEMMA BookInit == ASSUME Owners0, OwnedOrOpen0 PROVE Init => Book!Init
<1> SUFFICES ASSUME Init PROVE Book!Init
  OBVIOUS
<1>1. TypeOK
  BY InitType
<1>2. \A a \in Agents : StageOf(a) \in Book!Stages
  BY DEF StageOf, Book!Stages
<1>3. OwnersInv
  BY DEF Init, OwnersInv, Owners0
<1>4. \A x \in agents : x.claim = {} <=> x.user # {}
  BY DEF Init, Owners0, OwnedOrOpen0
<1>5. ASSUME NEW a \in Agents
      PROVE  /\ OwnerOf(a) \in {{}} \cup {{u} : u \in Users}
             /\ OwnerOf(a) # {} <=> StageOf(a) = "owned"
  <2>1. CASE RowOf(a) = {}
    BY <2>1 DEF OwnerOf, StageOf
  <2>2. ASSUME NEW x \in RowOf(a)
        PROVE  /\ OwnerOf(a) \in {{}} \cup {{u} : u \in Users}
               /\ OwnerOf(a) # {} <=> StageOf(a) = "owned"
    <3>1. x \in agents /\ x.id = a /\ a \in issued
      BY <1>3 DEF RowOf, OwnersInv
    <3>2. RowOf(a) = {x}
      BY <1>3, <3>1 DEF RowOf, OwnersInv
    <3>3. OwnerOf(a) = x.user
      BY <3>2 DEF OwnerOf
    <3>4. StageOf(a) = "owned" <=> x.claim = {}
      BY <3>1, <3>2 DEF StageOf
    <3>5. x.user \in {{}} \cup {{u} : u \in Users}
      BY <1>1, <3>1 DEF TypeOK, AgentRow, Opt
    <3> QED
      BY <1>4, <3>1, <3>3, <3>4, <3>5
  <2> QED
    BY <2>1, <2>2
<1>6. \A s \in Sessions : sess[s].knows \subseteq Agents
  BY <1>1 DEF TypeOK, SessionLocals
<1>7. Reach = {}
  BY DEF Init, Reach
<1> QED
  BY <1>2, <1>5, <1>6, <1>7 DEF Book!Init, Book!TypeOK

(***************************************************************************)
(* The control plane implements Custody: through claims, authentications,  *)
(* disconnects, deletions and restarts in any order each agent is enrolled *)
(* once, gets one owner, and is attached only to connections whose peer    *)
(* has its token, and never while it waits for its claim.                  *)
(***************************************************************************)
THEOREM ControlPlaneImplements ==
  ASSUME DistinctCodes, Owners0, OwnedOrOpen0 PROVE Spec => ImplementsCustody
<1> DEFINE Inv == TypeOK /\ OwnerInv /\ OwnersInv /\ CustodyInv
<1>1. Init => Inv
  BY InitType, OwnerInit, CustodyInit DEF Init, OwnersInv, Owners0
<1>2. Inv /\ [Next]_vars => Inv'
  BY NextType, OwnerNext, OwnersNext, CustodyNext DEF OwnersStep
<1>3. Inv /\ [Next]_vars => [Book!Next]_(Book!vars)
  BY NextType, BookNext
<1>4. Spec => Book!Init
  BY BookInit DEF Spec
<1>5. Spec => []Inv
  BY <1>1, <1>2, PTL DEF Spec
<1> QED
  BY <1>3, <1>4, <1>5, PTL DEF Spec, ImplementsCustody, Book!Spec

-----------------------------------------------------------------------------
(* What Custody promises. *)

\* Every step of Custody keeps its promise.
LEMMA SafeNext == Book!Safe /\ [Book!Next]_(Book!vars) => Book!Safe'
<1> SUFFICES ASSUME Book!Safe, [Book!Next]_(Book!vars) PROVE Book!Safe'
  OBVIOUS
<1> DEFINE safe(st, ow, ke, re) ==
        /\ \A a \in Agents, s \in Sessions :
              <<a, s>> \in re => a \in ke[s] /\ st[a] \in {"owned", "removed"}
        /\ \A a \in Agents : ow[a] # {} <=> st[a] = "owned"
<1>1. safe(stage, owner, keys, Reach)
  BY DEF Book!Safe, stage, owner, keys
<1>2. ASSUME safe(stage', owner', keys', Reach') PROVE Book!Safe'
  BY <1>2 DEF Book!Safe, stage, owner, keys
<1>3. CASE UNCHANGED Book!vars \/ Book!Detach
  <2>1. stage' = stage /\ owner' = owner /\ keys' = keys /\ Reach' \subseteq Reach
    BY <1>3 DEF Book!vars, Book!Detach, stage, owner, keys
  <2> QED
    BY <1>1, <1>2, <2>1
<1>4. ASSUME NEW b \in Agents, NEW z \in Sessions, Book!Attach(b, z) PROVE Book!Safe'
  <2>1. /\ stage' = stage /\ owner' = owner /\ keys' = keys
        /\ Reach' \subseteq Reach \cup {<<b, z>>}
        /\ b \in keys[z] /\ stage[b] \in {"owned", "removed"}
    BY <1>4 DEF Book!Attach, stage, owner, keys
  <2> QED
    BY <1>1, <1>2, <2>1
<1>5. ASSUME NEW b \in Agents, NEW z \in Sessions, Book!Enroll(b, z) PROVE Book!Safe'
  <2>1. /\ stage[b] = "unknown" /\ stage' = [stage EXCEPT ![b] = "waiting"]
        /\ keys' = [keys EXCEPT ![z] = @ \cup {b}]
        /\ owner' = owner /\ Reach' = Reach
    BY <1>5 DEF Book!Enroll, Book!Becomes, stage, owner, keys
  <2>2. \A a \in Agents : stage'[a] = IF a = b THEN "waiting" ELSE stage[a]
    BY <2>1 DEF stage
  <2>3. \A s \in Sessions : keys[s] \subseteq keys'[s]
    BY <2>1 DEF keys
  <2> QED
    BY <1>1, <1>2, <2>1, <2>2, <2>3
<1>6. ASSUME NEW b \in Agents, NEW u \in Users, Book!Own(b, u) PROVE Book!Safe'
  <2>1. /\ stage' = [stage EXCEPT ![b] = "owned"]
        /\ owner' = [owner EXCEPT ![b] = {u}]
        /\ keys' = keys /\ Reach' = Reach
    BY <1>6 DEF Book!Own, Book!Becomes, stage, owner, keys
  <2>2. \A a \in Agents : /\ stage'[a] = IF a = b THEN "owned" ELSE stage[a]
                          /\ owner'[a] = IF a = b THEN {u} ELSE owner[a]
    BY <2>1 DEF stage, owner
  <2> QED
    BY <1>1, <1>2, <2>1, <2>2
<1>7. ASSUME NEW b \in Agents, Book!Remove(b) PROVE Book!Safe'
  <2>1. /\ stage' = [stage EXCEPT ![b] = "removed"]
        /\ owner' = [owner EXCEPT ![b] = {}]
        /\ keys' = keys /\ Reach' = Reach
    BY <1>7 DEF Book!Remove, Book!Becomes, stage, owner, keys
  <2>2. \A a \in Agents : /\ stage'[a] = IF a = b THEN "removed" ELSE stage[a]
                          /\ owner'[a] = IF a = b THEN {} ELSE owner[a]
    BY <2>1 DEF stage, owner
  <2> QED
    BY <1>1, <1>2, <2>1, <2>2
<1> QED
  BY <1>3, <1>4, <1>5, <1>6, <1>7 DEF Book!Next

(***************************************************************************)
(* So no agent is served through a peer without its token, nor while it    *)
(* waits for its claim; and it has an owner just while its row is there    *)
(* and its claim confirmed.  ws_handler.rs 80-132, admin.rs 277-398.       *)
(***************************************************************************)
THEOREM ServedOnlyWhenClaimed ==
  ASSUME DistinctCodes, Owners0, OwnedOrOpen0 PROVE Spec => []Book!Safe
<1>1. Book!Init => Book!Safe
  BY DEF Book!Init, Book!Safe
<1>2. Spec => Book!Spec
  BY ControlPlaneImplements DEF ImplementsCustody
<1> QED
  BY <1>1, <1>2, SafeNext, PTL DEF Book!Spec

\* Each step of Custody takes an agent forward or leaves it where it is.
LEMMA CustodyAdvances ==
  ASSUME Book!Safe, Book!Next PROVE Book!Advance
<1> USE DEF stage, owner, keys
<1>1. CASE Book!Detach \/ \E a \in Agents, s \in Sessions : Book!Attach(a, s)
  BY <1>1 DEF Book!Detach, Book!Attach, Book!Advance
<1>2. ASSUME NEW b \in Agents, NEW z \in Sessions, Book!Enroll(b, z) PROVE Book!Advance
  BY <1>2 DEF Book!Enroll, Book!Becomes, Book!Advance, Book!Path
<1>3. ASSUME NEW b \in Agents, NEW u \in Users, Book!Own(b, u) PROVE Book!Advance
  <2>1. owner[b] = {}
    BY <1>3 DEF Book!Own, Book!Becomes, Book!Safe
  <2> QED
    BY <1>3, <2>1 DEF Book!Own, Book!Becomes, Book!Advance, Book!Path
<1>4. ASSUME NEW b \in Agents, Book!Remove(b) PROVE Book!Advance
  BY <1>4 DEF Book!Remove, Book!Becomes, Book!Advance, Book!Path
<1> QED
  BY <1>1, <1>2, <1>3, <1>4 DEF Book!Next

(***************************************************************************)
(* So an agent that was claimed, or deleted, is never open to a claim      *)
(* again, whichever requests and connections race.  db.rs 233-309 and      *)
(* 403-407, ws_handler.rs 51-105.                                          *)
(***************************************************************************)
THEOREM AgentsOnlyAdvance ==
  ASSUME DistinctCodes, Owners0, OwnedOrOpen0 PROVE Spec => Book!Forward
<1>1. Spec => Book!Spec
  BY ControlPlaneImplements DEF ImplementsCustody
<1>2. Spec => []Book!Safe
  BY ServedOnlyWhenClaimed
<1>3. Book!Safe /\ [Book!Next]_(Book!vars) => [Book!Advance]_(Book!vars)
  BY CustodyAdvances
<1> QED
  BY <1>1, <1>2, <1>3, PTL DEF Book!Spec, Book!Forward
=============================================================================
