------------------------------ MODULE Circuits ------------------------------
(***************************************************************************)
(* What the relay promises of the clients' connections, whatever the       *)
(* protocol.  Towards the device a connection is announced first, then     *)
(* comes what the client sent, complete and in order as far as it comes,   *)
(* then at most one notice of its end.  Towards the client comes a part of *)
(* what the device sent, in order and nothing twice: it may start late and *)
(* end early, and to a client that is reached by datagrams any of them may *)
(* be lost; to the others nothing is missing inside.                       *)
(***************************************************************************)
EXTENDS Naturals, Sequences

CONSTANT Conns  \* connections of clients, each with an id of its own

VARIABLES
    lossy,  \* the clients are reached by datagrams
    csent,  \* the number of chunks a client sent
    view,   \* what the device received of a connection
    dsent,  \* the number of chunks the device sent for it
    got     \* what the client received

vars == <<lossy, csent, view, dsent, got>>

\* The messages to the device; the chunks of a connection are numbered.
New == <<"new", 0>>
Data(n) == <<"data", n>>
Close == <<"close", 0>>
Message == {"new", "data", "close"} \X Nat

Announced(c) == view[c] # <<>>
Closed(c) == Announced(c) /\ view[c][Len(view[c])] = Close

Init ==
    /\ lossy \in BOOLEAN
    /\ csent = [c \in Conns |-> 0]
    /\ view = [c \in Conns |-> <<>>]
    /\ dsent = [c \in Conns |-> 0]
    /\ got = [c \in Conns |-> <<>>]

ClientSends(c) ==
    /\ csent' = [csent EXCEPT ![c] = @ + 1]
    /\ UNCHANGED <<lossy, view, dsent, got>>

See(c, m) ==
    /\ view' = [view EXCEPT ![c] = Append(@, m)]
    /\ UNCHANGED <<lossy, csent, dsent, got>>

Announce(c) == ~Announced(c) /\ See(c, New)

\* view[c] holds New and the chunks before, so its length is the next number.
Deliver(c) ==
    /\ Announced(c) /\ ~Closed(c)
    /\ Len(view[c]) <= csent[c]
    /\ See(c, Data(Len(view[c])))

End(c) == Announced(c) /\ ~Closed(c) /\ See(c, Close)

\* The device speaks of connections it was told of, until they are closed.
DeviceSends(c) ==
    /\ Announced(c) /\ ~Closed(c)
    /\ dsent' = [dsent EXCEPT ![c] = @ + 1]
    /\ UNCHANGED <<lossy, csent, view, got>>

\* n may come after m.
Follows(m, n) == IF lossy THEN m < n ELSE m + 1 = n

Receive(c) ==
    /\ \E n \in 1..dsent[c] :
          /\ got[c] = <<>> \/ Follows(got[c][Len(got[c])], n)
          /\ got' = [got EXCEPT ![c] = Append(@, n)]
    /\ UNCHANGED <<lossy, csent, view, dsent>>

Next == \E c \in Conns :
    \/ ClientSends(c) \/ Announce(c) \/ Deliver(c) \/ End(c)
    \/ DeviceSends(c) \/ Receive(c)

Spec == Init /\ [][Next]_vars

-----------------------------------------------------------------------------
(* What this comes to in every state. *)

TypeOK ==
    /\ lossy \in BOOLEAN
    /\ csent \in [Conns -> Nat]
    /\ view \in [Conns -> Seq(Message)]
    /\ dsent \in [Conns -> Nat]
    /\ got \in [Conns -> Seq(Nat)]

EntryFits(c, i) ==
    \/ i = 1 /\ view[c][i] = New
    \/ i > 1 /\ i - 1 <= csent[c] /\ view[c][i] = Data(i - 1)
    \/ i > 1 /\ i = Len(view[c]) /\ view[c][i] = Close

\* The device saw New, then the first chunks of the client, then at most one
\* Close; the client got chunks of the device in order, consecutive ones unless
\* they came as datagrams; and the device spoke of what it was told of only.
Intact ==
    \A c \in Conns :
        /\ \A i \in 1..Len(view[c]) : EntryFits(c, i)
        /\ \A i \in 1..Len(got[c]) : got[c][i] \in 1..dsent[c]
        /\ \A i \in 1..(Len(got[c]) - 1) : Follows(got[c][i], got[c][i + 1])
        /\ dsent[c] > 0 => view[c] # <<>>
=============================================================================
