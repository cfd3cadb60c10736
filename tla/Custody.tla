------------------------------- MODULE Custody -------------------------------
(***************************************************************************)
(* What the relay promises of the agents, whatever claims, reconnections,  *)
(* deletions and restarts interleave: each agent is enrolled once, gets    *)
(* one owner, and is reached only through peers that have its token, never *)
(* while it waits for its claim.                                           *)
(***************************************************************************)
CONSTANTS
    Agents,  \* every agent there may ever be
    Users,   \* the accounts that own agents
    Peers    \* what may present the token of an agent

VARIABLES
    stage,  \* how far an agent is
    owner,  \* its owner, a set of at most one user
    keys,   \* the agents whose token a peer has
    reach   \* pairs of an agent and a peer its traffic may go to

vars == <<stage, owner, keys, reach>>

\* Not enrolled yet; enrolled by a device that waits for a user to claim it; owned;
\* deleted.
Stages == {"unknown", "waiting", "owned", "removed"}

TypeOK ==
    /\ stage \in [Agents -> Stages]
    /\ owner \in [Agents -> {{}} \cup {{u} : u \in Users}]
    /\ keys \in [Peers -> SUBSET Agents]
    /\ reach \subseteq Agents \X Peers

Init ==
    /\ TypeOK
    /\ \A a \in Agents : owner[a] # {} <=> stage[a] = "owned"
    /\ reach = {}

Becomes(a, from, to) == stage[a] \in from /\ stage' = [stage EXCEPT ![a] = to]

Enroll(a, s) ==
    /\ Becomes(a, {"unknown"}, "waiting")
    /\ keys' = [keys EXCEPT ![s] = @ \cup {a}]
    /\ UNCHANGED <<owner, reach>>

\* A claim of a device that waits, or an agent made for a user.
Own(a, u) ==
    /\ Becomes(a, {"unknown", "waiting"}, "owned")
    /\ owner' = [owner EXCEPT ![a] = {u}]
    /\ UNCHANGED <<keys, reach>>

Remove(a) ==
    /\ Becomes(a, {"waiting", "owned"}, "removed")
    /\ owner' = [owner EXCEPT ![a] = {}]
    /\ UNCHANGED <<keys, reach>>

\* A handler in progress may attach an agent that was removed meanwhile; what was
\* attached before may go in the same step.
Attach(a, s) ==
    /\ a \in keys[s]
    /\ stage[a] \in {"owned", "removed"}
    /\ <<a, s>> \in reach'
    /\ reach' \subseteq reach \cup {<<a, s>>}
    /\ UNCHANGED <<stage, owner, keys>>

Detach ==
    /\ reach' \subseteq reach
    /\ UNCHANGED <<stage, owner, keys>>

Next ==
    \/ Detach
    \/ \E a \in Agents, s \in Peers : Attach(a, s) \/ Enroll(a, s)
    \/ \E a \in Agents, u \in Users : Own(a, u)
    \/ \E a \in Agents : Remove(a)

Spec == Init /\ [][Next]_vars

-----------------------------------------------------------------------------
(* What follows from the steps alone. *)

(***************************************************************************)
(* No one reaches an agent without its token, nor one that waits for its   *)
(* claim; and an owned agent is one that has an owner.                     *)
(***************************************************************************)
Safe ==
    /\ \A a \in Agents, s \in Peers :
          <<a, s>> \in reach => a \in keys[s] /\ stage[a] \in {"owned", "removed"}
    /\ \A a \in Agents : owner[a] # {} <=> stage[a] = "owned"

\* The ways from a stage to another.
Path == {<<"unknown", "waiting">>, <<"unknown", "owned">>, <<"waiting", "owned">>,
         <<"waiting", "removed">>, <<"owned", "removed">>}

(***************************************************************************)
(* No agent goes back: it is enrolled once, claimed once and removed for   *)
(* good; its owner does not change while it has one; and a token that a    *)
(* peer has stays with it.                                                 *)
(***************************************************************************)
Advance ==
    /\ \A a \in Agents :
          /\ stage'[a] = stage[a] \/ <<stage[a], stage'[a]>> \in Path
          /\ owner[a] # {} => owner'[a] = owner[a] \/ stage'[a] = "removed"
    /\ \A s \in Peers : keys[s] \subseteq keys'[s]

Forward == [][Advance]_vars
=============================================================================
