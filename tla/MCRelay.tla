------------------------------ MODULE MCRelay ------------------------------
(* Instances of Relay for TLC: the rows of the database and the tokens.    *)
EXTENDS Relay, TLC

CONSTANTS u1, u2, a1, a2, a3, t1, t2, p1, p2, c1, c2, d1, s1, s2, r1, r2

Agent(a) == [id |-> a, user |-> {u1}, claim |-> {}, online |-> FALSE]

Tunnel(t, a, on) == [id |-> t, agent |-> a, user |-> u1, proto |-> "tcp",
                     port |-> p1, sub |-> {}, enabled |-> on]

Account(u, p) == [id |-> u, port |-> p, banned |-> FALSE]

OneUser == {Account(u1, p1)}
TwoUsers == {Account(u1, p1), Account(u2, p2)}

OneAgent == {Agent(a1)}
Unclaimed == {[id |-> a1, user |-> {}, claim |-> {c1}, online |-> FALSE]}
NoRows == {}
OneTunnel == {Tunnel(t1, a1, TRUE)}

KnowFirst == [s \in Sessions |-> {a1}]
KnowFirstOnly == [s \in Sessions |-> IF s = s1 THEN {a1} ELSE {}]

SymBoth == Permutations(Sessions) \cup Permutations(Reqs)
SymRows == SymBoth \cup Permutations(Tunnels) \cup Permutations(Agents) \cup
           Permutations(Users)
SymClaims == Permutations(Codes) \cup Permutations({a2, a3})
=============================================================================
