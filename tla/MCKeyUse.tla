------------------------------ MODULE MCKeyUse ------------------------------
(***************************************************************************)
(* The keys of SEkey on small instances: two users who call and a third    *)
(* one, two keys, a margin of one second and keys of three or four.  The   *)
(* starts: two groups in common, the smaller one with a suspended key; two *)
(* keys alike in one group; a suspended key that a file is encrypted with. *)
(***************************************************************************)
EXTENDS KeyUse

CONSTANTS u1, u2, u3, g1, g2

MCKey == {1, 2}

Row(g, status, act, exp) ==
  [owner |-> g, status |-> status, activation |-> act, expiration |-> exp,
   cryptoperiod |-> 0, deactivation |-> 0]

Policy == [g \in {g1, g2} |-> 3]

MCRequest == {[users |-> {u2}, groups |-> {}], [users |-> {u1, u3}, groups |-> {}],
              [users |-> {}, groups |-> {g1}]}

Messages(S) == [u \in {u1, u2, u3} |-> IF u \in S THEN {"messages"} ELSE {}]

MCStarts ==
  {[policy |-> Policy,
    member |-> {u1, u2, u3} \X {g1} \cup {u1, u2} \X {g2},
    keys   |-> 1 :> Row(g1, "active", 1, 4) @@ 2 :> Row(g2, "suspended", 1, 3),
    program |-> Messages({u1, u2}), calls |-> 1],
   [policy |-> Policy,
    member |-> {u1, u2} \X {g1},
    keys   |-> 1 :> Row(g1, "active", 1, 4) @@ 2 :> Row(g1, "active", 1, 4),
    program |-> Messages({u1, u2}), calls |-> 1],
   [policy |-> Policy,
    member |-> {u1, u2} \X {g1} \cup {<<u1, g2>>},
    keys   |-> 1 :> Row(g1, "suspended", 1, 3),
    program |-> [Messages({}) EXCEPT ![u1] = {"files"}], calls |-> 2]}
=============================================================================
