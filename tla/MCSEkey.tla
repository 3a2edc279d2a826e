------------------------------ MODULE MCSEkey ------------------------------
(***************************************************************************)
(* SEkey on a small instance: two users, two groups and a key.  At the     *)
(* start one user is provisioned, or both are and have a group and a key   *)
(* in common and a group apart.                                            *)
(***************************************************************************)
EXTENDS SEkey

CONSTANTS u1, u2, g1, g2, k1

MCUser == {u1, u2}
MCGroup == {g1, g2}
MCStarts == {[users |-> {u1}, member |-> {<<u1, g1>>}, owner |-> <<>>, calls |-> 3],
             [users |-> {u1}, member |-> {<<u1, g1>>}, owner |-> [k \in {k1} |-> g1], calls |-> 2],
             [users |-> {u1, u2}, member |-> {<<u1, g1>>, <<u2, g1>>, <<u1, g2>>},
              owner |-> [k \in {k1} |-> g1], calls |-> 1]}
=============================================================================
