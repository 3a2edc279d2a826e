----------------------------- MODULE MCMessages -----------------------------
(***************************************************************************)
(* Messages on a small instance: a chat with four messages, of which two   *)
(* are of the same second, and a chat with one.                            *)
(***************************************************************************)
EXTENDS Messages, TLC

CONSTANTS c1, c2

MCChats == {c1, c2}
MCFirstMessages == (c1 :> {1, 2, 3, 5}) @@ (c2 :> {4})
=============================================================================
