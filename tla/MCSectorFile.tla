---------------------------- MODULE MCSectorFile ----------------------------
(***************************************************************************)
(* What SectorFile writes in the runs: up to four bytes, which is two      *)
(* sectors, with all values of two bytes among them, so that a byte that   *)
(* is out of its place is seen.                                            *)
(***************************************************************************)
EXTENDS SectorFile

Writes == {<<1>>, <<1, 1>>, <<0, 1>>, <<1, 1, 0>>, <<1, 0, 1, 1>>}
=============================================================================
