----------------------------- MODULE KeyStates -----------------------------
(***************************************************************************)
(* The states of a key of SEkey and the transitions the administrator may  *)
(* ask for.  There is no state here.                                       *)
(***************************************************************************)
EXTENDS Naturals

\* se_key_status, in the order of the enumeration.
Status == {"preactive", "active", "suspended", "deactivated", "compromised",
           "destroyed"}

\* check_key_transition_validity: may a key go from one status to another?
check_key_transition_validity(from, to) ==
  /\ from # to
  /\ CASE from = "preactive"              -> to # "suspended"
       [] from \in {"active", "suspended"} -> to # "preactive"
       [] from = "deactivated"            -> to \in {"compromised", "destroyed"}
       [] from = "compromised"            -> to = "destroyed"
       [] OTHER                           -> FALSE

\* The statuses that sekey_key_change_status accepts: a key is made active by
\* sekey_activate_key alone, and never preactive again.
Changeable == {"suspended", "deactivated", "compromised", "destroyed"}
=============================================================================
