------------------------------- MODULE Store -------------------------------
(***************************************************************************)
(* What a database promises: a transaction that reports success has taken  *)
(* place, and any other has taken place as a whole or not at all.          *)
(***************************************************************************)
CONSTANT Value

VARIABLES
    value,  \* the content of the database
    goal,   \* what the transaction that is under way would make it
    status  \* "open" while there is one, then its result

Init == /\ value \in Value /\ goal = value
        /\ status = "failed"

Begin == /\ status # "open" /\ status' = "open"
         /\ goal' \in Value
         /\ UNCHANGED value

Commit == /\ status = "open" /\ status' = "done"
          /\ value' = goal
          /\ UNCHANGED goal

\* The program that ends in the middle of a transaction gets no answer.
Abort == /\ status = "open" /\ status' = "failed"
         /\ UNCHANGED <<value, goal>>

Next == Begin \/ Commit \/ Abort

Spec == Init /\ [][Next]_<<value, goal, status>>
============================================================================
