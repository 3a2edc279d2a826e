---------------------------- MODULE RequestReply ----------------------------
(***************************************************************************)
(* What requestTelegram (src/ChatWindow.cpp:886-902) promises its callers: *)
(* a call posts one request to the Telegram thread, the Telegram thread    *)
(* serves it, and only then does the call return.  One request at a time.  *)
(***************************************************************************)
EXTENDS Naturals

VARIABLES posted,     \* requests handed to the Telegram thread
          served,     \* requests the Telegram thread has finished
          returned    \* calls that have come back to the GUI

vars == <<posted, served, returned>>

Init == posted = 0 /\ served = 0 /\ returned = 0

Post == /\ returned = posted
        /\ posted' = posted + 1
        /\ UNCHANGED <<served, returned>>

Serve == /\ served < posted
         /\ served' = served + 1
         /\ UNCHANGED <<posted, returned>>

Return == /\ returned < served
          /\ returned' = returned + 1
          /\ UNCHANGED <<posted, served>>

Next == Post \/ Serve \/ Return

Spec == Init /\ [][Next]_vars

FairSpec == Spec /\ WF_vars(Serve) /\ WF_vars(Return)
=============================================================================
