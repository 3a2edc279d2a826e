------------------------------- MODULE Login -------------------------------
(***************************************************************************)
(* Logging in to Telegram: the loop of AccessWindow::accessButtonClicked   *)
(* (src/AccessWindow.cpp:167-218) and the handlers of the authorization    *)
(* states of the Telegram thread (src/Td.cpp:574-726), up to the moment    *)
(* when the chat window holds its first token from the Telegram thread.    *)
(*                                                                         *)
(* The two threads use the same flags as in Requests, the other way round: *)
(* here the GUI thread offers thread_ready and the Telegram thread posts   *)
(* action_sent.  The GUI thread holds Td::mutex_ while a dialog is open.   *)
(*                                                                         *)
(* A credential is the number of the dialog it was typed in, 0 at first.   *)
(* prompts, dialogs and cancelled are history variables.                   *)
(***************************************************************************)
EXTENDS Integers, FiniteSets, CondVar

CONSTANTS
    Challenges,   \* login states TDLib may go through: a subset of AllChallenges
    MaxRounds     \* bound: answers that fail, databases destroyed, and dialogs
                  \* cancelled

\* What TDLib may ask for.  "password" and "registration" have empty handlers.
Prompted == {"key", "phone", "code"}
AllChallenges == Prompted \union {"password", "registration"}

ASSUME LoginAssumption == Challenges \subseteq AllChallenges /\ MaxRounds \in Nat

VARIABLES
    thread_ready, waitingReady,        \* with mutex_ready and cv_ready
    action, action_sent, input_wrote, waiting,   \* with mutex_ and cv_
    gpc, tpc,          \* what each thread is about to do
    auth,              \* authorization_state_
    query,             \* the authentication query TDLib has not answered
    need_restart,
    typed,             \* typed[c]: the dialog that wrote credential c
    destroy,           \* key = "DESTROY"
    cancelled,         \* the last dialog was closed without an input
    rounds, prompts, dialogs

flags == <<thread_ready, waitingReady, action, action_sent, input_wrote, waiting>>
td == <<tpc, auth, query, need_restart>>
input == <<typed, destroy, cancelled>>
counts == <<rounds, prompts, dialogs>>
vars == <<flags, gpc, td, input, counts>>

MutexHeld == gpc = "dialog"

Init ==
    /\ thread_ready = FALSE /\ waitingReady = {}
    /\ action = "none" /\ action_sent = FALSE /\ input_wrote = FALSE /\ waiting = {}
    /\ gpc = "offer" /\ tpc = "receive" /\ auth = "none" /\ query = "none"
    /\ need_restart = FALSE
    /\ typed = [c \in Prompted |-> 0] /\ destroy = FALSE
    /\ cancelled = FALSE
    /\ rounds = 0 /\ prompts = 0 /\ dialogs = 0

-----------------------------------------------------------------------------
(* The GUI thread.                                                         *)

\* Mutant of Offer: cv_ready.notify_one() is forgotten.
OfferQuietly ==
    /\ gpc \in {"offer", "ack"}
    /\ thread_ready' = TRUE
    /\ gpc' = IF gpc = "offer" THEN "await" ELSE "chat"
    /\ UNCHANGED <<waitingReady, action, action_sent, input_wrote, waiting, td,
                   input, counts>>

\* thread_ready = true, notify: at the top of the loop, and once more after
\* login_done, when the Telegram thread waits for it a second time.
Offer ==
    /\ gpc \in {"offer", "ack"}
    /\ thread_ready' = TRUE
    /\ waitingReady' \in AfterNotifyOne(waitingReady)
    /\ gpc' = IF gpc = "offer" THEN "await" ELSE "chat"
    /\ UNCHANGED <<action, action_sent, input_wrote, waiting, td, input, counts>>

\* Wait for action_sent; open the dialog of the action, with mutex_ held.
AwaitAction ==
    /\ gpc = "await" /\ "gui" \notin waiting
    /\ IF action_sent
       THEN /\ action_sent' = FALSE
            /\ gpc' = IF action = "login_done" THEN "ack" ELSE "dialog"
            /\ dialogs' = IF action = "login_done" THEN dialogs ELSE dialogs + 1
            /\ UNCHANGED waiting
       ELSE waiting' = waiting \union {"gui"} /\ UNCHANGED <<gpc, action_sent, dialogs>>
    /\ UNCHANGED <<thread_ready, waitingReady, action, input_wrote, td, input,
                   rounds, prompts>>

\* Mutant of CloseDialog: the notify on cv_ is forgotten.
CloseDialogQuietly ==
    /\ input_wrote' = TRUE
    /\ gpc' = "offer"
    /\ UNCHANGED <<thread_ready, waitingReady, action, action_sent, waiting,
                   td, prompts, dialogs>>

\* input_wrote = true, unlock, notify.
CloseDialog ==
    /\ input_wrote' = TRUE
    /\ waiting' \in AfterNotifyOne(waiting)
    /\ gpc' = "offer"
    /\ UNCHANGED <<thread_ready, waitingReady, action, action_sent, td, prompts,
                   dialogs>>

\* The user types what the dialog asks for; for the key, also DESTROY.
AcceptDialog ==
    /\ gpc = "dialog"
    /\ typed' = [typed EXCEPT ![action] = dialogs]
    /\ cancelled' = FALSE
    /\ \/ /\ destroy' = (destroy /\ action # "key")
          /\ UNCHANGED rounds
       \/ /\ action = "key" /\ rounds < MaxRounds
          /\ destroy' = TRUE /\ rounds' = rounds + 1
    /\ CloseDialog

\* The user closes the dialog: the old value of the credential is kept.
CancelDialog ==
    /\ gpc = "dialog" /\ rounds < MaxRounds
    /\ rounds' = rounds + 1
    /\ cancelled' = TRUE
    /\ UNCHANGED <<typed, destroy>>
    /\ CloseDialog

\* The constructor of ChatWindow: waitTelegram.
WaitTelegram ==
    /\ gpc = "chat" /\ "gui" \notin waitingReady
    /\ IF thread_ready
       THEN gpc' = "in" /\ thread_ready' = FALSE /\ UNCHANGED waitingReady
       ELSE waitingReady' = waitingReady \union {"gui"} /\ UNCHANGED <<gpc, thread_ready>>
    /\ UNCHANGED <<action, action_sent, input_wrote, waiting, td, input, counts>>

-----------------------------------------------------------------------------
(* The Telegram thread.                                                    *)

\* The states that may follow the success of a query.
Successors(q) == CASE q = "params"  -> {"key"}
                   [] q = "key"     -> {"phone", "code", "password", "ready"}
                   [] q = "phone"   -> {"code"}
                   [] q = "code"    -> {"ready", "password", "registration"}
                   [] q = "destroy" -> {"closed"}
                   [] OTHER         -> {"params"}

\* on_authorization_state_update: the first step of the handler of state s.
\* For the closed state only flags are set; the empty handlers do nothing.
EnterState(s) ==
    /\ auth' = s
    /\ tpc' = CASE s = "params"                    -> "send"
                [] s \in Prompted \union {"ready"} -> "waitReady"
                [] OTHER                           -> "receive"
    /\ need_restart' = (s = "closed")
    /\ query' = "none"

\* The query succeeds, or the client has just been made: TDLib changes state.
AuthUpdate(s) ==
    /\ tpc = "receive" /\ ~need_restart
    /\ auth = "none" \/ query # "none"
    /\ s \in Successors(query) \intersect (Challenges \union {"params", "ready", "closed"})
    /\ EnterState(s)
    /\ UNCHANGED <<flags, gpc, input, counts>>

\* The query fails: check_authentication_error runs the handler of the same
\* state again.
AuthError ==
    /\ tpc = "receive" /\ query # "none" /\ rounds < MaxRounds
    /\ rounds' = rounds + 1
    /\ EnterState(auth)
    /\ UNCHANGED <<flags, gpc, input, prompts, dialogs>>

\* restart: a new client and a new Td; the static members keep their values.
Restart ==
    /\ tpc = "receive" /\ need_restart
    /\ need_restart' = FALSE /\ auth' = "none"
    /\ UNCHANGED <<flags, gpc, tpc, query, input, counts>>

\* A handler waits for thread_ready, which it resets.
WaitReady ==
    /\ tpc = "waitReady" /\ "td" \notin waitingReady
    /\ IF thread_ready
       THEN tpc' = "post" /\ thread_ready' = FALSE /\ UNCHANGED waitingReady
       ELSE waitingReady' = waitingReady \union {"td"} /\ UNCHANGED <<tpc, thread_ready>>
    /\ UNCHANGED <<action, action_sent, input_wrote, waiting, gpc, auth, query,
                   need_restart, input, counts>>

\* action and action_sent are set under mutex_; notify.
Post ==
    /\ tpc = "post" /\ ~MutexHeld
    /\ action' = IF auth = "ready" THEN "login_done" ELSE auth
    /\ action_sent' = TRUE
    /\ waiting' \in AfterNotifyOne(waiting)
    /\ tpc' = IF auth = "ready" THEN "waitAck" ELSE "waitInput"
    /\ prompts' = IF auth = "ready" THEN prompts ELSE prompts + 1
    /\ UNCHANGED <<thread_ready, waitingReady, input_wrote, gpc, auth, query,
                   need_restart, input, rounds, dialogs>>

\* Mutant of WaitInput: input_wrote = false is forgotten.
WaitInputKeepsInput ==
    /\ tpc = "waitInput" /\ "td" \notin waiting /\ ~MutexHeld
    /\ IF input_wrote
       THEN tpc' = "send" /\ UNCHANGED waiting
       ELSE waiting' = waiting \union {"td"} /\ UNCHANGED tpc
    /\ UNCHANGED <<input_wrote, thread_ready, waitingReady, action, action_sent,
                   gpc, auth, query, need_restart, input, counts>>

\* A handler waits for input_wrote, which it resets.
WaitInput ==
    /\ tpc = "waitInput" /\ "td" \notin waiting /\ ~MutexHeld
    /\ IF input_wrote
       THEN tpc' = "send" /\ input_wrote' = FALSE /\ UNCHANGED waiting
       ELSE waiting' = waiting \union {"td"} /\ UNCHANGED <<tpc, input_wrote>>
    /\ UNCHANGED <<thread_ready, waitingReady, action, action_sent, gpc, auth,
                   query, need_restart, input, counts>>

\* The credential is read, with no mutex, and sent to TDLib; the key is moved
\* out of its variable.
SendQuery ==
    /\ tpc = "send"
    /\ query' = IF auth = "key" /\ destroy THEN "destroy" ELSE auth
    /\ typed' = IF query' = "key" THEN [typed EXCEPT !["key"] = 0] ELSE typed
    /\ tpc' = "receive"
    /\ UNCHANGED <<flags, gpc, auth, need_restart, destroy, cancelled, counts>>

\* The handler of the ready state waits for thread_ready a second time.
WaitAck ==
    /\ tpc = "waitAck" /\ "td" \notin waitingReady
    /\ IF thread_ready
       THEN tpc' = "loop" /\ thread_ready' = FALSE /\ UNCHANGED waitingReady
       ELSE waitingReady' = waitingReady \union {"td"} /\ UNCHANGED <<tpc, thread_ready>>
    /\ UNCHANGED <<action, action_sent, input_wrote, waiting, gpc, auth, query,
                   need_restart, input, counts>>

\* The first turn of the authorized loop: thread_ready = true, notify.
Loop ==
    /\ tpc = "loop"
    /\ thread_ready' = TRUE
    /\ waitingReady' \in AfterNotifyOne(waitingReady)
    /\ tpc' = "served"
    /\ UNCHANGED <<action, action_sent, input_wrote, waiting, gpc, auth, query,
                   need_restart, input, counts>>

-----------------------------------------------------------------------------
States == AllChallenges \union {"none", "params", "ready", "closed"}

Gui == Offer \/ AwaitAction \/ WaitTelegram
Telegram == \/ Restart \/ WaitReady \/ Post \/ WaitInput \/ SendQuery \/ WaitAck
            \/ Loop \/ AuthError
            \/ \E s \in States : AuthUpdate(s)
User == AcceptDialog \/ CancelDialog

Next == Gui \/ Telegram \/ User

Spec == Init /\ [][Next]_vars

\* The threads are scheduled and TDLib answers; the user may leave a dialog
\* open for ever.
FairSpec == Spec /\ WF_vars(Gui) /\ WF_vars(Telegram)

-----------------------------------------------------------------------------
(* Properties.                                                             *)

\* Each prompt of the Telegram thread opens one dialog, of its own kind, and
\* the thread sends its query only after that dialog has been closed: the
\* credential it reads without a mutex is not being written, it is the one typed
\* for this prompt unless the user closed the dialog, and input_wrote was not
\* left over from an earlier dialog.
OnePromptOneDialog ==
    tpc = "send" /\ auth # "params" =>
        /\ dialogs = prompts /\ action = auth
        /\ gpc \in {"offer", "await"} /\ ~action_sent /\ ~input_wrote
        /\ cancelled \/ typed[auth] = prompts

\* A prompt of the Telegram thread reaches the user: the GUI thread opens the
\* dialog, or learns that the login is done.
PromptReachesUser == tpc = "waitReady" ~> gpc \in {"dialog", "ack"}

\* What the user has typed reaches TDLib.
InputReachesTelegram == input_wrote ~> tpc = "send"

\* "Telegram thread is waiting on thread_ready, wake it"
\* (src/AccessWindow.cpp:181): after the second offer the Telegram thread leaves
\* its second wait.
AckWakesTelegram == gpc = "chat" ~> tpc \in {"loop", "served"}
=============================================================================
