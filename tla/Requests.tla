------------------------------ MODULE Requests ------------------------------
(***************************************************************************)
(* The request protocol between the GUI thread and the Telegram thread,    *)
(* after login and startup: the handlers of ChatWindow (src/ChatWindow.cpp)*)
(* call waitTelegram and requestTelegram, Td::loop (src/Td.cpp) serves one *)
(* action at a time with the help of TDLib, and the update thread emits a  *)
(* signal every CHAT_FETCH_UPDATE_INTERVAL.                                *)
(*                                                                         *)
(* Granularity.  A critical section that is left in the same function is   *)
(* one action.  The only mutex held across actions is Td::mutex_, by the   *)
(* Telegram thread from the return of its wait() to u_lk.unlock(): it is   *)
(* held exactly in the states Serving, so it needs no variable.  The GUI   *)
(* writes Td::action, Td::ok and Td::error with no mutex, in actions that  *)
(* have no guard on it.                                                    *)
(*                                                                         *)
(* Data is abstracted to who it belongs to: a query of TDLib is its kind   *)
(* and the number of the request it was sent for.  TDLib may answer its    *)
(* queries in any order.  posted, served, returned, answer and stale are   *)
(* history variables: no guard reads them but for the bound MaxRequests.   *)
(***************************************************************************)
EXTENDS Integers, FiniteSets, CondVar

CONSTANTS
    Handlers,     \* what the user does: a subset of UserHandlers
    Answers,      \* what TDLib answers: a subset of {"ok", "error", "empty"}
    MayLogOut,    \* TRUE if the session may be ended from another device
    MaxRequests,  \* bound: requests posted, but for the quit request
    MaxTicks,     \* bound: signals the update thread emits
    MaxImages     \* bound: images among the messages one handler shows

UserHandlers == {"select", "previous", "document", "attach", "send", "close"}

ASSUME ConstantsAssumption ==
    /\ Handlers \subseteq UserHandlers
    /\ Answers \subseteq {"ok", "error", "empty"}
    /\ MayLogOut \in BOOLEAN
    /\ MaxRequests \in Nat /\ MaxTicks \in Nat /\ MaxImages \in Nat

VARIABLES
    thread_ready, waitingReady,          \* with mutex_ready and cv_ready
    action, action_sent, waiting,        \* with mutex_ and cv_
    ok, error,                           \* the result of the last action
    gpc, handler, suspended, images, isImage,  \* the GUI thread
    chatSelected, closing,   \* selected_chat.chat_id # 0, closed_chat_id # 0
    signals, ticks, upc, update_stop,    \* the update thread and its signals
    tpc, nested, flagged, authorized,    \* the Telegram thread
    pending,                             \* queries TDLib has not answered
    posted, served, returned, answer, stale

gui == <<gpc, handler, suspended, images, isImage, chatSelected, closing>>
updater == <<signals, ticks, upc, update_stop>>
telegram == <<tpc, nested, flagged, authorized, pending>>
shared == <<thread_ready, waitingReady, action, action_sent, waiting, ok, error>>
historyVars == <<posted, served, returned, answer, stale>>
vars == <<gui, updater, telegram, shared, historyVars>>

-----------------------------------------------------------------------------
(* The actions of Td::loop and the queries each one sends to TDLib.        *)

Actions == {"chat_messages", "previous_messages", "send_message", "file_",
            "update", "quit"}

\* The action string that a handler requests.
ActionOf(h) == CASE h = "select"   -> "chat_messages"
                 [] h = "previous" -> "previous_messages"
                 [] h = "document" -> "file_"
                 [] h = "update"   -> "update"
                 [] h = "close"    -> "quit"
                 [] OTHER          -> "send_message"

\* Queries whose answer sets a flag of its own: nothing resets these flags.
FlagKinds == {"closeChat", "openChat", "viewMessages"}
\* Queries whose answer sets ok or error.
DataKinds == {"older", "previous", "sendMessage", "downloadFile"}
Kinds == FlagKinds \union DataKinds \union {"history"}

\* The first state of the Telegram thread that serves an action.
FirstStep(a) == CASE a = "chat_messages" /\ closing    -> "closeChat"
                  [] a = "chat_messages" /\ ~closing   -> "openChat"
                  [] a = "previous_messages"           -> "previous"
                  [] a = "send_message"                -> "sendMessage"
                  [] a = "file_"                       -> "downloadFile"
                  [] a = "update"                      -> "update"
                  [] OTHER                             -> "exited"

\* The query that follows the answer to k, within the same action.
Follows == [closeChat |-> "openChat", openChat |-> "history",
            history |-> "viewMessages", previous |-> "viewMessages"]

\* The states in which the Telegram thread holds Td::mutex_.
Awaited == (Kinds \ {"older"})
Serving == Awaited \union {"update"}

MutexHeld == tpc \in Serving

\* The loops that wait for a query: !chat_closed && !chat_closed_error and
\* the like for a flag, !ok && !error for waitForServerResponse.
Answered(k) == IF k \in FlagKinds THEN k \in flagged ELSE ok \/ error

\* The Telegram thread is in a call of client_->receive.
Receiving == \/ nested > 0 /\ ~(ok \/ error)
             \/ nested = 0 /\ tpc \in Awaited /\ ~Answered(tpc)
             \/ nested = 0 /\ tpc = "update"

-----------------------------------------------------------------------------
Init ==
    /\ thread_ready = FALSE /\ waitingReady = {}
    /\ action = "update" /\ action_sent = FALSE /\ waiting = {}
    /\ ok = FALSE /\ error = FALSE
    /\ gpc = "idle" /\ handler = "none" /\ suspended = "none"
    /\ images = 0 /\ isImage = FALSE /\ chatSelected = FALSE /\ closing = FALSE
    /\ signals = 0 /\ ticks = 0 /\ upc = "sleep" /\ update_stop = FALSE
    /\ tpc = "loop" /\ nested = 0 /\ flagged = {} /\ authorized = TRUE
    /\ pending = {}
    /\ posted = 0 /\ served = 0 /\ returned = 0 /\ answer = 0 /\ stale = FALSE

-----------------------------------------------------------------------------
(* The GUI thread.  gpc = "idle" is the Qt event loop; "dialog" is the     *)
(* event loop nested in the exec() of an error dialog, where the user can  *)
(* only dismiss the dialog but queued signals are still delivered.         *)

\* The user clicks a chat that is not selected yet, scrolls to the top, opens
\* a document, attaches a file or sends a text.
StartHandler(h) ==
    /\ gpc = "idle" /\ posted < MaxRequests
    /\ h # "close"
    /\ h # "select" => chatSelected
    /\ handler' = h
    /\ gpc' = "ready"
    /\ chatSelected' = TRUE
    /\ closing' = IF h = "select" THEN chatSelected ELSE closing
    /\ UNCHANGED <<suspended, images, isImage, updater, telegram, shared, historyVars>>

\* checkNewMessages is delivered to newMessagesUpdate.
StartUpdate ==
    /\ gpc \in {"idle", "dialog"} /\ signals > 0 /\ posted < MaxRequests
    /\ signals' = signals - 1
    /\ suspended' = handler
    /\ handler' = "update"
    /\ gpc' = "ready"
    /\ UNCHANGED <<images, isImage, chatSelected, closing, ticks, upc, update_stop,
                   telegram, shared, historyVars>>

\* waitTelegram: consume thread_ready, or wait for it.
WaitTelegram ==
    /\ gpc = "ready" /\ "gui" \notin waitingReady
    /\ IF thread_ready
       THEN gpc' = "write" /\ thread_ready' = FALSE /\ UNCHANGED waitingReady
       ELSE waitingReady' = waitingReady \union {"gui"} /\ UNCHANGED <<gpc, thread_ready>>
    /\ UNCHANGED <<handler, suspended, images, isImage, chatSelected, closing,
                   action, action_sent, waiting, ok, error,
                   updater, telegram, historyVars>>

\* requestTelegram, closeEvent: Td::action = action_str, with no mutex.
WriteAction ==
    /\ gpc = "write"
    /\ action' = IF isImage THEN "file_" ELSE ActionOf(handler)
    /\ gpc' = "signal"
    /\ UNCHANGED <<handler, suspended, images, isImage, chatSelected, closing,
                   thread_ready, waitingReady, action_sent, waiting, ok, error,
                   updater, telegram, historyVars>>

\* Mutant of SendAction: cv_.notify_one() is forgotten.
SendActionQuietly ==
    /\ gpc = "signal" /\ ~MutexHeld
    /\ action_sent' = TRUE
    /\ gpc' = IF action = "quit" THEN "joinTd" ELSE "await"
    /\ posted' = posted + 1
    /\ UNCHANGED <<handler, suspended, images, isImage, chatSelected, closing,
                   thread_ready, waitingReady, action, waiting, ok, error,
                   served, returned, answer, stale, updater, telegram>>

\* requestTelegram, closeEvent: action_sent = true under mutex_, notify.
SendAction ==
    /\ gpc = "signal" /\ ~MutexHeld
    /\ action_sent' = TRUE
    /\ waiting' \in AfterNotifyOne(waiting)
    /\ gpc' = IF action = "quit" THEN "joinTd" ELSE "await"
    /\ posted' = posted + 1
    /\ stale' = (stale \/ (action # "quit" /\ (ok \/ error)))
    /\ UNCHANGED <<handler, suspended, images, isImage, chatSelected, closing,
                   thread_ready, waitingReady, action, ok, error,
                   served, returned, answer, updater, telegram>>

\* Mutant of Await: the wait has no predicate and returns at once.
AwaitNoPredicate ==
    /\ gpc = "await" /\ "gui" \notin waiting /\ ~MutexHeld
    /\ gpc' = "consume" /\ returned' = returned + 1 /\ UNCHANGED waiting
    /\ UNCHANGED <<handler, suspended, images, isImage, chatSelected, closing,
                   thread_ready, waitingReady, action, action_sent, ok, error,
                   posted, served, answer, stale, updater, telegram>>

\* requestTelegram: wait for Td::ok || Td::error.
Await ==
    /\ gpc = "await" /\ "gui" \notin waiting /\ ~MutexHeld
    /\ IF ok \/ error
       THEN gpc' = "consume" /\ returned' = returned + 1 /\ UNCHANGED waiting
       ELSE waiting' = waiting \union {"gui"} /\ UNCHANGED <<gpc, returned>>
    /\ UNCHANGED <<handler, suspended, images, isImage, chatSelected, closing,
                   thread_ready, waitingReady, action, action_sent, ok, error,
                   posted, served, answer, stale, updater, telegram>>

\* The handler is left: back to the event loop that called it.
ReturnToLoop ==
    /\ gpc' = IF suspended = "none" THEN "idle" ELSE "dialog"
    /\ handler' = suspended
    /\ suspended' = "none"
    /\ images' = 0 /\ isImage' = FALSE

\* showImages asks for n more images, or the handler is left.
ShowImages(n) ==
    IF n > 0
    THEN /\ gpc' = "ready" /\ isImage' = TRUE /\ images' = n - 1
         /\ UNCHANGED <<handler, suspended>>
    ELSE ReturnToLoop

\* Images among the messages that a handler has just put on the screen.
ImageCounts(h) ==
    IF h \in {"select", "previous"} \/ (h = "update" /\ chatSelected)
    THEN {n \in 0 .. MaxImages : posted + n <= MaxRequests}
    ELSE {0}

\* Mutant of ConsumeOk: attachmentButtonClicked forgets Td::ok = false.
ConsumeOkKeepsOk ==
    /\ gpc = "consume" /\ ~isImage
    /\ handler = "update" \/ (handler # "send" /\ ~error)
    /\ ok' = (handler = "attach")
    /\ \E n \in ImageCounts(handler) : ShowImages(n)
    /\ UNCHANGED <<chatSelected, closing, thread_ready, waitingReady, action,
                   action_sent, waiting, error, updater, telegram, historyVars>>

\* The handler reads the answer it was given, and resets ok.
ConsumeOk ==
    /\ gpc = "consume" /\ ~isImage
    /\ handler = "update" \/ (handler # "send" /\ ~error)
    /\ ok' = FALSE
    /\ \E n \in ImageCounts(handler) : ShowImages(n)
    /\ UNCHANGED <<chatSelected, closing, thread_ready, waitingReady, action,
                   action_sent, waiting, error, updater, telegram, historyVars>>

\* callErrorDialog; error is reset only after the user dismisses it.
ConsumeError ==
    /\ gpc = "consume" /\ ~isImage
    /\ handler \notin {"update", "send"} /\ error
    /\ gpc' = "dialog"
    /\ UNCHANGED <<handler, suspended, images, isImage, chatSelected, closing,
                   updater, telegram, shared, historyVars>>

DismissDialog ==
    /\ gpc = "dialog"
    /\ error' = FALSE
    /\ ReturnToLoop
    /\ UNCHANGED <<chatSelected, closing, thread_ready, waitingReady, action,
                   action_sent, waiting, ok, updater, telegram, historyVars>>

\* sendButtonClicked looks at neither flag.
ConsumeSend ==
    /\ gpc = "consume" /\ ~isImage /\ handler = "send"
    /\ ReturnToLoop
    /\ UNCHANGED <<chatSelected, closing, updater, telegram, shared, historyVars>>

\* One turn of the loop of showImages.
ConsumeImage ==
    /\ gpc = "consume" /\ isImage
    /\ IF error THEN error' = FALSE /\ UNCHANGED ok
                ELSE ok' = FALSE /\ UNCHANGED error
    /\ ShowImages(images)
    /\ UNCHANGED <<chatSelected, closing, thread_ready, waitingReady, action,
                   action_sent, waiting, updater, telegram, historyVars>>

\* Mutant of CloseEvent: the update thread is joined but not stopped.
CloseEventNoStop ==
    /\ gpc = "idle" /\ "close" \in Handlers
    /\ handler' = "close"
    /\ gpc' = "joinUpdater"
    /\ UNCHANGED <<suspended, images, isImage, chatSelected, closing,
                   updater, telegram, shared, historyVars>>

\* closeEvent: stop the update thread and wait for it.
CloseEvent ==
    /\ gpc = "idle" /\ "close" \in Handlers
    /\ update_stop' = TRUE
    /\ handler' = "close"
    /\ gpc' = "joinUpdater"
    /\ UNCHANGED <<suspended, images, isImage, chatSelected, closing,
                   signals, ticks, upc, telegram, shared, historyVars>>

JoinUpdater ==
    /\ gpc = "joinUpdater" /\ upc = "exited"
    /\ gpc' = "ready"
    /\ UNCHANGED <<handler, suspended, images, isImage, chatSelected, closing,
                   updater, telegram, shared, historyVars>>

\* closeEvent: telegram_thread.join().
JoinTelegram ==
    /\ gpc = "joinTd" /\ tpc = "exited"
    /\ gpc' = "closed" /\ handler' = "none"
    /\ returned' = returned + 1
    /\ UNCHANGED <<suspended, images, isImage, chatSelected, closing, updater,
                   telegram, shared, posted, served, answer, stale>>

\* A signal that was queued before the window was closed is delivered before
\* the event that ends the event loop.
LateUpdate ==
    /\ gpc = "closed" /\ signals > 0
    /\ signals' = signals - 1
    /\ handler' = "update"
    /\ gpc' = "ready"
    /\ UNCHANGED <<suspended, images, isImage, chatSelected, closing, ticks, upc,
                   update_stop, telegram, shared, historyVars>>

-----------------------------------------------------------------------------
(* The update thread: wait_for returns on the timeout with update_stop     *)
(* false, and the signal is emitted after the mutex has been released.     *)

Timeout ==
    /\ upc = "sleep" /\ ~update_stop /\ ticks < MaxTicks /\ gpc # "crashed"
    /\ upc' = "emit" /\ ticks' = ticks + 1
    /\ UNCHANGED <<signals, update_stop, gui, telegram, shared, historyVars>>

EmitSignal ==
    /\ upc = "emit" /\ gpc # "crashed"
    /\ signals' = signals + 1 /\ upc' = "sleep"
    /\ UNCHANGED <<ticks, update_stop, gui, telegram, shared, historyVars>>

StopUpdater ==
    /\ upc = "sleep" /\ update_stop
    /\ upc' = "exited"
    /\ UNCHANGED <<signals, ticks, update_stop, gui, telegram, shared, historyVars>>

-----------------------------------------------------------------------------
(* The Telegram thread: Td::loop.                                          *)

Query(k) == [kind |-> k, req |-> served + 1]

\* Mutant of Loop: thread_ready is set before are_authorized_ is tested.
LoopReadyFirst ==
    /\ tpc = "loop"
    /\ thread_ready' = TRUE
    /\ waitingReady' \in AfterNotifyOne(waitingReady)
    /\ tpc' = IF authorized THEN "wait" ELSE "relogin"
    /\ UNCHANGED <<gui, updater, nested, flagged, authorized, pending, action,
                   action_sent, waiting, ok, error, historyVars>>

\* The top of the loop: declare the thread ready, or log in again.
Loop ==
    /\ tpc = "loop"
    /\ IF authorized
       THEN /\ thread_ready' = TRUE
            /\ waitingReady' \in AfterNotifyOne(waitingReady)
            /\ tpc' = "wait"
       ELSE tpc' = "relogin" /\ UNCHANGED <<thread_ready, waitingReady>>
    /\ UNCHANGED <<gui, updater, nested, flagged, authorized, pending, action,
                   action_sent, waiting, ok, error, historyVars>>

\* Wait for action_sent; take the request and start to serve it.
TakeAction ==
    /\ tpc = "wait" /\ "td" \notin waiting
    /\ IF action_sent
       THEN LET first == FirstStep(action) IN
            /\ action_sent' = FALSE
            /\ tpc' = first
            /\ pending' = pending \union
                   (IF first \in Kinds THEN {Query(first)} ELSE {})
            /\ served' = IF first = "exited" THEN served + 1 ELSE served
            /\ UNCHANGED waiting
       ELSE /\ waiting' = waiting \union {"td"}
            /\ UNCHANGED <<action_sent, tpc, pending, served>>
    /\ UNCHANGED <<gui, updater, nested, flagged, authorized, thread_ready,
                   waitingReady, action, ok, error, posted, returned, answer,
                   stale>>

\* Mutant of Reply: the GUI thread is not notified.
ReplyQuietly ==
    /\ served' = served + 1
    /\ UNCHANGED waiting
    /\ tpc' = "loop"

\* u_lk.unlock(); cv_.notify_one(); back to the top of the loop.
Reply ==
    /\ served' = served + 1
    /\ waiting' \in AfterNotifyOne(waiting)
    /\ tpc' = "loop"

\* The query is answered: send the one that follows, or reply to the GUI.
Advance ==
    /\ tpc \in Awaited /\ nested = 0 /\ Answered(tpc)
    /\ IF tpc \in DOMAIN Follows
       THEN /\ tpc' = Follows[tpc]
            /\ pending' = pending \union {Query(Follows[tpc])}
            /\ UNCHANGED <<served, waiting>>
       ELSE Reply /\ UNCHANGED pending
    /\ UNCHANGED <<gui, updater, nested, flagged, authorized, thread_ready,
                   waitingReady, action, action_sent, ok, error, posted,
                   returned, answer, stale>>

\* "update": no response is left for now.
UpdateDone ==
    /\ tpc = "update" /\ nested = 0
    /\ ok' = TRUE
    /\ answer' = served + 1
    /\ Reply
    /\ UNCHANGED <<gui, updater, nested, flagged, authorized, pending,
                   thread_ready, waitingReady, action, action_sent, error,
                   posted, returned, stale>>

\* The answer, good or bad, to a query with a flag of its own.
ReceiveFlag(q) ==
    /\ q.kind \in FlagKinds
    /\ flagged' = flagged \union {q.kind}
    /\ pending' = pending \ {q}
    /\ UNCHANGED <<gpc, tpc, nested, ok, error, answer>>

\* An error to any other query.
ReceiveError(q) ==
    /\ q.kind \notin FlagKinds /\ "error" \in Answers
    /\ error' = TRUE
    /\ answer' = q.req
    /\ pending' = pending \ {q}
    /\ UNCHANGED <<gpc, tpc, nested, flagged, ok>>

\* The last message of the chat: the handler asks for the ten before it and
\* calls waitForServerResponse inside the outer one.
ReceiveHistory(q) ==
    /\ q.kind = "history" /\ "ok" \in Answers
    /\ pending' = (pending \ {q}) \union {[kind |-> "older", req |-> q.req]}
    /\ nested' = nested + 1
    /\ UNCHANGED <<gpc, tpc, flagged, ok, error, answer>>

\* A chat without messages: messages_[0] of an empty vector is dereferenced
\* and the process dies.
ReceiveEmptyHistory(q) ==
    /\ q.kind = "history" /\ "empty" \in Answers
    /\ tpc' = "crashed" /\ gpc' = "crashed" /\ nested' = 0
    /\ pending' = pending \ {q}
    /\ UNCHANGED <<flagged, ok, error, answer>>

\* The data asked for.  A file is stored only if ok is still false.
ReceiveData(q) ==
    /\ q.kind \in DataKinds /\ "ok" \in Answers
    /\ ok' = TRUE
    /\ answer' = IF q.kind = "downloadFile" /\ ok THEN answer ELSE q.req
    /\ pending' = pending \ {q}
    /\ UNCHANGED <<gpc, tpc, nested, flagged, error>>

Receive(q) ==
    /\ Receiving
    /\ \/ ReceiveFlag(q)
       \/ ReceiveError(q)
       \/ ReceiveHistory(q)
       \/ ReceiveEmptyHistory(q)
       \/ ReceiveData(q)
    /\ UNCHANGED <<handler, suspended, images, isImage, chatSelected, closing,
                   updater, authorized, thread_ready, waitingReady, action,
                   action_sent, waiting, posted, served, returned, stale>>

\* The nested waitForServerResponse returns.
Unwind ==
    /\ nested > 0 /\ (ok \/ error)
    /\ nested' = nested - 1
    /\ UNCHANGED <<gui, updater, tpc, flagged, authorized, pending, shared,
                   historyVars>>

\* The session is ended from another device: authorizationStateLoggingOut.
LogOut ==
    /\ MayLogOut /\ authorized /\ Receiving
    /\ authorized' = FALSE
    /\ UNCHANGED <<gui, updater, tpc, nested, flagged, pending, shared, historyVars>>

-----------------------------------------------------------------------------
User == \/ \E h \in Handlers : StartHandler(h)
        \/ CloseEvent
        \/ DismissDialog

Gui == \/ StartUpdate \/ WaitTelegram \/ WriteAction \/ SendAction \/ Await
       \/ ConsumeOk \/ ConsumeError \/ ConsumeSend \/ ConsumeImage
       \/ JoinUpdater \/ JoinTelegram \/ LateUpdate

Updater == EmitSignal \/ StopUpdater

Telegram == \/ Loop \/ TakeAction \/ Advance \/ UpdateDone \/ Unwind
            \/ \E q \in pending : Receive(q)

Next == User \/ Gui \/ Timeout \/ Updater \/ Telegram \/ LogOut

Spec == Init /\ [][Next]_vars

\* The threads are scheduled and TDLib answers its queries; the user, the
\* timer and the other devices owe nothing.
FairSpec == /\ Spec
            /\ WF_vars(Gui) /\ WF_vars(Updater) /\ WF_vars(Telegram)

-----------------------------------------------------------------------------
(* Properties.                                                             *)

Handling == UserHandlers \union {"none", "update"}
TdStates == Serving \union {"loop", "wait", "exited", "relogin", "crashed"}
GuiBlocked == {"ready", "write", "signal", "await", "consume", "joinUpdater", "joinTd"}
GuiStates == GuiBlocked \union {"idle", "dialog", "closed", "crashed"}

FlagTypes ==
    /\ thread_ready \in BOOLEAN /\ action_sent \in BOOLEAN
    /\ ok \in BOOLEAN /\ error \in BOOLEAN
    /\ isImage \in BOOLEAN /\ chatSelected \in BOOLEAN /\ closing \in BOOLEAN
    /\ update_stop \in BOOLEAN /\ authorized \in BOOLEAN /\ stale \in BOOLEAN

StateTypes ==
    /\ action \in Actions
    /\ waitingReady \subseteq {"gui"} /\ waiting \subseteq {"gui", "td"}
    /\ gpc \in GuiStates /\ handler \in Handling /\ suspended \in Handling
    /\ upc \in {"sleep", "emit", "exited"}
    /\ tpc \in TdStates /\ flagged \subseteq FlagKinds
    /\ pending \subseteq [kind : Kinds, req : Nat]
    /\ images \in Nat /\ signals \in Nat /\ ticks \in Nat /\ nested \in Nat
    /\ posted \in Nat /\ served \in Nat /\ returned \in Nat /\ answer \in Nat

\* The type invariant: every variable keeps to the values the code gives it.
TypeOK == FlagTypes /\ StateTypes

\* Who owns the request slot (Td::action and action_sent).
Owners == {x \in {"token", "gui", "posted", "telegram"} :
              \/ x = "token"    /\ thread_ready
              \/ x = "gui"      /\ gpc \in {"write", "signal"}
              \/ x = "posted"   /\ action_sent
              \/ x = "telegram" /\ tpc # "wait"}

\* thread_ready, the handler that consumed it, action_sent and the Telegram
\* thread outside its wait pass one token around: whatever the handlers, the
\* errors and the nested event loops do, the slot never has two owners (a
\* request overwritten or lost) nor none (both threads waiting for ever).
OneOwner == gpc # "crashed" => \E x \in Owners : Owners = {x}

\* Td::action is written with no mutex.  It may change only while the Telegram
\* thread is in its wait with nothing posted: it never reads a half-written
\* action, and a request is never replaced before it is taken.
RequestStable == [][action' # action => tpc = "wait" /\ ~action_sent]_vars

\* Until a request is posted over a result that was not reset, the GUI thread
\* sleeps in requestTelegram for as long as the Telegram thread holds mutex_:
\* the message vectors, Td::file and the flags are never used by both.
ServedAlone == ~stale /\ MutexHeld => gpc = "await"

\* Until then, a handler goes on with exactly one of ok and error set, and the
\* data it finds are those of its own request and not those of an earlier one.
OwnAnswer == ~stale /\ gpc = "consume" =>
                 ok # error /\ answer = posted

\* requestTelegram comes back only when its request has been served: the
\* comment of src/ChatWindow.cpp:895, "wait for result of request to telegram
\* thread".
RequestAwaited == returned <= served

\* Every handler resets the result it was given before the next request is
\* posted, so requestTelegram never returns on an old one.
NeverStale == ~stale

RR == INSTANCE RequestReply

\* The protocol implements request/reply, progress included.
ImplementsRequestReply == RR!FairSpec

\* A handler always comes back to the event loop: the window freezes only if
\* the session was ended from another device, or a signal was delivered after
\* the Telegram thread had quit.
GuiResponsive ==
    gpc \in GuiBlocked ~> gpc \notin GuiBlocked \/ tpc = "relogin"
                          \/ (tpc = "exited" /\ handler = "update")

\* closeEvent joins both threads: the window that the user closes is closed.
CloseTerminates == gpc = "joinUpdater" ~> gpc = "closed" \/ tpc = "relogin"
=============================================================================
