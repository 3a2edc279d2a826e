-------------------------- MODULE ChatWindowProofs --------------------------
(***************************************************************************)
(* Theorems about the chat window, for every value of the constants: first *)
(* the request protocol between its threads and the Telegram thread        *)
(* (Requests), then the message lists that the answers fill (Messages).    *)
(* The two models share no variable; the theorems of one use nothing of    *)
(* the other.                                                              *)
(***************************************************************************)
EXTENDS Requests, Messages, WellFoundedInduction, FiniteSetTheorems, TLAPS

-----------------------------------------------------------------------------
(* The request protocol.                                                   *)

\* notify_one only ever removes waiters.
LEMMA NotifyShrinks ==
    ASSUME NEW W, NEW V \in AfterNotifyOne(W)
    PROVE  V \subseteq W
BY DEF AfterNotifyOne

\* The flags stay Boolean.
LEMMA FlagTypesStep == FlagTypes /\ [Next]_vars => FlagTypes'
<1> SUFFICES ASSUME FlagTypes, [Next]_vars PROVE FlagTypes'
  OBVIOUS
<1> USE DEF FlagTypes, gui, updater, telegram, shared, historyVars
<1>1. ASSUME NEW h \in Handlers, StartHandler(h) PROVE FlagTypes'
  BY <1>1 DEF StartHandler
<1>2. CASE CloseEvent
  BY <1>2 DEF CloseEvent
<1>3. CASE DismissDialog
  BY <1>3 DEF DismissDialog, ReturnToLoop
<1>4. CASE StartUpdate
  BY <1>4 DEF StartUpdate
<1>5. CASE WaitTelegram
  BY <1>5 DEF WaitTelegram
<1>6. CASE WriteAction
  BY <1>6 DEF WriteAction
<1>7. CASE SendAction
  BY <1>7 DEF SendAction
<1>8. CASE Await
  BY <1>8 DEF Await
<1>9. CASE ConsumeOk
  BY <1>9 DEF ConsumeOk, ShowImages, ReturnToLoop
<1>10. CASE ConsumeError
  BY <1>10 DEF ConsumeError
<1>11. CASE ConsumeSend
  BY <1>11 DEF ConsumeSend, ReturnToLoop
<1>12. CASE ConsumeImage
  BY <1>12 DEF ConsumeImage, ShowImages, ReturnToLoop
<1>13. CASE JoinUpdater
  BY <1>13 DEF JoinUpdater
<1>14. CASE JoinTelegram
  BY <1>14 DEF JoinTelegram
<1>15. CASE LateUpdate
  BY <1>15 DEF LateUpdate
<1>16. CASE Timeout
  BY <1>16 DEF Timeout
<1>17. CASE EmitSignal
  BY <1>17 DEF EmitSignal
<1>18. CASE StopUpdater
  BY <1>18 DEF StopUpdater
<1>19. CASE LogOut
  BY <1>19 DEF LogOut
<1>20. CASE Loop
  BY <1>20 DEF Loop
<1>21. CASE TakeAction
  BY <1>21 DEF TakeAction
<1>22. CASE Advance
  BY <1>22 DEF Advance
<1>23. CASE UpdateDone
  BY <1>23 DEF UpdateDone
<1>24. CASE Unwind
  BY <1>24 DEF Unwind
<1>25. ASSUME NEW q \in pending, Receive(q) PROVE FlagTypes'
  <2>1. CASE ReceiveFlag(q)
    BY <1>25, <2>1 DEF Receive, ReceiveFlag
  <2>2. CASE ReceiveError(q)
    BY <1>25, <2>2 DEF Receive, ReceiveError
  <2>3. CASE ReceiveHistory(q)
    BY <1>25, <2>3 DEF Receive, ReceiveHistory
  <2>4. CASE ReceiveEmptyHistory(q)
    BY <1>25, <2>4 DEF Receive, ReceiveEmptyHistory
  <2>5. CASE ReceiveData(q)
    BY <1>25, <2>5 DEF Receive, ReceiveData
  <2> QED
    BY <1>25, <2>1, <2>2, <2>3, <2>4, <2>5 DEF Receive
<1>26. CASE UNCHANGED vars
  BY <1>26 DEF vars
<1> QED
  BY <1>1, <1>2, <1>3, <1>4, <1>5, <1>6, <1>7, <1>8, <1>9, <1>10,
     <1>11, <1>12, <1>13, <1>14, <1>15, <1>16, <1>17, <1>18, <1>19, <1>20,
     <1>21, <1>22, <1>23, <1>24, <1>25, <1>26
     DEF Next, User, Gui, Updater, Telegram

\* Every other variable keeps to its type.
LEMMA StateTypesStep == StateTypes /\ [Next]_vars => StateTypes'
<1> USE ConstantsAssumption
<1> SUFFICES ASSUME StateTypes, [Next]_vars PROVE StateTypes'
  OBVIOUS
<1> USE DEF StateTypes, gui, updater, telegram, shared, historyVars, Handling,
            GuiStates, GuiBlocked
<1>1. ASSUME NEW h \in Handlers, StartHandler(h) PROVE StateTypes'
  BY <1>1 DEF StartHandler, UserHandlers
<1>2. CASE CloseEvent
  BY <1>2 DEF CloseEvent, UserHandlers
<1>3. CASE DismissDialog
  BY <1>3 DEF DismissDialog, ReturnToLoop
<1>4. CASE StartUpdate
  BY <1>4 DEF StartUpdate
<1>5. CASE WaitTelegram
  BY <1>5 DEF WaitTelegram
<1>6. CASE WriteAction
  BY <1>6 DEF WriteAction, ActionOf, Actions
<1>7. CASE SendAction
  <2>1. waiting' \subseteq {"gui", "td"}
    BY <1>7, NotifyShrinks DEF SendAction
  <2> QED
    BY <1>7, <2>1 DEF SendAction
<1>8. CASE Await
  <2>1. waiting' \subseteq {"gui", "td"}
    BY <1>8 DEF Await
  <2> QED
    BY <1>8, <2>1 DEF Await
<1>9. CASE ConsumeOk
  BY <1>9 DEF ConsumeOk, ShowImages, ReturnToLoop, ImageCounts
<1>10. CASE ConsumeError
  BY <1>10 DEF ConsumeError
<1>11. CASE ConsumeSend
  BY <1>11 DEF ConsumeSend, ReturnToLoop
<1>12. CASE ConsumeImage
  BY <1>12 DEF ConsumeImage, ShowImages, ReturnToLoop
<1>13. CASE JoinUpdater
  BY <1>13 DEF JoinUpdater
<1>14. CASE JoinTelegram
  BY <1>14 DEF JoinTelegram
<1>15. CASE LateUpdate
  BY <1>15 DEF LateUpdate
<1>16. CASE Timeout
  BY <1>16 DEF Timeout
<1>17. CASE EmitSignal
  BY <1>17 DEF EmitSignal
<1>18. CASE StopUpdater
  BY <1>18 DEF StopUpdater
<1>19. CASE LogOut
  BY <1>19 DEF LogOut
<1>20. CASE Loop
  BY <1>20, NotifyShrinks DEF Loop, TdStates
<1>21. CASE TakeAction
  <2>1. FirstStep(action) \in TdStates
    BY DEF FirstStep, TdStates, Serving, Awaited, Kinds, FlagKinds, DataKinds
  <2>2. \A k \in Kinds : Query(k) \in [kind : Kinds, req : Nat]
    BY DEF Query
  <2>3. waiting' \subseteq {"gui", "td"}
    BY <1>21 DEF TakeAction
  <2>4. tpc' \in TdStates
    BY <1>21, <2>1 DEF TakeAction
  <2>5. pending' \subseteq [kind : Kinds, req : Nat]
    BY <1>21, <2>2 DEF TakeAction
  <2>6. served' \in Nat
    BY <1>21 DEF TakeAction
  <2> QED
    BY <1>21, <2>3, <2>4, <2>5, <2>6 DEF TakeAction
<1>22. CASE Advance
  <2>1. \A k \in DOMAIN Follows :
            Follows[k] \in TdStates /\ Query(Follows[k]) \in [kind : Kinds, req : Nat]
    BY DEF Follows, Query, TdStates, Serving, Awaited, Kinds, FlagKinds, DataKinds
  <2>2. waiting' \subseteq {"gui", "td"}
    BY <1>22, NotifyShrinks DEF Advance, Reply
  <2>3. tpc' \in TdStates /\ served' \in Nat
    BY <1>22, <2>1 DEF Advance, Reply, TdStates
  <2>4. pending' \subseteq [kind : Kinds, req : Nat]
    BY <1>22, <2>1 DEF Advance
  <2> QED
    BY <1>22, <2>2, <2>3, <2>4 DEF Advance
<1>23. CASE UpdateDone
  <2>1. waiting' \subseteq {"gui", "td"}
    BY <1>23, NotifyShrinks DEF UpdateDone, Reply
  <2> QED
    BY <1>23, <2>1 DEF UpdateDone, Reply, TdStates
<1>24. CASE Unwind
  BY <1>24 DEF Unwind
<1>25. ASSUME NEW q \in pending, Receive(q) PROVE StateTypes'
  <2>1. q \in [kind : Kinds, req : Nat] /\ "older" \in Kinds
    BY DEF Kinds, DataKinds
  <2>2. CASE ReceiveFlag(q)
    BY <1>25, <2>1, <2>2 DEF Receive, ReceiveFlag
  <2>3. CASE ReceiveError(q)
    BY <1>25, <2>1, <2>3 DEF Receive, ReceiveError
  <2>4. CASE ReceiveHistory(q)
    BY <1>25, <2>1, <2>4 DEF Receive, ReceiveHistory
  <2>5. CASE ReceiveEmptyHistory(q)
    BY <1>25, <2>1, <2>5 DEF Receive, ReceiveEmptyHistory, TdStates
  <2>6. CASE ReceiveData(q)
    BY <1>25, <2>1, <2>6 DEF Receive, ReceiveData
  <2> QED
    BY <1>25, <2>2, <2>3, <2>4, <2>5, <2>6 DEF Receive
<1>26. CASE UNCHANGED vars
  BY <1>26 DEF vars
<1> QED
  BY <1>1, <1>2, <1>3, <1>4, <1>5, <1>6, <1>7, <1>8, <1>9, <1>10,
     <1>11, <1>12, <1>13, <1>14, <1>15, <1>16, <1>17, <1>18, <1>19, <1>20,
     <1>21, <1>22, <1>23, <1>24, <1>25, <1>26
     DEF Next, User, Gui, Updater, Telegram

\* Every variable keeps to its type, whatever the user, TDLib, the timer and
\* the other devices do.
THEOREM TypeCorrect == Spec => []TypeOK
<1>1. Init => FlagTypes
  BY DEF Init, FlagTypes
<1>2. Init => StateTypes
  BY DEF Init, StateTypes, Actions, GuiStates, Handling, TdStates
<1>3. TypeOK /\ [Next]_vars => TypeOK'
  BY FlagTypesStep, StateTypesStep DEF TypeOK
<1> QED
  BY <1>1, <1>2, <1>3, PTL DEF Spec, TypeOK

-----------------------------------------------------------------------------
(* The request slot.                                                       *)

\* OneOwner, spelled out as the four places where the token can be.
Slot ==
    \/ thread_ready /\ gpc \notin {"write", "signal"} /\ ~action_sent /\ tpc = "wait"
    \/ ~thread_ready /\ gpc \in {"write", "signal"} /\ ~action_sent /\ tpc = "wait"
    \/ ~thread_ready /\ gpc \notin {"write", "signal"} /\ action_sent /\ tpc = "wait"
    \/ ~thread_ready /\ gpc \notin {"write", "signal"} /\ ~action_sent /\ tpc # "wait"

SlotInv == gpc # "crashed" => Slot

\* The request slot is passed on, whatever the results of the requests.
LEMMA SlotInvStep == SlotInv /\ [Next]_vars => SlotInv'
<1> SUFFICES ASSUME SlotInv, [Next]_vars PROVE SlotInv'
  OBVIOUS
<1> USE DEF SlotInv, Slot, gui, updater, telegram, shared, historyVars
<1>1. ASSUME NEW h \in Handlers, StartHandler(h) PROVE SlotInv'
  BY <1>1 DEF StartHandler
<1>2. CASE CloseEvent
  BY <1>2 DEF CloseEvent
<1>3. CASE DismissDialog
  BY <1>3 DEF DismissDialog, ReturnToLoop
<1>4. CASE StartUpdate
  BY <1>4 DEF StartUpdate
<1>5. CASE WaitTelegram
  BY <1>5 DEF WaitTelegram
<1>6. CASE WriteAction
  BY <1>6 DEF WriteAction
<1>7. CASE SendAction
  BY <1>7 DEF SendAction
<1>8. CASE Await
  BY <1>8 DEF Await
<1>9. CASE ConsumeOk
  BY <1>9 DEF ConsumeOk, ShowImages, ReturnToLoop
<1>10. CASE ConsumeError
  BY <1>10 DEF ConsumeError
<1>11. CASE ConsumeSend
  BY <1>11 DEF ConsumeSend, ReturnToLoop
<1>12. CASE ConsumeImage
  BY <1>12 DEF ConsumeImage, ShowImages, ReturnToLoop
<1>13. CASE JoinUpdater
  BY <1>13 DEF JoinUpdater
<1>14. CASE JoinTelegram
  BY <1>14 DEF JoinTelegram
<1>15. CASE LateUpdate
  BY <1>15 DEF LateUpdate
<1>16. CASE Timeout
  BY <1>16 DEF Timeout
<1>17. CASE EmitSignal
  BY <1>17 DEF EmitSignal
<1>18. CASE StopUpdater
  BY <1>18 DEF StopUpdater
<1>19. CASE LogOut
  BY <1>19 DEF LogOut
<1>20. CASE Loop
  BY <1>20 DEF Loop
<1>21. CASE TakeAction
  BY <1>21 DEF TakeAction, FirstStep
<1>22. CASE Advance
  <2>1. tpc # "wait"
    BY <1>22 DEF Advance, Awaited, Kinds, FlagKinds, DataKinds
  <2>2. tpc' # "wait"
    BY <1>22 DEF Advance, Reply, Follows
  <2> QED
    BY <1>22, <2>1, <2>2 DEF Advance
<1>23. CASE UpdateDone
  BY <1>23 DEF UpdateDone, Reply
<1>24. CASE Unwind
  BY <1>24 DEF Unwind
<1>25. ASSUME NEW q \in pending, Receive(q) PROVE SlotInv'
  <2>1. CASE ReceiveFlag(q)
    BY <1>25, <2>1 DEF Receive, ReceiveFlag
  <2>2. CASE ReceiveError(q)
    BY <1>25, <2>2 DEF Receive, ReceiveError
  <2>3. CASE ReceiveHistory(q)
    BY <1>25, <2>3 DEF Receive, ReceiveHistory
  <2>4. CASE ReceiveEmptyHistory(q)
    BY <1>25, <2>4 DEF Receive, ReceiveEmptyHistory
  <2>5. CASE ReceiveData(q)
    BY <1>25, <2>5 DEF Receive, ReceiveData
  <2> QED
    BY <1>25, <2>1, <2>2, <2>3, <2>4, <2>5 DEF Receive
<1>26. CASE UNCHANGED vars
  BY <1>26 DEF vars
<1> QED
  BY <1>1, <1>2, <1>3, <1>4, <1>5, <1>6, <1>7, <1>8, <1>9, <1>10,
     <1>11, <1>12, <1>13, <1>14, <1>15, <1>16, <1>17, <1>18, <1>19, <1>20,
     <1>21, <1>22, <1>23, <1>24, <1>25, <1>26
     DEF Next, User, Gui, Updater, Telegram

\* Slot holds in every state but for a crash of the application.
LEMMA SlotInvariant == Spec => []SlotInv
<1>1. Init => SlotInv
  BY DEF Init, SlotInv, Slot
<1> QED
  BY <1>1, SlotInvStep, PTL DEF Spec

\* The request slot always has exactly one owner.
THEOREM OneOwnerAlways == Spec => []OneOwner
<1>1. ASSUME Slot PROVE \E x \in Owners : Owners = {x}
  <2>1. CASE thread_ready
    <3>1. Owners = {"token"}
      BY <1>1, <2>1 DEF Slot, Owners
    <3> QED
      BY <3>1
  <2>2. CASE gpc \in {"write", "signal"}
    <3>1. Owners = {"gui"}
      BY <1>1, <2>2 DEF Slot, Owners
    <3> QED
      BY <3>1
  <2>3. CASE action_sent
    <3>1. Owners = {"posted"}
      BY <1>1, <2>3 DEF Slot, Owners
    <3> QED
      BY <3>1
  <2>4. CASE tpc # "wait"
    <3>1. Owners = {"telegram"}
      BY <1>1, <2>4 DEF Slot, Owners
    <3> QED
      BY <3>1
  <2> QED
    BY <1>1, <2>1, <2>2, <2>3, <2>4 DEF Slot
<1>2. SlotInv => OneOwner
  BY <1>1 DEF SlotInv, OneOwner
<1> QED
  BY <1>2, SlotInvariant, PTL

\* A request is never overwritten before it has been taken, and never while
\* the Telegram thread may be reading it.
THEOREM RequestStableAlways == Spec => RequestStable
<1>1. SlotInv /\ [Next]_vars => [action' # action => tpc = "wait" /\ ~action_sent]_vars
  <2> SUFFICES ASSUME SlotInv, [Next]_vars, action' # action
               PROVE  tpc = "wait" /\ ~action_sent
    OBVIOUS
  <2>1. WriteAction
    BY DEF Next, User, Gui, Updater, Telegram, StartHandler, CloseEvent,
       DismissDialog, StartUpdate, WaitTelegram, SendAction, Await, ConsumeOk,
       ConsumeError, ConsumeSend, ConsumeImage, JoinUpdater, JoinTelegram,
       LateUpdate, Timeout, EmitSignal, StopUpdater, LogOut, Loop, TakeAction,
       Advance, UpdateDone, Unwind, Receive, vars, shared
  <2> QED
    BY <2>1 DEF WriteAction, SlotInv, Slot
<1> QED
  BY <1>1, SlotInvariant, PTL DEF Spec, RequestStable

-----------------------------------------------------------------------------
(* Request and answer, until a request is posted over an old result.       *)

NoData == \A q \in pending : q.kind \in FlagKinds
OnlyData(k) == \A q \in pending : q.kind \in FlagKinds \/ q = [kind |-> k, req |-> posted]

NoResult == ~ok /\ ~error
Result == ((ok /\ ~error) \/ (~ok /\ error)) /\ answer = posted

\* The Telegram thread does not serve a request, and none of the queries that
\* are left can set a result.
Quiet == nested = 0 /\ tpc \notin Serving /\ NoData

AnsweredSteps == {"history", "previous", "sendMessage", "downloadFile"}

\* Where the service of the posted request may be.
Service ==
    \/ tpc \in {"closeChat", "openChat", "update"} /\ nested = 0 /\ NoData /\ NoResult
    \/ tpc \in AnsweredSteps /\ nested = 0 /\ OnlyData(tpc) /\ NoResult
    \/ tpc = "history" /\ nested = 1 /\ OnlyData("older") /\ NoResult
    \/ tpc \in AnsweredSteps /\ (nested = 0 \/ (nested = 1 /\ tpc = "history"))
           /\ NoData /\ Result
    \/ tpc = "viewMessages" /\ nested = 0 /\ NoData /\ Result

\* The life of a request: posted, being served, replied, being consumed.
Phase ==
    \/ gpc = "crashed" /\ Quiet /\ ~action_sent /\ returned <= served
    \/ gpc = "joinTd" /\ Quiet /\ posted = returned + 1 /\ action = "quit"
           /\ served = IF tpc = "exited" THEN posted ELSE returned
    \/ gpc \notin {"await", "consume", "joinTd", "crashed"} /\ Quiet /\ ~action_sent
           /\ returned = posted /\ served = posted
    \/ gpc = "consume" /\ Quiet /\ ~action_sent /\ Result
           /\ returned = posted /\ served = posted
    \/ gpc = "await" /\ Quiet /\ action_sent /\ action # "quit" /\ NoResult
           /\ posted = returned + 1 /\ served = returned
    \/ gpc = "await" /\ Quiet /\ ~action_sent /\ Result
           /\ posted = returned + 1 /\ served = posted
    \/ gpc = "await" /\ Service /\ ~action_sent
           /\ posted = returned + 1 /\ served = returned

PhaseInv == ~stale => Phase

\* Quiet is kept by a step that leaves the Telegram thread and its queries.
LEMMA QuietStable ==
    ASSUME UNCHANGED <<tpc, nested, pending>> PROVE Quiet' <=> Quiet
BY DEF Quiet, NoData

\* Service is kept by a step that leaves the Telegram thread and the result.
LEMMA ServiceStable ==
    ASSUME UNCHANGED <<tpc, nested, pending, ok, error, answer, posted>>
    PROVE  Service' <=> Service
BY DEF Service, NoData, OnlyData, NoResult, Result

\* A request is served with mutex_ held.
LEMMA ServiceHoldsMutex == Service => tpc \in Serving
BY DEF Service, Serving, Awaited, Kinds, FlagKinds, DataKinds, AnsweredSteps

\* Phase is kept by a step that leaves both threads and the result.
LEMMA PhaseStable ==
    ASSUME UNCHANGED <<gpc, tpc, nested, pending, action, action_sent, ok,
                       error, answer, posted, served, returned>>
    PROVE  Phase' <=> Phase
<1>1. (Quiet' <=> Quiet) /\ (Service' <=> Service)
  BY QuietStable, ServiceStable
<1> QED
  BY <1>1 DEF Phase, Result, NoResult

\* The answer to a query moves the service from one of its steps to the next,
\* and only an answer to the posted request can set a result.
LEMMA ReceiveInService ==
    ASSUME StateTypes, Service, NEW q \in pending, Receive(q)
    PROVE  Service' \/ (Quiet' /\ gpc' = "crashed")
<1>1. CASE ReceiveFlag(q)
  <2>1. /\ UNCHANGED <<tpc, nested, ok, error, answer, posted>>
        /\ pending' \subseteq pending
    BY <1>1 DEF Receive, ReceiveFlag
  <2> QED
    BY <2>1 DEF Service, NoData, OnlyData, NoResult, Result
<1>2. CASE q.kind \notin FlagKinds
  <2>1. ~NoData
    BY <1>2 DEF NoData
  <2>2. PICK k \in {tpc, "older"} :
            /\ OnlyData(k) /\ NoResult /\ q = [kind |-> k, req |-> posted]
            /\ \/ k = tpc /\ tpc \in AnsweredSteps /\ nested = 0
               \/ k = "older" /\ tpc = "history" /\ nested = 1
    BY <1>2, <2>1 DEF Service, OnlyData
  <2>3. q.kind = k /\ q.req = posted
    BY <2>2
  <2>4. \A p \in pending \ {q} : p.kind \in FlagKinds
    BY <2>2 DEF OnlyData
  <2>5. CASE ReceiveError(q)
    <3>1. NoData' /\ Result'
      BY <2>2, <2>3, <2>4, <2>5 DEF Receive, ReceiveError, NoData, Result, NoResult
    <3> QED
      BY <2>2, <2>5, <3>1 DEF ReceiveError, Service, AnsweredSteps
  <2>6. CASE ReceiveHistory(q)
    <3>1. k = tpc /\ tpc = "history" /\ nested = 0
      BY <2>2, <2>3, <2>6 DEF ReceiveHistory
    <3>2. OnlyData("older")' /\ NoResult'
      BY <2>2, <2>3, <2>4, <2>6 DEF Receive, ReceiveHistory, OnlyData, NoResult
    <3> QED
      BY <2>6, <3>1, <3>2 DEF ReceiveHistory, Service
  <2>7. CASE ReceiveEmptyHistory(q)
    <3>1. NoData'
      BY <2>4, <2>7 DEF ReceiveEmptyHistory, NoData
    <3> QED
      BY <2>7, <3>1 DEF ReceiveEmptyHistory, Quiet, Serving, Awaited, Kinds,
                        FlagKinds, DataKinds
  <2>8. CASE ReceiveData(q)
    <3>1. NoData' /\ Result'
      BY <2>2, <2>3, <2>4, <2>8 DEF Receive, ReceiveData, NoData, Result, NoResult
    <3> QED
      BY <2>2, <2>8, <3>1 DEF ReceiveData, Service, AnsweredSteps
  <2> QED
    BY <1>2, <2>5, <2>6, <2>7, <2>8 DEF Receive, ReceiveFlag
<1> QED
  BY <1>1, <1>2 DEF Receive, ReceiveError, ReceiveHistory, ReceiveEmptyHistory,
                    ReceiveData, FlagKinds, DataKinds

\* PhaseInv is inductive: each action takes the request to its next phase.
LEMMA PhaseInvStep ==
    StateTypes /\ SlotInv /\ PhaseInv /\ [Next]_vars => PhaseInv'
<1> SUFFICES ASSUME StateTypes, SlotInv, PhaseInv, [Next]_vars, ~stale'
             PROVE  Phase'
  BY DEF PhaseInv
<1>0. posted \in Nat /\ served \in Nat /\ returned \in Nat
  BY DEF StateTypes
<1> USE DEF Phase, gui, updater, telegram, shared, historyVars
<1>1. ASSUME NEW h \in Handlers, StartHandler(h) PROVE Phase'
  <2>1. ~stale /\ Phase
    BY <1>1 DEF StartHandler, PhaseInv
  <2>2. Quiet' <=> Quiet
    BY <1>1, QuietStable DEF StartHandler
  <2> QED
    BY <1>1, <2>1, <2>2 DEF StartHandler
<1>2. CASE CloseEvent
  <2>1. ~stale /\ Phase
    BY <1>2 DEF CloseEvent, PhaseInv
  <2>2. Quiet' <=> Quiet
    BY <1>2, QuietStable DEF CloseEvent
  <2> QED
    BY <1>2, <2>1, <2>2 DEF CloseEvent
<1>3. CASE DismissDialog
  <2>1. ~stale /\ Phase
    BY <1>3 DEF DismissDialog, PhaseInv
  <2>2. Quiet' <=> Quiet
    BY <1>3, QuietStable DEF DismissDialog
  <2> QED
    BY <1>3, <2>1, <2>2 DEF DismissDialog, ReturnToLoop
<1>4. CASE StartUpdate
  <2>1. ~stale /\ Phase
    BY <1>4 DEF StartUpdate, PhaseInv
  <2>2. Quiet' <=> Quiet
    BY <1>4, QuietStable DEF StartUpdate
  <2> QED
    BY <1>4, <2>1, <2>2 DEF StartUpdate
<1>5. CASE WaitTelegram
  <2>1. ~stale /\ Phase
    BY <1>5 DEF WaitTelegram, PhaseInv
  <2>2. Quiet' <=> Quiet
    BY <1>5, QuietStable DEF WaitTelegram
  <2> QED
    BY <1>5, <2>1, <2>2 DEF WaitTelegram
<1>6. CASE WriteAction
  <2>1. ~stale /\ Phase
    BY <1>6 DEF WriteAction, PhaseInv
  <2>2. Quiet' <=> Quiet
    BY <1>6, QuietStable DEF WriteAction
  <2> QED
    BY <1>6, <2>1, <2>2 DEF WriteAction
<1>7. CASE SendAction
  <2>1. ~stale /\ Phase
    BY <1>7 DEF SendAction, PhaseInv
  <2>2. Quiet' <=> Quiet
    BY <1>7, QuietStable DEF SendAction
  <2> QED
    BY <1>0, <1>7, <2>1, <2>2 DEF SendAction, NoResult, SlotInv, Slot
<1>8. CASE Await
  <2>1. ~stale /\ Phase
    BY <1>8 DEF Await, PhaseInv
  <2>2. Quiet' <=> Quiet
    BY <1>8, QuietStable DEF Await
  <2> QED
    BY <1>0, <1>8, <2>1, <2>2, ServiceHoldsMutex DEF Await, Result, NoResult, MutexHeld
<1>9. CASE ConsumeOk
  <2>1. ~stale /\ Phase
    BY <1>9 DEF ConsumeOk, PhaseInv
  <2>2. Quiet' <=> Quiet
    BY <1>9, QuietStable DEF ConsumeOk
  <2> QED
    BY <1>9, <2>1, <2>2 DEF ConsumeOk, ShowImages, ReturnToLoop
<1>10. CASE ConsumeError
  <2>1. ~stale /\ Phase
    BY <1>10 DEF ConsumeError, PhaseInv
  <2>2. Quiet' <=> Quiet
    BY <1>10, QuietStable DEF ConsumeError
  <2> QED
    BY <1>10, <2>1, <2>2 DEF ConsumeError
<1>11. CASE ConsumeSend
  <2>1. ~stale /\ Phase
    BY <1>11 DEF ConsumeSend, PhaseInv
  <2>2. Quiet' <=> Quiet
    BY <1>11, QuietStable DEF ConsumeSend
  <2> QED
    BY <1>11, <2>1, <2>2 DEF ConsumeSend, ReturnToLoop
<1>12. CASE ConsumeImage
  <2>1. ~stale /\ Phase
    BY <1>12 DEF ConsumeImage, PhaseInv
  <2>2. Quiet' <=> Quiet
    BY <1>12, QuietStable DEF ConsumeImage
  <2> QED
    BY <1>12, <2>1, <2>2 DEF ConsumeImage, ShowImages, ReturnToLoop
<1>13. CASE JoinUpdater
  <2>1. ~stale /\ Phase
    BY <1>13 DEF JoinUpdater, PhaseInv
  <2>2. Quiet' <=> Quiet
    BY <1>13, QuietStable DEF JoinUpdater
  <2> QED
    BY <1>13, <2>1, <2>2 DEF JoinUpdater
<1>14. CASE JoinTelegram
  <2>1. ~stale /\ Phase
    BY <1>14 DEF JoinTelegram, PhaseInv
  <2>2. Quiet' <=> Quiet
    BY <1>14, QuietStable DEF JoinTelegram
  <2> QED
    BY <1>0, <1>14, <2>1, <2>2 DEF JoinTelegram, SlotInv, Slot
<1>15. CASE LateUpdate
  <2>1. ~stale /\ Phase
    BY <1>15 DEF LateUpdate, PhaseInv
  <2>2. Quiet' <=> Quiet
    BY <1>15, QuietStable DEF LateUpdate
  <2> QED
    BY <1>15, <2>1, <2>2 DEF LateUpdate
<1>16. CASE Timeout
  BY <1>16, PhaseStable DEF Timeout, PhaseInv
<1>17. CASE EmitSignal
  BY <1>17, PhaseStable DEF EmitSignal, PhaseInv
<1>18. CASE StopUpdater
  BY <1>18, PhaseStable DEF StopUpdater, PhaseInv
<1>19. CASE LogOut
  BY <1>19, PhaseStable DEF LogOut, PhaseInv
<1>20. CASE Loop
  <2>1. Phase /\ tpc = "loop" /\ tpc \notin Serving
    BY <1>20 DEF Loop, PhaseInv, Serving, Awaited, Kinds, FlagKinds, DataKinds
  <2>2. tpc' \in {"wait", "relogin"} /\ tpc' \notin Serving
    BY <1>20 DEF Loop, Serving, Awaited, Kinds, FlagKinds, DataKinds
  <2>3. Quiet => Quiet'
    BY <1>20, <2>2 DEF Loop, Quiet, NoData
  <2>4. ~Service
    BY <2>1, ServiceHoldsMutex
  <2>5. (Result' <=> Result) /\ (NoResult' <=> NoResult)
    BY <1>20 DEF Loop, Result, NoResult
  <2> QED
    BY <1>20, <2>1, <2>2, <2>3, <2>4, <2>5 DEF Loop
<1>21. CASE TakeAction
  <2>1. Phase /\ tpc = "wait" /\ ~Service
    BY <1>21, ServiceHoldsMutex DEF TakeAction, PhaseInv, Serving, Awaited,
       Kinds, FlagKinds, DataKinds
  <2>2. CASE ~action_sent
    BY <1>21, <2>1, <2>2, PhaseStable DEF TakeAction
  <2>3. CASE action_sent /\ gpc = "joinTd"
    <3>1. tpc' = "exited" /\ served' = served + 1 /\ pending' = pending
      BY <1>21, <2>1, <2>3 DEF TakeAction, FirstStep, Kinds, FlagKinds, DataKinds
    <3>2. Quiet'
      BY <1>21, <2>1, <2>3, <3>1 DEF TakeAction, Quiet, NoData, Serving,
         Awaited, Kinds, FlagKinds, DataKinds
    <3> QED
      BY <1>0, <1>21, <2>1, <2>3, <3>1, <3>2 DEF TakeAction
  <2>4. CASE action_sent /\ gpc = "await"
    <3> DEFINE first == FirstStep(action)
    <3>1. /\ Quiet /\ action # "quit" /\ NoResult
          /\ posted = served + 1 /\ served = returned
      BY <2>1, <2>4
    <3>2. first \in {"closeChat", "openChat", "update", "previous",
                     "sendMessage", "downloadFile"}
      BY <3>1 DEF FirstStep, StateTypes, Actions
    <3>3. /\ tpc' = first /\ served' = served /\ action_sent' = FALSE
          /\ pending' = pending \union
                 (IF first \in Kinds THEN {[kind |-> first, req |-> posted]} ELSE {})
      BY <1>21, <2>4, <3>1, <3>2 DEF TakeAction, Query
    <3>4. CASE first \in {"closeChat", "openChat", "update"}
      <4>1. NoData'
        BY <3>1, <3>3, <3>4 DEF Quiet, NoData, Kinds, FlagKinds, DataKinds
      <4> QED
        BY <1>21, <2>4, <3>1, <3>3, <3>4, <4>1 DEF TakeAction, Service, Quiet, NoResult
    <3>5. CASE first \in {"previous", "sendMessage", "downloadFile"}
      <4>1. posted' = posted /\ NoData /\ nested' = 0 /\ NoResult'
        BY <1>21, <3>1 DEF TakeAction, Quiet, NoResult
      <4>2. pending' = pending \union {[kind |-> tpc', req |-> posted']}
        BY <3>3, <3>5, <4>1 DEF Kinds, DataKinds
      <4>3. OnlyData(tpc)' /\ tpc' \in AnsweredSteps
        BY <3>3, <3>5, <4>1, <4>2 DEF NoData, OnlyData, AnsweredSteps
      <4>4. Service'
        BY <4>1, <4>3 DEF Service
      <4> QED
        BY <1>21, <2>4, <3>1, <3>3, <4>4 DEF TakeAction
    <3> QED
      BY <3>2, <3>4, <3>5
  <2> QED
    BY <2>1, <2>2, <2>3, <2>4
<1>22. CASE Advance
  <2>1. Phase /\ tpc \in Serving /\ nested = 0 /\ (tpc \notin FlagKinds => ok \/ error)
    BY <1>22 DEF Advance, Answered, PhaseInv, Serving
  <2>2. gpc = "await" /\ Service /\ ~action_sent /\ posted = returned + 1
           /\ served = returned
    BY <2>1 DEF Quiet
  <2>3. CASE tpc = "closeChat"
    <3>1. NoData /\ NoResult
      BY <2>2, <2>3 DEF Service, AnsweredSteps
    <3>2. /\ tpc' = "openChat" /\ served' = served
          /\ pending' = pending \union {[kind |-> "openChat", req |-> served + 1]}
      BY <1>22, <2>3 DEF Advance, Follows, Query
    <3>3. NoData' /\ NoResult'
      BY <1>22, <3>1, <3>2 DEF Advance, NoData, NoResult, FlagKinds
    <3>4. Service'
      BY <1>22, <2>1, <3>2, <3>3 DEF Advance, Service
    <3> QED
      BY <1>22, <2>2, <3>2, <3>4 DEF Advance
  <2>4. CASE tpc = "openChat"
    <3>1. NoData /\ NoResult
      BY <2>2, <2>4 DEF Service, AnsweredSteps
    <3>2. /\ tpc' = "history" /\ served' = served
          /\ pending' = pending \union {[kind |-> "history", req |-> served + 1]}
      BY <1>22, <2>4 DEF Advance, Follows, Query
    <3>3. OnlyData("history")' /\ NoResult'
      BY <1>22, <2>2, <3>1, <3>2 DEF Advance, NoData, OnlyData, NoResult
    <3>4. Service'
      BY <1>22, <2>1, <3>2, <3>3 DEF Advance, Service, AnsweredSteps
    <3> QED
      BY <1>22, <2>2, <3>2, <3>4 DEF Advance
  <2>5. CASE tpc \in {"history", "previous"}
    <3>1. NoData /\ Result
      BY <2>1, <2>2, <2>5 DEF Service, AnsweredSteps, NoResult, FlagKinds
    <3>2. /\ tpc' = "viewMessages" /\ served' = served
          /\ pending' = pending \union {[kind |-> "viewMessages", req |-> served + 1]}
      BY <1>22, <2>5 DEF Advance, Follows, Query
    <3>3. NoData' /\ Result'
      BY <1>22, <3>1, <3>2 DEF Advance, NoData, Result, FlagKinds
    <3>4. Service'
      BY <1>22, <2>1, <3>2, <3>3 DEF Advance, Service
    <3> QED
      BY <1>22, <2>2, <3>2, <3>4 DEF Advance
  <2>6. CASE tpc \in {"sendMessage", "downloadFile", "viewMessages"}
    <3>1. NoData /\ Result
      BY <2>1, <2>2, <2>6 DEF Service, AnsweredSteps, NoResult, FlagKinds
    <3>2. tpc' = "loop" /\ served' = served + 1 /\ pending' = pending
      BY <1>22, <2>6 DEF Advance, Follows, Reply
    <3>3. Quiet' /\ Result'
      BY <1>22, <2>1, <3>1, <3>2 DEF Advance, Quiet, NoData, Result, Serving,
         Awaited, Kinds, FlagKinds, DataKinds
    <3> QED
      BY <1>0, <1>22, <2>2, <3>2, <3>3 DEF Advance
  <2>7. tpc \in {"closeChat", "openChat", "history", "previous",
                 "sendMessage", "downloadFile", "viewMessages"}
    BY <1>22 DEF Advance, Awaited, Kinds, FlagKinds, DataKinds
  <2> QED
    BY <2>3, <2>4, <2>5, <2>6, <2>7
<1>23. CASE UpdateDone
  <2>1. Phase /\ tpc = "update" /\ tpc \in Serving
    BY <1>23 DEF UpdateDone, PhaseInv, Serving
  <2>2. gpc = "await" /\ Service /\ ~action_sent /\ posted = returned + 1
           /\ served = returned
    BY <2>1 DEF Quiet
  <2>3. NoData /\ NoResult
    BY <2>1, <2>2 DEF Service, AnsweredSteps
  <2>4. Quiet' /\ Result'
    BY <1>23, <2>2, <2>3 DEF UpdateDone, Reply, Quiet, NoData, Result, NoResult,
       Serving, Awaited, Kinds, FlagKinds, DataKinds
  <2> QED
    BY <1>0, <1>23, <2>2, <2>4 DEF UpdateDone, Reply
<1>24. CASE Unwind
  <2>1. Phase /\ ~Quiet /\ ~NoResult
    BY <1>24 DEF Unwind, PhaseInv, Quiet, NoResult
  <2>2. gpc = "await" /\ Service /\ ~action_sent /\ posted = returned + 1
           /\ served = returned
    BY <2>1
  <2>3. tpc = "history" /\ nested = 1 /\ NoData /\ Result
    BY <1>24, <2>1, <2>2 DEF Unwind, Service
  <2>4. NoData' /\ Result' /\ nested' = 0
    BY <1>24, <2>3 DEF Unwind, NoData, Result
  <2>5. Service'
    BY <1>24, <2>3, <2>4 DEF Unwind, Service, AnsweredSteps
  <2> QED
    BY <1>24, <2>2, <2>5 DEF Unwind
<1>25. ASSUME NEW q \in pending, Receive(q) PROVE Phase'
  <2>1. Phase /\ ~Quiet
    BY <1>25 DEF Receive, Receiving, PhaseInv, Quiet, Serving
  <2>2. gpc = "await" /\ Service /\ ~action_sent /\ posted = returned + 1
           /\ served = returned
    BY <2>1
  <2>3. /\ UNCHANGED <<action_sent, posted, served, returned>>
        /\ gpc' = gpc \/ gpc' = "crashed"
    BY <1>25 DEF Receive, ReceiveFlag, ReceiveError, ReceiveHistory,
                 ReceiveEmptyHistory, ReceiveData
  <2>4. Service' \/ (Quiet' /\ gpc' = "crashed")
    BY <1>25, <2>2, ReceiveInService
  <2>5. gpc' = "crashed" => Quiet'
    <3>1. CASE gpc' = "crashed"
      <4>1. ReceiveEmptyHistory(q)
        BY <1>25, <2>2, <3>1 DEF Receive, ReceiveFlag, ReceiveError,
           ReceiveHistory, ReceiveData
      <4>2. tpc' = "crashed"
        BY <4>1 DEF ReceiveEmptyHistory
      <4>3. ~Service'
        BY <4>2 DEF Service, AnsweredSteps
      <4> QED
        BY <2>4, <4>3
    <3> QED
      BY <3>1
  <2> QED
    BY <1>0, <2>2, <2>3, <2>4, <2>5
<1>26. CASE UNCHANGED vars
  BY <1>26, PhaseStable DEF vars, PhaseInv
<1> QED
  BY <1>1, <1>2, <1>3, <1>4, <1>5, <1>6, <1>7, <1>8, <1>9, <1>10,
     <1>11, <1>12, <1>13, <1>14, <1>15, <1>16, <1>17, <1>18, <1>19, <1>20,
     <1>21, <1>22, <1>23, <1>24, <1>25, <1>26
     DEF Next, User, Gui, Updater, Telegram

\* The three invariants together.
LEMMA SafetyInvariant == Spec => [](StateTypes /\ SlotInv /\ PhaseInv)
<1>1. Init => StateTypes /\ SlotInv /\ PhaseInv
  <2>1. Init => StateTypes
    BY DEF Init, StateTypes, Actions, GuiStates, Handling, TdStates
  <2>2. Init => SlotInv
    BY DEF Init, SlotInv, Slot
  <2>3. Init => Quiet
    BY DEF Init, Quiet, NoData, Serving, Awaited, Kinds, FlagKinds, DataKinds
  <2>4. Init => Phase
    BY <2>3 DEF Init, Phase
  <2> QED
    BY <2>1, <2>2, <2>4 DEF PhaseInv
<1>2. StateTypes /\ SlotInv /\ PhaseInv /\ [Next]_vars
          => (StateTypes /\ SlotInv /\ PhaseInv)'
  BY StateTypesStep, SlotInvStep, PhaseInvStep
<1> QED
  BY <1>1, <1>2, PTL DEF Spec

\* As long as no request was posted over an old result, the GUI thread sleeps
\* while the Telegram thread works on the shared data.
THEOREM ServedAloneAlways == Spec => []ServedAlone
<1>1. PhaseInv => ServedAlone
  BY DEF PhaseInv, Phase, Quiet, ServedAlone, MutexHeld
<1> QED
  BY <1>1, SafetyInvariant, PTL

\* As long as no request was posted over an old result, a handler goes on with
\* one result, and it is that of its own request.
THEOREM OwnAnswerAlways == Spec => []OwnAnswer
<1>1. FlagTypes /\ PhaseInv => OwnAnswer
  BY DEF FlagTypes, PhaseInv, Phase, Result, OwnAnswer
<1>2. TypeOK => FlagTypes
  BY DEF TypeOK
<1> QED
  BY <1>1, <1>2, SafetyInvariant, TypeCorrect, PTL

-----------------------------------------------------------------------------
(* When the handlers do reset their results.                               *)

\* The user sends no text, and errors and ticks do not meet.
ResettingUse == "send" \notin Handlers /\ ("error" \notin Answers \/ MaxTicks = 0)

ResetInv ==
    /\ ~stale
    /\ suspended = "none" /\ handler # "send"
    /\ gpc = "idle" => handler = "none"
    /\ gpc \notin {"await", "consume", "dialog", "crashed"} => NoResult
    /\ gpc = "dialog" => ~ok
    /\ "error" \notin Answers => ~error /\ gpc # "dialog"
    /\ MaxTicks = 0 => signals = 0 /\ upc # "emit" /\ handler # "update"

\* Without texts, and without ticks that meet an error, results are reset.
LEMMA ResetInvStep ==
    ASSUME ResettingUse, StateTypes, PhaseInv, ResetInv, [Next]_vars
    PROVE  ResetInv'
<1> USE DEF ResetInv, NoResult, gui, updater, telegram, shared, historyVars
<1>0. Phase
  BY DEF PhaseInv
<1>1. MutexHeld => gpc = "await"
  BY <1>0 DEF Phase, Quiet, MutexHeld
<1>2. gpc = "consume" => Result
  BY <1>0 DEF Phase
<1>3. ASSUME NEW h \in Handlers, StartHandler(h) PROVE ResetInv'
  BY <1>3, ConstantsAssumption DEF StartHandler, ResettingUse, UserHandlers
<1>4. CASE CloseEvent
  BY <1>4 DEF CloseEvent
<1>5. CASE DismissDialog
  BY <1>5 DEF DismissDialog, ReturnToLoop
<1>6. CASE StartUpdate
  BY <1>6 DEF StartUpdate, ResettingUse
<1>7. CASE WaitTelegram
  BY <1>7 DEF WaitTelegram
<1>8. CASE WriteAction
  BY <1>8 DEF WriteAction
<1>9. CASE SendAction
  BY <1>9 DEF SendAction
<1>10. CASE Await
  BY <1>10 DEF Await
<1>11. CASE ConsumeOk
  BY <1>11, <1>2 DEF ConsumeOk, ResettingUse, Result, ShowImages, ReturnToLoop
<1>12. CASE ConsumeError
  BY <1>12, <1>2 DEF ConsumeError, Result
<1>13. CASE ConsumeSend
  BY <1>13 DEF ConsumeSend
<1>14. CASE ConsumeImage
  BY <1>14, <1>2 DEF ConsumeImage, Result, ShowImages, ReturnToLoop
<1>15. CASE JoinUpdater
  BY <1>15 DEF JoinUpdater
<1>16. CASE JoinTelegram
  BY <1>16 DEF JoinTelegram
<1>17. CASE LateUpdate
  BY <1>17 DEF LateUpdate, StateTypes
<1>18. CASE Timeout
  BY <1>18 DEF Timeout, StateTypes
<1>19. CASE EmitSignal
  BY <1>19 DEF EmitSignal
<1>20. CASE StopUpdater
  BY <1>20 DEF StopUpdater
<1>21. CASE LogOut
  BY <1>21 DEF LogOut
<1>22. CASE Loop
  BY <1>22 DEF Loop
<1>23. CASE TakeAction
  BY <1>23 DEF TakeAction
<1>24. CASE Advance
  BY <1>24 DEF Advance, Reply
<1>25. CASE UpdateDone
  BY <1>25, <1>1 DEF UpdateDone, MutexHeld, Serving, Reply
<1>26. CASE Unwind
  BY <1>26 DEF Unwind
<1>27. ASSUME NEW q \in pending, Receive(q) PROVE ResetInv'
  <2>1. gpc = "await"
    BY <1>27, <1>0 DEF Receive, Receiving, Phase, Quiet, Serving
  <2>2. /\ gpc' \in {"await", "crashed"} /\ ("error" \notin Answers => error' = error)
        /\ UNCHANGED <<stale, suspended, handler, updater>>
    BY <1>27, <2>1 DEF Receive, ReceiveFlag, ReceiveError, ReceiveHistory,
                   ReceiveEmptyHistory, ReceiveData
  <2> QED
    BY <2>1, <2>2
<1>28. CASE UNCHANGED vars
  BY <1>28 DEF vars
<1> QED
  BY <1>3, <1>4, <1>5, <1>6, <1>7, <1>8, <1>9, <1>10, <1>11, <1>12,
     <1>13, <1>14, <1>15, <1>16, <1>17, <1>18, <1>19, <1>20, <1>21, <1>22,
     <1>23, <1>24, <1>25, <1>26, <1>27, <1>28
     DEF Next, User, Gui, Updater, Telegram

\* If no text is sent and either TDLib answers no error or no update falls due
\* while an error dialog is open, no request is ever posted over an old result.
THEOREM NeverStaleIfReset ==
    ASSUME ResettingUse PROVE Spec => []NeverStale
<1>1. Init => ResetInv
  BY DEF Init, ResetInv, NoResult
<1>2. StateTypes /\ PhaseInv /\ ResetInv /\ [Next]_vars => ResetInv'
  BY ResetInvStep
<1>3. ResetInv => NeverStale
  BY DEF ResetInv, NeverStale
<1> QED
  BY <1>1, <1>2, <1>3, SafetyInvariant, PTL DEF Spec

\* Then the protocol implements request/reply: each step posts a request,
\* serves it or returns to its caller, in that order.
THEOREM RefinesRequestReply ==
    ASSUME ResettingUse PROVE Spec => RR!Spec
<1>1. Init => RR!Init
  BY DEF Init, RR!Init
<1>2. StateTypes /\ SlotInv /\ PhaseInv /\ NeverStale /\ [Next]_vars
          => [RR!Next]_(RR!vars)
  <2> SUFFICES ASSUME StateTypes, SlotInv, PhaseInv, NeverStale, [Next]_vars
               PROVE  RR!Next \/ UNCHANGED RR!vars
    OBVIOUS
  <2> USE DEF RR!vars, RR!Next, RR!Post, RR!Serve, RR!Return, historyVars
  <2>0. /\ Phase /\ posted \in Nat /\ served \in Nat /\ returned \in Nat
    BY DEF PhaseInv, NeverStale, StateTypes
  <2>1. MutexHeld => gpc = "await" /\ posted = served + 1
    BY <2>0 DEF Phase, Quiet, MutexHeld
  <2>2. CASE SendAction
    BY <2>0, <2>2 DEF SendAction, Phase
  <2>3. CASE Await
    <3>1. Phase /\ ~Service
      BY <2>0, <2>3, ServiceHoldsMutex DEF Await, MutexHeld
    <3>2. ok \/ error => gpc = "await" /\ posted = returned + 1 /\ served = posted
      BY <2>3, <3>1 DEF Await, Phase, NoResult
    <3> QED
      BY <2>0, <2>3, <3>2 DEF Await
  <2>4. CASE JoinTelegram
    BY <2>0, <2>4 DEF JoinTelegram, Phase
  <2>5. CASE TakeAction
    <3>1. CASE action_sent /\ FirstStep(action) = "exited"
      <4>1. tpc = "wait"
        BY <2>5 DEF TakeAction
      <4>2. gpc = "joinTd" \/ gpc = "await"
        BY <2>0, <3>1 DEF Phase
      <4>3. posted = served + 1
        BY <2>0, <3>1, <4>1, <4>2 DEF Phase, Result, NoResult
      <4> QED
        BY <2>0, <2>5, <3>1, <4>3 DEF TakeAction
    <3>2. CASE ~(action_sent /\ FirstStep(action) = "exited")
      BY <2>5, <3>2 DEF TakeAction
    <3> QED
      BY <3>1, <3>2
  <2>6. CASE Advance
    <3>1. posted = served + 1
      BY <2>1, <2>6 DEF Advance, MutexHeld, Serving
    <3> QED
      BY <2>0, <2>6, <3>1 DEF Advance, Reply
  <2>7. CASE UpdateDone
    <3>1. posted = served + 1
      BY <2>1, <2>7 DEF UpdateDone, MutexHeld, Serving
    <3> QED
      BY <2>0, <2>7, <3>1 DEF UpdateDone, Reply
  <2>8. CASE UNCHANGED <<posted, served, returned>>
    BY <2>8
  <2>9. \/ SendAction \/ Await \/ JoinTelegram \/ TakeAction \/ Advance
        \/ UpdateDone \/ UNCHANGED <<posted, served, returned>>
    BY DEF Next, User, Gui, Updater, Telegram, StartHandler, CloseEvent,
       DismissDialog, StartUpdate, WaitTelegram, WriteAction, ConsumeOk,
       ConsumeError, ConsumeSend, ConsumeImage, JoinUpdater, LateUpdate,
       Timeout, EmitSignal, StopUpdater, LogOut, Loop, Unwind, Receive, vars
  <2> QED
    BY <2>2, <2>3, <2>4, <2>5, <2>6, <2>7, <2>8, <2>9
<1> QED
  BY <1>1, <1>2, SafetyInvariant, NeverStaleIfReset, PTL DEF Spec, RR!Spec

-----------------------------------------------------------------------------
(* The message lists.  The list messages holds what is on the screen and,  *)
(* behind it, what std::remove_if leaves: null pointers and duplicates.    *)
(* The invariant relates both to the history of the selected chat and to   *)
(* the updates that TDLib has not delivered, which are newer than all of   *)
(* them: that is why a message is never shown twice, nor before an older   *)
(* one.                                                                    *)

\* A set of numbers that is not empty has a least one.
LEMMA LeastNumber ==
  ASSUME NEW T \in SUBSET Nat, T # {}
  PROVE  \E m \in T : \A n \in T : m <= n
<1> DEFINE R == OpToRel(<, Nat)
<1>1. IsWellFoundedOn(R, Nat)
  BY NatLessThanWellFounded
<1>2. PICK m \in T : \A n \in T : ~(<<n, m>> \in R)
  <2> HIDE DEF R
  <2> QED BY <1>1, WFMin
<1>3. \A n \in T : ~(n < m)
  BY <1>2 DEF OpToRel
<1> QED BY <1>3

\* And one that has a bound has a greatest one, which is what Max is.
LEMMA MaxFacts ==
  ASSUME NEW n \in Nat, NEW T \in SUBSET (0 .. n), T # {}
  PROVE  Max(T) \in T /\ \A x \in T : x <= Max(T)
<1> DEFINE D == {n - x : x \in T}
<1>1. D \in SUBSET Nat /\ D # {}
  <2>1. \A x \in T : n - x \in Nat
    OBVIOUS
  <2>2. PICK x : x \in T
    OBVIOUS
  <2> QED BY <2>1, <2>2
<1>2. PICK d \in D : \A e \in D : d <= e
  <2> HIDE DEF D
  <2> QED BY <1>1, LeastNumber
<1>3. PICK m \in T : d = n - m
  BY <1>2
<1>4. \A x \in T : n - m <= n - x
  BY <1>2, <1>3
<1>5. \A x \in T : m >= x
  BY <1>4
<1>6. Max(T) \in T /\ \A x \in T : Max(T) >= x
  BY <1>5 DEF Max
<1> QED BY <1>6

\* Dates are numbers that grow with the messages.
LEMMA DateFacts ==
  /\ \A m \in Nat : Date(m) \in Nat
  /\ \A m, n \in Nat : m <= n => Date(m) <= Date(n)
BY DEF Date

-----------------------------------------------------------------------------
(* Lists.                                                                  *)

Distinct(s) == \A i, j \in 1 .. Len(s) : s[i] = s[j] => i = j
Rising(s) == \A i, j \in 1 .. Len(s) : i < j => Date(s[i]) <= Date(s[j])
Falling(s) == \A i, j \in 1 .. Len(s) : i < j => Date(s[j]) <= Date(s[i])

\* The members of a list are what stands at its positions.
LEMMA ToSetFacts ==
  ASSUME NEW A, NEW s \in Seq(A)
  PROVE  /\ ToSet(s) \subseteq A
         /\ \A x : x \in ToSet(s) <=> \E i \in 1 .. Len(s) : s[i] = x
BY DEF ToSet

\* Two lists, one after the other.
LEMMA ConcatFacts ==
  ASSUME NEW A, NEW s \in Seq(A), NEW t \in Seq(A)
  PROVE  /\ s \o t \in Seq(A) /\ Len(s \o t) = Len(s) + Len(t)
         /\ \A i \in 1 .. Len(s) + Len(t) : (s \o t)[i] = IF i <= Len(s) THEN s[i] ELSE t[i - Len(s)]
         /\ ToSet(s \o t) = ToSet(s) \union ToSet(t)
<1> DEFINE r == s \o t
<1>1. /\ r \in Seq(A) /\ Len(r) = Len(s) + Len(t)
      /\ \A i \in 1 .. Len(s) + Len(t) : r[i] = IF i <= Len(s) THEN s[i] ELSE t[i - Len(s)]
  OBVIOUS
<1> HIDE DEF r
<1>2. Len(s) \in Nat /\ Len(t) \in Nat
  OBVIOUS
<1>3. ASSUME NEW x \in ToSet(r) PROVE x \in ToSet(s) \union ToSet(t)
  <2>1. PICK i \in 1 .. Len(r) : r[i] = x
    BY <1>1, ToSetFacts
  <2>2. CASE i <= Len(s)
    BY <1>1, <1>2, <2>1, <2>2, ToSetFacts
  <2>3. CASE ~(i <= Len(s))
    <3>1. i - Len(s) \in 1 .. Len(t) /\ t[i - Len(s)] = x
      BY <1>1, <1>2, <2>1, <2>3
    <3> QED BY <3>1, ToSetFacts
  <2> QED BY <2>2, <2>3
<1>4. ASSUME NEW x \in ToSet(s) PROVE x \in ToSet(r)
  <2>1. PICK i \in 1 .. Len(s) : s[i] = x
    BY ToSetFacts
  <2>2. i \in 1 .. Len(r) /\ r[i] = x
    BY <1>1, <1>2, <2>1
  <2> QED BY <1>1, <2>2, ToSetFacts
<1>5. ASSUME NEW x \in ToSet(t) PROVE x \in ToSet(r)
  <2>1. PICK i \in 1 .. Len(t) : t[i] = x
    BY ToSetFacts
  <2> DEFINE j == Len(s) + i
  <2>2. j \in 1 .. Len(s) + Len(t) /\ ~(j <= Len(s)) /\ j - Len(s) = i
    BY <1>2
  <2> HIDE DEF j
  <2>3. j \in 1 .. Len(r) /\ r[j] = x
    BY <1>1, <2>1, <2>2
  <2> QED BY <1>1, <2>3, ToSetFacts
<1> QED BY <1>1, <1>3, <1>4, <1>5 DEF r

\* Two lists in order with nothing in common, the first not later than the second.
LEMMA ConcatOrder ==
  ASSUME NEW s \in Seq(Nat), NEW t \in Seq(Nat), Distinct(s), Distinct(t), Rising(s), Rising(t),
         \A x \in ToSet(s), y \in ToSet(t) : x # y /\ Date(x) <= Date(y)
  PROVE  Distinct(s \o t) /\ Rising(s \o t)
<1> DEFINE r == s \o t
<1>1. /\ Len(r) = Len(s) + Len(t)
      /\ \A i \in 1 .. Len(r) : r[i] = IF i <= Len(s) THEN s[i] ELSE t[i - Len(s)]
      /\ Len(s) \in Nat /\ Len(t) \in Nat
  BY ConcatFacts
<1> HIDE DEF r
<1>2. ASSUME NEW i \in 1 .. Len(r), NEW j \in 1 .. Len(r), i < j
      PROVE  r[i] # r[j] /\ Date(r[i]) <= Date(r[j])
  <2>1. CASE j <= Len(s)
    <3>1. i \in 1 .. Len(s) /\ j \in 1 .. Len(s)
      BY <1>1, <1>2, <2>1
    <3>2. r[i] = s[i] /\ r[j] = s[j]
      BY <1>1, <3>1
    <3> QED BY <1>2, <3>1, <3>2 DEF Distinct, Rising
  <2>2. CASE ~(j <= Len(s)) /\ i <= Len(s)
    <3>1. /\ i \in 1 .. Len(s) /\ j - Len(s) \in 1 .. Len(t)
          /\ r[i] = s[i] /\ r[j] = t[j - Len(s)]
      BY <1>1, <2>2
    <3> QED BY <3>1, ToSetFacts
  <2>3. CASE ~(i <= Len(s))
    <3>1. /\ i - Len(s) \in 1 .. Len(t) /\ j - Len(s) \in 1 .. Len(t) /\ i - Len(s) < j - Len(s)
          /\ r[i] = t[i - Len(s)] /\ r[j] = t[j - Len(s)]
      BY <1>1, <1>2, <2>3
    <3>2. i - Len(s) # j - Len(s)
      BY <3>1
    <3> QED BY <3>1, <3>2 DEF Distinct, Rising
  <2> QED BY <2>1, <2>2, <2>3
<1>3. Distinct(r)
  <2> SUFFICES ASSUME NEW i \in 1 .. Len(r), NEW j \in 1 .. Len(r), r[i] = r[j], i # j
               PROVE  FALSE
    BY DEF Distinct
  <2>1. i < j \/ j < i
    BY <1>1
  <2> QED BY <1>2, <2>1
<1>4. Rising(r)
  BY <1>2 DEF Rising
<1> QED BY <1>3, <1>4 DEF r

\* A list the other way round.
LEMMA ReverseFacts ==
  ASSUME NEW A, NEW s \in Seq(A)
  PROVE  /\ Reverse(s) \in Seq(A) /\ ToSet(Reverse(s)) = ToSet(s)
         /\ Distinct(s) => Distinct(Reverse(s))
         /\ Rising(s) => Falling(Reverse(s))
         /\ Falling(s) => Rising(Reverse(s))
<1> DEFINE r == Reverse(s)
<1>1. Len(s) \in Nat
  OBVIOUS
<1>2. r = [i \in 1 .. Len(s) |-> s[(Len(s) - i) + 1]]
  BY DEF Reverse
<1> HIDE DEF r
<1>3. \A i \in 1 .. Len(s) : (Len(s) - i) + 1 \in 1 .. Len(s) /\ (Len(s) - ((Len(s) - i) + 1)) + 1 = i
  BY <1>1
<1>4. r \in Seq(A) /\ Len(r) = Len(s) /\ \A i \in 1 .. Len(s) : r[i] = s[(Len(s) - i) + 1]
  BY <1>1, <1>2, <1>3
<1>5. ToSet(r) = ToSet(s)
  <2>1. ASSUME NEW x \in ToSet(r) PROVE x \in ToSet(s)
    <3>1. PICK i \in 1 .. Len(s) : r[i] = x
      BY <1>4, ToSetFacts
    <3>2. (Len(s) - i) + 1 \in 1 .. Len(s) /\ s[(Len(s) - i) + 1] = x
      BY <1>3, <1>4, <3>1
    <3> QED BY <3>2, ToSetFacts
  <2>2. ASSUME NEW x \in ToSet(s) PROVE x \in ToSet(r)
    <3>1. PICK i \in 1 .. Len(s) : s[i] = x
      BY ToSetFacts
    <3> DEFINE j == (Len(s) - i) + 1
    <3>2. j \in 1 .. Len(s) /\ (Len(s) - j) + 1 = i
      BY <1>3
    <3> HIDE DEF j
    <3>3. r[j] = x
      BY <1>4, <3>1, <3>2
    <3> QED BY <1>4, <3>2, <3>3, ToSetFacts
  <2> QED BY <2>1, <2>2
<1>6. Distinct(s) => Distinct(r)
  BY <1>1, <1>3, <1>4 DEF Distinct
<1>7. \A i, j \in 1 .. Len(s) : i < j => (Len(s) - j) + 1 < (Len(s) - i) + 1
  BY <1>1
<1>8. Rising(s) => Falling(r)
  BY <1>3, <1>4, <1>7 DEF Rising, Falling
<1>9. Falling(s) => Rising(r)
  BY <1>3, <1>4, <1>7 DEF Rising, Falling
<1> QED BY <1>4, <1>5, <1>6, <1>8, <1>9 DEF r

-----------------------------------------------------------------------------
(* The messages of a list that are in a set.                               *)

\* f is the function of Kept for the first n messages of s.
IsKept(f, s, keep, n) ==
  f = [i \in 0 .. n |-> IF i = 0 THEN <<>>
                        ELSE IF s[i] \in keep THEN Append(f[i - 1], s[i]) ELSE f[i - 1]]

\* Otherwise there would be a shortest beginning of the list without such a function.
LEMMA KeptExists ==
  ASSUME NEW s, NEW keep, NEW l \in Nat
  PROVE  \E f : IsKept(f, s, keep, l)
<1> DEFINE T == {n \in 0 .. l : ~\E f : IsKept(f, s, keep, n)}
<1>1. CASE T = {}
  <2>1. l \in 0 .. l
    OBVIOUS
  <2> QED BY <1>1, <2>1
<1>2. CASE T # {}
  <2>1. PICK n \in T : \A m \in T : n <= m
    <3>1. T \in SUBSET Nat
      OBVIOUS
    <3> HIDE DEF T
    <3> QED BY <1>2, <3>1, LeastNumber
  <2>2. n \in 0 .. l /\ ~\E f : IsKept(f, s, keep, n)
    OBVIOUS
  <2>3. n # 0
    <3>1. IsKept([i \in 0 .. 0 |-> <<>>], s, keep, 0)
      BY DEF IsKept
    <3> QED BY <2>2, <3>1
  <2>4. n - 1 \in 0 .. l /\ ~(n <= n - 1)
    BY <2>2, <2>3
  <2>5. PICK g : IsKept(g, s, keep, n - 1)
    BY <2>1, <2>4
  <2> DEFINE end == IF s[n] \in keep THEN Append(g[n - 1], s[n]) ELSE g[n - 1]
             h == [i \in 0 .. n |-> IF i = n THEN end ELSE g[i]]
  <2>6. \A i \in 0 .. n :
          h[i] = IF i = 0 THEN <<>>
                 ELSE IF s[i] \in keep THEN Append(h[i - 1], s[i]) ELSE h[i - 1]
    <3> TAKE i \in 0 .. n
    <3>1. \A j \in 0 .. (n - 1) :
            g[j] = IF j = 0 THEN <<>>
                   ELSE IF s[j] \in keep THEN Append(g[j - 1], s[j]) ELSE g[j - 1]
      BY <2>5 DEF IsKept
    <3>2. (\A j \in 0 .. (n - 1) : h[j] = g[j]) /\ h[n] = end
      BY <2>2
    <3> HIDE DEF h
    <3>3. CASE i = n
      <4>1. n - 1 \in 0 .. (n - 1) /\ i # 0
        BY <2>2, <2>3, <3>3
      <4> QED BY <3>2, <3>3, <4>1
    <3>4. CASE i # n
      <4>1. i \in 0 .. (n - 1) /\ (i # 0 => i - 1 \in 0 .. (n - 1))
        BY <2>2, <3>4
      <4> HIDE DEF end
      <4> QED BY <3>1, <3>2, <4>1
    <3> QED BY <3>3, <3>4
  <2>7. h = [i \in 0 .. n |-> h[i]]
    OBVIOUS
  <2> HIDE DEF h
  <2>8. IsKept(h, s, keep, n)
    BY <2>6, <2>7 DEF IsKept
  <2> QED BY <2>2, <2>8
<1> QED BY <1>1, <1>2

\* k is s without what is not in keep: at is where its messages come from, up to n.
Comes(k, at, s, keep, n) ==
  /\ at \in [1 .. Len(k) -> 1 .. n] /\ Len(k) <= n
  /\ \A j \in 1 .. Len(k) : k[j] = s[at[j]] /\ s[at[j]] \in keep
  /\ \A i, j \in 1 .. Len(k) : i < j => at[i] < at[j]
  /\ \A i \in 1 .. n : s[i] \in keep => \E j \in 1 .. Len(k) : at[j] = i

\* By induction on the beginnings of the list, as above.
LEMMA KeptComes ==
  ASSUME NEW A, NEW s \in Seq(A), NEW keep
  PROVE  Kept(s, keep) \in Seq(A) /\ \E at : Comes(Kept(s, keep), at, s, keep, Len(s))
<1> DEFINE l == Len(s)
           f == CHOOSE f : f = [i \in 0 .. l |-> IF i = 0 THEN <<>>
                             ELSE IF s[i] \in keep THEN Append(f[i - 1], s[i]) ELSE f[i - 1]]
           Good(n) == f[n] \in Seq(A) /\ \E at : Comes(f[n], at, s, keep, n)
           T == {n \in 0 .. l : ~Good(n)}
<1>1. Kept(s, keep) = f[l]
  BY DEF Kept
<1>2. l \in Nat /\ \A i \in 1 .. l : s[i] \in A
  OBVIOUS
<1>3. \A i \in 0 .. l : f[i] = IF i = 0 THEN <<>>
                        ELSE IF s[i] \in keep THEN Append(f[i - 1], s[i]) ELSE f[i - 1]
  <2>1. IsKept(f, s, keep, l)
    <3>1. \E g : IsKept(g, s, keep, l)
      BY <1>2, KeptExists
    <3> QED BY <3>1 DEF IsKept
  <2> HIDE DEF f
  <2> QED BY <2>1 DEF IsKept
<1> HIDE DEF l, f
<1>4. Good(0)
  <2>1. f[0] = <<>>
    BY <1>2, <1>3
  <2>2. Comes(<<>>, <<>>, s, keep, 0)
    BY DEF Comes
  <2> QED BY <2>1, <2>2
<1>5. ASSUME NEW n \in 1 .. l, Good(n - 1)
      PROVE  Good(n)
  <2>1. n - 1 \in 0 .. l /\ n \in 0 .. l /\ n # 0
    BY <1>2
  <2> DEFINE k == f[n - 1]
  <2>2. k \in Seq(A)
    BY <1>5
  <2>3. PICK at : Comes(k, at, s, keep, n - 1)
    BY <1>5
  <2> HIDE DEF k
  <2>4. /\ at \in [1 .. Len(k) -> 1 .. n - 1] /\ Len(k) <= n - 1
        /\ \A j \in 1 .. Len(k) : k[j] = s[at[j]] /\ s[at[j]] \in keep
        /\ \A i, j \in 1 .. Len(k) : i < j => at[i] < at[j]
        /\ \A i \in 1 .. n - 1 : s[i] \in keep => \E j \in 1 .. Len(k) : at[j] = i
    BY <2>3 DEF Comes
  <2>5. CASE s[n] \notin keep
    <3>1. f[n] = k
      BY <1>3, <2>1, <2>5 DEF k
    <3>2. at \in [1 .. Len(k) -> 1 .. n] /\ Len(k) <= n
      BY <2>1, <2>2, <2>4
    <3>3. \A i \in 1 .. n : s[i] \in keep => i \in 1 .. n - 1
      BY <2>1, <2>5
    <3>4. Comes(k, at, s, keep, n)
      BY <2>4, <3>2, <3>3 DEF Comes
    <3> QED BY <2>2, <3>1, <3>4
  <2>6. CASE s[n] \in keep
    <3> DEFINE m == Append(k, s[n])
               to == [j \in 1 .. Len(k) + 1 |-> IF j <= Len(k) THEN at[j] ELSE n]
    <3>1. f[n] = m
      BY <1>3, <2>1, <2>6 DEF k
    <3>2. /\ m \in Seq(A) /\ Len(m) = Len(k) + 1 /\ m[Len(k) + 1] = s[n] /\ Len(k) \in Nat
          /\ \A j \in 1 .. Len(k) : m[j] = k[j]
      BY <1>2, <2>2
    <3>3. to[Len(k) + 1] = n /\ \A j \in 1 .. Len(k) : to[j] = at[j]
      BY <3>2
    <3>4. to \in [1 .. Len(m) -> 1 .. n]
      <4>1. \A j \in 1 .. Len(m) : (IF j <= Len(k) THEN at[j] ELSE n) \in 1 .. n
        BY <2>1, <2>4, <3>2
      <4> QED BY <3>2, <4>1
    <3> HIDE DEF m, to
    <3>5. \A j \in 1 .. Len(m) : j \in 1 .. Len(k) \/ j = Len(k) + 1
      BY <3>2
    <3>6. \A j \in 1 .. Len(m) : m[j] = s[to[j]] /\ s[to[j]] \in keep
      BY <2>4, <2>6, <3>2, <3>3, <3>5
    <3>7. ASSUME NEW i \in 1 .. Len(m), NEW j \in 1 .. Len(m), i < j
          PROVE  to[i] < to[j]
      <4>1. i \in 1 .. Len(k)
        BY <3>2, <3>7
      <4>2. to[i] = at[i] /\ at[i] \in 1 .. n - 1
        BY <2>4, <3>3, <4>1
      <4>3. CASE j \in 1 .. Len(k)
        BY <2>4, <3>3, <3>7, <4>1, <4>2, <4>3
      <4>4. CASE j = Len(k) + 1
        <5>1. to[j] = n
          BY <3>3, <4>4
        <5> QED BY <2>1, <4>2, <5>1
      <4> QED BY <3>5, <4>3, <4>4
    <3>8. ASSUME NEW i \in 1 .. n, s[i] \in keep
          PROVE  \E j \in 1 .. Len(m) : to[j] = i
      <4>1. CASE i = n
        <5>1. Len(k) + 1 \in 1 .. Len(m)
          BY <3>2
        <5> QED BY <3>3, <4>1, <5>1
      <4>2. CASE i # n
        <5>1. i \in 1 .. n - 1
          BY <2>1, <4>2
        <5>2. PICK j \in 1 .. Len(k) : at[j] = i
          BY <2>4, <3>8, <5>1
        <5>3. j \in 1 .. Len(m)
          BY <3>2
        <5> QED BY <3>3, <5>2, <5>3
      <4> QED BY <4>1, <4>2
    <3>9. Len(m) <= n
      BY <2>1, <2>4, <3>2
    <3>10. Comes(m, to, s, keep, n)
      BY <3>4, <3>6, <3>7, <3>8, <3>9 DEF Comes
    <3> QED BY <3>1, <3>2, <3>10
  <2> QED BY <2>5, <2>6
<1>6. T = {}
  <2> SUFFICES ASSUME T # {} PROVE FALSE
    OBVIOUS
  <2>1. PICK n \in T : \A m \in T : n <= m
    <3>1. T \in SUBSET Nat
      BY <1>2
    <3> HIDE DEF T
    <3> QED BY <3>1, LeastNumber
  <2>2. n \in 0 .. l /\ ~Good(n)
    OBVIOUS
  <2>3. n # 0
    BY <1>4, <2>2
  <2>4. n \in 1 .. l /\ n - 1 \in 0 .. l /\ ~(n <= n - 1)
    BY <1>2, <2>2, <2>3
  <2>5. Good(n - 1)
    BY <2>1, <2>4
  <2> HIDE DEF Good
  <2> QED BY <1>5, <2>2, <2>4, <2>5
<1>7. Good(l)
  BY <1>2, <1>6
<1> QED BY <1>1, <1>7 DEF l

\* So a message is kept if it is in the set, once, and the order stays.
LEMMA KeptFacts ==
  ASSUME NEW A, NEW s \in Seq(A), NEW keep
  PROVE  LET k == Kept(s, keep)
         IN  /\ k \in Seq(A) /\ Len(k) <= Len(s) /\ ToSet(k) = ToSet(s) \intersect keep
             /\ Distinct(s) => Distinct(k)
             /\ Rising(s) => Rising(k)
             /\ Falling(s) => Falling(k)
<1> DEFINE k == Kept(s, keep)
<1>1. k \in Seq(A)
  BY KeptComes
<1>2. PICK at : Comes(k, at, s, keep, Len(s))
  BY KeptComes
<1> HIDE DEF k
<1>3. /\ at \in [1 .. Len(k) -> 1 .. Len(s)] /\ Len(k) <= Len(s)
      /\ \A j \in 1 .. Len(k) : k[j] = s[at[j]] /\ s[at[j]] \in keep
      /\ \A i, j \in 1 .. Len(k) : i < j => at[i] < at[j]
      /\ \A i \in 1 .. Len(s) : s[i] \in keep => \E j \in 1 .. Len(k) : at[j] = i
  BY <1>2 DEF Comes
<1>4. Len(k) \in Nat /\ Len(s) \in Nat
  BY <1>1
<1>5. ToSet(k) = ToSet(s) \intersect keep
  <2>1. ASSUME NEW x \in ToSet(k) PROVE x \in ToSet(s) \intersect keep
    <3>1. PICK j \in 1 .. Len(k) : k[j] = x
      BY <1>1, ToSetFacts
    <3>2. at[j] \in 1 .. Len(s) /\ s[at[j]] = x /\ x \in keep
      BY <1>3, <3>1
    <3> QED BY <3>2, ToSetFacts
  <2>2. ASSUME NEW x \in ToSet(s), x \in keep PROVE x \in ToSet(k)
    <3>1. PICK i \in 1 .. Len(s) : s[i] = x
      BY ToSetFacts
    <3>2. PICK j \in 1 .. Len(k) : at[j] = i
      BY <1>3, <2>2, <3>1
    <3>3. k[j] = x
      BY <1>3, <3>1, <3>2
    <3> QED BY <1>1, <3>3, ToSetFacts
  <2> QED BY <2>1, <2>2
<1>6. ASSUME Distinct(s) PROVE Distinct(k)
  <2> SUFFICES ASSUME NEW i \in 1 .. Len(k), NEW j \in 1 .. Len(k), k[i] = k[j], i # j
               PROVE  FALSE
    BY DEF Distinct
  <2>1. at[i] = at[j]
    BY <1>3, <1>6 DEF Distinct
  <2>2. i < j \/ j < i
    BY <1>4
  <2>3. at[i] < at[j] \/ at[j] < at[i]
    BY <1>3, <2>2
  <2> QED BY <1>3, <2>1, <2>3
<1>7. Rising(s) => Rising(k)
  BY <1>3 DEF Rising
<1>8. Falling(s) => Falling(k)
  BY <1>3 DEF Falling
<1> QED BY <1>1, <1>3, <1>5, <1>6, <1>7, <1>8 DEF k

\* What std::remove_if leaves: the kept messages, null pointers, and messages of
\* the list.
LEMMA RemoveIfFacts ==
  ASSUME NEW A, NEW s \in Seq(A), NEW keep
  PROVE  LET r == RemoveIf(s, keep)
         IN  /\ r \in Seq(A \union {Null})
             /\ ToSet(r) \ {Null} \subseteq ToSet(s)
             /\ ToSet(s) \intersect keep \subseteq ToSet(r)
<1> DEFINE k == Kept(s, keep)
           r == RemoveIf(s, keep)
<1>1. k \in Seq(A) /\ Len(k) <= Len(s) /\ ToSet(k) = ToSet(s) \intersect keep
  BY KeptFacts
<1>2. r = [i \in 1 .. Len(s) |-> IF i <= Len(k) THEN k[i] ELSE IF s[i] \in keep THEN Null ELSE s[i]]
  BY DEF RemoveIf
<1> HIDE DEF k, r
<1>3. Len(s) \in Nat /\ Len(k) \in Nat
  BY <1>1
<1>4. ASSUME NEW i \in 1 .. Len(s)
      PROVE  r[i] \in A \union {Null} /\ (r[i] # Null => r[i] \in ToSet(s))
             /\ (i <= Len(k) => r[i] = k[i])
  <2>1. r[i] = IF i <= Len(k) THEN k[i] ELSE IF s[i] \in keep THEN Null ELSE s[i]
    BY <1>2
  <2>2. s[i] \in A /\ s[i] \in ToSet(s)
    BY ToSetFacts
  <2>3. i <= Len(k) => k[i] \in A /\ k[i] \in ToSet(k)
    BY <1>1, <1>3, ToSetFacts
  <2> QED BY <1>1, <2>1, <2>2, <2>3
<1>5. Len(r) = Len(s) /\ r \in Seq(A \union {Null})
  <2>1. r = [i \in 1 .. Len(s) |-> r[i]]
    BY <1>2
  <2> QED BY <1>3, <1>4, <2>1
<1>6. ToSet(r) \ {Null} \subseteq ToSet(s)
  BY <1>4, <1>5, ToSetFacts
<1>7. ASSUME NEW x \in ToSet(k) PROVE x \in ToSet(r)
  <2>1. PICK j \in 1 .. Len(k) : k[j] = x
    BY <1>1, ToSetFacts
  <2>2. j \in 1 .. Len(s) /\ r[j] = x
    BY <1>1, <1>3, <1>4, <2>1
  <2> QED BY <1>5, <2>2, ToSetFacts
<1> QED BY <1>1, <1>5, <1>6, <1>7 DEF r

-----------------------------------------------------------------------------
(* The orders std::sort may leave, and the oldest message.                  *)

\* A sorted list has each message of the set once.
LEMMA Oldest1stFacts ==
  ASSUME NEW S, IsFiniteSet(S), NEW s \in Oldest1st(S)
  PROVE  s \in Seq(S) /\ ToSet(s) = S /\ Distinct(s) /\ Rising(s)
<1> DEFINE n == Cardinality(S)
<1>1. n \in Nat
  BY FS_CardinalityType
<1>2. s \in [1 .. n -> S] /\ \A i, j \in 1 .. n : i # j => s[i] # s[j]
  BY DEF Oldest1st, SetToSeqs
<1>3. \A i, j \in 1 .. Len(s) : i < j => Date(s[i]) <= Date(s[j])
  BY DEF Oldest1st
<1> HIDE DEF n
<1>4. s \in Seq(S) /\ Len(s) = n
  BY <1>1, <1>2
<1>5. Distinct(s)
  BY <1>2, <1>4 DEF Distinct
<1>6. IsFiniteSet(1 .. n) /\ Cardinality(1 .. n) = n
  <2>1. IsFiniteSet(1 .. n) /\ Cardinality(1 .. n) = IF 1 > n THEN 0 ELSE n - 1 + 1
    BY <1>1, FS_Interval
  <2> QED BY <1>1, <2>1
<1>7. s \in Injection(1 .. n, S)
  BY <1>2 DEF Injection, IsInjective
<1>8. s \in Surjection(1 .. n, S)
  <2>1. Cardinality(1 .. n) = Cardinality(S) <=> s \in Surjection(1 .. n, S)
    BY <1>7, FS_Injection
  <2> QED BY <1>6, <2>1 DEF n
<1>9. \A x \in S : \E i \in 1 .. n : s[i] = x
  BY <1>8 DEF Surjection
<1>10. ToSet(s) \subseteq S
  BY <1>4, ToSetFacts
<1>11. S \subseteq ToSet(s)
  BY <1>4, <1>9, ToSetFacts
<1> QED BY <1>3, <1>4, <1>5, <1>10, <1>11 DEF Rising

\* And so has one that is sorted the other way round.
LEMMA Newest1stFacts ==
  ASSUME NEW S, IsFiniteSet(S), NEW s \in Newest1st(S)
  PROVE  s \in Seq(S) /\ ToSet(s) = S /\ Distinct(s) /\ Falling(s)
<1>1. PICK o \in Oldest1st(S) : s = Reverse(o)
  BY DEF Newest1st
<1>2. o \in Seq(S) /\ ToSet(o) = S /\ Distinct(o) /\ Rising(o)
  BY Oldest1stFacts
<1> QED BY <1>1, <1>2, ReverseFacts

\* The message a page is asked for from is not later than any in the list.
LEMMA OldestInFacts ==
  ASSUME NEW s \in Seq(Nat), s # <<>>
  PROVE  OldestIn(s) \in ToSet(s) /\ \A x \in ToSet(s) : Date(OldestIn(s)) <= Date(x)
<1> DEFINE D == {Date(s[i]) : i \in 1 .. Len(s)}
<1>1. \A i \in 1 .. Len(s) : s[i] \in Nat /\ Date(s[i]) \in Nat
  <2>1. \A i \in 1 .. Len(s) : s[i] \in Nat
    OBVIOUS
  <2> QED BY <2>1, DateFacts
<1>2. Len(s) \in Nat /\ 1 \in 1 .. Len(s)
  OBVIOUS
<1>3. PICK d \in D : \A e \in D : d <= e
  <2>1. D \in SUBSET Nat /\ D # {}
    BY <1>1, <1>2
  <2> HIDE DEF D
  <2> QED BY <2>1, LeastNumber
<1> DEFINE F == {i \in 1 .. Len(s) : Date(s[i]) = d}
<1>4. PICK f \in F : \A i \in F : f <= i
  <2>1. F \in SUBSET Nat /\ F # {}
    BY <1>3
  <2> HIDE DEF F
  <2> QED BY <2>1, LeastNumber
<1>5. f \in 1 .. Len(s) /\ \A j \in 1 .. Len(s) : Date(s[f]) <= Date(s[j])
  BY <1>3, <1>4
<1>6. ASSUME NEW j \in 1 .. f - 1 PROVE Date(s[f]) < Date(s[j])
  <2>1. j \in 1 .. Len(s) /\ ~(f <= j)
    BY <1>2, <1>5, <1>6
  <2>2. Date(s[j]) # d
    BY <1>4, <2>1
  <2>3. Date(s[f]) = d /\ Date(s[f]) <= Date(s[j])
    BY <1>4, <1>5, <2>1
  <2>4. Date(s[f]) \in Nat /\ Date(s[j]) \in Nat
    BY <1>1, <1>5, <2>1
  <2> QED BY <2>2, <2>3, <2>4
<1> DEFINE First(i) == /\ \A j \in 1 .. Len(s) : Date(s[i]) <= Date(s[j])
                       /\ \A j \in 1 .. i - 1 : Date(s[i]) < Date(s[j])
           i == CHOOSE i \in 1 .. Len(s) : First(i)
<1>7. OldestIn(s) = s[i]
  BY DEF OldestIn
<1>8. i \in 1 .. Len(s) /\ First(i)
  <2>1. \E x \in 1 .. Len(s) : First(x)
    BY <1>5, <1>6
  <2> HIDE DEF First
  <2> QED BY <2>1
<1> HIDE DEF i
<1> QED BY <1>7, <1>8, ToSetFacts

\* Facts about the empty list, and that a bounded set of messages is finite.
LEMMA SmallFacts ==
  /\ \A A : <<>> \in Seq(A)
  /\ ToSet(<<>>) = {}
  /\ \A n \in Nat : \A S \in SUBSET (1 .. n) : IsFiniteSet(S)
<1>1. ToSet(<<>>) = {}
  BY DEF ToSet
<1>2. ASSUME NEW n \in Nat, NEW S \in SUBSET (1 .. n) PROVE IsFiniteSet(S)
  <2>1. IsFiniteSet(1 .. n)
    BY FS_Interval
  <2> QED BY <2>1, FS_Subset
<1>3. ASSUME NEW A PROVE <<>> \in Seq(A)
  OBVIOUS
<1> QED BY <1>1, <1>2, <1>3

\* A list of members of a set is one of members of a larger set.
LEMMA WiderSeq ==
  ASSUME NEW A, NEW B, A \subseteq B, NEW s \in Seq(A)
  PROVE  s \in Seq(B)
OBVIOUS

\* A list with one more message.
LEMMA AppendFacts ==
  ASSUME NEW A, NEW s \in Seq(A), NEW x \in A
  PROVE  /\ Append(s, x) \in Seq(A)
         /\ ToSet(Append(s, x)) = ToSet(s) \union {x}
<1>1. /\ <<x>> \in Seq(A) /\ Len(<<x>>) = 1 /\ <<x>>[1] = x
      /\ Append(s, x) = s \o <<x>>
  OBVIOUS
<1>2. ToSet(<<x>>) = {x}
  BY DEF ToSet
<1>3. Append(s, x) \in Seq(A)
  OBVIOUS
<1> DEFINE t == <<x>>
<1>4. t \in Seq(A)
  BY <1>1
<1> HIDE DEF t
<1>5. ToSet(s \o t) = ToSet(s) \union ToSet(t)
  BY <1>4, ConcatFacts
<1> QED BY <1>1, <1>2, <1>3, <1>5 DEF t

-----------------------------------------------------------------------------
(* The inductive invariant.                                                *)

Listed == ToSet(messages) \ {Null}

Typed ==
  /\ last \in 0 .. MaxMessages
  /\ history \in [Chats -> SUBSET Ids]
  /\ queue \in Seq(Nat)
  /\ selected \in Chats \union {NoChat}
  /\ messages \in Seq(Ids \union {Null})
  /\ shown \in Seq(Nat)

\* Every message there is has been sent.
Sent ==
  /\ \A c \in Chats : history[c] # {} /\ history[c] \subseteq 1 .. last
  /\ ToSet(queue) \subseteq 1 .. last

\* The list holds messages of the selected chat, and what came to the chat after
\* its selection is newer than what was there.
OfTheChat ==
  /\ selected = NoChat => Listed = {} /\ atSelection = {}
  /\ selected # NoChat =>
       /\ Listed \subseteq history[selected] /\ atSelection \subseteq history[selected]
       /\ \A n \in atSelection, x \in history[selected] \ atSelection : n < x

\* The list and the screen hold the same messages, unless the selection failed.
OnScreen ==
  /\ ToSet(shown) \subseteq Listed
  /\ ~failed => Listed \subseteq ToSet(shown)

\* What TDLib has not delivered is newer than the list and the screen.
ComesLater == \A m \in ToSet(queue), x \in Listed \union atSelection : x < m

IInv ==
  /\ Typed /\ Sent /\ OfTheChat /\ OnScreen /\ ComesLater
  /\ Distinct(shown) /\ Rising(shown) /\ NoGap

\* It holds before anything is shown.
LEMMA InitIInv == MessagesInit => IInv
<1> SUFFICES ASSUME MessagesInit PROVE IInv
  OBVIOUS
<1> USE MessagesAssumption
<1> DEFINE T == {0} \union UNION {history[c] : c \in Chats}
<1>1. T \in SUBSET (0 .. MaxMessages) /\ T # {}
  BY DEF MessagesInit
<1>2. last = Max(T)
  BY DEF MessagesInit
<1>3. last \in T /\ \A x \in T : x <= last
  <2> HIDE DEF T
  <2> QED BY <1>1, <1>2, MaxFacts
<1>4. \A c \in Chats : \A x \in history[c] : x \in T
  OBVIOUS
<1>5. ToSet(queue) = {} /\ ToSet(messages) = {} /\ ToSet(shown) = {} /\ Listed = {}
  BY SmallFacts DEF MessagesInit, Listed
<1>6. Typed
  BY <1>1, <1>3, SmallFacts DEF MessagesInit, Typed, Ids
<1>7. Sent
  BY <1>3, <1>4, <1>5 DEF MessagesInit, Sent
<1>8. OfTheChat /\ OnScreen /\ ComesLater
  BY <1>5 DEF MessagesInit, OfTheChat, OnScreen, ComesLater
<1>9. Distinct(shown) /\ Rising(shown) /\ NoGap
  BY DEF MessagesInit, Distinct, Rising, NoGap
<1> QED BY <1>6, <1>7, <1>8, <1>9 DEF IInv

\* The updates that a request delivers.
LEMMA DeliveredFacts ==
  ASSUME Typed
  PROVE  /\ Delivered(selected) \in Seq(Nat)
         /\ ToSet(Delivered(selected)) \subseteq ToSet(queue)
         /\ selected # NoChat => ToSet(Delivered(selected)) \subseteq history[selected]
         /\ selected = NoChat => ToSet(Delivered(selected)) = {}
<1>1. CASE selected = NoChat
  BY <1>1, SmallFacts DEF Delivered
<1>2. CASE selected # NoChat
  <2>1. Delivered(selected) = Kept(queue, history[selected])
    BY <1>2 DEF Delivered
  <2>2. queue \in Seq(Nat)
    BY DEF Typed
  <2>3. /\ Kept(queue, history[selected]) \in Seq(Nat)
        /\ ToSet(Kept(queue, history[selected])) = ToSet(queue) \intersect history[selected]
    BY <2>2, KeptFacts
  <2> QED BY <1>2, <2>1, <2>3
<1> QED BY <1>1, <1>2

-----------------------------------------------------------------------------
(* The steps.                                                              *)

\* The lists and the screen stay, and the updates are delivered or stay.
LEMMA ListsStay ==
  ASSUME IInv, UNCHANGED <<history, last, selection, messages, shown>>,
         queue' = queue \/ queue' = <<>>
  PROVE  IInv'
<1>1. ToSet(queue') \subseteq ToSet(queue) /\ queue' \in Seq(Nat)
  BY SmallFacts DEF IInv, Typed
<1>2. Listed' = Listed
  BY DEF Listed
<1> QED BY <1>1, <1>2 DEF IInv, Typed, Sent, OfTheChat, OnScreen, ComesLater, Distinct, Rising,
             NoGap, selection

\* A message that arrives is the newest of all.
LEMMA ArriveIInv ==
  ASSUME IInv, NEW c \in Chats, Arrive(c)
  PROVE  IInv'
<1> USE MessagesAssumption
<1>1. /\ last \in 0 .. MaxMessages /\ last < MaxMessages /\ last' = last + 1
      /\ queue \in Seq(Nat) /\ queue' = Append(queue, last')
      /\ messages' = messages /\ shown' = shown
      /\ selected' = selected /\ atSelection' = atSelection /\ failed' = failed
  BY DEF IInv, Typed, Arrive, lists, selection
<1>2. /\ history \in [Chats -> SUBSET Ids]
      /\ history' = [history EXCEPT ![c] = history[c] \union {last'}]
  BY DEF IInv, Typed, Arrive
<1>3. last' \in 0 .. MaxMessages /\ last' \in Nat /\ last' \in Ids /\ last' \in 1 .. last'
  BY <1>1 DEF Ids
<1>4. Listed' = Listed
  BY <1>1 DEF Listed
<1>5. ToSet(queue') = ToSet(queue) \union {last'} /\ queue' \in Seq(Nat)
  <2> DEFINE m == last'
  <2>1. m \in Nat /\ queue \in Seq(Nat) /\ queue' = Append(queue, m)
    BY <1>1, <1>3
  <2> HIDE DEF m
  <2>2. ToSet(Append(queue, m)) = ToSet(queue) \union {m}
    BY <2>1, AppendFacts
  <2>3. Append(queue, m) \in Seq(Nat)
    BY <2>1
  <2> QED BY <2>1, <2>2, <2>3 DEF m
<1>6. \A x \in 1 .. last : x < last' /\ x \in 1 .. last'
  BY <1>1
<1>7. \A d \in Chats : /\ history[d] \subseteq history'[d]
                       /\ history'[d] \subseteq history[d] \union {last'}
  BY <1>2
<1>8. history' \in [Chats -> SUBSET Ids]
  BY <1>2, <1>3
<1>9. Typed'
  BY <1>1, <1>3, <1>5, <1>8 DEF IInv, Typed
<1>10. Sent'
  <2>1. Sent
    BY DEF IInv
  <2> QED BY <1>3, <1>5, <1>6, <1>7, <2>1 DEF Sent
<1>11. Listed \union atSelection \subseteq 1 .. last
  BY DEF IInv, Typed, Sent, OfTheChat
<1>12. OfTheChat'
  <2>1. OfTheChat /\ selected \in Chats \union {NoChat}
    BY DEF IInv, Typed
  <2>2. CASE selected = NoChat
    BY <1>1, <1>4, <2>1, <2>2 DEF OfTheChat
  <2>3. CASE selected # NoChat
    <3>1. /\ Listed \subseteq history[selected] /\ atSelection \subseteq history[selected]
          /\ \A n \in atSelection, x \in history[selected] \ atSelection : n < x
          /\ selected \in Chats
      BY <2>1, <2>3 DEF OfTheChat
    <3>2. Listed \subseteq history'[selected] /\ atSelection \subseteq history'[selected]
      BY <1>7, <3>1
    <3>3. ASSUME NEW n \in atSelection, NEW x \in history'[selected] \ atSelection PROVE n < x
      <4>1. x \in history[selected] \/ x = last'
        BY <1>7, <3>1
      <4>2. n \in 1 .. last
        BY <1>11
      <4> QED BY <1>6, <3>1, <4>1, <4>2
    <3> QED BY <1>1, <1>4, <2>3, <3>2, <3>3 DEF OfTheChat
  <2> QED BY <2>2, <2>3
<1>13. ComesLater'
  BY <1>1, <1>4, <1>5, <1>6, <1>11 DEF IInv, ComesLater
<1>14. OnScreen' /\ Distinct(shown)' /\ Rising(shown)' /\ NoGap'
  BY <1>1, <1>4 DEF IInv, OnScreen, Distinct, Rising, NoGap
<1> QED BY <1>9, <1>10, <1>12, <1>13, <1>14 DEF IInv

\* The last message of the chat and a page before it are the end of its history.
LEMMA SelectChatIInv ==
  ASSUME IInv, NEW c \in Chats, SelectChat(c)
  PROVE  IInv'
<1> USE MessagesAssumption
<1> DEFINE m == Max(history[c])
<1>1. /\ last \in 0 .. MaxMessages /\ last' = last /\ history' = history
      /\ selected' = c /\ atSelection' = history[c] /\ queue' = <<>>
      /\ c # NoChat
  BY DEF IInv, Typed, SelectChat, Deliver
<1>2. history \in [Chats -> SUBSET Ids] /\ history[c] # {} /\ history[c] \subseteq 1 .. last
  BY DEF IInv, Typed, Sent
<1>3. m \in history[c] /\ \A x \in history[c] : x <= m
  <2>1. history[c] \in SUBSET (0 .. last) /\ last \in Nat
    BY <1>1, <1>2
  <2> QED BY <1>2, <2>1, MaxFacts
<1> HIDE DEF m
<1>4. ToSet(queue') = {} /\ queue' \in Seq(Nat)
  BY <1>1, SmallFacts
<1>5. Sent' /\ ComesLater'
  BY <1>1, <1>4 DEF IInv, Sent, ComesLater
<1>6. \A x \in Ids : x \in Nat /\ x # Null
  BY DEF Ids
<1>7. CASE /\ failed' = FALSE /\ shown' = messages'
           /\ \E S \in Loaded(c) : messages' \in Oldest1st(S)
  <2>1. PICK S \in Loaded(c) : messages' \in Oldest1st(S)
    BY <1>7
  <2>2. PICK p \in PagesBefore(c, m) : S = p \union {m}
    BY <2>1 DEF Loaded, m
  <2>3. /\ p \subseteq history[c]
        /\ \A n \in p, o \in history[c] : o < m /\ o > n => o \in p
    BY <2>2 DEF PagesBefore
  <2>4. S \subseteq history[c] /\ IsFiniteSet(S)
    <3>1. S \in SUBSET (1 .. last) /\ last \in Nat
      BY <1>1, <1>2, <1>3, <2>2, <2>3
    <3> QED BY <1>3, <2>2, <2>3, <3>1, SmallFacts
  <2>5. /\ messages' \in Seq(S) /\ ToSet(messages') = S
        /\ Distinct(messages') /\ Rising(messages')
    BY <2>1, <2>4, Oldest1stFacts
  <2>6. S \subseteq Ids /\ S \subseteq Nat /\ Null \notin S
    BY <1>2, <1>6, <2>4
  <2>7. messages' \in Seq(Ids \union {Null}) /\ messages' \in Seq(Nat)
    BY <2>5, <2>6, WiderSeq
  <2>8. Listed' = S
    BY <2>5, <2>6 DEF Listed
  <2>9. Typed'
    BY <1>1, <1>2, <1>4, <1>7, <2>7 DEF Typed
  <2>10. OfTheChat' /\ OnScreen'
    BY <1>1, <1>7, <2>4, <2>5, <2>8 DEF OfTheChat, OnScreen
  <2>11. Distinct(shown)' /\ Rising(shown)'
    BY <1>7, <2>5 DEF Distinct, Rising
  <2>12. NoGap'
    <3> SUFFICES ASSUME NEW k \in history[c], NEW n \in history[c], k \in S, n > k
                 PROVE  n \in S
      BY <1>1, <1>7, <2>5 DEF NoGap
    <3>1. k \in Nat /\ n \in Nat /\ m \in Nat /\ n <= m
      BY <1>2, <1>3, <1>6
    <3>2. k # m
      BY <3>1
    <3> QED BY <2>2, <2>3, <3>1, <3>2
  <2> QED BY <1>5, <2>9, <2>10, <2>11, <2>12 DEF IInv
<1>8. CASE failed' = TRUE /\ messages' \in {<<>>, <<m>>} /\ shown' = <<>>
  <2>1. messages' \in Seq(Ids \union {Null}) /\ shown' \in Seq(Nat)
    <3>1. m \in Ids \union {Null}
      BY <1>2, <1>3
    <3>2. <<m>> \in Seq(Ids \union {Null})
      BY <3>1
    <3> QED BY <1>8, <3>2, SmallFacts
  <2>2. ToSet(shown') = {} /\ ToSet(messages') \subseteq {m}
    BY <1>8, SmallFacts DEF ToSet
  <2>3. Typed'
    BY <1>1, <1>2, <1>4, <2>1 DEF Typed
  <2>4. OfTheChat' /\ OnScreen'
    BY <1>1, <1>3, <1>8, <2>2 DEF OfTheChat, OnScreen, Listed
  <2>5. Distinct(shown)' /\ Rising(shown)' /\ NoGap'
    BY <1>8 DEF Distinct, Rising, NoGap
  <2> QED BY <1>5, <2>3, <2>4, <2>5 DEF IInv
<1> QED BY <1>7, <1>8 DEF SelectChat, m

\* A page of the history is older than the list, so it goes above the screen.
LEMMA PreviousMessagesIInv ==
  ASSUME IInv, PreviousMessages
  PROVE  IInv'
<1> USE MessagesAssumption
<1>1. CASE Null \in ToSet(messages)
  <2>1. Dereference
    BY <1>1 DEF PreviousMessages
  <2> QED BY <2>1, ListsStay DEF Dereference, lists
<1>2. CASE Null \notin ToSet(messages) /\ UNCHANGED <<messages, shown>>
  <2>1. queue' = <<>> /\ UNCHANGED <<history, last, selection>>
    BY <1>2 DEF PreviousMessages, Deliver
  <2> QED BY <1>2, <2>1, ListsStay
<1>3. ASSUME Null \notin ToSet(messages),
             NEW p \in PagesBefore(selected, From(messages)), NEW s \in Newest1st(p), MergePage(s)
      PROVE  IInv'
  <2> DEFINE fresh == ToSet(s) \ ToSet(messages)
             kept == Kept(s, fresh)
             top == Reverse(kept)
             rest == RemoveIf(s, fresh)
  <2>1. /\ selected # NoChat /\ selected \in Chats
        /\ last \in Nat /\ messages \in Seq(Ids \union {Null}) /\ shown \in Seq(Nat)
        /\ queue' = <<>> /\ UNCHANGED <<history, last, selection, crashed>>
    BY <1>3 DEF PreviousMessages, Deliver, IInv, Typed
  <2>2. history[selected] \subseteq Ids /\ history[selected] \subseteq 1 .. last
    BY <2>1 DEF IInv, Typed, Sent
  <2>3. /\ p \subseteq history[selected] /\ \A x \in p : x < From(messages)
        /\ \A n \in p, o \in history[selected] : o < From(messages) /\ o > n => o \in p
    BY DEF PagesBefore
  <2>4. s \in Seq(p) /\ ToSet(s) = p /\ Distinct(s) /\ Falling(s)
    <3>1. IsFiniteSet(p)
      BY <2>1, <2>2, <2>3, SmallFacts
    <3> QED BY <3>1, Newest1stFacts
  <2>5. s \in Seq(Nat) /\ s \in Seq(Ids) /\ p \subseteq Ids /\ Null \notin Ids
    BY <2>2, <2>3, <2>4, WiderSeq DEF Ids
  <2>6. fresh = p \ ToSet(messages)
    BY <2>4
  <2> HIDE DEF fresh
  <2>7. kept \in Seq(Nat) /\ ToSet(kept) = fresh /\ Distinct(kept) /\ Falling(kept)
    BY <2>4, <2>5, <2>6, KeptFacts
  <2> HIDE DEF kept
  <2>8. top \in Seq(Nat) /\ ToSet(top) = fresh /\ Distinct(top) /\ Rising(top)
    BY <2>7, ReverseFacts
  <2>9. /\ rest \in Seq(Ids \union {Null}) /\ ToSet(rest) \ {Null} \subseteq p
        /\ fresh \subseteq ToSet(rest)
    BY <2>4, <2>5, <2>6, RemoveIfFacts
  <2>10. shown' = top \o shown /\ messages' = rest \o messages
    BY <1>3 DEF MergePage, fresh, kept
  <2> HIDE DEF top, rest
  <2>11. ToSet(shown') = fresh \union ToSet(shown) /\ shown' \in Seq(Nat)
    BY <2>1, <2>8, <2>10, ConcatFacts
  <2>12. ToSet(messages') = ToSet(rest) \union ToSet(messages) /\ messages' \in Seq(Ids \union {Null})
    BY <2>1, <2>9, <2>10, ConcatFacts
  <2>13. Listed = ToSet(messages) /\ Listed' \subseteq p \union Listed /\ fresh \union Listed \subseteq Listed'
    BY <1>3, <2>5, <2>6, <2>9, <2>12 DEF Listed
  <2>14. ToSet(queue') = {} /\ queue' \in Seq(Nat)
    BY <2>1, SmallFacts
  <2>15. Typed' /\ Sent' /\ ComesLater'
    BY <2>1, <2>11, <2>12, <2>14 DEF IInv, Typed, Sent, ComesLater, selection
  <2>16. /\ Listed \subseteq history[selected] /\ atSelection \subseteq history[selected]
         /\ \A n \in atSelection, x \in history[selected] \ atSelection : n < x
         /\ ToSet(shown) \subseteq Listed
    BY <2>1 DEF IInv, OfTheChat, OnScreen
  <2>17. OfTheChat'
    BY <2>1, <2>3, <2>13, <2>16 DEF OfTheChat, selection
  <2>18. OnScreen'
    <3>1. ~failed => p \union Listed \subseteq ToSet(shown')
      BY <2>6, <2>11, <2>13 DEF IInv, OnScreen
    <3> QED BY <2>1, <2>11, <2>13, <2>16, <3>1 DEF OnScreen, selection
  <2>19. messages # <<>> =>
           /\ From(messages) \in Listed
           /\ \A x \in Listed : Date(From(messages)) <= Date(x)
    <3> SUFFICES ASSUME messages # <<>>
                 PROVE  From(messages) \in Listed /\ \A x \in Listed : Date(From(messages)) <= Date(x)
      OBVIOUS
    <3>1. From(messages) = OldestIn(messages)
      BY DEF From
    <3>2. messages \in Seq(Nat)
      <4>1. Len(messages) \in Nat /\ \A i \in 1 .. Len(messages) : messages[i] \in Ids
        BY <1>3, <2>1, ToSetFacts
      <4>2. messages = [i \in 1 .. Len(messages) |-> messages[i]]
        BY <2>1
      <4> QED BY <4>1, <4>2 DEF Ids
    <3> QED BY <2>13, <3>1, <3>2, OldestInFacts
  <2>20. Distinct(shown) /\ Rising(shown) /\ NoGap
    BY DEF IInv
  <2>21. Distinct(shown)' /\ Rising(shown)'
    <3>1. ASSUME NEW x \in ToSet(top), NEW y \in ToSet(shown)
          PROVE  x # y /\ Date(x) <= Date(y)
      <4>1. x \in p /\ x \notin Listed /\ y \in Listed /\ messages # <<>>
        BY <2>6, <2>8, <2>13, <2>16, SmallFacts
      <4>2. /\ x < From(messages) /\ From(messages) \in Listed
            /\ Date(From(messages)) <= Date(y)
        BY <2>3, <2>19, <4>1
      <4>3. x \in Nat /\ y \in Nat /\ From(messages) \in Nat
        BY <2>2, <2>3, <2>16, <4>1, <4>2 DEF Ids
      <4>4. x <= From(messages)
        BY <4>2, <4>3
      <4>5. Date(x) <= Date(From(messages)) /\ Date(x) \in Nat /\ Date(y) \in Nat
            /\ Date(From(messages)) \in Nat
        BY <4>3, <4>4, DateFacts
      <4> QED BY <4>1, <4>2, <4>5
    <3>2. Distinct(top \o shown) /\ Rising(top \o shown)
      BY <2>1, <2>8, <2>20, <3>1, ConcatOrder
    <3> QED BY <2>10, <3>2 DEF Distinct, Rising
  <2>22. NoGap'
    <3> SUFFICES ASSUME ~failed, NEW m \in atSelection, NEW n \in atSelection,
                        m \in ToSet(shown'), n > m
                 PROVE  n \in ToSet(shown')
      BY <2>1 DEF NoGap, selection
    <3>1. p \union Listed \subseteq ToSet(shown')
      BY <2>6, <2>11, <2>13 DEF IInv, OnScreen
    <3>2. CASE m \in ToSet(shown)
      BY <2>11, <2>20, <3>2 DEF NoGap
    <3>3. CASE m \notin ToSet(shown)
      <4>1. m \in p /\ m < From(messages)
        BY <2>3, <2>6, <2>11, <3>3
      <4>2. CASE n < From(messages)
        BY <2>3, <2>16, <3>1, <4>1, <4>2
      <4>3. CASE ~(n < From(messages)) /\ messages = <<>>
        <5>1. From(messages) = last + 1 /\ n \in 1 .. last
          BY <2>2, <2>16, <4>3 DEF From
        <5> QED BY <2>1, <4>3, <5>1
      <4>4. CASE ~(n < From(messages)) /\ messages # <<>>
        <5>1. From(messages) \in history[selected] /\ From(messages) \in ToSet(shown)
          BY <2>16, <2>19, <4>4 DEF IInv, OnScreen
        <5>2. From(messages) \in atSelection
          BY <2>16, <4>4, <5>1
        <5>3. n = From(messages) \/ n > From(messages)
          <6>1. n \in Nat /\ From(messages) \in Nat
            BY <2>2, <2>16, <5>1 DEF Ids
          <6> QED BY <4>4, <6>1
        <5>4. n \in ToSet(shown)
          BY <2>20, <5>1, <5>2, <5>3 DEF NoGap
        <5> QED BY <2>11, <5>4
      <4> QED BY <4>2, <4>3, <4>4
    <3> QED BY <3>2, <3>3
  <2> QED BY <2>15, <2>17, <2>18, <2>21, <2>22 DEF IInv
<1> QED BY <1>1, <1>2, <1>3 DEF PreviousMessages

\* What has been delivered is newer than the list, so it goes below the screen.
LEMMA NewMessagesUpdateIInv ==
  ASSUME IInv, NewMessagesUpdate
  PROVE  IInv'
<1> USE MessagesAssumption
<1> DEFINE new == ToSet(Delivered(selected))
           fresh == new \ ToSet(messages)
<1>1. CASE new # {} /\ Null \in ToSet(messages)
  <2>1. Dereference
    BY <1>1 DEF NewMessagesUpdate
  <2> QED BY <2>1, ListsStay DEF Dereference, lists
<1>2. CASE ~(new # {} /\ Null \in ToSet(messages))
  <2>1. /\ last \in Nat /\ messages \in Seq(Ids \union {Null}) /\ shown \in Seq(Nat)
        /\ selected \in Chats \union {NoChat}
        /\ queue' = <<>> /\ UNCHANGED <<history, last, selection>>
    BY <1>2 DEF NewMessagesUpdate, IInv, Typed
  <2>2. PICK s \in Oldest1st(new) : /\ shown' = shown \o Kept(s, fresh)
                                    /\ messages' = messages \o RemoveIf(s, fresh)
    BY <1>2 DEF NewMessagesUpdate
  <2>3. /\ new \subseteq ToSet(queue)
        /\ selected # NoChat => new \subseteq history[selected]
        /\ selected = NoChat => new = {}
    BY DeliveredFacts DEF IInv
  <2> HIDE DEF new
  <2>4. new \subseteq 1 .. last /\ new \subseteq Ids
    BY <2>1, <2>3 DEF IInv, Typed, Sent, Ids
  <2>5. s \in Seq(new) /\ ToSet(s) = new /\ Distinct(s) /\ Rising(s)
    <3>1. IsFiniteSet(new)
      BY <2>1, <2>4, SmallFacts
    <3> QED BY <3>1, Oldest1stFacts
  <2>6. s \in Seq(Nat) /\ s \in Seq(Ids) /\ Null \notin Ids
    <3>1. new \subseteq Nat /\ new \subseteq Ids /\ Null \notin Ids
      BY <2>4 DEF Ids
    <3> QED BY <2>5, <3>1, WiderSeq
  <2> HIDE DEF fresh
  <2> DEFINE bottom == Kept(s, fresh)
             rest == RemoveIf(s, fresh)
  <2>7. /\ bottom \in Seq(Nat) /\ ToSet(bottom) = fresh /\ Distinct(bottom) /\ Rising(bottom)
    BY <2>5, <2>6, KeptFacts DEF fresh
  <2>8. /\ rest \in Seq(Ids \union {Null}) /\ ToSet(rest) \ {Null} \subseteq new
        /\ fresh \subseteq ToSet(rest)
    BY <2>5, <2>6, RemoveIfFacts DEF fresh
  <2>9. shown' = shown \o bottom /\ messages' = messages \o rest
    BY <2>2
  <2> HIDE DEF bottom, rest
  <2>10. ToSet(shown') = ToSet(shown) \union fresh /\ shown' \in Seq(Nat)
    BY <2>1, <2>7, <2>9, ConcatFacts
  <2>11. ToSet(messages') = ToSet(messages) \union ToSet(rest) /\ messages' \in Seq(Ids \union {Null})
    BY <2>1, <2>8, <2>9, ConcatFacts
  <2>12. /\ Listed' \subseteq new \union Listed /\ fresh \union Listed \subseteq Listed'
         /\ new \subseteq fresh \union Listed
    BY <2>4, <2>6, <2>8, <2>11 DEF Listed, fresh
  <2>13. ToSet(queue') = {} /\ queue' \in Seq(Nat)
    BY <2>1, SmallFacts
  <2>14. Typed' /\ Sent' /\ ComesLater'
    BY <2>1, <2>10, <2>11, <2>13 DEF IInv, Typed, Sent, ComesLater, selection
  <2>15. OfTheChat'
    <3>1. OfTheChat
      BY DEF IInv
    <3> QED BY <2>1, <2>3, <2>12, <3>1 DEF OfTheChat, selection
  <2>16. OnScreen'
    <3>1. OnScreen
      BY DEF IInv
    <3> QED BY <2>1, <2>10, <2>12, <3>1 DEF OnScreen, selection
  <2>17. \A m \in fresh, x \in Listed \union atSelection : x < m
    BY <2>3 DEF IInv, ComesLater, fresh
  <2>18. Distinct(shown) /\ Rising(shown) /\ NoGap /\ ToSet(shown) \subseteq Listed
    BY DEF IInv, OnScreen
  <2>19. Distinct(shown)' /\ Rising(shown)'
    <3>1. ASSUME NEW x \in ToSet(shown), NEW y \in ToSet(bottom)
          PROVE  x # y /\ Date(x) <= Date(y)
      <4>1. x < y
        BY <2>7, <2>17, <2>18
      <4>2. x \in Nat /\ y \in Nat
        BY <2>1, <2>7, ToSetFacts
      <4> QED BY <4>1, <4>2, DateFacts
    <3>2. Distinct(shown \o bottom) /\ Rising(shown \o bottom)
      BY <2>1, <2>7, <2>18, <3>1, ConcatOrder
    <3> QED BY <2>9, <3>2 DEF Distinct, Rising
  <2>20. NoGap'
    <3> SUFFICES ASSUME ~failed, NEW m \in atSelection, NEW n \in atSelection,
                        m \in ToSet(shown'), n > m
                 PROVE  n \in ToSet(shown')
      BY <2>1 DEF NoGap, selection
    <3>1. m \notin fresh
      <4>1. m \in Nat
        BY <2>1 DEF IInv, Typed, OfTheChat, Ids
      <4> QED BY <2>17, <4>1
    <3> QED BY <2>10, <2>18, <3>1 DEF NoGap
  <2> QED BY <2>14, <2>15, <2>16, <2>19, <2>20 DEF IInv
<1> QED BY <1>1, <1>2

\* An own message is the last one.
LEMMA SendAttachmentIInv ==
  ASSUME IInv, SendAttachment
  PROVE  IInv'
<1> USE MessagesAssumption
<1> DEFINE own == last'
<1>1. /\ last \in 0 .. MaxMessages /\ last < MaxMessages /\ last' = last + 1
      /\ shown \in Seq(Nat) /\ shown' = Append(shown, own)
      /\ messages \in Seq(Ids \union {Null}) /\ messages' = Append(messages, own)
      /\ selected \in Chats
      /\ queue' = <<>> /\ UNCHANGED selection
  BY DEF IInv, Typed, SendAttachment
<1>2. /\ history \in [Chats -> SUBSET Ids]
      /\ history' = [history EXCEPT ![selected] = history[selected] \union {own}]
  BY DEF IInv, Typed, SendAttachment
<1>3. /\ own \in 0 .. MaxMessages /\ own \in Nat /\ own \in Ids /\ own \in 1 .. own
      /\ \A x \in 1 .. last : x < own /\ x \in 1 .. own
      /\ last' = own
  BY <1>1 DEF Ids
<1>4. /\ \A c \in Chats : /\ history[c] \subseteq history'[c]
                          /\ history'[c] \subseteq history[c] \union {own}
      /\ own \in history'[selected]
      /\ history' \in [Chats -> SUBSET Ids]
  BY <1>1, <1>2, <1>3
<1>5. ToSet(queue') = {} /\ queue' \in Seq(Nat)
  BY <1>1, SmallFacts
<1> HIDE DEF own
<1>6. /\ shown' = shown \o <<own>> /\ shown' \in Seq(Nat)
      /\ ToSet(shown') = ToSet(shown) \union {own}
  <2>1. Append(shown, own) = shown \o <<own>>
    BY <1>1, <1>3
  <2>2. Append(shown, own) \in Seq(Nat) /\ ToSet(Append(shown, own)) = ToSet(shown) \union {own}
    BY <1>1, <1>3, AppendFacts
  <2> QED BY <1>1, <2>1, <2>2
<1>7. messages' \in Seq(Ids \union {Null}) /\ ToSet(messages') = ToSet(messages) \union {own}
  <2>1. own \in Ids \union {Null}
    BY <1>3
  <2>2. /\ Append(messages, own) \in Seq(Ids \union {Null})
        /\ ToSet(Append(messages, own)) = ToSet(messages) \union {own}
    BY <1>1, <2>1, AppendFacts
  <2> QED BY <1>1, <2>2
<1>8. Listed' = Listed \union {own}
  BY <1>3, <1>7 DEF Listed, Ids
<1>9. Typed'
  BY <1>1, <1>3, <1>4, <1>5, <1>6, <1>7 DEF Typed, selection
<1>10. Sent' /\ ComesLater'
  <2>1. Sent
    BY DEF IInv
  <2> QED BY <1>3, <1>4, <1>5, <2>1 DEF Sent, ComesLater
<1>11. /\ Listed \subseteq history[selected] /\ atSelection \subseteq history[selected]
       /\ \A n \in atSelection, x \in history[selected] \ atSelection : n < x
       /\ history[selected] \subseteq 1 .. last
       /\ ToSet(shown) \subseteq Listed
  BY <1>1 DEF IInv, OfTheChat, Sent, OnScreen
<1>12. OfTheChat'
  <2>1. Listed' \subseteq history'[selected] /\ atSelection \subseteq history'[selected]
    BY <1>1, <1>4, <1>8, <1>11
  <2>2. ASSUME NEW n \in atSelection, NEW x \in history'[selected] \ atSelection PROVE n < x
    <3>1. x \in history[selected] \/ x = own
      BY <1>1, <1>4
    <3>2. n \in 1 .. last
      BY <1>11
    <3> QED BY <1>3, <1>11, <3>1, <3>2
  <2> QED BY <1>1, <2>1, <2>2 DEF OfTheChat, selection
<1>13. OnScreen'
  <2>1. OnScreen
    BY DEF IInv
  <2> QED BY <1>1, <1>6, <1>8, <2>1 DEF OnScreen, selection
<1>14. Distinct(shown) /\ Rising(shown) /\ NoGap
  BY DEF IInv
<1>15. Distinct(shown)' /\ Rising(shown)'
  <2> DEFINE t == <<own>>
  <2>1. t \in Seq(Nat) /\ ToSet(t) = {own} /\ Distinct(t) /\ Rising(t)
    BY <1>3 DEF ToSet, Distinct, Rising
  <2> HIDE DEF t
  <2>2. ASSUME NEW x \in ToSet(shown), NEW y \in ToSet(t)
        PROVE  x # y /\ Date(x) <= Date(y)
    <3>1. y = own /\ x \in 1 .. last
      BY <1>11, <2>1
    <3>2. x < own /\ x \in Nat
      BY <1>3, <3>1
    <3> QED BY <1>3, <3>1, <3>2, DateFacts
  <2>3. Distinct(shown \o t) /\ Rising(shown \o t)
    BY <1>1, <1>14, <2>1, <2>2, ConcatOrder
  <2> QED BY <1>6, <2>3 DEF Distinct, Rising, t
<1>16. NoGap'
  <2>1. own \notin atSelection
    <3>1. atSelection \subseteq 1 .. last
      BY <1>11
    <3> QED BY <1>3, <3>1
  <2> QED BY <1>1, <1>6, <1>14, <2>1 DEF NoGap, selection
<1> QED BY <1>9, <1>10, <1>12, <1>13, <1>15, <1>16 DEF IInv

-----------------------------------------------------------------------------
(* The theorems.                                                           *)

\* The lists, the screen, the history and the updates always agree.
THEOREM IInvAlways == MessagesSpec => []IInv
<1>1. MessagesInit => IInv
  BY InitIInv
<1>2. IInv /\ [MessagesNext]_messagesVars => IInv'
  <2> SUFFICES ASSUME IInv, [MessagesNext]_messagesVars PROVE IInv'
    OBVIOUS
  <2>1. CASE UNCHANGED messagesVars
    BY <2>1, ListsStay DEF messagesVars, lists
  <2>2. ASSUME NEW c \in Chats, Arrive(c) PROVE IInv'
    BY <2>2, ArriveIInv
  <2>3. ASSUME NEW c \in Chats, SelectChat(c) PROVE IInv'
    BY <2>3, SelectChatIInv
  <2>4. CASE PreviousMessages
    BY <2>4, PreviousMessagesIInv
  <2>5. CASE NewMessagesUpdate
    BY <2>5, NewMessagesUpdateIInv
  <2>6. CASE SendAttachment
    BY <2>6, SendAttachmentIInv
  <2>7. CASE OtherRequest
    BY <2>7, ListsStay DEF OtherRequest, Deliver
  <2> QED BY <2>1, <2>2, <2>3, <2>4, <2>5, <2>6, <2>7 DEF MessagesNext
<1> QED BY <1>1, <1>2, PTL DEF MessagesSpec

\* No message is ever on the screen twice.
THEOREM ShownOnceAlways == MessagesSpec => []ShownOnce
<1>1. IInv => ShownOnce
  BY DEF IInv, Distinct, ShownOnce
<1> QED BY <1>1, IInvAlways, PTL

\* The screen is always in the order of time.
THEOREM ShownInOrderAlways == MessagesSpec => []ShownInOrder
<1>1. IInv => ShownInOrder
  BY DEF IInv, Rising, ShownInOrder
<1> QED BY <1>1, IInvAlways, PTL

\* Above the oldest message on the screen, none that the chat had when it was
\* selected is ever missing, unless the selection failed.
THEOREM NoGapAlways == MessagesSpec => []NoGap
<1>1. IInv => NoGap
  BY DEF IInv
<1> QED BY <1>1, IInvAlways, PTL
=============================================================================
