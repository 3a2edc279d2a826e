--------------------------- MODULE StartupProofs ---------------------------
(***************************************************************************)
(* Theorems about the startup request of Startup, for every value of its   *)
(* constants.  The type invariant is not inductive on its own: the chat    *)
(* that is stored and the chat the user is asked about must be chats.  The *)
(* invariant below says, of every phase of the loop over the chats, what   *)
(* the socket, the handshake with the GUI thread and the tables hold.      *)
(***************************************************************************)
EXTENDS Startup, SequenceTheorems, TLAPS

Looping == {"lookup", "ask", "waitAnswer", "store", "stored"}
Done == {"finish", "loop", "returned"}

\* What the loop and the handshake are at, whatever the socket delivers.
ControlInv ==
    /\ tpc \in Looping => chat \in todo
    /\ tpc \notin Done => chat_list = Unknown
    /\ \A c \in todo : temp[c] = -1
    /\ MutexStartupHeld => /\ tpc = "waitAnswer" /\ chatName = chat
                           /\ ~startup /\ ~startup2
    /\ chat_list_done => startup /\ tpc \in Done
    /\ startup /\ ~chat_list_done => /\ tpc = "waitAnswer" /\ chatName = chat
                                     /\ gpc = "await" /\ ~startup2
    /\ startup2 => tpc = "waitAnswer" /\ ~startup /\ gpc = "await"
    /\ gpc \in {"result", "window", "closing"} => tpc \in Done
    /\ \A c \in Chats : chat_list[c] \in {-1, temp[c]}

\* The wish of the user about c is the answer in useSEcube.
Wished(c) == wish[c] = IF useSEcube THEN "encrypt" ELSE "clear"

Operation == IF useSEcube THEN "add_enc_table" ELSE "add_not_enc_table"
Table == IF useSEcube THEN EncryptedChat ELSE ClearChat
OtherTable == IF useSEcube THEN ClearChat ELSE EncryptedChat

\* What the socket, the answer and the tables hold as long as no read() failed.
SocketInv ==
    /\ tpc = "lookup" =>
         \/ toServer = <<[op |-> "is_secube_chat", chat |-> chat]>> /\ toClient = <<>>
         \/ toServer = <<>> /\ \E reply \in FindChat(chat) : toClient = <<reply>>
    /\ tpc = "stored" =>
         \/ /\ toServer = <<[op |-> Operation, chat |-> chat]>> /\ toClient = <<>>
            /\ chat \notin EncryptedChat \union ClearChat
         \/ /\ toServer = <<>>
            /\ \E reply \in {"0", "1"} :
                 toClient = <<reply>> /\ (reply = "0" => chat \in Table)
            /\ chat \notin OtherTable
    /\ tpc \notin {"lookup", "stored"} => toServer = <<>> /\ toClient = <<>>

AnswerInv ==
    /\ tpc \in {"ask", "waitAnswer", "store"} =>
         chat \notin EncryptedChat \union ClearChat
    /\ gpc = "id" => useSEcube
    /\ gpc \in {"id", "reply"} \/ startup2 \/ tpc \in {"store", "stored"} => Wished(chat)

TablesInv ==
    /\ EncryptedChat \intersect ClearChat = {}
    /\ \A c \in EncryptedChat : wish[c] = "encrypt"
    /\ \A c \in ClearChat : wish[c] = "clear"
    /\ \A c \in Chats : /\ temp[c] = 0 => c \notin EncryptedChat /\ wish[c] = "clear"
                        /\ temp[c] = 1 => c \in EncryptedChat /\ wish[c] = "encrypt"

ExchangeInv == SocketInv /\ AnswerInv /\ TablesInv

SafetyInv == ControlInv /\ (faults = 0 => ExchangeInv)
\* notify_one only ever removes waiters.
LEMMA StartupNotifyShrinks ==
    ASSUME NEW W, NEW V \in AfterNotifyOne(W)
    PROVE  V \subseteq W
BY DEF AfterNotifyOne

\* Reading from and writing to the socket keep the type of its messages.
LEMMA AppendTyped ==
    ASSUME NEW S, NEW s \in Seq(S), NEW e \in S
    PROVE  Append(s, e) \in Seq(S)
BY AppendProperties

LEMMA HeadTailTyped ==
    ASSUME NEW S, NEW s \in Seq(S), s # <<>>
    PROVE  Head(s) \in S /\ Tail(s) \in Seq(S)
BY HeadTailProperties

\* A message written to an empty socket is the one that is read.
LEMMA Singleton ==
    ASSUME NEW e
    PROVE  /\ Append(<<>>, e) = <<e>> /\ <<e>> # <<>>
           /\ Head(<<e>>) = e /\ Tail(<<e>>) = <<>>
OBVIOUS

\* The flags stay Boolean.
LEMMA FlagTypesStep == FlagTypes /\ [Next]_vars => FlagTypes'
<1> SUFFICES ASSUME FlagTypes, [Next]_vars PROVE FlagTypes'
  OBVIOUS
<1> USE DEF FlagTypes, tables, socket, list, outcome, handshake, answer, history
<1>1. CASE GetMe
  BY <1>1 DEF GetMe
<1>2. CASE GetChats
  BY <1>2 DEF GetChats
<1>3. CASE NextChat
  BY <1>3 DEF NextChat
<1>4. CASE LookupReply
  BY <1>4 DEF LookupReply
<1>5. CASE Ask
  BY <1>5 DEF Ask
<1>6. CASE WaitAnswer
  BY <1>6 DEF WaitAnswer
<1>7. CASE Store
  BY <1>7 DEF Store
<1>8. CASE StoreReply
  BY <1>8 DEF StoreReply
<1>9. CASE ListDone
  BY <1>9 DEF ListDone
<1>10. CASE Finish
  BY <1>10 DEF Finish
<1>11. CASE AwaitStartup
  BY <1>11 DEF AwaitStartup
<1>12. CASE ReplyToTelegram
  BY <1>12 DEF ReplyToTelegram
<1>13. CASE AwaitResult
  BY <1>13 DEF AwaitResult
<1>14. CASE AnswerYes
  BY <1>14 DEF AnswerYes
<1>15. CASE AnswerNo
  BY <1>15 DEF AnswerNo
<1>16. CASE EnterID
  BY <1>16 DEF EnterID
<1>17. CASE Serve
  BY <1>17 DEF Serve
<1>18. CASE ReadError
  BY <1>18 DEF ReadError
<1>19. CASE Restart
  BY <1>19 DEF Restart
<1>20. CASE UNCHANGED vars
  BY <1>20 DEF vars
<1> QED
  BY <1>1, <1>2, <1>3, <1>4, <1>5, <1>6, <1>7, <1>8, <1>9, <1>10, <1>11, <1>12,
     <1>13, <1>14, <1>15, <1>16, <1>17, <1>18, <1>19, <1>20
     DEF Next, Telegram, Gui, User

\* read() keeps the type of the replies.
LEMMA ReadTyped ==
    ASSUME StateTypes, NEW reply, Read(reply)
    PROVE  toClient' \in Seq(Replies) /\ faults' \in Nat
<1>1. toClient \in Seq(Replies) /\ faults \in Nat
  BY DEF StateTypes
<1>2. CASE toClient # <<>> /\ toClient' = Tail(toClient) /\ UNCHANGED faults
  BY <1>1, <1>2, HeadTailTyped
<1>3. CASE faults' = faults + 1 /\ UNCHANGED toClient
  BY <1>1, <1>3
<1> QED
  BY <1>2, <1>3 DEF Read

\* Putting a chat on the new list with a flag keeps ControlInv's view of it.
LEMMA InsertTyped ==
    ASSUME StateTypes, ControlInv, NEW flag \in {-1, 0, 1}, Insert(flag),
           tpc \in Looping
    PROVE  /\ temp' \in Flags /\ todo' \subseteq Chats /\ tpc' = "next"
           /\ \A c \in todo' : temp'[c] = -1
           /\ chat_list' = Unknown /\ UNCHANGED <<chat, chat_list>>
<1>1. tpc \notin Done
  BY DEF Looping, Done
<1> QED
  BY <1>1 DEF StateTypes, ControlInv, Insert, Flags

\* Every other variable keeps to its type.
LEMMA StateTypesStep ==
    FlagTypes /\ StateTypes /\ ControlInv /\ [Next]_vars => StateTypes'
<1> SUFFICES ASSUME FlagTypes, StateTypes, ControlInv, [Next]_vars PROVE StateTypes'
  OBVIOUS
<1> USE DEF StateTypes, tables, socket, list, outcome, handshake, answer, history
<1>1. CASE GetMe
  BY <1>1, StartupNotifyShrinks DEF GetMe
<1>2. CASE GetChats
  BY <1>2 DEF GetChats
<1>3. CASE NextChat
  <2>1. chat' \in Chats
    BY <1>3 DEF NextChat
  <2>2. [op |-> "is_secube_chat", chat |-> chat'] \in [op : Operations, chat : Chats]
    BY <2>1 DEF Operations
  <2>3. toServer' \in Seq([op : Operations, chat : Chats])
    BY <1>3, <2>2, AppendTyped DEF NextChat
  <2> QED
    BY <1>3, <2>1, <2>3 DEF NextChat
<1>4. CASE LookupReply
  <2> PICK reply \in Replies \union {"failed"} :
         /\ Read(reply)
         /\ IF reply = "2" THEN tpc' = "ask" /\ UNCHANGED list
            ELSE Insert(IF reply = "1" THEN 1 ELSE IF reply = "0" THEN 0 ELSE -1)
    BY <1>4 DEF LookupReply
  <2>1. temp' \in Flags /\ todo' \subseteq Chats /\ tpc' \in {"ask", "next"}
        /\ UNCHANGED <<chat, chat_list>>
    BY <1>4 DEF LookupReply, Insert, Flags
  <2>2. toClient' \in Seq(Replies) /\ faults' \in Nat
    BY ReadTyped
  <2> QED
    BY <1>4, <2>1, <2>2 DEF LookupReply
<1>5. CASE Ask
  BY <1>5, StartupNotifyShrinks DEF Ask
<1>6. CASE WaitAnswer
  BY <1>6 DEF WaitAnswer
<1>7. CASE Store
  <2>1. chat \in Chats
    BY <1>7 DEF Store, ControlInv, Looping
  <2>2. CASE useSEcube /\ SEkeyID = "none"
    BY <1>7, <2>2 DEF Store, Insert, Flags
  <2>3. CASE ~(useSEcube /\ SEkeyID = "none")
    <3> DEFINE request == [op |-> IF useSEcube THEN "add_enc_table"
                                  ELSE "add_not_enc_table", chat |-> chat]
    <3>1. request \in [op : Operations, chat : Chats]
      BY <2>1 DEF Operations
    <3>2. toServer' = Append(toServer, request)
      BY <1>7, <2>3 DEF Store
    <3>3. toServer' \in Seq([op : Operations, chat : Chats])
      BY <3>1, <3>2, AppendTyped
    <3> QED
      BY <1>7, <2>3, <3>3 DEF Store
  <2> QED
    BY <2>2, <2>3
<1>8. CASE StoreReply
  <2> PICK reply \in Replies \union {"failed"} :
         /\ Read(reply)
         /\ Insert(IF ~useSEcube THEN 0 ELSE IF reply = "0" THEN 1 ELSE -1)
    BY <1>8 DEF StoreReply
  <2>1. temp' \in Flags /\ todo' \subseteq Chats /\ tpc' = "next"
        /\ UNCHANGED <<chat, chat_list>>
    BY DEF Insert, Flags
  <2>2. toClient' \in Seq(Replies) /\ faults' \in Nat
    BY ReadTyped
  <2> QED
    BY <1>8, <2>1, <2>2 DEF StoreReply
<1>9. CASE ListDone
  BY <1>9, StartupNotifyShrinks DEF ListDone
<1>10. CASE Finish
  BY <1>10, StartupNotifyShrinks DEF Finish
<1>11. CASE AwaitStartup
  BY <1>11 DEF AwaitStartup
<1>12. CASE ReplyToTelegram
  BY <1>12, StartupNotifyShrinks DEF ReplyToTelegram
<1>13. CASE AwaitResult
  BY <1>13 DEF AwaitResult
<1>14. CASE AnswerYes
  <2>1. chatName \in Chats
    BY <1>14 DEF AnswerYes, ControlInv, MutexStartupHeld, Looping
  <2>2. wish' \in [Chats -> {"none", "encrypt", "clear"}]
    BY <1>14, <2>1 DEF AnswerYes
  <2> QED
    BY <1>14, <2>1, <2>2 DEF AnswerYes
<1>15. CASE AnswerNo
  <2>1. chatName \in Chats
    BY <1>15 DEF AnswerNo, ControlInv, MutexStartupHeld, Looping
  <2>2. wish' \in [Chats -> {"none", "encrypt", "clear"}]
    BY <1>15, <2>1 DEF AnswerNo
  <2> QED
    BY <1>15, <2>1, <2>2 DEF AnswerNo
<1>16. CASE EnterID
  BY <1>16 DEF EnterID
<1>17. CASE Serve
  <2>1. /\ toServer' \in Seq([op : Operations, chat : Chats])
        /\ Head(toServer) \in [op : Operations, chat : Chats]
    BY <1>17, HeadTailTyped DEF Serve
  <2> DEFINE c == Head(toServer).chat
  <2>2. c \in Chats
    BY <2>1
  <2>3. /\ toClient' \in Seq(Replies)
        /\ EncryptedChat' \subseteq Chats /\ ClearChat' \subseteq Chats
    <3>1. CASE IsSecubeChat(c)
      <4> PICK reply \in FindChat(c) : toClient' = Append(toClient, reply)
        BY <3>1 DEF IsSecubeChat
      <4>1. reply \in Replies
        BY DEF FindChat, Replies
      <4> QED
        BY <3>1, <4>1, AppendTyped DEF IsSecubeChat
    <3>2. CASE AddEncTable(c)
      BY <2>2, <3>2, AppendTyped DEF AddEncTable, AddTo, Replies
    <3>3. CASE AddNotEncTable(c)
      BY <2>2, <3>3, AppendTyped DEF AddNotEncTable, AddTo, Replies
    <3> QED
      BY <1>17, <3>1, <3>2, <3>3 DEF Serve
  <2> QED
    BY <1>17, <2>1, <2>3 DEF Serve
<1>18. CASE ReadError
  <2>1. toClient' \in Seq(Replies)
    BY <1>18, AppendTyped DEF ReadError, Replies
  <2>2. faults' \in Nat
    <3>1. faults \in Nat
      OBVIOUS
    <3>2. faults' = faults + 1
      BY <1>18 DEF ReadError
    <3> HIDE DEF StateTypes
    <3> QED
      BY <3>1, <3>2
  <2>3. UNCHANGED <<tables, toServer, tpc, gpc, list, outcome, handshake, answer,
                    session, asked, wish>>
    BY <1>18 DEF ReadError
  <2> QED
    BY <2>1, <2>2, <2>3
<1>19. CASE Restart
  <2>1. temp' \in Flags /\ chat_list' \in Flags
    BY <1>19 DEF Restart, Unknown, Flags
  <2>2. toServer' \in Seq([op : Operations, chat : Chats]) /\ toClient' \in Seq(Replies)
    BY <1>19, EmptySeq DEF Restart
  <2>3. session' \in Nat /\ faults' \in Nat
    <3>1. session \in Nat /\ faults \in Nat
      OBVIOUS
    <3>2. session' = session + 1 /\ faults' = faults
      BY <1>19 DEF Restart
    <3> HIDE DEF StateTypes
    <3> QED
      BY <3>1, <3>2
  <2> QED
    BY <1>19, <2>1, <2>2, <2>3 DEF Restart
<1>20. CASE UNCHANGED vars
  BY <1>20 DEF vars
<1> QED
  BY <1>1, <1>2, <1>3, <1>4, <1>5, <1>6, <1>7, <1>8, <1>9, <1>10, <1>11, <1>12,
     <1>13, <1>14, <1>15, <1>16, <1>17, <1>18, <1>19, <1>20
     DEF Next, Telegram, Gui, User

\* ControlInv is inductive.
LEMMA ControlInvStep ==
    FlagTypes /\ StateTypes /\ ControlInv /\ [Next]_vars => ControlInv'
<1> SUFFICES ASSUME FlagTypes, StateTypes, ControlInv, [Next]_vars PROVE ControlInv'
  OBVIOUS
<1> USE DEF ControlInv, Looping, Done, MutexStartupHeld, tables, socket, list, outcome, handshake, answer, history
<1>1. CASE GetMe
  BY <1>1 DEF GetMe
<1>2. CASE GetChats
  BY <1>2 DEF GetChats
<1>3. CASE NextChat
  BY <1>3 DEF NextChat
<1>4. CASE LookupReply
  <2> PICK reply \in Replies \union {"failed"} :
         IF reply = "2" THEN tpc' = "ask" /\ UNCHANGED list
         ELSE Insert(IF reply = "1" THEN 1 ELSE IF reply = "0" THEN 0 ELSE -1)
    BY <1>4 DEF LookupReply
  <2>1. CASE reply = "2"
    BY <1>4, <2>1 DEF LookupReply
  <2>2. CASE reply # "2"
    <3>1. (IF reply = "1" THEN 1 ELSE IF reply = "0" THEN 0 ELSE -1) \in {-1, 0, 1}
      OBVIOUS
    <3>2. /\ tpc = "lookup" /\ tpc' = "next" /\ chat_list' = Unknown
          /\ \A c \in todo' : temp'[c] = -1
      BY <1>4, <2>2, <3>1, InsertTyped DEF LookupReply
    <3> QED
      BY <1>4, <2>2, <3>2 DEF LookupReply, Unknown
  <2> QED
    BY <2>1, <2>2
<1>5. CASE Ask
  BY <1>5 DEF Ask, StateTypes
<1>6. CASE WaitAnswer
  BY <1>6 DEF WaitAnswer
<1>7. CASE Store
  <2>1. CASE useSEcube /\ SEkeyID = "none"
    <3>1. /\ tpc = "store" /\ tpc' = "next" /\ chat_list' = Unknown
          /\ \A c \in todo' : temp'[c] = -1
      BY <1>7, <2>1, InsertTyped DEF Store
    <3> QED
      BY <1>7, <2>1, <3>1 DEF Store, Unknown
  <2>2. CASE ~(useSEcube /\ SEkeyID = "none")
    BY <1>7, <2>2 DEF Store
  <2> QED
    BY <2>1, <2>2
<1>8. CASE StoreReply
  BY <1>8 DEF StoreReply, Insert, Flags, StateTypes
<1>9. CASE ListDone
  BY <1>9 DEF ListDone
<1>10. CASE Finish
  BY <1>10 DEF Finish
<1>11. CASE AwaitStartup
  BY <1>11 DEF AwaitStartup
<1>12. CASE ReplyToTelegram
  BY <1>12 DEF ReplyToTelegram
<1>13. CASE AwaitResult
  BY <1>13 DEF AwaitResult
<1>14. CASE AnswerYes
  BY <1>14 DEF AnswerYes
<1>15. CASE AnswerNo
  BY <1>15 DEF AnswerNo
<1>16. CASE EnterID
  BY <1>16 DEF EnterID
<1>17. CASE Serve
  BY <1>17 DEF Serve
<1>18. CASE ReadError
  BY <1>18 DEF ReadError
<1>19. CASE Restart
  BY <1>19 DEF Restart, Unknown
<1>20. CASE UNCHANGED vars
  BY <1>20 DEF vars
<1> QED
  BY <1>1, <1>2, <1>3, <1>4, <1>5, <1>6, <1>7, <1>8, <1>9, <1>10, <1>11, <1>12,
     <1>13, <1>14, <1>15, <1>16, <1>17, <1>18, <1>19, <1>20
     DEF Next, Telegram, Gui, User

\* The type invariant and the control invariant hold in every state.
LEMMA ControlInvariant == Spec => [](FlagTypes /\ StateTypes /\ ControlInv)
<1>1. Init => FlagTypes
  BY DEF Init, FlagTypes
<1>2. Init => StateTypes
  <2> SUFFICES ASSUME Init PROVE StateTypes
    OBVIOUS
  <2>1. Unknown \in Flags
    BY DEF Unknown, Flags
  <2>2. toServer \in Seq([op : Operations, chat : Chats]) /\ toClient \in Seq(Replies)
    BY EmptySeq DEF Init
  <2> QED
    BY <2>1, <2>2 DEF Init, StateTypes
<1>3. Init => ControlInv
  BY DEF Init, ControlInv, Looping, Done, MutexStartupHeld, Unknown
<1> QED
  BY <1>1, <1>2, <1>3, FlagTypesStep, StateTypesStep, ControlInvStep, PTL DEF Spec

\* The type invariant of the startup.
THEOREM StartupTypeCorrect == Spec => []TypeOK
<1>1. FlagTypes /\ StateTypes => TypeOK
  BY DEF TypeOK
<1> QED
  BY <1>1, ControlInvariant, PTL

\* ExchangeInv is inductive as long as no read() fails.
LEMMA ExchangeInvStep ==
    ASSUME FlagTypes, StateTypes, ControlInv, [Next]_vars, faults' = 0,
           faults = 0 => ExchangeInv
    PROVE  ExchangeInv'
<1>0. faults = 0 /\ ExchangeInv
  <2>1. faults' = faults \/ faults' = faults + 1 \/ faults = 0
    BY DEF Next, Telegram, Gui, User, GetMe, GetChats, NextChat, LookupReply, Ask,
       WaitAnswer, Store, StoreReply, ListDone, Finish, AwaitStartup, ReplyToTelegram,
       AwaitResult, AnswerYes, AnswerNo, EnterID, Serve, ReadError, Restart, vars,
       Read, history
  <2>2. faults \in Nat
    BY DEF StateTypes
  <2> QED
    BY <2>1, <2>2
<1> USE <1>0 DEF tables, socket, list, outcome, handshake, answer, history
<1>1. CASE GetMe
  BY <1>1 DEF GetMe, ExchangeInv, SocketInv, AnswerInv, TablesInv, Wished,
         Operation, Table, OtherTable, FindChat
<1>2. CASE GetChats
  BY <1>2 DEF GetChats, ExchangeInv, SocketInv, AnswerInv, TablesInv, Wished,
         Operation, Table, OtherTable, FindChat
<1>3. CASE NextChat
  <2>0. /\ tpc = "next" /\ ~MutexStartupHeld /\ ~startup2
        /\ toServer = <<>> /\ toClient = <<>>
    BY <1>3 DEF NextChat, ControlInv, ExchangeInv, SocketInv
  <2>1. SocketInv'
    BY <1>3, <2>0, Singleton DEF NextChat, SocketInv
  <2>2. AnswerInv'
    BY <1>3, <2>0 DEF NextChat, AnswerInv, MutexStartupHeld
  <2>3. TablesInv'
    BY <1>3 DEF NextChat, ExchangeInv, TablesInv
  <2> QED
    BY <2>1, <2>2, <2>3 DEF ExchangeInv
<1>4. CASE LookupReply
  <2> PICK reply \in Replies \union {"failed"} :
         /\ Read(reply)
         /\ IF reply = "2" THEN tpc' = "ask" /\ UNCHANGED list
            ELSE Insert(IF reply = "1" THEN 1 ELSE IF reply = "0" THEN 0 ELSE -1)
    BY <1>4 DEF LookupReply
  <2>0. /\ tpc = "lookup" /\ ~MutexStartupHeld /\ ~startup2 /\ chat \in todo
        /\ UNCHANGED <<tables, toServer, gpc, startup2, useSEcube, wish>>
    BY <1>4 DEF LookupReply, ControlInv, Looping
  <2>1. toServer = <<>> /\ toClient' = <<>> /\ reply \in FindChat(chat)
    <3>1. toClient # <<>> /\ reply = Head(toClient) /\ toClient' = Tail(toClient)
      BY DEF Read
    <3>2. toServer = <<>> /\ \E r \in FindChat(chat) : toClient = <<r>>
      BY <2>0, <3>1 DEF ExchangeInv, SocketInv
    <3> QED
      BY <3>1, <3>2, Singleton
  <2>2. CASE reply = "2"
    <3>1. chat \notin EncryptedChat \union ClearChat /\ tpc' = "ask"
      BY <2>1, <2>2 DEF FindChat
    <3>2. SocketInv'
      BY <2>0, <2>1, <3>1 DEF SocketInv
    <3>3. AnswerInv'
      BY <2>0, <2>2, <3>1 DEF AnswerInv, MutexStartupHeld
    <3>4. TablesInv'
      BY <2>0, <2>2 DEF ExchangeInv, TablesInv
    <3> QED
      BY <3>2, <3>3, <3>4 DEF ExchangeInv
  <2>3. CASE reply # "2"
    <3> DEFINE flag == IF reply = "1" THEN 1 ELSE IF reply = "0" THEN 0 ELSE -1
    <3>1. temp' = [temp EXCEPT ![chat] = flag] /\ tpc' = "next"
      BY <2>3 DEF Insert
    <3>2. flag = 1 => chat \in EncryptedChat
      BY <2>1, <2>3 DEF FindChat
    <3>3. flag = 0 => chat \notin EncryptedChat /\ chat \in ClearChat
      BY <2>1, <2>3 DEF FindChat
    <3> HIDE DEF flag
    <3>4. SocketInv'
      BY <2>0, <2>1, <3>1 DEF SocketInv
    <3>5. AnswerInv'
      BY <2>0, <3>1 DEF AnswerInv, MutexStartupHeld
    <3>6. TablesInv'
      BY <2>0, <3>1, <3>2, <3>3 DEF ExchangeInv, TablesInv, StateTypes, Flags
    <3> QED
      BY <3>4, <3>5, <3>6 DEF ExchangeInv
  <2> QED
    BY <2>2, <2>3
<1>5. CASE Ask
  BY <1>5 DEF Ask, ExchangeInv, SocketInv, AnswerInv, TablesInv, Wished,
         Operation, Table, OtherTable, FindChat
<1>6. CASE WaitAnswer
  BY <1>6 DEF WaitAnswer, ExchangeInv, SocketInv, AnswerInv, TablesInv, Wished,
         Operation, Table, OtherTable, FindChat
<1>7. CASE Store
  <2>0. /\ tpc = "store" /\ ~MutexStartupHeld /\ ~startup2 /\ chat \in todo
        /\ toServer = <<>> /\ toClient = <<>> /\ Wished(chat)
        /\ chat \notin EncryptedChat \union ClearChat
        /\ UNCHANGED <<tables, toClient, gpc, startup2, useSEcube, wish>>
    BY <1>7 DEF Store, ControlInv, Looping, ExchangeInv, SocketInv, AnswerInv
  <2>1. CASE useSEcube /\ SEkeyID = "none"
    <3>1. temp' = [temp EXCEPT ![chat] = -1] /\ tpc' = "next" /\ UNCHANGED toServer
      BY <1>7, <2>1 DEF Store, Insert
    <3>2. SocketInv'
      BY <2>0, <3>1 DEF SocketInv
    <3>3. AnswerInv'
      BY <2>0, <3>1 DEF AnswerInv, MutexStartupHeld
    <3>4. temp \in [Chats -> {-1, 0, 1}] /\ temp[chat] = -1
      BY <2>0 DEF StateTypes, Flags, ControlInv
    <3>5. temp' = temp
      BY <3>1, <3>4
    <3>6. TablesInv'
      BY <2>0, <3>5 DEF ExchangeInv, TablesInv
    <3> QED
      BY <3>2, <3>3, <3>6 DEF ExchangeInv
  <2>2. CASE ~(useSEcube /\ SEkeyID = "none")
    <3>1. toServer' = <<[op |-> Operation, chat |-> chat]>> /\ tpc' = "stored"
          /\ UNCHANGED <<chat, temp>>
      BY <1>7, <2>0, <2>2, Singleton DEF Store, Operation
    <3>2. SocketInv'
      BY <2>0, <3>1 DEF SocketInv, Operation
    <3>3. AnswerInv'
      BY <2>0, <3>1 DEF AnswerInv, MutexStartupHeld, Wished
    <3>4. TablesInv'
      BY <2>0, <3>1 DEF ExchangeInv, TablesInv
    <3> QED
      BY <3>2, <3>3, <3>4 DEF ExchangeInv
  <2> QED
    BY <2>1, <2>2
<1>8. CASE StoreReply
  <2> PICK reply \in Replies \union {"failed"} :
         /\ Read(reply)
         /\ Insert(IF ~useSEcube THEN 0 ELSE IF reply = "0" THEN 1 ELSE -1)
    BY <1>8 DEF StoreReply
  <2>0. /\ tpc = "stored" /\ ~MutexStartupHeld /\ ~startup2 /\ chat \in todo
        /\ Wished(chat)
        /\ UNCHANGED <<tables, toServer, gpc, startup2, useSEcube, wish>>
    BY <1>8 DEF StoreReply, ControlInv, Looping, ExchangeInv, AnswerInv
  <2>1. /\ toServer = <<>> /\ toClient' = <<>> /\ chat \notin OtherTable
        /\ reply = "0" => chat \in Table
    <3>1. toClient # <<>> /\ reply = Head(toClient) /\ toClient' = Tail(toClient)
      BY DEF Read
    <3>2. /\ toServer = <<>> /\ chat \notin OtherTable
          /\ \E r \in {"0", "1"} : toClient = <<r>> /\ (r = "0" => chat \in Table)
      BY <2>0, <3>1 DEF ExchangeInv, SocketInv
    <3> QED
      BY <3>1, <3>2, Singleton
  <2> DEFINE flag == IF ~useSEcube THEN 0 ELSE IF reply = "0" THEN 1 ELSE -1
  <2>2. temp' = [temp EXCEPT ![chat] = flag] /\ tpc' = "next"
    BY DEF Insert
  <2>3. flag = 1 => chat \in EncryptedChat /\ wish[chat] = "encrypt"
    BY <2>0, <2>1 DEF Table, Wished
  <2>4. flag = 0 => chat \notin EncryptedChat /\ wish[chat] = "clear"
    BY <2>0, <2>1 DEF OtherTable, Wished
  <2> HIDE DEF flag
  <2>5. SocketInv'
    BY <2>0, <2>1, <2>2 DEF SocketInv
  <2>6. AnswerInv'
    BY <2>0, <2>2 DEF AnswerInv, MutexStartupHeld
  <2>7. TablesInv'
    BY <2>0, <2>2, <2>3, <2>4 DEF ExchangeInv, TablesInv, StateTypes, Flags
  <2> QED
    BY <2>5, <2>6, <2>7 DEF ExchangeInv
<1>9. CASE ListDone
  BY <1>9 DEF ListDone, ExchangeInv, SocketInv, AnswerInv, TablesInv, Wished,
         Operation, Table, OtherTable, FindChat
<1>10. CASE Finish
  BY <1>10 DEF Finish, ExchangeInv, SocketInv, AnswerInv, TablesInv, Wished,
         Operation, Table, OtherTable, FindChat
<1>11. CASE AwaitStartup
  BY <1>11 DEF AwaitStartup, ExchangeInv, SocketInv, AnswerInv, TablesInv, Wished,
         Operation, Table, OtherTable, FindChat
<1>12. CASE ReplyToTelegram
  BY <1>12 DEF ReplyToTelegram, ExchangeInv, SocketInv, AnswerInv, TablesInv, Wished,
         Operation, Table, OtherTable, FindChat
<1>13. CASE AwaitResult
  BY <1>13 DEF AwaitResult, ExchangeInv, SocketInv, AnswerInv, TablesInv, Wished,
         Operation, Table, OtherTable, FindChat
<1>14. CASE AnswerYes
  <2>0. /\ tpc = "waitAnswer" /\ chatName = chat /\ chat \in todo
        /\ chat \notin EncryptedChat \union ClearChat /\ temp[chat] = -1
    BY <1>14 DEF AnswerYes, ControlInv, Looping, MutexStartupHeld, ExchangeInv, AnswerInv
  <2>1. /\ wish' = [wish EXCEPT ![chat] = "encrypt"]
        /\ UNCHANGED <<tables, socket, tpc, chat, temp, startup2>>
        /\ gpc' = "id" /\ useSEcube' = TRUE
    BY <1>14, <2>0 DEF AnswerYes
  <2>2. SocketInv'
    BY <2>0, <2>1 DEF ExchangeInv, SocketInv
  <2>3. AnswerInv'
    BY <2>0, <2>1 DEF ExchangeInv, AnswerInv, Wished, StateTypes
  <2>4. \A c \in Chats : c # chat => wish'[c] = wish[c]
    BY <2>1 DEF StateTypes
  <2>5. EncryptedChat \subseteq Chats /\ ClearChat \subseteq Chats
    BY DEF StateTypes
  <2>6. TablesInv'
    BY <2>0, <2>1, <2>4, <2>5 DEF ExchangeInv, TablesInv
  <2> QED
    BY <2>2, <2>3, <2>6 DEF ExchangeInv
<1>15. CASE AnswerNo
  <2>0. /\ tpc = "waitAnswer" /\ chatName = chat /\ chat \in todo
        /\ chat \notin EncryptedChat \union ClearChat /\ temp[chat] = -1
    BY <1>15 DEF AnswerNo, ControlInv, Looping, MutexStartupHeld, ExchangeInv, AnswerInv
  <2>1. /\ wish' = [wish EXCEPT ![chat] = "clear"]
        /\ UNCHANGED <<tables, socket, tpc, chat, temp, startup2>>
        /\ gpc' = "reply" /\ useSEcube' = FALSE
    BY <1>15, <2>0 DEF AnswerNo
  <2>2. SocketInv'
    BY <2>0, <2>1 DEF ExchangeInv, SocketInv
  <2>3. AnswerInv'
    BY <2>0, <2>1 DEF ExchangeInv, AnswerInv, Wished, StateTypes
  <2>4. \A c \in Chats : c # chat => wish'[c] = wish[c]
    BY <2>1 DEF StateTypes
  <2>5. EncryptedChat \subseteq Chats /\ ClearChat \subseteq Chats
    BY DEF StateTypes
  <2>6. TablesInv'
    BY <2>0, <2>1, <2>4, <2>5 DEF ExchangeInv, TablesInv
  <2> QED
    BY <2>2, <2>3, <2>6 DEF ExchangeInv
<1>16. CASE EnterID
  BY <1>16 DEF EnterID, ExchangeInv, SocketInv, AnswerInv, TablesInv, Wished,
         Operation, Table, OtherTable, FindChat
<1>17. CASE Serve
  <2>0. /\ UNCHANGED <<tpc, gpc, chat, temp, startup2, useSEcube, wish>>
        /\ toServer # <<>> /\ toServer' = Tail(toServer)
    BY <1>17 DEF Serve
  <2> DEFINE request == Head(toServer)
  <2>1. CASE tpc = "lookup"
    <3>1. toServer = <<[op |-> "is_secube_chat", chat |-> chat]>> /\ toClient = <<>>
      BY <2>0, <2>1 DEF ExchangeInv, SocketInv
    <3>2. request = [op |-> "is_secube_chat", chat |-> chat] /\ toServer' = <<>>
      BY <2>0, <3>1, Singleton
    <3>3. IsSecubeChat(chat)
      BY <1>17, <3>2 DEF Serve
    <3>4. /\ UNCHANGED tables
          /\ \E reply \in FindChat(chat) : toClient' = <<reply>>
      BY <3>1, <3>3, Singleton DEF IsSecubeChat
    <3>5. SocketInv'
      BY <2>0, <2>1, <3>2, <3>4 DEF SocketInv, FindChat
    <3>6. AnswerInv' /\ TablesInv'
      BY <2>0, <3>4 DEF ExchangeInv, AnswerInv, TablesInv, Wished
    <3> QED
      BY <3>5, <3>6 DEF ExchangeInv
  <2>2. CASE tpc = "stored"
    <3>1. /\ toServer = <<[op |-> Operation, chat |-> chat]>> /\ toClient = <<>>
          /\ chat \notin EncryptedChat \union ClearChat
      BY <2>0, <2>2 DEF ExchangeInv, SocketInv
    <3>2. request = [op |-> Operation, chat |-> chat] /\ toServer' = <<>>
      BY <2>0, <3>1, Singleton
    <3>3. Wished(chat) /\ chat \in todo /\ temp[chat] = -1
      BY <2>2 DEF ExchangeInv, AnswerInv, ControlInv, Looping
    <3>4. CASE useSEcube
      <4>1. AddEncTable(chat)
        BY <1>17, <3>2, <3>4 DEF Serve, Operation
      <4>2. /\ ClearChat' = ClearChat /\ EncryptedChat' \subseteq EncryptedChat \union {chat}
            /\ EncryptedChat \subseteq EncryptedChat'
            /\ \/ toClient' = <<"1">>
               \/ toClient' = <<"0">> /\ chat \in EncryptedChat'
        BY <3>1, <4>1, Singleton DEF AddEncTable, AddTo
      <4>3. SocketInv'
        BY <2>0, <2>2, <3>1, <3>2, <3>4, <4>2 DEF SocketInv, Table, OtherTable
      <4>4. AnswerInv'
        BY <2>0, <2>2, <3>3 DEF ExchangeInv, AnswerInv, Wished
      <4>5. TablesInv'
        BY <2>0, <3>1, <3>3, <3>4, <4>2 DEF ExchangeInv, TablesInv, Wished
      <4> QED
        BY <4>3, <4>4, <4>5 DEF ExchangeInv
    <3>5. CASE ~useSEcube
      <4>1. AddNotEncTable(chat)
        BY <1>17, <3>2, <3>5 DEF Serve, Operation
      <4>2. /\ EncryptedChat' = EncryptedChat /\ ClearChat' \subseteq ClearChat \union {chat}
            /\ \/ toClient' = <<"1">>
               \/ toClient' = <<"0">> /\ chat \in ClearChat'
        BY <3>1, <4>1, Singleton DEF AddNotEncTable, AddTo
      <4>3. SocketInv'
        BY <2>0, <2>2, <3>1, <3>2, <3>5, <4>2 DEF SocketInv, Table, OtherTable
      <4>4. AnswerInv'
        BY <2>0, <2>2, <3>3 DEF ExchangeInv, AnswerInv, Wished
      <4>5. TablesInv'
        BY <2>0, <3>1, <3>3, <3>5, <4>2 DEF ExchangeInv, TablesInv, Wished
      <4> QED
        BY <4>3, <4>4, <4>5 DEF ExchangeInv
    <3> QED
      BY <3>4, <3>5
  <2>3. CASE tpc \notin {"lookup", "stored"}
    BY <2>0, <2>3 DEF ExchangeInv, SocketInv
  <2> QED
    BY <2>1, <2>2, <2>3
<1>18. CASE ReadError
  BY <1>18 DEF ReadError, ExchangeInv, SocketInv, AnswerInv, TablesInv, Wished,
         Operation, Table, OtherTable, FindChat
<1>19. CASE Restart
  <2>1. SocketInv' /\ AnswerInv'
    BY <1>19 DEF Restart, SocketInv, AnswerInv
  <2>2. TablesInv'
    BY <1>19 DEF Restart, Unknown, ExchangeInv, TablesInv
  <2> QED
    BY <2>1, <2>2 DEF ExchangeInv
<1>20. CASE UNCHANGED vars
  BY <1>20 DEF vars, ExchangeInv, SocketInv, AnswerInv, TablesInv, Wished,
         Operation, Table, OtherTable, FindChat
<1> QED
  BY <1>1, <1>2, <1>3, <1>4, <1>5, <1>6, <1>7, <1>8, <1>9, <1>10, <1>11, <1>12,
     <1>13, <1>14, <1>15, <1>16, <1>17, <1>18, <1>19, <1>20
     DEF Next, Telegram, Gui, User

\* TablesDisjoint, FlagsMatchTables and UserDecides all follow from it.
LEMMA StartupSafety == Spec => [](StateTypes /\ ControlInv /\ (faults = 0 => ExchangeInv))
<1>1. Init => ExchangeInv
  BY DEF Init, ExchangeInv, SocketInv, AnswerInv, TablesInv, Unknown
<1>2. FlagTypes /\ StateTypes /\ ControlInv /\ (faults = 0 => ExchangeInv) /\ [Next]_vars
          => (faults = 0 => ExchangeInv)'
  BY ExchangeInvStep
<1> QED
  BY <1>1, <1>2, ControlInvariant, PTL DEF Spec

\* The two tables of the database have no chat in common, if no read() failed.
THEOREM TablesDisjointAlways == Spec => []TablesDisjoint
<1>1. (faults = 0 => ExchangeInv) => TablesDisjoint
  BY DEF ExchangeInv, TablesInv, TablesDisjoint
<1> QED
  BY <1>1, StartupSafety, PTL

\* The flags of the chat list agree with the database: a chat used in clear is
\* not among the encrypted chats, and a chat used with encryption is.
THEOREM FlagsMatchTablesAlways == Spec => []FlagsMatchTables
<1>1. ControlInv /\ (faults = 0 => ExchangeInv) => FlagsMatchTables
  BY DEF ControlInv, ExchangeInv, TablesInv, FlagsMatchTables
<1> QED
  BY <1>1, StartupSafety, PTL

\* A chat is used the way the user last answered for it.
THEOREM UserDecidesAlways == Spec => []UserDecides
<1>1. ControlInv /\ (faults = 0 => ExchangeInv) => UserDecides
  BY DEF ControlInv, ExchangeInv, TablesInv, UserDecides
<1> QED
  BY <1>1, StartupSafety, PTL

-----------------------------------------------------------------------------
(***************************************************************************)
(* The login, which comes before the startup: each prompt of the Telegram  *)
(* thread has a dialog of its own, for any login states and any number of  *)
(* failures.  L is the module Login with variables of its own.             *)
(*                                                                         *)
(* The property is about the moment when the Telegram thread reads the     *)
(* credential.  The invariant follows the prompt up to there: the flags    *)
(* and counters are those of "no prompt" until the Telegram thread posts,  *)
(* and then those of one of the three stages of the dialog.                *)
(***************************************************************************)
CONSTANTS Challenges, MaxRounds

VARIABLES
    thread_ready, waitingReady, action, action_sent, input_wrote, waitingInput,
    guiPc, tdPc,      \* gpc and tpc of Login
    auth, query, need_restart, typed, destroy, cancelled, rounds, prompts, dialogs

L == INSTANCE Login WITH gpc <- guiPc, tpc <- tdPc, waiting <- waitingInput

LoginTypes ==
  /\ thread_ready \in BOOLEAN /\ action_sent \in BOOLEAN /\ input_wrote \in BOOLEAN
  /\ cancelled \in BOOLEAN
  /\ guiPc \in {"offer", "await", "dialog", "ack", "chat", "in"}
  /\ tdPc \in {"receive", "waitReady", "post", "waitInput", "send", "waitAck", "loop", "served"}
  /\ typed \in [L!Prompted -> Nat]
  /\ prompts \in Nat /\ dialogs \in Nat

\* No prompt is under way: thread_ready is there once the GUI thread has offered it.
NoPrompt ==
  /\ guiPc \in {"offer", "await"} /\ (thread_ready <=> guiPc = "await")
  /\ ~action_sent /\ ~input_wrote /\ dialogs = prompts

Opening == guiPc = "await" /\ ~thread_ready /\ ~input_wrote

\* The credential is that of the last dialog, unless it was cancelled.
Typed == action = auth /\ (cancelled \/ typed[auth] = dialogs)

PromptStages ==
  \/ Opening /\ action_sent /\ prompts = dialogs + 1
  \/ guiPc = "dialog" /\ ~thread_ready /\ ~action_sent /\ ~input_wrote /\ dialogs = prompts
  \/ /\ guiPc \in {"offer", "await"} /\ (thread_ready <=> guiPc = "await")
     /\ ~action_sent /\ input_wrote /\ dialogs = prompts /\ Typed

LoginPhases ==
  /\ tdPc = "receive" => NoPrompt
  /\ tdPc = "waitReady" => NoPrompt /\ auth \in L!Prompted \union {"ready"}
  /\ tdPc = "post" => /\ Opening /\ ~action_sent /\ dialogs = prompts
                     /\ auth \in L!Prompted \union {"ready"}
  /\ tdPc = "waitInput" => auth \in L!Prompted /\ action = auth /\ PromptStages
  /\ tdPc = "send" => NoPrompt /\ (auth # "params" => auth \in L!Prompted /\ Typed)
  /\ tdPc \in {"waitAck", "loop", "served"} =>
       guiPc \in {"ack", "chat", "in"} \/ (guiPc = "await" /\ action_sent /\ action = "login_done")

LoginInv == LoginTypes /\ LoginPhases

LEMMA LoginInit == L!Init => LoginInv
<1> SUFFICES ASSUME L!Init PROVE LoginInv
  OBVIOUS
<1>1. LoginTypes
  BY DEF L!Init, LoginTypes
<1>2. LoginPhases
  BY DEF L!Init, LoginPhases, NoPrompt
<1> QED BY <1>1, <1>2 DEF LoginInv

\* What a state change of TDLib leaves of the invariant.
LEMMA EnterStep ==
  ASSUME LoginInv, tdPc = "receive", NEW s, L!EnterState(s),
         UNCHANGED <<L!flags, guiPc, L!input, prompts, dialogs>>
  PROVE  LoginInv'
<1>1. LoginTypes'
  BY DEF LoginInv, LoginTypes, L!EnterState, L!flags, L!input, L!Prompted
<1>2. NoPrompt'
  BY DEF LoginInv, LoginPhases, NoPrompt, L!flags, L!input
<1>3. tdPc' = "receive" \/ (tdPc' = "send" /\ auth' = "params")
      \/ (tdPc' = "waitReady" /\ auth' \in L!Prompted \union {"ready"})
  BY DEF L!EnterState, L!Prompted
<1> QED BY <1>1, <1>2, <1>3 DEF LoginInv, LoginPhases

LEMMA GuiStep ==
  ASSUME LoginInv, L!Gui
  PROVE  LoginInv'
<1>1. CASE L!Offer
  BY <1>1 DEF L!Offer, LoginInv, LoginTypes, LoginPhases, NoPrompt, Opening, Typed, PromptStages,
              L!td, L!input, L!counts
<1>2. CASE L!AwaitAction
  <2>1. LoginTypes'
    <3>1. CASE action_sent
      <4>1. guiPc' \in {"ack", "dialog"} /\ dialogs' \in {dialogs, dialogs + 1} /\ action_sent' = FALSE
        BY <1>2, <3>1 DEF L!AwaitAction
      <4>2. guiPc' \in {"offer", "await", "dialog", "ack", "chat", "in"} /\ dialogs' \in Nat
        BY <4>1 DEF LoginInv, LoginTypes
      <4>3. UNCHANGED <<thread_ready, input_wrote, cancelled, tdPc, typed, prompts>>
        BY <1>2 DEF L!AwaitAction, L!td, L!input
      <4> QED BY <4>1, <4>2, <4>3 DEF LoginInv, LoginTypes
    <3>2. CASE ~action_sent
      BY <1>2, <3>2 DEF L!AwaitAction, LoginInv, LoginTypes, L!td, L!input
    <3> QED BY <3>1, <3>2
  <2>2. LoginPhases'
    BY <1>2 DEF L!AwaitAction, LoginInv, LoginTypes, LoginPhases, NoPrompt, Opening, Typed,
                PromptStages, L!td, L!input, L!Prompted
  <2> QED BY <2>1, <2>2 DEF LoginInv
<1>3. CASE L!WaitTelegram
  BY <1>3 DEF L!WaitTelegram, LoginInv, LoginTypes, LoginPhases, NoPrompt, Opening, Typed,
              PromptStages, L!td, L!input, L!counts
<1> QED BY <1>1, <1>2, <1>3 DEF L!Gui

LEMMA UserStep ==
  ASSUME LoginInv, L!User
  PROVE  LoginInv'
<1>1. guiPc = "dialog" /\ L!CloseDialog
  BY DEF L!User, L!AcceptDialog, L!CancelDialog
<1>2. tdPc = "waitInput" /\ auth \in L!Prompted /\ action = auth /\ PromptStages
  BY <1>1 DEF LoginInv, LoginTypes, LoginPhases, NoPrompt, Opening
<1>3. /\ cancelled' \in BOOLEAN /\ typed' \in [L!Prompted -> Nat]
      /\ cancelled' \/ typed'[auth] = dialogs
  <2>1. CASE L!AcceptDialog
    BY <1>2, <2>1 DEF L!AcceptDialog, LoginInv, LoginTypes
  <2>2. CASE L!CancelDialog
    BY <2>2 DEF L!CancelDialog, LoginInv, LoginTypes
  <2> QED BY <2>1, <2>2 DEF L!User
<1>4. /\ guiPc' = "offer" /\ ~thread_ready' /\ ~action_sent' /\ input_wrote'
      /\ dialogs' = dialogs /\ prompts' = prompts /\ dialogs = prompts
      /\ tdPc' = tdPc /\ auth' = auth /\ action' = action /\ thread_ready' = thread_ready
      /\ action_sent' = action_sent /\ input_wrote' = TRUE
  BY <1>1, <1>2 DEF L!CloseDialog, PromptStages, Opening, L!td
<1>5. LoginTypes'
  BY <1>3, <1>4 DEF LoginInv, LoginTypes
<1> QED BY <1>2, <1>3, <1>4, <1>5 DEF LoginInv, LoginTypes, LoginPhases, PromptStages, Typed

LEMMA TelegramStep ==
  ASSUME LoginInv, L!Telegram
  PROVE  LoginInv'
<1>1. CASE L!Restart
  BY <1>1 DEF L!Restart, LoginInv, LoginTypes, LoginPhases, NoPrompt, L!flags, L!input, L!counts
<1>2. CASE L!WaitReady
  BY <1>2 DEF L!WaitReady, LoginInv, LoginTypes, LoginPhases, NoPrompt, Opening, L!input, L!counts
<1>3. CASE L!Post
  BY <1>3 DEF L!Post, LoginInv, LoginTypes, LoginPhases, Opening, PromptStages, L!input, L!Prompted
<1>4. CASE L!WaitInput
  BY <1>4 DEF L!WaitInput, L!MutexHeld, LoginInv, LoginTypes, LoginPhases, NoPrompt, Opening, Typed,
              PromptStages, L!input, L!counts, L!Prompted
<1>5. CASE L!SendQuery
  BY <1>5 DEF L!SendQuery, LoginInv, LoginTypes, LoginPhases, NoPrompt, L!flags, L!counts, L!Prompted
<1>6. CASE L!WaitAck
  BY <1>6 DEF L!WaitAck, LoginInv, LoginTypes, LoginPhases, L!input, L!counts
<1>7. CASE L!Loop
  BY <1>7 DEF L!Loop, LoginInv, LoginTypes, LoginPhases, L!input, L!counts
<1>8. CASE L!AuthError
  BY <1>8, EnterStep DEF L!AuthError
<1>9. CASE \E s \in L!States : L!AuthUpdate(s)
  BY <1>9, EnterStep DEF L!AuthUpdate, L!counts
<1> QED BY <1>1, <1>2, <1>3, <1>4, <1>5, <1>6, <1>7, <1>8, <1>9 DEF L!Telegram

LEMMA LoginAlways == L!Spec => []LoginInv
<1>1. LoginInv /\ [L!Next]_(L!vars) => LoginInv'
  <2> SUFFICES ASSUME LoginInv, [L!Next]_(L!vars) PROVE LoginInv'
    OBVIOUS
  <2>1. CASE UNCHANGED L!vars
    BY <2>1 DEF L!vars, L!flags, L!td, L!input, L!counts, LoginInv, LoginTypes, LoginPhases, NoPrompt,
                Opening, Typed, PromptStages
  <2> QED BY <2>1, GuiStep, TelegramStep, UserStep DEF L!Next
<1> QED BY <1>1, LoginInit, PTL DEF L!Spec

\* For every set of login states and every number of failed answers and cancelled
\* dialogs, a credential is sent to TDLib only after the dialog of its own prompt
\* has been closed (AccessWindow::accessButtonClicked).
THEOREM OnePromptOneDialogAlways == L!Spec => []L!OnePromptOneDialog
<1>1. LoginInv => L!OnePromptOneDialog
  BY DEF LoginInv, LoginTypes, LoginPhases, NoPrompt, Typed, L!OnePromptOneDialog
<1> QED BY <1>1, LoginAlways, PTL
=============================================================================
