------------------------------ MODULE Startup ------------------------------
(***************************************************************************)
(* The "startup" request: the Telegram thread (src/Td.cpp:155-283) asks    *)
(* the SEcube server about each chat, has the GUI thread ask the user      *)
(* about the chats that the SEcube does not know                           *)
(* (src/ChatWindow.cpp:906-964) and stores the answers in the tables       *)
(* EncryptedChat and ClearChat (setelegram/SEtelegram.cpp), which outlive  *)
(* the application.  Requests says how the request gets to the Telegram    *)
(* thread; here it has been taken, so the thread holds Td::mutex_.         *)
(*                                                                         *)
(* A chat stands for its id and its title.  A flag is the is_SEcube_chat   *)
(* of a chat: 1 encrypted, 0 clear, -1 unusable.  asked, wish and faults   *)
(* are history variables.                                                  *)
(***************************************************************************)
EXTENDS Integers, Sequences, FiniteSets, CondVar

CONSTANTS
    Chats,           \* the chats of the user
    NoChat,          \* the empty title
    TelegramErrors,  \* requests to TDLib that may fail: a subset of the below
    MaxSessions,     \* bound: how often the application is started
    MaxReadErrors    \* bound: calls of read() on the socket that fail

TelegramRequests == {"getMe", "getChats"}

ASSUME StartupAssumption ==
    /\ NoChat \notin Chats
    /\ TelegramErrors \subseteq TelegramRequests
    /\ MaxSessions \in Nat /\ MaxReadErrors \in Nat

VARIABLES
    EncryptedChat, ClearChat,   \* the tables of setelegram.sqlite
    toServer, toClient,         \* SEcube_socket, both directions
    tpc, gpc,                   \* what each thread is about to do
    chat,                       \* the chat the loop is at
    todo, temp,                 \* the chats not visited, and chat_list_temp
    chat_list,                  \* the flags in Td::chat_list
    ok, error,
    startup, waitingStartup,    \* with mutex_startup and cv_startup
    startup2, waitingStartup2,  \* with mutex_startup2 and cv_startup2
    chat_list_done, chatName, useSEcube, SEkeyID,   \* shared by the handshake
    waiting,                    \* threads in a wait on cv_
    session,                    \* how often the application was started
    asked,                      \* chats the user was asked about in this session
    wish,                       \* what the user last answered for a chat
    faults                      \* calls of read() that failed

tables == <<EncryptedChat, ClearChat>>
socket == <<toServer, toClient>>
list == <<chat, todo, temp, chat_list>>
outcome == <<ok, error, waiting>>
handshake == <<startup, waitingStartup, startup2, waitingStartup2,
               chat_list_done, chatName>>
answer == <<useSEcube, SEkeyID>>
history == <<session, asked, wish, faults>>
vars == <<tables, socket, tpc, gpc, list, outcome, handshake, answer, history>>

Unknown == [c \in Chats |-> -1]

Init ==
    /\ EncryptedChat = {} /\ ClearChat = {}
    /\ toServer = <<>> /\ toClient = <<>>
    /\ tpc = "getMe" /\ gpc = "await"
    /\ chat = NoChat /\ todo = Chats /\ temp = Unknown /\ chat_list = Unknown
    /\ ok = FALSE /\ error = FALSE /\ waiting = {}
    /\ startup = FALSE /\ waitingStartup = {}
    /\ startup2 = FALSE /\ waitingStartup2 = {}
    /\ chat_list_done = FALSE /\ chatName = NoChat
    /\ useSEcube = FALSE /\ SEkeyID = "none"
    /\ session = 1 /\ asked = {} /\ wish = [c \in Chats |-> "none"] /\ faults = 0

-----------------------------------------------------------------------------
(* The Telegram thread.                                                    *)

\* getMe; an error ends the thread, and nobody is told on cv_startup.
GetMe ==
    /\ tpc = "getMe"
    /\ \/ /\ tpc' = "getChats"
          /\ UNCHANGED <<error, waiting>>
       \/ /\ "getMe" \in TelegramErrors
          /\ error' = TRUE /\ tpc' = "returned"
          /\ waiting' \in AfterNotifyOne(waiting)
    /\ UNCHANGED <<ok, tables, socket, gpc, list, handshake, answer, history>>

\* getChats; the loop over the chats runs even after an error.
GetChats ==
    /\ tpc = "getChats"
    /\ \/ ok' = TRUE /\ UNCHANGED error
       \/ "getChats" \in TelegramErrors /\ error' = TRUE /\ UNCHANGED ok
    /\ tpc' = "next"
    /\ UNCHANGED <<waiting, tables, socket, gpc, list, handshake, answer, history>>

\* The next chat of the loop: every flag of chat_list is -1 at this point, so
\* the SEcube is asked.
NextChat ==
    /\ tpc = "next"
    /\ chat' \in todo
    /\ toServer' = Append(toServer, [op |-> "is_secube_chat", chat |-> chat'])
    /\ tpc' = "lookup"
    /\ UNCHANGED <<tables, toClient, gpc, todo, temp, chat_list, outcome,
                   handshake, answer, history>>

\* The chat goes to chat_list_temp with this flag.
Insert(flag) ==
    /\ temp' = [temp EXCEPT ![chat] = flag]
    /\ todo' = todo \ {chat}
    /\ tpc' = "next"
    /\ UNCHANGED <<chat, chat_list>>

\* read() of one byte: a reply, or a failure that leaves the replies where they
\* are.
Read(reply) ==
    \/ /\ toClient # <<>> /\ reply = Head(toClient) /\ toClient' = Tail(toClient)
       /\ UNCHANGED faults
    \/ /\ faults < MaxReadErrors /\ faults' = faults + 1
       /\ reply = "failed" /\ UNCHANGED toClient

Replies == {"0", "1", "2", "3"}

\* The reply of the SEcube about the chat.
LookupReply ==
    /\ tpc = "lookup"
    /\ \E reply \in Replies \union {"failed"} :
         /\ Read(reply)
         /\ IF reply = "2"
            THEN tpc' = "ask" /\ UNCHANGED list
            ELSE Insert(IF reply = "1" THEN 1 ELSE IF reply = "0" THEN 0 ELSE -1)
    /\ UNCHANGED <<tables, toServer, gpc, outcome, handshake, answer, session,
                   asked, wish>>

\* The dialog is open, or about to be answered: the GUI thread has mutex_startup.
MutexStartupHeld == gpc \in {"question", "id", "reply"}

\* The GUI thread is told to ask the user.
Ask ==
    /\ tpc = "ask" /\ ~MutexStartupHeld
    /\ chatName' = chat /\ startup' = TRUE /\ chat_list_done' = FALSE
    /\ waitingStartup' \in AfterNotifyOne(waitingStartup)
    /\ tpc' = "waitAnswer"
    /\ UNCHANGED <<tables, socket, gpc, list, outcome, startup2, waitingStartup2,
                   answer, history>>

\* Mutant of WaitAnswer: startup2 = false is forgotten.
WaitAnswerKeepsFlag ==
    /\ tpc = "waitAnswer" /\ "td" \notin waitingStartup2
    /\ IF startup2
       THEN tpc' = "store" /\ UNCHANGED waitingStartup2
       ELSE waitingStartup2' = waitingStartup2 \union {"td"} /\ UNCHANGED tpc
    /\ UNCHANGED <<startup2, tables, socket, gpc, list, outcome, startup,
                   waitingStartup, chat_list_done, chatName, answer, history>>

\* Wait for startup2 and reset it.
WaitAnswer ==
    /\ tpc = "waitAnswer" /\ "td" \notin waitingStartup2
    /\ IF startup2
       THEN tpc' = "store" /\ startup2' = FALSE /\ UNCHANGED waitingStartup2
       ELSE waitingStartup2' = waitingStartup2 \union {"td"} /\ UNCHANGED <<tpc, startup2>>
    /\ UNCHANGED <<tables, socket, gpc, list, outcome, startup, waitingStartup,
                   chat_list_done, chatName, answer, history>>

\* The answer is sent to the SEcube; with no ID, nothing is sent.
Store ==
    /\ tpc = "store"
    /\ IF useSEcube /\ SEkeyID = "none"
       THEN Insert(-1) /\ UNCHANGED toServer
       ELSE /\ toServer' = Append(toServer,
                 [op |-> IF useSEcube THEN "add_enc_table" ELSE "add_not_enc_table",
                  chat |-> chat])
            /\ tpc' = "stored"
            /\ UNCHANGED list
    /\ UNCHANGED <<tables, toClient, gpc, outcome, handshake, answer, history>>

\* Mutant of StoreReply: the error of add_enc_table is not handled.
StoreReplyIgnored ==
    /\ tpc = "stored"
    /\ \E reply \in Replies \union {"failed"} :
         Read(reply) /\ Insert(IF useSEcube THEN 1 ELSE 0)
    /\ UNCHANGED <<tables, toServer, gpc, outcome, handshake, answer, session,
                   asked, wish>>

\* The reply to add_enc_table or add_not_enc_table; only the first may fail.
StoreReply ==
    /\ tpc = "stored"
    /\ \E reply \in Replies \union {"failed"} :
         /\ Read(reply)
         /\ Insert(IF ~useSEcube THEN 0 ELSE IF reply = "0" THEN 1 ELSE -1)
    /\ UNCHANGED <<tables, toServer, gpc, outcome, handshake, answer, session,
                   asked, wish>>

\* Mutant of ListDone: the notify on cv_startup is forgotten.
ListDoneQuietly ==
    /\ tpc = "next" /\ todo = {} /\ ~MutexStartupHeld
    /\ chat_list' = temp
    /\ startup' = TRUE /\ chat_list_done' = TRUE
    /\ tpc' = "finish"
    /\ UNCHANGED <<waitingStartup, tables, socket, gpc, chat, todo, temp, outcome,
                   startup2, waitingStartup2, chatName, answer, history>>

\* The loop is over: the new list replaces the old one, the GUI thread is told.
ListDone ==
    /\ tpc = "next" /\ todo = {} /\ ~MutexStartupHeld
    /\ chat_list' = temp
    /\ startup' = TRUE /\ chat_list_done' = TRUE
    /\ waitingStartup' \in AfterNotifyOne(waitingStartup)
    /\ tpc' = "finish"
    /\ UNCHANGED <<tables, socket, gpc, chat, todo, temp, outcome, startup2,
                   waitingStartup2, chatName, answer, history>>

\* unlock, notify; after an error the thread ends.
Finish ==
    /\ tpc = "finish"
    /\ waiting' \in AfterNotifyOne(waiting)
    /\ tpc' = IF error THEN "returned" ELSE "loop"
    /\ UNCHANGED <<tables, socket, gpc, list, ok, error, handshake, answer, history>>

-----------------------------------------------------------------------------
(* The GUI thread.                                                         *)

\* Wait for startup with mutex_startup; leave the loop or open the dialog.
AwaitStartup ==
    /\ gpc = "await" /\ "gui" \notin waitingStartup
    /\ IF startup
       THEN /\ startup' = FALSE
            /\ chat_list_done' = FALSE
            /\ gpc' = IF chat_list_done THEN "result" ELSE "question"
            /\ UNCHANGED waitingStartup
       ELSE /\ waitingStartup' = waitingStartup \union {"gui"}
            /\ UNCHANGED <<gpc, startup, chat_list_done>>
    /\ UNCHANGED <<tables, socket, tpc, list, outcome, startup2, waitingStartup2,
                   chatName, answer, history>>

\* "Encrypt chat with ... ?"
AnswerYes ==
    /\ gpc = "question"
    /\ useSEcube' = TRUE /\ SEkeyID' = "none"
    /\ gpc' = "id"
    /\ asked' = asked \union {chatName}
    /\ wish' = [wish EXCEPT ![chatName] = "encrypt"]
    /\ UNCHANGED <<tables, socket, tpc, list, outcome, handshake, session, faults>>

AnswerNo ==
    /\ gpc = "question"
    /\ useSEcube' = FALSE /\ SEkeyID' = "none"
    /\ gpc' = "reply"
    /\ asked' = asked \union {chatName}
    /\ wish' = [wish EXCEPT ![chatName] = "clear"]
    /\ UNCHANGED <<tables, socket, tpc, list, outcome, handshake, session, faults>>

\* "Enter SEkey user ID or SEkey group ID:"; the dialog may be left empty.
EnterID ==
    /\ gpc = "id"
    /\ SEkeyID' \in {"none", "an ID"}
    /\ gpc' = "reply"
    /\ UNCHANGED <<tables, socket, tpc, list, outcome, handshake, useSEcube, history>>

\* startup2 = true, notify; mutex_startup is released.
ReplyToTelegram ==
    /\ gpc = "reply"
    /\ chatName' = NoChat
    /\ startup2' = TRUE
    /\ waitingStartup2' \in AfterNotifyOne(waitingStartup2)
    /\ gpc' = "await"
    /\ UNCHANGED <<tables, socket, tpc, list, outcome, startup, waitingStartup,
                   chat_list_done, answer, history>>

\* Wait for ok or error with mutex_, which the Telegram thread has until it is
\* done; then the constructor goes on, or closes the window it has not made.
AwaitResult ==
    /\ gpc = "result" /\ "gui" \notin waiting
    /\ tpc \in {"loop", "returned"}
    /\ IF ok \/ error
       THEN /\ gpc' = IF error THEN "closing" ELSE "window"
            /\ ok' = (ok /\ error)
            /\ UNCHANGED waiting
       ELSE waiting' = waiting \union {"gui"} /\ UNCHANGED <<gpc, ok>>
    /\ UNCHANGED <<tables, socket, tpc, list, error, handshake, answer, history>>

-----------------------------------------------------------------------------
(* The SEcube server.                                                      *)

\* Mutant of FindChat: the table of clear chats is not searched.
FindChatEncryptedOnly(c) == IF c \in EncryptedChat THEN {"1", "3"} ELSE {"2", "3"}

\* setelegram_find_chatID, and the reply made of it; the database may fail.
FindChat(c) ==
    {IF c \in EncryptedChat THEN "1" ELSE IF c \in ClearChat THEN "0" ELSE "2", "3"}

\* The INSERT into a table: it fails on a duplicate, on an ID that is not
\* one of SEkey's, or in the database.
AddTo(table, c) == {table} \union {table \union {c}}

\* The row is inserted, or not and the reply is an error.
AddEncTable(c) ==
    /\ EncryptedChat' \in AddTo(EncryptedChat, c)
    /\ toClient' = Append(toClient, IF EncryptedChat' = EncryptedChat THEN "1" ELSE "0")
    /\ UNCHANGED ClearChat

AddNotEncTable(c) ==
    /\ ClearChat' \in AddTo(ClearChat, c)
    /\ toClient' = Append(toClient, IF ClearChat' = ClearChat THEN "1" ELSE "0")
    /\ UNCHANGED EncryptedChat

IsSecubeChat(c) ==
    /\ \E reply \in FindChat(c) : toClient' = Append(toClient, reply)
    /\ UNCHANGED tables

\* One request is read and answered.
Serve ==
    /\ toServer # <<>>
    /\ toServer' = Tail(toServer)
    /\ LET request == Head(toServer) IN
         \/ request.op = "is_secube_chat" /\ IsSecubeChat(request.chat)
         \/ request.op = "add_enc_table" /\ AddEncTable(request.chat)
         \/ request.op = "add_not_enc_table" /\ AddNotEncTable(request.chat)
    /\ UNCHANGED <<tpc, gpc, list, outcome, handshake, answer, history>>

\* read() fails: a reply is sent although no request has been read.
ReadError ==
    /\ faults < MaxReadErrors
    /\ faults' = faults + 1
    /\ toClient' = Append(toClient, "2")
    /\ UNCHANGED <<tables, toServer, tpc, gpc, list, outcome, handshake, answer,
                   session, asked, wish>>

-----------------------------------------------------------------------------
\* The application ends, or the power is cut, at any moment; it is started
\* again, and the tables are what is left.
Restart ==
    /\ session < MaxSessions
    /\ session' = session + 1
    /\ toServer' = <<>> /\ toClient' = <<>>
    /\ tpc' = "getMe" /\ gpc' = "await"
    /\ chat' = NoChat /\ todo' = Chats /\ temp' = Unknown /\ chat_list' = Unknown
    /\ ok' = FALSE /\ error' = FALSE /\ waiting' = {}
    /\ startup' = FALSE /\ waitingStartup' = {}
    /\ startup2' = FALSE /\ waitingStartup2' = {}
    /\ chat_list_done' = FALSE /\ chatName' = NoChat
    /\ useSEcube' = FALSE /\ SEkeyID' = "none"
    /\ asked' = {}
    /\ UNCHANGED <<tables, wish, faults>>

Telegram == \/ GetMe \/ GetChats \/ NextChat \/ LookupReply \/ Ask \/ WaitAnswer
            \/ Store \/ StoreReply \/ ListDone \/ Finish
Gui == AwaitStartup \/ ReplyToTelegram \/ AwaitResult
User == AnswerYes \/ AnswerNo \/ EnterID

Next == Telegram \/ Gui \/ User \/ Serve \/ ReadError \/ Restart

Spec == Init /\ [][Next]_vars

\* The three threads are scheduled; the user may leave a dialog open for ever.
FairSpec == Spec /\ WF_vars(Telegram) /\ WF_vars(Gui) /\ WF_vars(Serve)

-----------------------------------------------------------------------------
(* Properties.                                                             *)

Flags == [Chats -> {-1, 0, 1}]
Operations == {"is_secube_chat", "add_enc_table", "add_not_enc_table"}

FlagTypes ==
    /\ ok \in BOOLEAN /\ error \in BOOLEAN
    /\ startup \in BOOLEAN /\ startup2 \in BOOLEAN
    /\ chat_list_done \in BOOLEAN /\ useSEcube \in BOOLEAN

StateTypes ==
    /\ EncryptedChat \subseteq Chats /\ ClearChat \subseteq Chats
    /\ toServer \in Seq([op : Operations, chat : Chats])
    /\ toClient \in Seq(Replies)
    /\ tpc \in {"getMe", "getChats", "next", "lookup", "ask", "waitAnswer", "store",
                "stored", "finish", "loop", "returned"}
    /\ gpc \in {"await", "question", "id", "reply", "result", "window", "closing"}
    /\ chat \in Chats \union {NoChat} /\ todo \subseteq Chats
    /\ temp \in Flags /\ chat_list \in Flags
    /\ waiting \subseteq {"gui"} /\ waitingStartup \subseteq {"gui"}
    /\ waitingStartup2 \subseteq {"td"}
    /\ chatName \in Chats \union {NoChat} /\ SEkeyID \in {"none", "an ID"}
    /\ session \in Nat /\ asked \subseteq Chats
    /\ wish \in [Chats -> {"none", "encrypt", "clear"}]
    /\ faults \in Nat

\* The type invariant.
TypeOK == FlagTypes /\ StateTypes

\* No chat is in both tables, although nothing in the database forbids it.
TablesDisjoint == faults = 0 => EncryptedChat \intersect ClearChat = {}

\* The flags the GUI works with agree with the database, whatever failed while
\* they were found and wherever an earlier session was cut off: a chat used in
\* clear is not one of the encrypted chats, a chat used with encryption is one.
FlagsMatchTables ==
    faults = 0 =>
        \A c \in Chats : /\ chat_list[c] = 0 => c \notin EncryptedChat
                         /\ chat_list[c] = 1 => c \in EncryptedChat

\* A chat is used the way the user last answered for this chat, in this session
\* or an earlier one: the two threads never take an answer for that to another
\* question.
UserDecides ==
    faults = 0 =>
        \A c \in Chats : /\ chat_list[c] = 0 => wish[c] = "clear"
                         /\ chat_list[c] = 1 => wish[c] = "encrypt"

\* The startup comes to an end: the GUI thread asks the user, shows the chats or
\* closes, even if the SEcube fails.
StartupEnds == gpc = "await" ~> gpc \in {"question", "window", "closing"}
=============================================================================
