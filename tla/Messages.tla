------------------------------ MODULE Messages ------------------------------
(***************************************************************************)
(* The message lists of the chat window: Td::messages, Td::newMessages and *)
(* Td::previous_messages (src/Td.cpp:98-113), which the handlers of        *)
(* ChatWindow show on the screen, de-duplicate and merge.                  *)
(*                                                                         *)
(* Requests shows that a handler and the action it requests work on the    *)
(* lists one after the other, so a handler with its action is one step     *)
(* here.  Responses of TDLib come in the order it produced them, and only  *)
(* while an action is served: each step delivers the updates that are      *)
(* queued.                                                                 *)
(*                                                                         *)
(* A message is its id; ids grow with time, and two in a row are sent in   *)
(* the same second.  atSelection and failed are history variables.         *)
(***************************************************************************)
EXTENDS Integers, Sequences, FiniteSets, SequencesExt

CONSTANTS
    Chats,         \* the chats of the user
    NoChat,        \* no chat is selected
    Null,          \* an empty td::tl::unique_ptr
    FirstMessages, \* the messages each chat has at first
    PageSize,      \* messages asked for at a time: 10 in the code
    MaxMessages    \* bound: messages that are ever sent

ASSUME MessagesAssumption ==
    /\ NoChat \notin Chats
    /\ PageSize \in Nat \ {0} /\ MaxMessages \in Nat
    /\ Null \notin 1 .. MaxMessages
    /\ FirstMessages \in [Chats -> SUBSET (1 .. MaxMessages)]
    /\ \A c \in Chats : FirstMessages[c] # {}

VARIABLES
    history,      \* history[c]: the messages of chat c on the server
    last,         \* the last message that was sent
    queue,        \* updateNewMessage updates TDLib has not delivered
    selected,     \* selected_chat
    messages, newMessages,   \* the lists of Td
    shown,        \* the messages on the screen, from top to bottom
    crashed,      \* a null pointer was dereferenced
    atSelection,  \* the history of the selected chat when it was selected
    failed        \* an error ended the selection of the chat

lists == <<messages, newMessages, shown>>
selection == <<selected, atSelection, failed>>
messagesVars == <<history, last, queue, lists, selection, crashed>>

MessagesInit ==
    /\ history = FirstMessages
    /\ last = Max({0} \union UNION {history[c] : c \in Chats})
    /\ queue = <<>> /\ selected = NoChat
    /\ messages = <<>> /\ newMessages = <<>> /\ shown = <<>>
    /\ crashed = FALSE /\ atSelection = {} /\ failed = FALSE

-----------------------------------------------------------------------------
\* date_, in seconds.
Date(m) == m \div 2

\* The orders std::sort may leave a list of these messages in: the comparators
\* look at the date only.
Oldest1st(S) == {s \in SetToSeqs(S) :
                   \A i, j \in 1 .. Len(s) : i < j => Date(s[i]) <= Date(s[j])}
Newest1st(S) == {Reverse(s) : s \in Oldest1st(S)}

\* getChatHistory: up to PageSize messages of the chat before one of them, as
\* many as TDLib likes.
PagesBefore(c, m) ==
    LET older == {n \in history[c] : n < m}
    IN {p \in SUBSET older : /\ Cardinality(p) <= PageSize
                             /\ \A n \in p, o \in older : o > n => o \in p}

\* The messages of a list that are in a set, one after the other.
Kept(s, keep) ==
    LET kept[i \in 0 .. Len(s)] ==
            IF i = 0 THEN <<>>
            ELSE IF s[i] \in keep THEN Append(kept[i - 1], s[i]) ELSE kept[i - 1]
    IN kept[Len(s)]

\* process_update: the messages of the selected chat among the queued updates.
Delivered(c) == IF c = NoChat THEN <<>> ELSE Kept(queue, history[c])

\* std::remove_if without erase: what is kept is moved to the front; behind it,
\* what was moved is null and what was to be removed is still there.
RemoveIf(s, keep) ==
    LET kept == Kept(s, keep)
    IN [i \in 1 .. Len(s) |-> IF i <= Len(kept) THEN kept[i]
                              ELSE IF s[i] \in keep THEN Null ELSE s[i]]

-----------------------------------------------------------------------------
\* Somebody else sends a message.
Arrive(c) ==
    /\ ~crashed /\ last < MaxMessages
    /\ last' = last + 1
    /\ history' = [history EXCEPT ![c] = @ \union {last'}]
    /\ queue' = Append(queue, last')
    /\ UNCHANGED <<lists, selection, crashed>>

\* What every request does to the list of new messages.
Deliver(c) ==
    /\ newMessages' = newMessages \o Delivered(c)
    /\ queue' = <<>>

\* The selection of a chat, good: the last message, and a page before it.
Loaded(c) == {p \union {Max(history[c])} : p \in PagesBefore(c, Max(history[c]))}

\* chatButtonClicked: load and show the end of the history; an error comes
\* with the first page or with the second.
SelectChat(c) ==
    /\ ~crashed /\ c # selected
    /\ selected' = c /\ atSelection' = history[c]
    /\ Deliver(c)
    /\ \/ /\ failed' = FALSE
          /\ \E S \in Loaded(c) : messages' \in Oldest1st(S)
          /\ shown' = messages'
       \/ /\ failed' = TRUE
          /\ messages' \in {<<>>, <<Max(history[c])>>}
          /\ shown' = <<>>
    /\ UNCHANGED <<history, last, crashed>>

\* The first of the messages with the oldest date.
OldestIn(s) ==
    s[CHOOSE i \in 1 .. Len(s) :
        /\ \A j \in 1 .. Len(s) : Date(s[i]) <= Date(s[j])
        /\ \A j \in 1 .. i - 1 : Date(s[i]) < Date(s[j])]

\* Mutant of From: it starts at the message before the oldest one.
FromOffByOne(s) == IF s = <<>> THEN last + 1 ELSE OldestIn(s) - 1

\* from_message_id: the oldest message, or 0, for the end of the history.
From(s) == IF s = <<>> THEN last + 1 ELSE OldestIn(s)

\* A null pointer in the list is dereferenced.
Dereference == /\ crashed' = TRUE
               /\ UNCHANGED <<history, last, queue, lists, selection>>

\* Mutant of MergePage: the list is not searched for duplicates.
MergePageShowsAll(s) ==
    /\ shown' = Reverse(s) \o shown
    /\ messages' = s \o messages

\* Show each message of a page at the top that is not in the list.
MergePage(s) ==
    LET fresh == ToSet(s) \ ToSet(messages)
    IN /\ shown' = Reverse(Kept(s, fresh)) \o shown
       /\ messages' = RemoveIf(s, fresh) \o messages

\* getPreviousMessages: load a page and merge it, or show an error.
PreviousMessages ==
    /\ ~crashed /\ selected # NoChat
    /\ IF Null \in ToSet(messages)
       THEN Dereference
       ELSE /\ Deliver(selected)
            /\ \/ \E p \in PagesBefore(selected, From(messages)) :
                  \E s \in Newest1st(p) : MergePage(s)
               \/ UNCHANGED <<messages, shown>>
            /\ UNCHANGED <<history, last, selection, crashed>>

\* newMessagesUpdate: the new messages are cleared, then all updates received
\* and those that are not in the list shown at the bottom.
NewMessagesUpdate ==
    /\ ~crashed
    /\ LET new == ToSet(Delivered(selected))
           fresh == new \ ToSet(messages) IN
       IF new # {} /\ Null \in ToSet(messages)
       THEN Dereference
       ELSE /\ \E s \in Oldest1st(new) :
                 /\ shown' = shown \o Kept(s, fresh)
                 /\ messages' = messages \o RemoveIf(s, fresh)
            /\ queue' = <<>> /\ newMessages' = <<>>
            /\ UNCHANGED <<history, last, selection, crashed>>

\* attachmentButtonClicked: TDLib announces the own message before it answers.
SendAttachment ==
    /\ ~crashed /\ selected # NoChat /\ last < MaxMessages
    /\ last' = last + 1
    /\ history' = [history EXCEPT ![selected] = @ \union {last'}]
    /\ newMessages' = Append(newMessages \o Delivered(selected), last')
    /\ messages' = Append(messages, last')
    /\ shown' = Append(shown, last')
    /\ queue' = <<>>
    /\ UNCHANGED <<selection, crashed>>

\* documentButtonClicked, a download for showImages, or a request that failed.
OtherRequest ==
    /\ ~crashed /\ queue # <<>>
    /\ Deliver(selected)
    /\ UNCHANGED <<history, last, messages, shown, selection, crashed>>

MessagesNext ==
    \/ \E c \in Chats : Arrive(c) \/ SelectChat(c)
    \/ PreviousMessages \/ NewMessagesUpdate \/ SendAttachment \/ OtherRequest

MessagesSpec == MessagesInit /\ [][MessagesNext]_messagesVars

-----------------------------------------------------------------------------
(* Properties.                                                             *)

Ids == 1 .. MaxMessages

\* No message is on the screen twice, whichever of the four ways brought it
\* there: the selection, a page of the history, an update or its own sending.
ShownOnce == \A i, j \in 1 .. Len(shown) : shown[i] = shown[j] => i = j

\* The screen is in the order of time, although a page goes to its top and new
\* and own messages to its bottom, each sorted by itself.
ShownInOrder == \A i, j \in 1 .. Len(shown) : i < j => Date(shown[i]) <= Date(shown[j])

\* Scrolling back leaves no gap: of the messages the chat had when it was
\* selected, none is missing above the oldest one on the screen, unless the
\* selection failed.
NoGap ==
    ~failed => \A m, n \in atSelection :
                  m \in ToSet(shown) /\ n > m => n \in ToSet(shown)

\* "Method to show new incoming messages each minute"
\* (src/ChatWindow.cpp:693): a message that came after the selection of its chat
\* and has been taken from newMessages is on the screen.
NewAreShown ==
    selected # NoChat /\ ~crashed =>
        history[selected] \ atSelection \subseteq
            ToSet(queue) \union ToSet(newMessages) \union ToSet(shown)

\* "Lambda for removing messages that must be ignored"
\* (src/ChatWindow.cpp:254): what is merged into the list are messages.
NoHoles == Null \notin ToSet(messages)
=============================================================================
