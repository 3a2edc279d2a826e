SPECIFICATION MessagesSpec
CONSTANTS
    c1 = c1
    c2 = c2
    Chats <- MCChats
    NoChat = NoChat
    Null = Null
    FirstMessages <- MCFirstMessages
    PageSize = 2
    MaxMessages = 8
INVARIANT ShownOnce
INVARIANT ShownInOrder
INVARIANT NoGap
CHECK_DEADLOCK FALSE
