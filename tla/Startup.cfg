SPECIFICATION FairSpec
CONSTANTS
    Chats = {c1, c2}
    NoChat = NoChat
    TelegramErrors = {"getChats"}
    MaxSessions = 2
    MaxReadErrors = 1
INVARIANT TablesDisjoint
INVARIANT FlagsMatchTables
INVARIANT UserDecides
PROPERTY StartupEnds
CHECK_DEADLOCK FALSE
