SPECIFICATION FairSpec
CONSTANTS
    Handlers = {"select", "previous", "document", "attach", "close"}
    Answers = {"ok"}
    MayLogOut = TRUE
    MaxRequests = 4
    MaxTicks = 2
    MaxImages = 1
INVARIANT NeverStale
PROPERTY ImplementsRequestReply
PROPERTY GuiResponsive
PROPERTY CloseTerminates
CHECK_DEADLOCK FALSE
