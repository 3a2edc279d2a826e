SPECIFICATION Spec
CONSTANTS
    Handlers = {"select", "previous", "document", "attach", "send", "close"}
    Answers = {"ok", "error", "empty"}
    MayLogOut = TRUE
    MaxRequests = 4
    MaxTicks = 2
    MaxImages = 2
INVARIANT OneOwner
INVARIANT ServedAlone
INVARIANT OwnAnswer
CHECK_DEADLOCK FALSE
