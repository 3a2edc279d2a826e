SPECIFICATION FairSpec
CONSTANTS
    Challenges = {"key", "phone", "code", "password", "registration"}
    MaxRounds = 3
INVARIANT OnePromptOneDialog
PROPERTY PromptReachesUser
PROPERTY InputReachesTelegram
CHECK_DEADLOCK FALSE
