SPECIFICATION FairSpec
CONSTANTS
    Rules = {1, 2}
    Noted = {1}
    Channels = {1, 2}
    Cron = cron
    Admin = admin
    MaxMessages = 1
    QueueMax = 2
    MaxDelay = 2
    MaxAttempts = 2
    Repeat = 1
    MaxSent = 2
    MaxFlips = 2
    MaxFaults = 1
INVARIANTS TypeOK CommittedIsAccounted 
PROPERTIES  DebtIsSettled
