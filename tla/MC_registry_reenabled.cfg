CONSTANTS
    MNs = {m1}
    MaxTime = 6
    MaxMnb = 2
    MaxPings = 1
    MinMnb <- MCMinMnb
    Slack <- MCSlack
    MinMnp <- MCMinMnp
    Window <- MCWindow
    Expiration <- MCExpiration
    Removal <- MCRemoval
    LockTime <- MCLockTime
    StartUnlock <- MCStartUnlock
    CollInit = {"mature"}
SPECIFICATION Spec
PROPERTY DuePingAccepted
CHECK_DEADLOCK FALSE
