CONSTANTS
    MNs = {m1}
    MaxTime = 6
    MaxMnb = 2
    MaxPings = 2
    MinMnb <- MCMinMnb
    Slack <- MCSlack
    MinMnp <- MCMinMnp
    Window <- MCWindow
    Expiration <- MCExpiration
    Removal <- MCRemoval
    LockTime <- MCLockTime
    StartUnlock <- MCStartUnlock
    CollInit = {"young", "mature"}
SPECIFICATION Spec
INVARIANT WarmupBeforeEnabled SignedAfterConfirmation
PROPERTY NoEnableOnSpentCollateral BroadcastNewerOnly UnlockingSticky LifecycleSpec
CHECK_DEADLOCK FALSE
