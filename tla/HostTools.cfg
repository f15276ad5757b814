CONSTANTS
    caps <- SmallCaps
    Total = 23
    Mode = "init"
    Reserve = 1
    Polls = 6
    ScreenAsWritten = FALSE
    MaxCommits = 3
    Commits <- TwoCommits
    PackagesAt <- ThreePackages
    Initial <- OwnFiles
    References <- ReferredFiles
    Declared <- Expressions
    Texts <- PossibleTexts
    HttpLimit = 9
SPECIFICATION HostFairSpec
INVARIANTS FullWindows OneRun ResultIsTrue RecoveryForces EvidenceTruth
    PublishedIsAdmitted PassIsComplete PassWithinLimits
PROPERTY LimitEndsRun
CHECK_DEADLOCK FALSE
