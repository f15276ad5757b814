CONSTANTS
    GuestRoles <- OneRole
    MaxStaged = 1
SPECIFICATION FairSpec
INVARIANTS NoUnrecordedWrite LeftIsReported Admissible PassIsTrue
PROPERTIES OwnerEnds
CHECK_DEADLOCK FALSE
