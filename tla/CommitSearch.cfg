SPECIFICATION Spec
CONSTANTS
    N = 4
    NoCommit = NoCommit
    MaxParents = 2
    MaxDate = 2
    Now = 1
INVARIANTS
    OutcomeIsRight
    ResultIsNewest
    SearchFollowsRule
PROPERTY
    SearchEnds
CHECK_DEADLOCK FALSE
