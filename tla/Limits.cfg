\* Two requests that import, edit and delete contacts, and two platform operators; or
\* two requests that send mail and store logos, over two months, and one change of the
\* limits.
CONSTANTS
    Counted = {"contacts"}
    Deletable = {"contacts"}
    Mails = {"emails"}
    Files = {"storage"}
    Monthly = {"emails"}
    Tiers = {"free", "pro"}
    FirstTier = "free"
    PlanLimit <- MCLimit
    Limits = {3}
    NoLimit = NoLimit
    Batch <- MCBatch
    Handlers = {h1, h2}
    Operators = {op1, op2}
    MaxEvents = 2
SPECIFICATION MCSpec
INVARIANTS
    TypeOK
    OvershootBounded
    LedgerHolds
SYMMETRY Symmetry
