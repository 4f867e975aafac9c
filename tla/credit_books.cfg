CONSTANTS
    alice = alice
    r1 = r1  r2 = r2
    p1 = p1  p2 = p2
    small = small  large = large
    None = None
    Users = {alice}
    Requests = {r1, r2}
    Payments = {p1}
    UserOf <- OneUser
    TopUp <- TopUps
    FreeCredit = 4
    Models = {small, large}
    InputPrice <- InputPrices
    OutputPrice <- OutputPrices
    Markup <- Markups
    Routes <- Fallbacks
    TokenLimits = {1, 2}
    Usages <- WithinLimit
    MaxDeliveries = 2
    Faults = {"abandon", "rollback", "crash", "redelivery"}
SPECIFICATION Spec
INVARIANTS TypeOK RowLocked NeverOverdrawn ChargeMatchesOutcome BooksBalance
PROPERTY ImplementsPrepaidAccount
