CONSTANTS
    alice = alice
    r1 = r1  r2 = r2
    p1 = p1  p2 = p2
    small = small  large = large
    None = None
    Users = {alice}
    Requests = {r1, r2}
    Payments = {p1}
    UserOf <- OneUser
    TopUp <- TopUps
    FreeCredit = 4
    Models = {large}
    InputPrice <- InputPrices
    OutputPrice <- OutputPrices
    Markup <- Markups
    Routes <- NoFallback
    TokenLimits <- OneNegative
    Usages <- WithPrompt
    MaxDeliveries = 2
    Faults = {"expiry", "redis", "abandon", "rollback", "crash", "email", "redelivery"}
SPECIFICATION FairSpec
INVARIANTS ChargesExplained BalanceExplained OneAlertPerCooldown
PROPERTIES HoldIsClosed PaymentIsCredited
