CONSTANTS
    Workers = {w1, w2}
    Modes = {TRUE, FALSE}
    Foci = {"life", "gallery", "inventory", "otp", "accounts", "onboarding", "chat"}
    DocId = {d1}
    ReviewRequired = TRUE
    MaxBadges = 2
    PhotoId = {p1, p2, p3}
    MaxOrder = 3
    UnitTypes = {t1}
    RoomId = {r1}
    MaxBeds = 2
    Address = {ada}
    RateLimit = 1
    MaxVerifyAttempts = 2
    MaxCodes = 2
    MaxWindows = 1
    Users = {u1, u2}
    Emails = {bola}
    Phones = {tel}
    MaxTokens = 3
    None = None
    NimcAttempts = 2
    MaxDocuments = 2
    Categories = {rent}
    Amenities = {solar}
    Nothing = Nothing
    Unknown = Unknown
    LlmAttempts = 3
    MaxTurns = 2
    ResultLimit = 2
SPECIFICATION MCSpec
SYMMETRY Symmetry
INVARIANTS
    ListingsInv
    OneCoverDistinctOrder
    OtpInv
    AccountsInv
    OnboardingInv
    ChatInv
PROPERTIES
    OccupantsAreSafe
    ImplementsLogins
CHECK_DEADLOCK FALSE
