CONSTANTS
    Workers = {w1, w2}
    Modes = {TRUE, FALSE}
    Inspectors = {i1}
    ReportId = {r1, r2}
    MaxEvidence = 1
    Coordinates = {4, 13}
    MaxScore = 2
    MaxAttempts = 2
    MaxEdits = 1
    MaxPhotos = 2
    MaxFailures = 2
    MaxQueued = 3
    MaxRetries = 3
    RentTier = 500000
    ShortLetTier = 15000
    SalesTier = 500000
    FlatLandlord = 1500
    FlatSeeker = 500
    MaxNights = 8
    Rates = {1050, 3000, 4500}
    DealPrices = {75, 100, 150, 499900, 500000, 500075, 500100, 500200, 500300}
SPECIFICATION MCFairSpec
INVARIANTS
    InspectionsInv
    ReportShowsScores
    SyncInv
    NotificationsInv
    OnlyDetailsAreBlank
    QuoteFitsCalendar
    AmountsAddUp
PROPERTIES
    ImplementsExamination
    QueueDoesNotLockUp
    QueuedIsSettled
CHECK_DEADLOCK FALSE
