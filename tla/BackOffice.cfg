\* One order, every event and refund interleaving, with up to two faults; or two
\* requests on a page while two rebuilds run; or two requests on a gallery of two
\* files; or two events over three days; or the PDFs of a certificate and a quote.
SPECIFICATION OfficeSpec
CONSTANTS
    s1 = s1
    s2 = s2
    Orders = {o1}
    Skus = {s1}
    Baskets <- OneUnitBaskets
    InitStock <- OneUnit
    Events = {e1, e2}
    Refunders = {r1, r2}
    Mode = "live"
    MaxFaults = 2
    Pages = {g1}
    Desks = {e1, e2}
    Builders = {r1, r2}
    MaxEdits = 1
    MaxRebuilds = 2
    PubMaxFaults = 1
    Files = {r1, r2}
    Galleries = {g1}
    Curators = {e1, e2}
    MaxOrder = 2
    MediaMaxFaults = 1
    People = {v1}
    Hits = {e1, e2}
    Crunchers = {r1, r2}
    Days = 3
    MaxAnswers = 2
    VisMaxFaults = 1
    Certs = {d1}
    Quotes = {d2}
    Presses = {r1, r2}
    MaxVersions = 2
    DocMaxFaults = 1
SYMMETRY Symmetry
INVARIANTS
    BooksAreTrue
    PaidIsRefundable
    SideEffectsFollowPayment
    SitemapIsFresh
    ShownFilesExist
    PastDaysAreCounted
    PdfIsCurrent
    FilesAreTrue
PROPERTIES
    OnlyReviewedGoesLive
    AppendComesLast
CHECK_DEADLOCK FALSE
