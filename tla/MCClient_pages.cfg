SPECIFICATION FairSpec
CONSTANTS
    RetryLimit = 2
    MaxSubmits = 2
    Template = {google, line}
    NoTemplate = NoTemplate
    Tab = {t1, t2}
    User = {u1, u2}
    DisclosureId = {d1}
    NoUser = NoUser
    NoDisclosure = NoDisclosure
    Page = {popup, options}
    Value = {"light", "dark"}
    Fallback = "light"
    Updater = {"toggle"}
    Apply <- Toggle
    NoUpdater = NoUpdater
    Null = Null
    MaxSets = 2
INVARIANTS
    IInv
    PostAtMostOnce
    ShownIsWhole
    ListShowsCreated
    ConfirmationIsTrue
    PagesInSync
PROPERTIES
    SentAsPicked
    NothingWaitsForEver
    ImplementsDelivery
CHECK_DEADLOCK FALSE
