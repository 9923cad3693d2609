SPECIFICATION SessionSpec
CONSTANTS
    p1 = p1
    p2 = p2
    c1 = c1
    c2 = c2
    Profiles = {p1, p2}
    First = p1
    Readers = {1, 2}
    ReadBounds <- ReadScenarios
    LocalBounds <- LocalScenarios
    Ports = {1}
    Mounts = {1, 2}
    Backends = {1}
    Shares = {home}
    ServiceTasks = {1, 2}
    Refreshes = {1, 2}
    ServiceBounds <- ServiceScenarios
    Credentials = {c1, c2}
    Errands = {1, 2}
    SecretBounds <- SecretScenarios
    Names = {1, 2}
    Writers = {1, 2}
    FileBounds <- FileScenarios
    HistorySize = 2
    ViewBounds <- ViewScenarios
    ChangeBounds <- ChangeScenarios
    DialogAccounts = {p1, p2}
    DialogBounds <- DialogScenarios
    Titles = {1, 2}
    ShelfBounds <- ShelfScenarios
    Spots <- PlaceOrder
    RootMount = "/"
    Orders = {1, 2}
    RequestBounds <- RequestScenarios
    Peers = {"d1"}
    LocalAccounts = {"a1", "a2"}
    OperatorBounds <- OperatorScenarios
    Texts <- AnyText
    OperationBounds <- OperationScenarios
    Known = {"created", "policy"}
    Tenants = {p1, p2}
    CounterLimit = 9
    MessageLimit = 5
    LogBounds <- LogScenarios
CHECK_DEADLOCK FALSE
INVARIANTS ShownIsOwn ReadYourWrites ReadsArePursued QuietMeansCurrent CommandsDoAsReviewed ServicesAreCurrent WhatIsAskedIsSettled FilesAreAsSaid ChangeIsAsTold OnlyReviewedStarts ViewsStayUsable RequestsDoAsConfirmed OperationsAreAsReviewed LogsAreAsAsked
PROPERTIES ChoicesHold SelectionIsKept
