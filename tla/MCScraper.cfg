SPECIFICATION FairSpec
CONSTANTS
    Pages = {"main", "show1", "show2", "season1", "season2"}
    MainPage = "main"
    Rows <- MCRows
    Row <- MCRow
    On <- MCOn
    To <- MCTo
    Meant <- MCMeant
    Main = "Main"
    Limit = 2
    Delay = 2
INVARIANTS AllOrNothing BurstBounded
PROPERTIES Terminates
CHECK_DEADLOCK FALSE
