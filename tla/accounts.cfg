SPECIFICATION MCSpec
CONSTANTS
    r1 = r1
    r2 = r2
    Requests = {r1, r2}
    PlanRequests = {r1, r2}
    AdminRequests = {r1, r2}
    Mixes <- WorkMixes
    PlanMixes <- PaidMixes
    Staff = {"s1", "s2"}
    Owner = "o"
    Seniority <- ById
    Branches = {1, 2}
    Sessions = {1, 2}
    Plans = {"small", "big"}
    MaxBranches <- Room
    MaxStaff <- Room
    MaxPasswords = 2
    MaxTokens = 2
    DAY_MS = 1
    Keys = {"gold", "custom"}
    KeyOf <- PlanOf
    Trial <- TwoDays
    REMINDER_STEPS = {1, 2}
    MaxTime = 3
    MaxSegments = 4
    AdminSessions = {1, 2}
    MaxAdminPasswords = 2
    MaxSteps = 2
SYMMETRY Symmetry
INVARIANTS
    AccountsTypeOK
    TimelineInOrder
    OnceEach
    OldPasswordsAreOut
PROPERTIES
    DisabledStayOut
    EndedStaysEnded
    PlacesFit
CHECK_DEADLOCK FALSE
