SPECIFICATION Spec
CONSTANTS
    s1 = s1
    Turns <- MCTurns
    Sessions <- MCSessions
    SessionOf <- MCSessionOf
    Tools <- MCTools
    Unregistered = "nosuchtool"
    SideEffect <- MCGated
    ApprovalRequired <- MCGated
    RoleRestricted <- MCGated
    HasOutputSchema = {}
    Limits <- MCLimits
CHECK_DEADLOCK FALSE
INVARIANT GrantResumes
