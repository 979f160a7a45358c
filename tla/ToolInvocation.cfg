SPECIFICATION FairSpec
CONSTANTS
    c1 = c1
    Unregistered = "nosuchtool"
    Calls <- MCCalls
    Tools <- MCTools
    SideEffect <- MCSideEffect
    ApprovalRequired <- MCApprovalRequired
    RoleRestricted <- MCRoleRestricted
    HasOutputSchema <- MCHasOutputSchema
CHECK_DEADLOCK FALSE
INVARIANTS AuditTruthful
PROPERTIES ImplementsGatedCalls CallsReturn
