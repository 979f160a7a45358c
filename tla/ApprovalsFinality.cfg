SPECIFICATION Spec
CONSTANTS
    s1 = s1   t1 = t1  t2 = t2  u1 = u1  u2 = u2  u3 = u3  a1 = a1  r1 = r1  r2 = r2  l1 = l1
    NoOne = NoOne
    Sessions <- MCSessions
    Tenants <- MCTenants
    Users <- MCUsers
    TenantOf <- MCTenantOf
    Owner <- MCOwner
    Approvals <- MCApprovals
    SessionOf <- MCSessionOf
    Requests <- MCRequests
    Listings <- MCListings
    TTL = 2
    MaxTime = 4
    MaxAdds = 2
CHECK_DEADLOCK FALSE
PROPERTY ResolvedIsFinal
