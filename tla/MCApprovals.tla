---------------------------- MODULE MCApprovals ----------------------------
(* Instance of Approvals with one approval, two racing resolve requests     *)
(* (each of one of three users of two tenants) and one list request.        *)
EXTENDS Approvals, TLC

CONSTANTS s1, t1, t2, u1, u2, u3, a1, r1, r2, l1

MCSessions == {s1}
MCTenants == {t1, t2}
MCUsers == {u1, u2, u3}
MCTenantOf == (u1 :> t1) @@ (u2 :> t1) @@ (u3 :> t2)
MCOwner == (s1 :> t1)
MCApprovals == {a1}
MCSessionOf == (a1 :> s1)
MCRequests == {r1, r2}
MCListings == {l1}
Symmetry == Permutations(MCRequests) \cup Permutations({u1, u2})
=============================================================================
