----------------------------- MODULE MCAccounts -----------------------------
(* Instance of Accounts and ApiKeys for TLC.                               *)
EXTENDS ApiKeys, TLC
CONSTANTS r1, r2, u2, u3, c1, c2, k1, k2
\* Who joins a tenant; whose address is verified; whose 2FA is on; what keys open.
MCWorkloads == {{"signup", "invites", "profile"}, {"profile", "verify"}, {"totp"},
                {"keys"}}
Symmetry == Permutations({r1, r2}) \cup Permutations({u2, u3})
                \cup Permutations({c1, c2}) \cup Permutations({k1, k2})
=============================================================================
