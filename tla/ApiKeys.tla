------------------------------- MODULE ApiKeys -------------------------------
(***************************************************************************)
(* Ways in for people and scripts: the sign-in endpoints and the API keys  *)
(* of a tenant (auth_inhouse/totp.py, api_keys.py and their routes), over  *)
(* the accounts of Accounts.                                               *)
(*                                                                         *)
(* A key vy_<prefix>_<body> is found by its prefix, which is drawn at      *)
(* random and not unique in the table, and told from others by the hash of *)
(* the whole.  The bearer <<p, k>> is the plaintext of k when k has prefix *)
(* p, and <<p, None>> a well-formed string that is nobody's plaintext.     *)
(***************************************************************************)
EXTENDS Accounts

CONSTANTS
    KeyIds,     \* primary keys of api_keys
    KeyCalls,   \* requests about keys, or under a key, in flight
    Prefixes,   \* the values _urlsafe(PREFIX_LEN) may return
    KeyTtl      \* ticks a key with expires_in_days is valid for

ASSUME ApiKeysAssumption == None \notin KeyIds \cup Prefixes /\ KeyTtl \in Nat

VARIABLES
    key,        \* the api_keys table
    call,       \* the requests, with what each has read
    \* history
    told,       \* keys whose revocation was answered 204
    admitted,   \* principals given to bearers of keys
    entered     \* sign-ins that were answered with tokens

keyVars == <<key, call, told, admitted, entered>>
accountVars == <<user, invite, mail, req, workload, minted, now, history>>
allVars == <<vars, keyVars>>

NoKey == [by |-> None, tenant |-> None, prefix |-> None, expires |-> None,
          revoked |-> FALSE, used |-> FALSE]
NoCall == [at |-> "idle", key |-> None, tenant |-> None, role |-> "agent",
           late |-> FALSE]

KeyInit ==
    /\ Init
    /\ key = [k \in KeyIds |-> NoKey]
    /\ call = [c \in KeyCalls |-> NoCall]
    /\ told = {} /\ admitted = {} /\ entered = {}

Answered(c) == call' = [call EXCEPT ![c] = NoCall]

-----------------------------------------------------------------------------
(* The keys of a tenant.                                                   *)

\* The principal's user and tenant; any member will do.
MayManageKeys(u) == "keys" \in workload /\ Exists(u)

\* mint_api_key_plaintext draws the prefix at random.
MintedPrefixes == Prefixes

\* Optional, and at least one day.
ExpiryChoices == {None, now + KeyTtl}

\* Any member of the tenant may mint a key, which then acts as that member.
CreateApiKey(u, k, p, expires) ==
    /\ MayManageKeys(u)
    /\ key[k] = NoKey
    /\ key' = [key EXCEPT ![k] = [NoKey EXCEPT !.by = u, !.tenant = user[u].tenant,
                                               !.prefix = p, !.expires = expires]]
    /\ UNCHANGED <<accountVars, call, told, admitted, entered>>

\* list_api_keys_for_tenant.
KeysOf(t) == {k \in KeyIds : key[k] # NoKey /\ key[k].tenant = t}

\* revoke_api_key: a key of another tenant is not found (404); one revoked
\* already is answered without a write.
RevokeKeyLook(c, u, k) ==
    /\ MayManageKeys(u) /\ call[c] = NoCall
    /\ k \in KeysOf(user[u].tenant)
    /\ IF key[k].revoked
       THEN told' = told \cup {k} /\ UNCHANGED call
       ELSE /\ call' = [call EXCEPT ![c].at = "revoke", ![c].key = k]
            /\ UNCHANGED told
    /\ UNCHANGED <<accountVars, key, admitted, entered>>

RevokeKey(c) ==
    /\ call[c].at = "revoke"
    /\ key' = [key EXCEPT ![call[c].key].revoked = TRUE]
    /\ told' = told \cup {call[c].key}
    /\ Answered(c)
    /\ UNCHANGED <<accountVars, admitted, entered>>

-----------------------------------------------------------------------------
(* A request under a key: resolve_api_key reads the key, then its creator, *)
(* then commits last_used_at, and only then is the caller admitted.        *)

\* What get_principal_from_api_key_or_jwt hands on to resolve_api_key: the
\* bearer tokens of the vy_ scheme.
Bearers == Prefixes \X (KeyIds \cup {None})

\* parse_api_key; a string of another shape is refused like an unknown prefix.
PrefixOf(bearer) == bearer[1]

\* Rows of a prefix.  scalar_one_or_none refuses two as it refuses none.
Found(p) == {k \in KeyIds : key[k].prefix = p}

\* compare_digest of the stored hash and the hash of what was presented.
Matches(k, bearer) == bearer = <<key[k].prefix, k>>

Live(k) == /\ ~key[k].revoked
           /\ key[k].expires # None => key[k].expires > now

\* A bearer that is not admitted here is answered 401 (500 for two rows).
ResolveLook(c, bearer) ==
    /\ "keys" \in workload /\ call[c] = NoCall
    /\ \E k \in KeyIds :
         /\ Found(PrefixOf(bearer)) = {k}
         /\ Matches(k, bearer)
         /\ Live(k)
         /\ call' = [call EXCEPT ![c].at = "user", ![c].key = k,
                                 ![c].late = k \in told]
    /\ UNCHANGED <<accountVars, key, told, admitted, entered>>

\* The tenant and the role come from the creator's row, not from the key's.
ResolveUser(c) ==
    LET by == user[key[call[c].key].by] IN
    /\ call[c].at = "user"
    /\ call' = [call EXCEPT ![c].at = "touch", ![c].tenant = by.tenant,
                            ![c].role = by.role]
    /\ UNCHANGED <<accountVars, key, told, admitted, entered>>

(* Mutant of TouchKey: the row that was read is written back whole.        *)
TouchKeyWritesBack(c) ==
    /\ call[c].at = "touch"
    /\ key' = [key EXCEPT ![call[c].key].used = TRUE, ![call[c].key].revoked = FALSE]
    /\ admitted' = admitted \cup {[key |-> call[c].key, tenant |-> call[c].tenant,
                                   role |-> call[c].role, late |-> call[c].late]}
    /\ Answered(c)
    /\ UNCHANGED <<accountVars, told, entered>>

TouchKey(c) ==
    /\ call[c].at = "touch"
    /\ key' = [key EXCEPT ![call[c].key].used = TRUE]
    /\ admitted' = admitted \cup {[key |-> call[c].key, tenant |-> call[c].tenant,
                                   role |-> call[c].role, late |-> call[c].late]}
    /\ Answered(c)
    /\ UNCHANGED <<accountVars, told, entered>>

-----------------------------------------------------------------------------
(* Sign-in.  Every check is made on one read of the row; the tokens that   *)
(* follow are the subject of Sessions.  Passwords are taken to be right.   *)

Enter(u, step) ==
    entered' = entered \cup {[who |-> u, step |-> step, secret |-> user[u].secret,
                              enabled |-> user[u].enabled]}

\* AuthService.sign_in does not look at totp_enabled.
SignIn(u) ==
    /\ "totp" \in workload
    /\ Exists(u) /\ user[u].verified
    /\ Enter(u, "password")
    /\ UNCHANGED <<accountVars, key, call, told, admitted>>

\* sign_in_with_totp.
SignInTotp(u) ==
    /\ "totp" \in workload
    /\ Exists(u) /\ user[u].verified
    /\ user[u].enabled /\ CodeFits(user[u].secret)
    /\ Enter(u, "totp")
    /\ UNCHANGED <<accountVars, key, call, told, admitted>>

KeyCall(c) ==
    \/ \E u \in UserIds, k \in KeyIds : RevokeKeyLook(c, u, k)
    \/ RevokeKey(c)
    \/ \E b \in Bearers : ResolveLook(c, b)
    \/ ResolveUser(c)
    \/ TouchKey(c)

KeyNext ==
    \/ Next /\ UNCHANGED keyVars
    \/ \E u \in UserIds, k \in KeyIds, p \in MintedPrefixes, e \in ExpiryChoices :
            CreateApiKey(u, k, p, e)
    \/ \E c \in KeyCalls : KeyCall(c)
    \/ \E u \in UserIds : SignIn(u) \/ SignInTotp(u)

KeySpec == KeyInit /\ [][KeyNext]_allVars

-----------------------------------------------------------------------------
(* Properties.                                                             *)

\* A caller whose revocation was answered can rely on it: no request that began
\* afterwards is admitted under the key, whatever was under way meanwhile.
RevokedKeysRefused == \A a \in admitted : ~a.late

\* Revocation is for good: the row stays revoked once the caller was told so,
\* also when a request that had read it earlier commits last_used_at.
RevocationKept == \A k \in told : key[k].revoked

\* Whoever is admitted under a key acts in the tenant that lists the key, so
\* that tenant can find and revoke it.
KeyOpensItsTenant == \A a \in admitted : a.key \in KeysOf(a.tenant)

\* The second step was taken with a secret that a code had been checked
\* against when 2FA was set up (or that a concurrent set-up replaced).
SecondStepProved ==
    \A e \in entered : e.step = "totp" =>
        <<e.who, e.secret>> \in proved \/ e.who \in overlapped

\* The keys of a tenant stay in its hands: revoked ones are refused, stay
\* revoked, and every one opens only the tenant that can revoke it.
KeysSound == RevokedKeysRefused /\ RevocationKept /\ KeyOpensItsTenant

\* Marks and second factors belong to what was proved, through every overlap of
\* set-up, verification, removal, change of address and sign-in.
ProofsSound == VerifiedThisAddress /\ EnabledSecretProved /\ SecondStepProved

\* What totp.py says of sign-in: with 2FA on, /auth/sign-in issues no tokens.
SecondStepAsked == \A e \in entered : e.step = "password" => ~e.enabled

\* A key that is neither revoked nor expired can be used.
LiveKeysWork ==
    \A k \in KeyIds : key[k] # NoKey /\ Live(k) => Found(key[k].prefix) = {k}
=============================================================================
