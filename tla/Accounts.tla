------------------------------ MODULE Accounts ------------------------------
(***************************************************************************)
(* Accounts, team invites, address verification and two-factor state of    *)
(* the in-house authentication service (auth_inhouse/service.py,           *)
(* repository.py, totp.py, verification.py).                               *)
(*                                                                         *)
(* Every endpoint works in its own database session and commits several    *)
(* times.  A request is therefore a sequence of steps, one per await that  *)
(* reads or commits, and a step uses what an earlier step of the same      *)
(* request has read, however stale that is by then.  The tokens a          *)
(* successful sign-up or acceptance ends with are the subject of Sessions. *)
(***************************************************************************)
EXTENDS Naturals, FiniteSets

CONSTANTS
    UserIds,        \* primary keys of users; a tenant is named by its founder
    InviteIds,      \* primary keys of invites
    Emails,         \* lower-cased addresses
    Requests,       \* requests in flight
    Founder, FounderEmail,
    None,
    InviteTtl,      \* ticks an invite is valid for (7 days in the code)
    VerifyTtl,      \* ticks a verification token is valid for
    SkipVerification, \* VOYAGENT_AUTH_SKIP_EMAIL_VERIFICATION
    Workloads,      \* bound: the sets of endpoints a behaviour may call
    MaxSecret, MaxNow \* bounds on minted TOTP secrets and on the clock

ASSUME AccountsAssumption ==
    /\ Founder \in UserIds /\ FounderEmail \in Emails
    /\ None \notin UserIds \cup InviteIds \cup Emails
    /\ InviteTtl \in Nat /\ VerifyTtl \in Nat
    /\ MaxSecret \in Nat /\ MaxNow \in Nat
    /\ SkipVerification \in BOOLEAN
    /\ Workloads \subseteq SUBSET {"signup", "invites", "profile", "verify", "totp", "keys"}

VARIABLES
    user,       \* the users table
    invite,     \* the invites table
    mail,       \* per user the latest verification token: its expiry, or None
    req,        \* the requests, with what each has read
    workload,   \* the endpoints called in this behaviour, never changed
    minted,     \* TOTP secrets generated so far
    now,
    \* history
    seen,       \* invites that an acceptance read as pending and in time
    moved,      \* users whose address has changed
    confirmed,  \* <<user, address>> pairs marked as verified
    proved,     \* <<user, secret>> pairs a code was checked against
    overlapped  \* users whose TOTP row changed under a running verification

vars == <<user, invite, mail, req, workload, minted, now,
          seen, moved, confirmed, proved, overlapped>>
history == <<seen, moved, confirmed, proved, overlapped>>

Roles == {"agency_admin", "agent"}
Stages == {"idle", "signup", "invite", "revoke", "accept", "enroll", "mark",
           "profile", "verify", "enable", "clear"}

NoUser == [email |-> None, tenant |-> None, role |-> "agent", via |-> None,
           verified |-> FALSE, secret |-> 0, enabled |-> FALSE]
NoInvite == [tenant |-> None, email |-> None, role |-> "agent",
             status |-> "none", expires |-> 0]
Idle == [at |-> "idle", who |-> None, email |-> None, inv |-> None,
         role |-> "agent", secret |-> 0]

Alone == [u \in UserIds |->
            IF u = Founder
            THEN [NoUser EXCEPT !.email = FounderEmail, !.tenant = Founder,
                                !.role = "agency_admin", !.verified = TRUE]
            ELSE NoUser]

\* The founder has no team yet.
InitAlone ==
    /\ user = Alone
    /\ invite = [i \in InviteIds |-> NoInvite]
    /\ seen = {}

\* Another account has joined the founder's tenant.
InitTeam ==
    \E u \in UserIds \ {Founder}, i \in InviteIds, e \in Emails \ {FounderEmail} :
        /\ user = [Alone EXCEPT ![u] = [NoUser EXCEPT !.email = e, !.tenant = Founder,
                                                      !.via = i]]
        /\ invite = [j \in InviteIds |->
                       IF j = i THEN [tenant |-> Founder, email |-> e, role |-> "agent",
                                      status |-> "accepted", expires |-> InviteTtl]
                       ELSE NoInvite]
        /\ seen = {i}

Init ==
    /\ workload \in Workloads
    /\ IF "keys" \in workload THEN InitTeam ELSE InitAlone
    /\ mail = [u \in UserIds |-> None]
    /\ req = [r \in Requests |-> Idle]
    /\ minted = 0 /\ now = 0
    /\ moved = {} /\ proved = {} /\ overlapped = {}
    /\ confirmed = {<<Founder, FounderEmail>>}

-----------------------------------------------------------------------------
(* Queries of the repositories.                                            *)

Exists(u) == user[u].email # None

\* find_by_email, and what the unique index ux_users_email refuses.
Taken(e) == \E u \in UserIds : user[u].email = e

\* find_pending_for_email.
PendingFor(t, e) ==
    \E i \in InviteIds : /\ invite[i].tenant = t /\ invite[i].email = e
                         /\ invite[i].status = "pending"

\* The unique index on (tenant, lower(email)) spans every status.
Invited(t, e) ==
    \E i \in InviteIds : invite[i].tenant = t /\ invite[i].email = e

\* Accounts that belong to a tenant as its administrators.
IsAdmin(u) == Exists(u) /\ user[u].role = "agency_admin"

\* A new request of an endpoint the workload includes.
Calls(r, endpoint) == req[r] = Idle /\ endpoint \in workload

Goto(r, stage) == req' = [req EXCEPT ![r] = stage]
Done(r) == Goto(r, Idle)

Insert(u, row) == user' = [user EXCEPT ![u] = row]

-----------------------------------------------------------------------------
(* POST /auth/sign-up: look for the address, then insert tenant and user in *)
(* one transaction that the unique index may refuse.                       *)

SignUpLook(r, e) ==
    /\ Calls(r, "signup")
    /\ ~Taken(e)
    /\ Goto(r, [Idle EXCEPT !.at = "signup", !.email = e])
    /\ UNCHANGED <<user, invite, mail, workload, minted, now, history>>

SignUpCreate(r) ==
    /\ req[r].at = "signup"
    /\ \/ /\ Taken(req[r].email)
          /\ UNCHANGED <<user, confirmed>>
       \/ \E u \in UserIds :
            /\ ~Taken(req[r].email) /\ ~Exists(u)
            /\ Insert(u, [NoUser EXCEPT !.email = req[r].email, !.tenant = u,
                                        !.role = "agency_admin",
                                        !.verified = SkipVerification])
            /\ confirmed' = IF SkipVerification
                            THEN confirmed \cup {<<u, req[r].email>>}
                            ELSE confirmed
    /\ Done(r)
    /\ UNCHANGED <<invite, mail, workload, minted, now, seen, moved, proved, overlapped>>

-----------------------------------------------------------------------------
(* Invites.                                                                *)

CreateInviteLook(r, admin, e, role) ==
    /\ Calls(r, "invites")
    /\ IsAdmin(admin)
    /\ ~PendingFor(user[admin].tenant, e)
    /\ Goto(r, [Idle EXCEPT !.at = "invite", !.who = user[admin].tenant,
                            !.email = e, !.role = role])
    /\ UNCHANGED <<user, invite, mail, workload, minted, now, history>>

\* The row InviteRepository.create inserts.
InviteFor(q) == [tenant |-> q.who, email |-> q.email, role |-> q.role,
                 status |-> "pending", expires |-> now + InviteTtl]

\* The insert fails on the index when any invite of that address exists.
CreateInvite(r) ==
    /\ req[r].at = "invite"
    /\ \/ /\ Invited(req[r].who, req[r].email)
          /\ UNCHANGED invite
       \/ \E i \in InviteIds :
            /\ ~Invited(req[r].who, req[r].email)
            /\ invite[i] = NoInvite
            /\ invite' = [invite EXCEPT ![i] = InviteFor(req[r])]
    /\ Done(r)
    /\ UNCHANGED <<user, mail, workload, minted, now, history>>

RevokeLook(r, admin, i) ==
    /\ Calls(r, "invites")
    /\ IsAdmin(admin)
    /\ invite[i].tenant = user[admin].tenant
    /\ invite[i].status = "pending"
    /\ Goto(r, [Idle EXCEPT !.at = "revoke", !.inv = i])
    /\ UNCHANGED <<user, invite, mail, workload, minted, now, history>>

\* UPDATE ... WHERE id, whatever the status is by now.
Revoke(r) ==
    /\ req[r].at = "revoke"
    /\ invite' = [invite EXCEPT ![req[r].inv].status = "revoked"]
    /\ Done(r)
    /\ UNCHANGED <<user, mail, workload, minted, now, history>>

\* What an invite must be to be shown to its holder (lookup_invite) and, by
\* the same checks, to be accepted.
Open(i) == invite[i].status = "pending" /\ invite[i].expires > now

\* find_by_token_hash, then the checks on status and expiry.
AcceptLook(r, i) ==
    /\ Calls(r, "invites")
    /\ Open(i)
    /\ Goto(r, [Idle EXCEPT !.at = "accept", !.inv = i,
                            !.email = invite[i].email, !.who = invite[i].tenant,
                            !.role = invite[i].role])
    /\ seen' = seen \cup {i}
    /\ UNCHANGED <<user, invite, mail, workload, minted, now,
                   moved, confirmed, proved, overlapped>>

AcceptFindEmail(r) ==
    /\ req[r].at = "accept"
    /\ IF Taken(req[r].email) THEN Done(r)
       ELSE Goto(r, [req[r] EXCEPT !.at = "enroll"])
    /\ UNCHANGED <<user, invite, mail, workload, minted, now, history>>

(* Mutant of AcceptCreate: no unique index on the address.                 *)
AcceptCreateUnindexed(r) ==
    /\ req[r].at = "enroll"
    /\ \E u \in UserIds :
         /\ ~Exists(u)
         /\ Insert(u, [NoUser EXCEPT !.email = req[r].email,
                                     !.tenant = req[r].who,
                                     !.role = req[r].role, !.via = req[r].inv])
         /\ Goto(r, [req[r] EXCEPT !.at = "mark"])
    /\ UNCHANGED <<invite, mail, workload, minted, now, history>>

AcceptCreate(r) ==
    /\ req[r].at = "enroll"
    /\ \/ /\ Taken(req[r].email)
          /\ Done(r)
          /\ UNCHANGED <<user, confirmed>>
       \/ \E u \in UserIds :
            /\ ~Taken(req[r].email) /\ ~Exists(u)
            /\ Insert(u, [NoUser EXCEPT !.email = req[r].email,
                                        !.tenant = req[r].who,
                                        !.role = req[r].role, !.via = req[r].inv,
                                        !.verified = SkipVerification])
            /\ confirmed' = IF SkipVerification
                            THEN confirmed \cup {<<u, req[r].email>>}
                            ELSE confirmed
            /\ Goto(r, [req[r] EXCEPT !.at = "mark"])
    /\ UNCHANGED <<invite, mail, workload, minted, now, seen, moved, proved, overlapped>>

MarkAccepted(r) ==
    /\ req[r].at = "mark"
    /\ invite' = [invite EXCEPT ![req[r].inv].status = "accepted"]
    /\ Done(r)
    /\ UNCHANGED <<user, mail, workload, minted, now, history>>

-----------------------------------------------------------------------------
(* PATCH /auth/profile: the new address is looked up, then written together *)
(* with email_verified = FALSE; the index may refuse the UPDATE.           *)

UpdateProfileLook(r, u, e) ==
    /\ Calls(r, "profile")
    /\ Exists(u) /\ user[u].email # e
    /\ ~Taken(e)
    /\ Goto(r, [Idle EXCEPT !.at = "profile", !.who = u, !.email = e])
    /\ UNCHANGED <<user, invite, mail, workload, minted, now, history>>

UpdateProfile(r) ==
    LET u == req[r].who IN
    /\ req[r].at = "profile"
    /\ IF \E v \in UserIds \ {u} : user[v].email = req[r].email
       THEN UNCHANGED <<user, moved>>
       ELSE /\ user' = [user EXCEPT ![u].email = req[r].email,
                                    ![u].verified = FALSE]
            /\ moved' = moved \cup {u}
    /\ Done(r)
    /\ UNCHANGED <<invite, mail, workload, minted, now, seen, confirmed, proved, overlapped>>

\* send_verification_email stores a token that names the user, not the address.
SendVerification(u) ==
    /\ "verify" \in workload /\ Exists(u)
    /\ mail' = [mail EXCEPT ![u] = now + VerifyTtl]
    /\ UNCHANGED <<user, invite, req, workload, minted, now, history>>

\* take: GET, and a DELETE that may fail and leave the token in the store.
VerifyTake(r, u) ==
    /\ Calls(r, "verify")
    /\ mail[u] # None /\ mail[u] > now
    /\ \/ mail' = [mail EXCEPT ![u] = None]
       \/ UNCHANGED mail
    /\ Goto(r, [Idle EXCEPT !.at = "verify", !.who = u])
    /\ UNCHANGED <<user, invite, workload, minted, now, history>>

VerifyMark(r) ==
    LET u == req[r].who IN
    /\ req[r].at = "verify"
    /\ user' = [user EXCEPT ![u].verified = TRUE]
    /\ confirmed' = confirmed \cup {<<u, user[u].email>>}
    /\ Done(r)
    /\ UNCHANGED <<invite, mail, workload, minted, now, seen, moved, proved, overlapped>>

-----------------------------------------------------------------------------
(* Two-factor authentication.  Secret 0 is the NULL of the column.         *)

\* Verifications of u between their read and their commit.
Verifying(u) == \E r \in Requests : req[r].at = "enable" /\ req[r].who = u

\* verify_totp_code refuses every code where no secret is stored; the codes
\* presented are otherwise taken to be right.
CodeFits(secret) == secret # 0

(* Mutant of TotpSetup: a new secret leaves 2FA on.                        *)
TotpSetupStaysOn(u) ==
    /\ "totp" \in workload /\ Exists(u) /\ minted < MaxSecret
    /\ minted' = minted + 1
    /\ user' = [user EXCEPT ![u].secret = minted + 1]
    /\ UNCHANGED <<invite, mail, req, workload, now, history>>

\* setup_totp_for_user: mint, store, and switch 2FA off until it is verified.
TotpSetup(u) ==
    /\ "totp" \in workload /\ Exists(u) /\ minted < MaxSecret
    /\ minted' = minted + 1
    /\ user' = [user EXCEPT ![u].secret = minted + 1, ![u].enabled = FALSE]
    /\ overlapped' = IF Verifying(u) THEN overlapped \cup {u} ELSE overlapped
    /\ UNCHANGED <<invite, mail, req, workload, now, seen, moved, confirmed, proved>>

\* verify_totp_for_user reads the row and checks the code against the secret
\* it read; an already enabled row is left alone.
TotpCheck(r, u) ==
    /\ Calls(r, "totp")
    /\ Exists(u) /\ CodeFits(user[u].secret) /\ ~user[u].enabled
    /\ Goto(r, [Idle EXCEPT !.at = "enable", !.who = u, !.secret = user[u].secret])
    /\ proved' = proved \cup {<<u, user[u].secret>>}
    /\ UNCHANGED <<user, invite, mail, workload, minted, now, seen, moved, confirmed, overlapped>>

EnableTotp(r) ==
    /\ req[r].at = "enable"
    /\ user' = [user EXCEPT ![req[r].who].enabled = TRUE]
    /\ Done(r)
    /\ UNCHANGED <<invite, mail, workload, minted, now, history>>

\* disable_totp_for_user checks password and code on a snapshot of the row.
TotpDisableCheck(r, u) ==
    /\ Calls(r, "totp")
    /\ Exists(u) /\ user[u].enabled /\ CodeFits(user[u].secret)
    /\ Goto(r, [Idle EXCEPT !.at = "clear", !.who = u])
    /\ UNCHANGED <<user, invite, mail, workload, minted, now, history>>

ClearTotp(r) ==
    LET u == req[r].who IN
    /\ req[r].at = "clear"
    /\ user' = [user EXCEPT ![u].enabled = FALSE, ![u].secret = 0]
    /\ overlapped' = IF Verifying(u) THEN overlapped \cup {u} ELSE overlapped
    /\ Done(r)
    /\ UNCHANGED <<invite, mail, workload, minted, now, seen, moved, confirmed, proved>>

Tick ==
    /\ now < MaxNow
    /\ now' = now + 1
    /\ UNCHANGED <<user, invite, mail, req, workload, minted, history>>

-----------------------------------------------------------------------------
Request(r) ==
    \/ \E e \in Emails : SignUpLook(r, e)
    \/ SignUpCreate(r)
    \/ \E a \in UserIds, e \in Emails, role \in Roles : CreateInviteLook(r, a, e, role)
    \/ CreateInvite(r)
    \/ \E a \in UserIds, i \in InviteIds : RevokeLook(r, a, i)
    \/ Revoke(r)
    \/ \E i \in InviteIds : AcceptLook(r, i)
    \/ AcceptFindEmail(r) \/ AcceptCreate(r) \/ MarkAccepted(r)
    \/ \E u \in UserIds, e \in Emails : UpdateProfileLook(r, u, e)
    \/ UpdateProfile(r)
    \/ \E u \in UserIds : VerifyTake(r, u)
    \/ VerifyMark(r)
    \/ \E u \in UserIds : TotpCheck(r, u)
    \/ EnableTotp(r)
    \/ \E u \in UserIds : TotpDisableCheck(r, u)
    \/ ClearTotp(r)

Next ==
    \/ \E r \in Requests : Request(r)
    \/ \E u \in UserIds : SendVerification(u) \/ TotpSetup(u)
    \/ Tick

Spec == Init /\ [][Next]_vars

-----------------------------------------------------------------------------
(* Properties.                                                             *)

UserRow == [email: Emails \cup {None}, tenant: UserIds \cup {None}, role: Roles,
            via: InviteIds \cup {None}, verified: BOOLEAN, secret: Nat,
            enabled: BOOLEAN]
InviteRow == [tenant: UserIds \cup {None}, email: Emails \cup {None}, role: Roles,
              status: {"none", "pending", "accepted", "revoked"}, expires: Nat]
ReqRow == [at: Stages, who: UserIds \cup {None}, email: Emails \cup {None},
           inv: InviteIds \cup {None}, role: Roles, secret: Nat]

\* Every table holds rows of its type.
TypeOK ==
    /\ user \in [UserIds -> UserRow]
    /\ invite \in [InviteIds -> InviteRow]
    /\ mail \in [UserIds -> Nat \cup {None}]
    /\ req \in [Requests -> ReqRow]
    /\ workload \in Workloads
    /\ minted \in Nat /\ now \in Nat
    /\ seen \subseteq InviteIds
    /\ moved \subseteq UserIds /\ overlapped \subseteq UserIds
    /\ confirmed \subseteq UserIds \X Emails
    /\ proved \subseteq UserIds \X Nat

\* Nobody joins another's tenant uninvited: an account outside its own tenant
\* was created from an invite of that tenant, which an acceptance had found
\* pending and in time, and holds the role the invite gives.
MembersInvited ==
    \A u \in UserIds : Exists(u) /\ user[u].tenant # u =>
        LET i == user[u].via IN
        /\ i \in seen
        /\ invite[i].tenant = user[u].tenant
        /\ invite[i].role = user[u].role

\* An account and the state of its invite agree: an accepted invite has an
\* account, and the invite of an account is accepted, about to be marked so,
\* or was revoked by a request that overlapped the acceptance.
AcceptedMeansMember ==
    /\ \A i \in InviteIds : invite[i].status = "accepted" =>
            \E u \in UserIds : user[u].via = i
    /\ \A u \in UserIds : user[u].via # None =>
            \/ invite[user[u].via].status \in {"accepted", "revoked"}
            \/ \E r \in Requests : req[r].at = "mark" /\ req[r].inv = user[u].via

\* An invite is spent once, by overlapping acceptances too, unless the first
\* account it created has moved to another address meanwhile.
InviteSpentOnce ==
    \A u, v \in UserIds :
        user[u].via # None /\ user[u].via = user[v].via /\ u # v =>
            u \in moved \/ v \in moved

\* Tables are well formed, and accounts and invites account for each other.
Membership == TypeOK /\ MembersInvited /\ AcceptedMeansMember /\ InviteSpentOnce

\* A verified account was marked as verified while it had the address it has:
\* changing the address takes the mark away in the same UPDATE.
VerifiedThisAddress ==
    \A u \in UserIds : user[u].verified => <<u, user[u].email>> \in confirmed

\* 2FA is on only with a secret that a code was checked against, unless a setup
\* or a removal committed while a verification of the same user was under way.
EnabledSecretProved ==
    \A u \in UserIds : user[u].enabled /\ u \notin overlapped =>
        <<u, user[u].secret>> \in proved

\* What schemas/storage/user.py says of the flag: it is set only after the
\* stored secret was verified.
EnabledOnlyAfterVerify ==
    \A u \in UserIds : user[u].enabled => <<u, user[u].secret>> \in proved
=============================================================================
