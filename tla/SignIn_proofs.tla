--------------------------- MODULE SignIn_proofs ----------------------------
(***************************************************************************)
(* Machine-checked proofs about who may come in and who stays in.  First    *)
(* Accounts and ApiKeys, for every set of users, invites, addresses, keys   *)
(* and requests, every TTL and every workload; then Sessions, for any       *)
(* number of callers and of submissions of a reset form, any lifetimes of   *)
(* tokens and every client library.                                         *)
(***************************************************************************)
EXTENDS ApiKeys, Sessions, TLAPS

-----------------------------------------------------------------------------
(* The inductive invariant of the accounts.                                *)

\* A row that is not an account is empty, and tokens are mailed to accounts.
Rows ==
    /\ \A u \in UserIds : ~Exists(u) => user[u] = NoUser
    /\ \A u \in UserIds : mail[u] # None => Exists(u)

\* An invite that is there has an address, and what an acceptance has seen is
\* there.
Invites ==
    /\ \A i \in InviteIds : invite[i].status # "none" => invite[i].email \in Emails
    /\ \A i \in seen : invite[i].status # "none"

\* What a request has read and still relies on.
ReadsHold(q) ==
    /\ q.at \in {"signup", "invite", "profile"} => q.email \in Emails
    /\ q.at \in {"profile", "verify", "enable", "clear"} => q.who \in UserIds /\ Exists(q.who)
    /\ q.at = "revoke" => q.inv \in InviteIds /\ invite[q.inv].status # "none"
    /\ q.at \in {"accept", "enroll", "mark"} =>
         /\ q.inv \in seen /\ q.email \in Emails
         /\ invite[q.inv].email = q.email
         /\ invite[q.inv].tenant = q.who
         /\ invite[q.inv].role = q.role
    /\ q.at = "mark" => \E u \in UserIds : user[u].via = q.inv
    /\ q.at = "enable" =>
         q.who \in overlapped \/ (user[q.who].secret = q.secret /\ <<q.who, q.secret>> \in proved)

Reads == \A r \in Requests : ReadsHold(req[r])

\* An account came by sign-up or through the invite it names, whose address it
\* has until it moves.
Origins ==
    \A u \in UserIds :
        /\ user[u].via # None =>
             /\ user[u].via \in seen
             /\ invite[user[u].via].tenant = user[u].tenant
             /\ invite[user[u].via].role = user[u].role
             /\ u \in moved \/ user[u].email = invite[user[u].via].email
        /\ Exists(u) /\ user[u].via = None => user[u].tenant = u

AccountsInv ==
    /\ TypeOK /\ Rows /\ Invites /\ Reads /\ Origins
    /\ AcceptedMeansMember /\ InviteSpentOnce
    /\ VerifiedThisAddress /\ EnabledSecretProved

(* The first state satisfies the invariant, with and without a team.       *)
LEMMA AccountsStart == Init => AccountsInv
<1> SUFFICES ASSUME Init PROVE AccountsInv
  OBVIOUS
<1> USE AccountsAssumption
<1>1. NoUser \in UserRow /\ NoInvite \in InviteRow /\ Idle \in ReqRow
  BY DEF NoUser, NoInvite, Idle, UserRow, InviteRow, ReqRow, Roles, Stages
<1>2. Reads
  BY DEF Init, Reads, ReadsHold, Idle
<1>3. \A u \in UserIds : Alone[u] \in UserRow
  BY <1>1 DEF Alone, UserRow, NoUser, Roles
<1>4. Alone = [u \in UserIds |-> Alone[u]]
  BY DEF Alone
<1>5. /\ mail \in [UserIds -> Nat \cup {None}] /\ req \in [Requests -> ReqRow]
      /\ workload \in Workloads /\ minted \in Nat /\ now \in Nat
      /\ moved \subseteq UserIds /\ overlapped \subseteq UserIds
      /\ confirmed \subseteq UserIds \X Emails /\ proved \subseteq UserIds \X Nat
  BY <1>1 DEF Init
<1>6. CASE InitAlone
  <2>1. TypeOK
    BY <1>1, <1>3, <1>4, <1>5, <1>6 DEF InitAlone, TypeOK
  <2>2. Rows /\ Invites /\ Origins /\ AcceptedMeansMember /\ InviteSpentOnce
    BY <1>6 DEF Init, InitAlone, Alone, Rows, Invites, Origins, Exists, NoUser, NoInvite,
       AcceptedMeansMember, InviteSpentOnce
  <2>3. VerifiedThisAddress /\ EnabledSecretProved
    BY <1>6 DEF Init, InitAlone, Alone, NoUser, VerifiedThisAddress, EnabledSecretProved
  <2> QED
    BY <1>2, <2>1, <2>2, <2>3 DEF AccountsInv
<1>7. CASE InitTeam
  <2>1. PICK u \in UserIds \ {Founder}, i \in InviteIds, e \in Emails \ {FounderEmail} :
          /\ user = [Alone EXCEPT ![u] = [NoUser EXCEPT !.email = e, !.tenant = Founder,
                                                        !.via = i]]
          /\ invite = [j \in InviteIds |->
                         IF j = i THEN [tenant |-> Founder, email |-> e, role |-> "agent",
                                        status |-> "accepted", expires |-> InviteTtl]
                         ELSE NoInvite]
          /\ seen = {i}
    BY <1>7 DEF InitTeam
  <2>2. TypeOK
    <3>1. [NoUser EXCEPT !.email = e, !.tenant = Founder, !.via = i] \in UserRow
      BY <1>1 DEF UserRow
    <3>2. [tenant |-> Founder, email |-> e, role |-> "agent",
           status |-> "accepted", expires |-> InviteTtl] \in InviteRow
      BY DEF InviteRow, Roles
    <3> QED
      BY <1>1, <1>3, <1>4, <1>5, <2>1, <3>1, <3>2 DEF TypeOK
  <2>3. Rows /\ Invites /\ Origins
    BY <2>1 DEF Init, Alone, Rows, Invites, Origins, Exists, NoUser, NoInvite
  <2>4. AcceptedMeansMember /\ InviteSpentOnce
    BY <2>1 DEF Init, Alone, NoUser, NoInvite, AcceptedMeansMember, InviteSpentOnce
  <2>5. VerifiedThisAddress /\ EnabledSecretProved
    BY <2>1 DEF Init, Alone, NoUser, VerifiedThisAddress, EnabledSecretProved
  <2> QED
    BY <1>2, <2>2, <2>3, <2>4, <2>5 DEF AccountsInv
<1> QED
  BY <1>6, <1>7 DEF Init

-----------------------------------------------------------------------------
(* The steps of the accounts.                                              *)

(* A request that moves on, having read what it relies on, keeps the       *)
(* invariant; it may consume a mailed token and extend the history.        *)
LEMMA MoveRequest ==
  ASSUME AccountsInv, NEW r \in Requests, NEW q \in ReqRow,
         req[r].at # "mark", req' = [req EXCEPT ![r] = q], ReadsHold(q)',
         UNCHANGED <<user, invite, workload, minted, now, moved, confirmed, overlapped>>,
         mail' \in [UserIds -> Nat \cup {None}],
         \A u \in UserIds : mail'[u] # None => Exists(u),
         seen \subseteq seen', seen' \subseteq InviteIds,
         \A i \in seen' : invite[i].status # "none",
         proved \subseteq proved', proved' \subseteq UserIds \X Nat
  PROVE  AccountsInv'
<1> USE DEF AccountsInv
<1>1. TypeOK'
  BY DEF TypeOK
<1>2. Rows' /\ Invites'
  BY DEF Rows, Invites, Exists
<1>3. Reads'
  BY DEF Reads, ReadsHold, Exists, TypeOK
<1>4. Origins'
  BY DEF Origins, Exists
<1>5. AcceptedMeansMember'
  BY DEF AcceptedMeansMember, TypeOK
<1>6. InviteSpentOnce' /\ VerifiedThisAddress'
  BY DEF InviteSpentOnce, VerifiedThisAddress
<1>7. EnabledSecretProved'
  BY DEF EnabledSecretProved
<1> QED
  BY <1>1, <1>2, <1>3, <1>4, <1>5, <1>6, <1>7

(* Going back to idle needs nothing.                                       *)
LEMMA EndRequest ==
  ASSUME AccountsInv, NEW r \in Requests, req[r].at # "mark", Done(r),
         UNCHANGED <<user, invite, mail, workload, minted, now, history>>
  PROVE  AccountsInv'
<1>1. Idle \in ReqRow
  BY AccountsAssumption DEF Idle, ReqRow, Roles, Stages
<1>2. ReadsHold(Idle)'
  BY DEF ReadsHold, Idle
<1>3. mail \in [UserIds -> Nat \cup {None}] /\ \A u \in UserIds : mail[u] # None => Exists(u)
  BY DEF AccountsInv, TypeOK, Rows
<1>4. /\ seen \subseteq InviteIds /\ \A i \in seen : invite[i].status # "none"
      /\ proved \subseteq UserIds \X Nat
  BY DEF AccountsInv, TypeOK, Invites
<1> QED
  BY <1>1, <1>2, <1>3, <1>4, MoveRequest DEF Done, Goto, history

(* A new request starts from idle.                                         *)
LEMMA IdleRequest ==
  ASSUME NEW r \in Requests, NEW endpoint, Calls(r, endpoint)
  PROVE  req[r].at # "mark"
BY DEF Calls, Idle

(* The requests that only read.                                            *)
LEMMA LookSteps ==
  ASSUME AccountsInv, NEW r \in Requests,
         \/ \E e \in Emails : SignUpLook(r, e)
         \/ \E a \in UserIds, e \in Emails, role \in Roles : CreateInviteLook(r, a, e, role)
         \/ \E a \in UserIds, i \in InviteIds : RevokeLook(r, a, i)
         \/ \E i \in InviteIds : AcceptLook(r, i)
         \/ AcceptFindEmail(r)
         \/ \E u \in UserIds, e \in Emails : UpdateProfileLook(r, u, e)
         \/ \E u \in UserIds : VerifyTake(r, u)
         \/ \E u \in UserIds : TotpCheck(r, u) \/ TotpDisableCheck(r, u)
  PROVE  AccountsInv'
<1> USE AccountsAssumption
<1>1. /\ mail \in [UserIds -> Nat \cup {None}] /\ \A u \in UserIds : mail[u] # None => Exists(u)
      /\ seen \subseteq InviteIds /\ \A i \in seen : invite[i].status # "none"
      /\ proved \subseteq UserIds \X Nat
      /\ user \in [UserIds -> UserRow] /\ invite \in [InviteIds -> InviteRow]
      /\ req[r] \in ReqRow /\ Idle \in ReqRow
  BY DEF AccountsInv, TypeOK, Rows, Invites, Idle, ReqRow, Roles, Stages
<1>2. ASSUME NEW e \in Emails, SignUpLook(r, e) PROVE AccountsInv'
  <2>1. PICK q : q = [Idle EXCEPT !.at = "signup", !.email = e]
    OBVIOUS
  <2>2. q \in ReqRow
    BY <1>1, <2>1 DEF ReqRow, Stages
  <2>3. ReadsHold(q)'
    BY <1>1, <1>2, <2>1 DEF SignUpLook, ReadsHold, Idle
  <2>4. Goto(r, q) /\ req[r].at # "mark"
    BY <1>2, <2>1, IdleRequest DEF SignUpLook
  <2> QED
    BY <1>1, <1>2, <2>2, <2>3, <2>4, MoveRequest DEF SignUpLook, Goto, history
<1>3. ASSUME NEW a \in UserIds, NEW e \in Emails, NEW role \in Roles, CreateInviteLook(r, a, e, role) PROVE AccountsInv'
  <2>1. PICK q : q = [Idle EXCEPT !.at = "invite", !.who = user[a].tenant,
                             !.email = e, !.role = role]
    OBVIOUS
  <2>2. q \in ReqRow
    BY <1>1, <2>1 DEF ReqRow, Stages, UserRow
  <2>3. ReadsHold(q)'
    BY <1>1, <1>3, <2>1 DEF CreateInviteLook, ReadsHold, Idle
  <2>4. Goto(r, q) /\ req[r].at # "mark"
    BY <1>3, <2>1, IdleRequest DEF CreateInviteLook
  <2> QED
    BY <1>1, <1>3, <2>2, <2>3, <2>4, MoveRequest DEF CreateInviteLook, Goto, history
<1>4. ASSUME NEW a \in UserIds, NEW i \in InviteIds, RevokeLook(r, a, i) PROVE AccountsInv'
  <2>1. PICK q : q = [Idle EXCEPT !.at = "revoke", !.inv = i]
    OBVIOUS
  <2>2. q \in ReqRow
    BY <1>1, <2>1 DEF ReqRow, Stages
  <2>3. ReadsHold(q)'
    BY <1>1, <1>4, <2>1 DEF RevokeLook, ReadsHold, Idle
  <2>4. Goto(r, q) /\ req[r].at # "mark"
    BY <1>4, <2>1, IdleRequest DEF RevokeLook
  <2> QED
    BY <1>1, <1>4, <2>2, <2>3, <2>4, MoveRequest DEF RevokeLook, Goto, history
<1>5. ASSUME NEW i \in InviteIds, AcceptLook(r, i) PROVE AccountsInv'
  <2>0. invite[i].status = "pending" /\ invite[i].email \in Emails
    BY <1>5 DEF AcceptLook, Open, AccountsInv, Invites
  <2>1. PICK q : q = [Idle EXCEPT !.at = "accept", !.inv = i,
                             !.email = invite[i].email, !.who = invite[i].tenant,
                             !.role = invite[i].role]
    OBVIOUS
  <2>2. q \in ReqRow
    BY <1>1, <2>1, <2>0 DEF ReqRow, Stages, InviteRow
  <2>3. ReadsHold(q)'
    BY <1>1, <1>5, <2>1, <2>0 DEF AcceptLook, ReadsHold, Idle
  <2>4. Goto(r, q) /\ req[r].at # "mark"
    BY <1>5, <2>1, IdleRequest DEF AcceptLook
  <2>5. /\ req' = [req EXCEPT ![r] = q] /\ seen' = seen \cup {i}
        /\ UNCHANGED <<user, invite, mail, workload, minted, now, moved, confirmed, proved,
                        overlapped>>
    BY <1>5, <2>4 DEF AcceptLook, Goto
  <2>6. /\ seen' \subseteq InviteIds
        /\ \A j \in seen' : invite[j].status # "none"
    BY <1>1, <2>0, <2>5
  <2> QED
    BY <1>1, <2>2, <2>3, <2>4, <2>5, <2>6, MoveRequest
<1>6. CASE AcceptFindEmail(r)
  <2>1. CASE Done(r)
    BY <1>6, <2>1, EndRequest DEF AcceptFindEmail
  <2>2. CASE Goto(r, [req[r] EXCEPT !.at = "enroll"])
    <3>1. PICK q : q = [req[r] EXCEPT !.at = "enroll"]
      OBVIOUS
    <3>2. q \in ReqRow
      BY <1>1, <3>1 DEF ReqRow, Stages
    <3>3. ReadsHold(req[r]) /\ req[r].at = "accept"
      BY <1>6 DEF AcceptFindEmail, AccountsInv, Reads
    <3>4. ReadsHold(q)'
      BY <1>1, <1>6, <3>1, <3>3 DEF AcceptFindEmail, ReadsHold, ReqRow, history
    <3> QED
      BY <1>1, <1>6, <2>2, <3>1, <3>2, <3>3, <3>4, MoveRequest
      DEF AcceptFindEmail, Goto, history
  <2> QED
    BY <1>6, <2>1, <2>2 DEF AcceptFindEmail
<1>7. ASSUME NEW u \in UserIds, NEW e \in Emails, UpdateProfileLook(r, u, e) PROVE AccountsInv'
  <2>1. PICK q : q = [Idle EXCEPT !.at = "profile", !.who = u, !.email = e]
    OBVIOUS
  <2>2. q \in ReqRow
    BY <1>1, <2>1 DEF ReqRow, Stages
  <2>3. ReadsHold(q)'
    BY <1>1, <1>7, <2>1 DEF UpdateProfileLook, ReadsHold, Idle, Exists
  <2>4. Goto(r, q) /\ req[r].at # "mark"
    BY <1>7, <2>1, IdleRequest DEF UpdateProfileLook
  <2> QED
    BY <1>1, <1>7, <2>2, <2>3, <2>4, MoveRequest DEF UpdateProfileLook, Goto, history
<1>8. ASSUME NEW u \in UserIds, VerifyTake(r, u) PROVE AccountsInv'
  <2>1. PICK q : q = [Idle EXCEPT !.at = "verify", !.who = u]
    OBVIOUS
  <2>2. q \in ReqRow
    BY <1>1, <2>1 DEF ReqRow, Stages
  <2>3. ReadsHold(q)'
    BY <1>1, <1>8, <2>1 DEF VerifyTake, ReadsHold, Idle, Exists
  <2>4. Goto(r, q) /\ req[r].at # "mark"
    BY <1>8, <2>1, IdleRequest DEF VerifyTake
  <2>5. /\ mail' \in [UserIds -> Nat \cup {None}]
        /\ \A v \in UserIds : mail'[v] # None => Exists(v)
    BY <1>1, <1>8 DEF VerifyTake
  <2> QED
    BY <1>1, <1>8, <2>2, <2>3, <2>4, <2>5, MoveRequest DEF VerifyTake, Goto, history
<1>9. ASSUME NEW u \in UserIds, TotpCheck(r, u) PROVE AccountsInv'
  <2>1. PICK q : q = [Idle EXCEPT !.at = "enable", !.who = u,
                             !.secret = user[u].secret]
    OBVIOUS
  <2>2. q \in ReqRow
    BY <1>1, <2>1 DEF ReqRow, Stages, UserRow
  <2>3. ReadsHold(q)'
    BY <1>1, <1>9, <2>1 DEF TotpCheck, ReadsHold, Idle, Exists
  <2>4. Goto(r, q) /\ req[r].at # "mark"
    BY <1>9, <2>1, IdleRequest DEF TotpCheck
  <2>5. proved \subseteq proved' /\ proved' \subseteq UserIds \X Nat
    <3>1. user[u].secret \in Nat
      BY <1>1 DEF UserRow
    <3>2. proved' = proved \cup {<<u, user[u].secret>>}
      BY <1>9 DEF TotpCheck
    <3> QED
      BY <1>1, <3>1, <3>2
  <2> QED
    BY <1>1, <1>9, <2>2, <2>3, <2>4, <2>5, MoveRequest DEF TotpCheck, Goto
<1>10. ASSUME NEW u \in UserIds, TotpDisableCheck(r, u) PROVE AccountsInv'
  <2>1. PICK q : q = [Idle EXCEPT !.at = "clear", !.who = u]
    OBVIOUS
  <2>2. q \in ReqRow
    BY <1>1, <2>1 DEF ReqRow, Stages
  <2>3. ReadsHold(q)'
    BY <1>1, <1>10, <2>1 DEF TotpDisableCheck, ReadsHold, Idle, Exists
  <2>4. Goto(r, q) /\ req[r].at # "mark"
    BY <1>10, <2>1, IdleRequest DEF TotpDisableCheck
  <2> QED
    BY <1>1, <1>10, <2>2, <2>3, <2>4, MoveRequest DEF TotpDisableCheck, Goto, history
<1> QED
  BY <1>2, <1>3, <1>4, <1>5, <1>6, <1>7, <1>8, <1>9, <1>10

(* A new account, in a row that was free, under an address nobody has.     *)
LEMMA NewAccount ==
  ASSUME AccountsInv, NEW r \in Requests, NEW q \in ReqRow, NEW u \in UserIds,
         NEW row \in UserRow,
         ~Exists(u), row.email \in Emails, ~Taken(row.email), ~row.enabled,
         row.via = None => row.tenant = u,
         row.via # None =>
            /\ row.via \in seen /\ invite[row.via].email = row.email
            /\ invite[row.via].tenant = row.tenant /\ invite[row.via].role = row.role
            /\ q.at = "mark" /\ q.inv = row.via,
         req[r].at # "mark", req' = [req EXCEPT ![r] = q], ReadsHold(q)',
         user' = [user EXCEPT ![u] = row],
         confirmed \subseteq confirmed', confirmed' \subseteq UserIds \X Emails,
         row.verified => <<u, row.email>> \in confirmed',
         UNCHANGED <<invite, mail, workload, minted, now, seen, moved, proved, overlapped>>
  PROVE  AccountsInv'
<1> USE AccountsAssumption DEF AccountsInv
<1>1. TypeOK'
  BY DEF TypeOK
<1>2. user[u] = NoUser /\ user'[u] = row /\ \A v \in UserIds \ {u} : user'[v] = user[v]
  BY DEF TypeOK, Rows
<1>3. req'[r] = q /\ \A s \in Requests \ {r} : req'[s] = req[s]
  BY DEF TypeOK
<1>4. Exists(u)' /\ \A v \in UserIds : Exists(v) => v # u /\ Exists(v)'
  BY <1>2 DEF Exists
<1>5. Rows' /\ Invites'
  BY <1>2, <1>4 DEF Rows, Invites, Exists
<1>6. seen \subseteq InviteIds /\ user[u].via = None /\ ~user[u].verified
  BY <1>2 DEF TypeOK, NoUser
<1>7. Reads'
  <2> SUFFICES ASSUME NEW s \in Requests \ {r} PROVE ReadsHold(req[s])'
    BY <1>3 DEF Reads, ReadsHold
  <2>1. ReadsHold(req[s]) /\ req'[s] = req[s]
    BY <1>3 DEF Reads
  <2>2. req[s].at = "mark" => \E v \in UserIds : user'[v].via = req[s].inv
    BY <1>2, <1>6, <2>1 DEF ReadsHold
  <2>3. req[s].at = "enable" => req[s].who \in UserIds /\ user'[req[s].who] = user[req[s].who]
    BY <1>2, <1>4, <2>1 DEF ReadsHold
  <2> QED
    BY <1>4, <2>1, <2>2, <2>3 DEF ReadsHold
<1>8. Origins'
  BY <1>2, <1>4, <1>6 DEF Origins, Exists
<1>9. AcceptedMeansMember'
  <2>1. ASSUME NEW i \in InviteIds, invite'[i].status = "accepted"
        PROVE  \E v \in UserIds : user'[v].via = i
    BY <1>2, <1>6, <2>1 DEF AcceptedMeansMember
  <2>2. ASSUME NEW v \in UserIds, user'[v].via # None
        PROVE  \/ invite'[user'[v].via].status \in {"accepted", "revoked"}
               \/ \E s \in Requests : req'[s].at = "mark" /\ req'[s].inv = user'[v].via
    BY <1>2, <1>3, <2>2 DEF AcceptedMeansMember
  <2> QED
    BY <2>1, <2>2 DEF AcceptedMeansMember
<1>10. InviteSpentOnce'
  <2> SUFFICES ASSUME NEW v \in UserIds, NEW w \in UserIds, v # w,
                      user'[v].via # None, user'[v].via = user'[w].via
               PROVE  v \in moved \/ w \in moved
    BY DEF InviteSpentOnce
  <2>1. ASSUME NEW x \in UserIds \ {u}, user[x].via = row.via, row.via # None
        PROVE  x \in moved
    BY <2>1 DEF Origins, Taken
  <2> QED
    BY <1>2, <2>1 DEF InviteSpentOnce
<1>11. VerifiedThisAddress' /\ EnabledSecretProved'
  BY <1>2 DEF VerifiedThisAddress, EnabledSecretProved
<1> QED
  BY <1>1, <1>5, <1>7, <1>8, <1>9, <1>10, <1>11

(* An UPDATE of one account that leaves its tenant, role and invite alone. *)
LEMMA ChangeAccount ==
  ASSUME AccountsInv, NEW u \in UserIds, NEW row \in UserRow,
         Exists(u), row.email \in Emails,
         row.via = user[u].via, row.tenant = user[u].tenant, row.role = user[u].role,
         user' = [user EXCEPT ![u] = row],
         row.email = user[u].email \/ u \in moved',
         moved \subseteq moved', moved' \subseteq UserIds,
         row.verified => <<u, row.email>> \in confirmed',
         confirmed \subseteq confirmed', confirmed' \subseteq UserIds \X Emails,
         overlapped \subseteq overlapped', overlapped' \subseteq UserIds,
         row.secret = user[u].secret \/ ~Verifying(u) \/ u \in overlapped',
         row.enabled /\ u \notin overlapped' => <<u, row.secret>> \in proved,
         req' \in [Requests -> ReqRow],
         \A s \in Requests : req'[s] = req[s] \/ (req'[s] = Idle /\ req[s].at # "mark"),
         minted' \in Nat,
         UNCHANGED <<invite, mail, workload, now, seen, proved>>
  PROVE  AccountsInv'
<1> USE AccountsAssumption DEF AccountsInv
<1>1. TypeOK'
  BY DEF TypeOK
<1>2. user'[u] = row /\ \A v \in UserIds \ {u} : user'[v] = user[v]
  BY DEF TypeOK
<1>3. \A v \in UserIds : Exists(v)' <=> Exists(v)
  BY <1>2 DEF Exists
<1>4. \A v \in UserIds : /\ user'[v].via = user[v].via /\ user'[v].role = user[v].role
                         /\ user'[v].tenant = user[v].tenant
  BY <1>2
<1>5. Rows' /\ Invites'
  BY <1>2, <1>3 DEF Rows, Invites
<1>6. Reads'
  <2> SUFFICES ASSUME NEW s \in Requests PROVE ReadsHold(req[s])'
    BY DEF Reads
  <2>1. CASE req'[s] = Idle
    BY <2>1 DEF ReadsHold, Idle
  <2>2. CASE req'[s] = req[s]
    <3>1. ReadsHold(req[s])
      BY DEF Reads
    <3>2. req[s].at = "mark" => \E v \in UserIds : user'[v].via = req[s].inv
      BY <1>4, <3>1 DEF ReadsHold
    <3>3. req[s].at = "enable" =>
            \/ req[s].who \in overlapped'
            \/ user'[req[s].who].secret = req[s].secret /\ <<req[s].who, req[s].secret>> \in proved
      BY <1>2, <3>1 DEF ReadsHold, Verifying
    <3> QED
      BY <1>3, <2>2, <3>1, <3>2, <3>3 DEF ReadsHold
  <2> QED
    BY <2>1, <2>2
<1>7. Origins'
  <2> SUFFICES ASSUME NEW v \in UserIds
               PROVE  /\ user'[v].via # None =>
                           /\ user'[v].via \in seen
                           /\ invite[user'[v].via].tenant = user'[v].tenant
                           /\ invite[user'[v].via].role = user'[v].role
                           /\ v \in moved' \/ user'[v].email = invite[user'[v].via].email
                      /\ Exists(v)' /\ user'[v].via = None => user'[v].tenant = v
    BY DEF Origins
  <2> QED
    BY <1>2, <1>3, <1>4 DEF Origins
<1>8. AcceptedMeansMember'
  <2>1. ASSUME NEW i \in InviteIds, invite'[i].status = "accepted"
        PROVE  \E v \in UserIds : user'[v].via = i
    BY <1>4, <2>1 DEF AcceptedMeansMember
  <2>2. ASSUME NEW v \in UserIds, user'[v].via # None
        PROVE  \/ invite'[user'[v].via].status \in {"accepted", "revoked"}
               \/ \E s \in Requests : req'[s].at = "mark" /\ req'[s].inv = user'[v].via
    BY <1>4, <2>2 DEF AcceptedMeansMember
  <2> QED
    BY <2>1, <2>2 DEF AcceptedMeansMember
<1>9. InviteSpentOnce'
  BY <1>4 DEF InviteSpentOnce
<1>10. VerifiedThisAddress'
  BY <1>2 DEF VerifiedThisAddress
<1>11. EnabledSecretProved'
  BY <1>2 DEF EnabledSecretProved
<1> QED
  BY <1>1, <1>5, <1>6, <1>7, <1>8, <1>9, <1>10, <1>11

(* An invite appears, or is marked accepted or revoked.                    *)
LEMMA ChangeInvite ==
  ASSUME AccountsInv, NEW r \in Requests, NEW i \in InviteIds, NEW row \in InviteRow,
         row.email \in Emails, invite' = [invite EXCEPT ![i] = row], Done(r),
         \/ invite[i] = NoInvite /\ row.status = "pending" /\ req[r].at # "mark"
         \/ /\ row = [invite[i] EXCEPT !.status = row.status]
            /\ \/ row.status = "revoked" /\ req[r].at # "mark"
               \/ /\ row.status = "accepted" /\ \E u \in UserIds : user[u].via = i
                  /\ req[r].inv = i,
         UNCHANGED <<user, mail, workload, minted, now, history>>
  PROVE  AccountsInv'
<1> USE AccountsAssumption DEF AccountsInv, history
<1>1. Idle \in ReqRow
  BY DEF Idle, ReqRow, Roles, Stages
<1>2. TypeOK'
  BY <1>1 DEF TypeOK, Done, Goto
<1>3. invite'[i] = row /\ \A j \in InviteIds \ {i} : invite'[j] = invite[j]
  BY DEF TypeOK
<1>4. req'[r] = Idle /\ \A s \in Requests \ {r} : req'[s] = req[s]
  BY DEF TypeOK, Done, Goto
<1>5. invite[i] \in InviteRow /\ seen \subseteq InviteIds
  BY DEF TypeOK
<1>6. \/ invite[i].status = "none" /\ invite[i].email = None /\ i \notin seen
      \/ row.email = invite[i].email /\ row.tenant = invite[i].tenant /\ row.role = invite[i].role
  BY <1>5 DEF NoInvite, Invites, InviteRow
<1>7. Rows' /\ Invites'
  BY <1>3, <1>5 DEF Rows, Invites, Exists
<1>8. \A j \in seen : /\ invite'[j].email = invite[j].email /\ invite'[j].role = invite[j].role
                      /\ invite'[j].tenant = invite[j].tenant
  BY <1>3, <1>5, <1>6
<1>9. Reads'
  <2> SUFFICES ASSUME NEW s \in Requests PROVE ReadsHold(req[s])'
    BY DEF Reads
  <2>1. CASE s = r
    BY <1>4, <2>1 DEF ReadsHold, Idle
  <2>2. CASE s # r
    <3>1. ReadsHold(req[s]) /\ req'[s] = req[s]
      BY <1>4, <2>2 DEF Reads
    <3>2. req[s].at = "revoke" => invite'[req[s].inv].status # "none"
      BY <1>3, <3>1 DEF ReadsHold
    <3> QED
      BY <1>8, <3>1, <3>2 DEF ReadsHold, Exists
  <2> QED
    BY <2>1, <2>2
<1>10. Origins'
  BY <1>8 DEF Origins, Exists
<1>11. AcceptedMeansMember'
  <2>1. ASSUME NEW j \in InviteIds, invite'[j].status = "accepted"
        PROVE  \E v \in UserIds : user[v].via = j
    BY <1>3, <2>1 DEF AcceptedMeansMember
  <2>2. ASSUME NEW v \in UserIds, user[v].via # None
        PROVE  \/ invite'[user[v].via].status \in {"accepted", "revoked"}
               \/ \E s \in Requests : req'[s].at = "mark" /\ req'[s].inv = user[v].via
    <3>1. user[v].via \in seen
      BY <2>2 DEF Origins
    <3>2. CASE user[v].via = i
      <4>1. invite[i] # NoInvite
        BY <3>1, <3>2 DEF Invites, NoInvite
      <4> QED
        BY <1>3, <3>2, <4>1
    <3>3. CASE user[v].via # i
      BY <1>3, <1>4, <1>5, <2>2, <3>1, <3>3 DEF AcceptedMeansMember
    <3> QED
      BY <3>2, <3>3
  <2> QED
    BY <2>1, <2>2 DEF AcceptedMeansMember
<1>12. InviteSpentOnce' /\ VerifiedThisAddress' /\ EnabledSecretProved'
  BY DEF InviteSpentOnce, VerifiedThisAddress, EnabledSecretProved
<1> QED
  BY <1>2, <1>7, <1>9, <1>10, <1>11, <1>12

(* The requests that write.                                                *)
LEMMA CreateSteps ==
  ASSUME AccountsInv, NEW r \in Requests, SignUpCreate(r) \/ AcceptCreate(r)
  PROVE  AccountsInv'
<1> USE AccountsAssumption
<1>1. /\ req[r] \in ReqRow /\ Idle \in ReqRow /\ NoUser \in UserRow /\ ReadsHold(req[r])
      /\ confirmed \subseteq UserIds \X Emails /\ seen \subseteq InviteIds
  BY DEF AccountsInv, TypeOK, Reads, Idle, ReqRow, Roles, Stages, NoUser, UserRow
<1>2. CASE SignUpCreate(r)
  <2>1. CASE Taken(req[r].email) /\ UNCHANGED <<user, confirmed>>
    BY <1>2, <2>1, EndRequest DEF SignUpCreate, history
  <2>2. ASSUME NEW u \in UserIds, ~Taken(req[r].email), ~Exists(u), 
               Insert(u, [NoUser EXCEPT !.email = req[r].email, !.tenant = u,
                                        !.role = "agency_admin",
                                        !.verified = SkipVerification]),
               confirmed' = IF SkipVerification
                            THEN confirmed \cup {<<u, req[r].email>>} ELSE confirmed
        PROVE  AccountsInv'
    <3>1. PICK row : row = [NoUser EXCEPT !.email = req[r].email, !.tenant = u,
                                          !.role = "agency_admin",
                                          !.verified = SkipVerification]
      OBVIOUS
    <3>2. req[r].at = "signup" /\ req[r].email \in Emails
      BY <1>1, <1>2 DEF SignUpCreate, ReadsHold
    <3>3. row \in UserRow
      BY <1>1, <3>1, <3>2 DEF UserRow, Roles
    <3>4. /\ row.email = req[r].email /\ ~row.enabled /\ row.via = None /\ row.tenant = u
          /\ row.verified = SkipVerification
      BY <3>1 DEF NoUser
    <3>5. ReadsHold(Idle)'
      BY DEF ReadsHold, Idle
    <3>6. user' = [user EXCEPT ![u] = row]
      BY <2>2, <3>1 DEF Insert
    <3>7. /\ confirmed \subseteq confirmed' /\ confirmed' \subseteq UserIds \X Emails
          /\ row.verified => <<u, row.email>> \in confirmed'
      BY <1>1, <2>2, <3>2, <3>4
    <3> QED
      BY <1>1, <1>2, <2>2, <3>2, <3>3, <3>4, <3>5, <3>6, <3>7, NewAccount
      DEF SignUpCreate, Done, Goto
  <2> QED
    BY <1>2, <2>1, <2>2 DEF SignUpCreate
<1>3. CASE AcceptCreate(r)
  <2>1. CASE Taken(req[r].email) /\ Done(r) /\ UNCHANGED <<user, confirmed>>
    BY <1>3, <2>1, EndRequest DEF AcceptCreate, history
  <2>2. ASSUME NEW u \in UserIds, ~Taken(req[r].email), ~Exists(u), 
               Insert(u, [NoUser EXCEPT !.email = req[r].email,
                                        !.tenant = req[r].who,
                                        !.role = req[r].role, !.via = req[r].inv,
                                        !.verified = SkipVerification]),
               confirmed' = IF SkipVerification
                            THEN confirmed \cup {<<u, req[r].email>>} ELSE confirmed,
               Goto(r, [req[r] EXCEPT !.at = "mark"])
        PROVE  AccountsInv'
    <3>1. PICK row, q :
            /\ row = [NoUser EXCEPT !.email = req[r].email, !.tenant = req[r].who,
                                    !.role = req[r].role, !.via = req[r].inv,
                                    !.verified = SkipVerification]
            /\ q = [req[r] EXCEPT !.at = "mark"]
      OBVIOUS
    <3>2. /\ req[r].at = "enroll" /\ req[r].email \in Emails /\ req[r].inv \in seen
          /\ invite[req[r].inv].email = req[r].email
          /\ invite[req[r].inv].tenant = req[r].who /\ invite[req[r].inv].role = req[r].role
      BY <1>1, <1>3 DEF AcceptCreate, ReadsHold
    <3>3. row \in UserRow
      BY <1>1, <3>1, <3>2 DEF UserRow, ReqRow
    <3>4. /\ row.email = req[r].email /\ ~row.enabled /\ row.via = req[r].inv
          /\ row.tenant = req[r].who /\ row.role = req[r].role
          /\ row.verified = SkipVerification
      BY <3>1 DEF NoUser
    <3>5. q \in ReqRow
      BY <1>1, <3>1 DEF ReqRow, Stages
    <3>6. /\ q.at = "mark" /\ q.inv = req[r].inv /\ q.email = req[r].email
          /\ q.who = req[r].who /\ q.role = req[r].role
      BY <1>1, <3>1 DEF ReqRow
    <3>7. user' = [user EXCEPT ![u] = row] /\ user'[u].via = q.inv
      BY <2>2, <3>1, <3>4, <3>6 DEF Insert, AccountsInv, TypeOK
    <3>8. invite' = invite /\ seen' = seen
      BY <1>3 DEF AcceptCreate
    <3>9. ReadsHold(q)'
      BY <3>2, <3>6, <3>7, <3>8 DEF ReadsHold
    <3>10. /\ confirmed \subseteq confirmed' /\ confirmed' \subseteq UserIds \X Emails
           /\ row.verified => <<u, row.email>> \in confirmed'
      BY <1>1, <2>2, <3>2, <3>4
    <3>11. req' = [req EXCEPT ![r] = q]
      BY <2>2, <3>1 DEF Goto
    <3>12. UNCHANGED <<invite, mail, workload, minted, now, seen, moved, proved, overlapped>>
      BY <1>3 DEF AcceptCreate
    <3>13. /\ row.via # None /\ ~Taken(row.email) /\ row.email \in Emails /\ ~row.enabled
           /\ row.via \in seen /\ invite[row.via].email = row.email
           /\ invite[row.via].tenant = row.tenant /\ invite[row.via].role = row.role
           /\ q.at = "mark" /\ q.inv = row.via /\ req[r].at # "mark"
      BY <1>1, <2>2, <3>2, <3>4, <3>6
    <3> QED
      BY <2>2, <3>3, <3>5, <3>7, <3>9, <3>10, <3>11, <3>12, <3>13, NewAccount
  <2> QED
    BY <1>3, <2>1, <2>2 DEF AcceptCreate
<1> QED
  BY <1>2, <1>3

LEMMA InviteSteps ==
  ASSUME AccountsInv, NEW r \in Requests, CreateInvite(r) \/ Revoke(r) \/ MarkAccepted(r)
  PROVE  AccountsInv'
<1> USE AccountsAssumption
<1>1. /\ req[r] \in ReqRow /\ ReadsHold(req[r]) /\ seen \subseteq InviteIds
      /\ \A i \in InviteIds : invite[i] \in InviteRow /\ (invite[i].status # "none" => invite[i].email \in Emails)
      /\ \A i \in seen : invite[i].status # "none"
      /\ now \in Nat
  BY DEF AccountsInv, TypeOK, Reads, Invites
<1>2. CASE CreateInvite(r)
  <2>1. req[r].at = "invite" /\ req[r].email \in Emails
    BY <1>1, <1>2 DEF CreateInvite, ReadsHold
  <2>2. CASE UNCHANGED invite
    BY <1>2, <2>1, <2>2, EndRequest DEF CreateInvite
  <2>3. ASSUME NEW i \in InviteIds, invite[i] = NoInvite,
               invite' = [invite EXCEPT ![i] = InviteFor(req[r])]
        PROVE  AccountsInv'
    <3>1. PICK row : row = InviteFor(req[r])
      OBVIOUS
    <3>2. row \in InviteRow /\ row.email \in Emails /\ row.status = "pending"
      BY <1>1, <2>1, <3>1 DEF InviteFor, InviteRow, ReqRow
    <3> QED
      BY <1>2, <2>1, <2>3, <3>1, <3>2, ChangeInvite DEF CreateInvite
  <2> QED
    BY <1>2, <2>2, <2>3 DEF CreateInvite
<1>3. CASE Revoke(r)
  <2>1. PICK i : i = req[r].inv
    OBVIOUS
  <2>2. req[r].at = "revoke" /\ i \in InviteIds /\ invite[i].status # "none"
    BY <1>1, <1>3, <2>1 DEF Revoke, ReadsHold
  <2>3. PICK row : row = [invite[i] EXCEPT !.status = "revoked"]
    OBVIOUS
  <2>4. row \in InviteRow /\ row.email \in Emails /\ row.status = "revoked"
    BY <1>1, <2>2, <2>3 DEF InviteRow
  <2>5. invite' = [invite EXCEPT ![i] = row] /\ row = [invite[i] EXCEPT !.status = row.status]
    BY <1>3, <2>1, <2>3, <2>4 DEF Revoke
  <2> QED
    BY <1>3, <2>2, <2>4, <2>5, ChangeInvite DEF Revoke
<1>4. CASE MarkAccepted(r)
  <2>1. PICK i : i = req[r].inv
    OBVIOUS
  <2>2. req[r].at = "mark" /\ i \in seen /\ \E u \in UserIds : user[u].via = i
    BY <1>1, <1>4, <2>1 DEF MarkAccepted, ReadsHold
  <2>3. PICK row : row = [invite[i] EXCEPT !.status = "accepted"]
    OBVIOUS
  <2>4. row \in InviteRow /\ row.email \in Emails /\ row.status = "accepted"
    BY <1>1, <2>2, <2>3 DEF InviteRow
  <2>5. invite' = [invite EXCEPT ![i] = row] /\ row = [invite[i] EXCEPT !.status = row.status]
    BY <1>4, <2>1, <2>3, <2>4 DEF MarkAccepted
  <2> QED
    BY <1>1, <1>4, <2>1, <2>2, <2>4, <2>5, ChangeInvite DEF MarkAccepted
<1> QED
  BY <1>2, <1>3, <1>4

LEMMA AccountSteps ==
  ASSUME AccountsInv, NEW r \in Requests,
         UpdateProfile(r) \/ VerifyMark(r) \/ EnableTotp(r) \/ ClearTotp(r)
  PROVE  AccountsInv'
<1> USE AccountsAssumption
<1>1. /\ req \in [Requests -> ReqRow] /\ req[r] \in ReqRow /\ Idle \in ReqRow
      /\ ReadsHold(req[r])
      /\ confirmed \subseteq UserIds \X Emails /\ moved \subseteq UserIds
      /\ overlapped \subseteq UserIds /\ minted \in Nat
      /\ VerifiedThisAddress /\ EnabledSecretProved
  BY DEF AccountsInv, TypeOK, Reads, Idle, ReqRow, Roles, Stages
<1>2. req[r].at # "mark" /\ Done(r)
  BY DEF UpdateProfile, VerifyMark, EnableTotp, ClearTotp
<1>3. /\ req' \in [Requests -> ReqRow]
      /\ \A s \in Requests : req'[s] = req[s] \/ (req'[s] = Idle /\ req[s].at # "mark")
  BY <1>1, <1>2 DEF Done, Goto
<1>4. PICK u : u = req[r].who
  OBVIOUS
<1>5. u \in UserIds /\ Exists(u)
  BY <1>1, <1>4 DEF ReadsHold, UpdateProfile, VerifyMark, EnableTotp, ClearTotp
<1>6. user[u] \in UserRow /\ user[u].email \in Emails
  BY <1>5 DEF AccountsInv, TypeOK, UserRow, Exists
<1>7. CASE UpdateProfile(r)
  <2>1. CASE UNCHANGED <<user, moved>>
    BY <1>2, <1>7, <2>1, EndRequest DEF UpdateProfile, history
  <2>2. CASE /\ user' = [user EXCEPT ![u].email = req[r].email, ![u].verified = FALSE]
             /\ moved' = moved \cup {u}
    <3>1. PICK row : row = [user[u] EXCEPT !.email = req[r].email, !.verified = FALSE]
      OBVIOUS
    <3>2. req[r].email \in Emails
      BY <1>1, <1>7 DEF UpdateProfile, ReadsHold
    <3>3. row \in UserRow
      BY <1>6, <3>1, <3>2 DEF UserRow
    <3>4. /\ row.email = req[r].email /\ row.verified = FALSE /\ row.enabled = user[u].enabled
          /\ row.via = user[u].via /\ row.tenant = user[u].tenant /\ row.role = user[u].role
          /\ row.secret = user[u].secret
      BY <1>6, <3>1 DEF UserRow
    <3>5. user' = [user EXCEPT ![u] = row]
      BY <2>2, <3>1
    <3>6. UNCHANGED <<invite, mail, workload, minted, now, seen, confirmed, proved, overlapped>>
      BY <1>7 DEF UpdateProfile
    <3>7. row.enabled /\ u \notin overlapped => <<u, row.secret>> \in proved
      BY <1>1, <1>5, <3>4 DEF EnabledSecretProved
    <3> QED
      BY <1>1, <1>3, <1>5, <2>2, <3>2, <3>3, <3>4, <3>5, <3>6, <3>7, ChangeAccount
  <2> QED
    BY <1>4, <1>7, <2>1, <2>2 DEF UpdateProfile
<1>8. CASE VerifyMark(r)
  <2>1. PICK row : row = [user[u] EXCEPT !.verified = TRUE]
    OBVIOUS
  <2>2. row \in UserRow
    BY <1>6, <2>1 DEF UserRow
  <2>3. /\ row.email = user[u].email /\ row.enabled = user[u].enabled
        /\ row.via = user[u].via /\ row.tenant = user[u].tenant /\ row.role = user[u].role
        /\ row.secret = user[u].secret
    BY <1>6, <2>1 DEF UserRow
  <2>4. user' = [user EXCEPT ![u] = row] /\ confirmed' = confirmed \cup {<<u, user[u].email>>}
    BY <1>4, <1>8, <2>1 DEF VerifyMark
  <2>5. UNCHANGED <<invite, mail, workload, minted, now, seen, moved, proved, overlapped>>
    BY <1>8 DEF VerifyMark
  <2>6. /\ confirmed \subseteq confirmed' /\ confirmed' \subseteq UserIds \X Emails
        /\ <<u, row.email>> \in confirmed'
    BY <1>1, <1>5, <1>6, <2>3, <2>4
  <2>7. row.enabled /\ u \notin overlapped => <<u, row.secret>> \in proved
    BY <1>1, <1>5, <2>3 DEF EnabledSecretProved
  <2> QED
    BY <1>1, <1>3, <1>5, <1>6, <2>2, <2>3, <2>4, <2>5, <2>6, <2>7, ChangeAccount
<1>9. CASE EnableTotp(r)
  <2>1. PICK row : row = [user[u] EXCEPT !.enabled = TRUE]
    OBVIOUS
  <2>2. row \in UserRow
    BY <1>6, <2>1 DEF UserRow
  <2>3. /\ row.email = user[u].email /\ row.verified = user[u].verified
        /\ row.via = user[u].via /\ row.tenant = user[u].tenant /\ row.role = user[u].role
        /\ row.secret = user[u].secret
    BY <1>6, <2>1 DEF UserRow
  <2>4. user' = [user EXCEPT ![u] = row]
    BY <1>4, <1>9, <2>1 DEF EnableTotp
  <2>5. UNCHANGED <<invite, mail, workload, minted, now, seen, moved, confirmed, proved, overlapped>>
    BY <1>9 DEF EnableTotp, history
  <2>6. row.verified => <<u, row.email>> \in confirmed
    BY <1>1, <1>5, <2>3 DEF VerifiedThisAddress
  <2>7. u \notin overlapped => <<u, row.secret>> \in proved
    BY <1>1, <1>4, <1>9, <2>3 DEF ReadsHold, EnableTotp
  <2> QED
    BY <1>1, <1>3, <1>5, <1>6, <2>2, <2>3, <2>4, <2>5, <2>6, <2>7, ChangeAccount
<1>10. CASE ClearTotp(r)
  <2>1. PICK row : row = [user[u] EXCEPT !.enabled = FALSE, !.secret = 0]
    OBVIOUS
  <2>2. row \in UserRow
    BY <1>6, <2>1 DEF UserRow
  <2>3. /\ row.email = user[u].email /\ row.verified = user[u].verified /\ row.enabled = FALSE
        /\ row.via = user[u].via /\ row.tenant = user[u].tenant /\ row.role = user[u].role
    BY <1>6, <2>1 DEF UserRow
  <2>4. /\ user' = [user EXCEPT ![u] = row]
        /\ overlapped' = IF Verifying(u) THEN overlapped \cup {u} ELSE overlapped
    <3>1. /\ user' = [user EXCEPT ![u].enabled = FALSE, ![u].secret = 0]
          /\ overlapped' = IF Verifying(u) THEN overlapped \cup {u} ELSE overlapped
      BY <1>4, <1>10 DEF ClearTotp
    <3> QED
      BY <2>1, <3>1
  <2>5. UNCHANGED <<invite, mail, workload, minted, now, seen, moved, confirmed, proved>>
    BY <1>10 DEF ClearTotp
  <2>6. row.verified => <<u, row.email>> \in confirmed
    BY <1>1, <1>5, <2>3 DEF VerifiedThisAddress
  <2>7. /\ overlapped \subseteq overlapped' /\ overlapped' \subseteq UserIds
        /\ ~Verifying(u) \/ u \in overlapped'
    BY <1>1, <1>5, <2>4
  <2> QED
    BY <1>1, <1>3, <1>5, <1>6, <2>2, <2>3, <2>4, <2>5, <2>6, <2>7, ChangeAccount
<1> QED
  BY <1>7, <1>8, <1>9, <1>10

(* The steps that are no request: set-up of 2FA, a mailed token, the clock. *)
LEMMA OtherSteps ==
  ASSUME AccountsInv,
         (\E u \in UserIds : SendVerification(u) \/ TotpSetup(u)) \/ Tick
  PROVE  AccountsInv'
<1> USE AccountsAssumption
<1>1. /\ req \in [Requests -> ReqRow] /\ mail \in [UserIds -> Nat \cup {None}]
      /\ confirmed \subseteq UserIds \X Emails /\ moved \subseteq UserIds
      /\ overlapped \subseteq UserIds /\ minted \in Nat /\ now \in Nat
      /\ VerifiedThisAddress
  BY DEF AccountsInv, TypeOK
<1>2. ASSUME NEW u \in UserIds, SendVerification(u) PROVE AccountsInv'
  <2>1. TypeOK'
    BY <1>1, <1>2 DEF AccountsInv, TypeOK, SendVerification, history
  <2>2. Rows' 
    BY <1>1, <1>2 DEF AccountsInv, Rows, SendVerification, Exists
  <2>3. Invites' /\ Reads' /\ Origins' /\ AcceptedMeansMember' /\ InviteSpentOnce'
    BY <1>2 DEF AccountsInv, SendVerification, history, Invites, Reads, ReadsHold, Origins,
       AcceptedMeansMember, InviteSpentOnce, Exists
  <2>4. VerifiedThisAddress' /\ EnabledSecretProved'
    BY <1>2 DEF AccountsInv, SendVerification, history, VerifiedThisAddress, EnabledSecretProved
  <2> QED
    BY <2>1, <2>2, <2>3, <2>4 DEF AccountsInv
<1>3. ASSUME NEW u \in UserIds, TotpSetup(u) PROVE AccountsInv'
  <2>0. PICK n \in Nat : n = minted + 1
    BY <1>1
  <2>1. PICK row : row = [user[u] EXCEPT !.secret = n, !.enabled = FALSE]
    OBVIOUS
  <2>2. Exists(u) /\ user[u] \in UserRow /\ user[u].email \in Emails
    <3>1. Exists(u) /\ user[u] \in UserRow
      BY <1>3 DEF TotpSetup, AccountsInv, TypeOK
    <3> QED
      BY <3>1 DEF UserRow, Exists
  <2>3. row \in UserRow
    BY <1>1, <2>1, <2>2 DEF UserRow
  <2>4. /\ row.email = user[u].email /\ row.verified = user[u].verified /\ row.enabled = FALSE
        /\ row.via = user[u].via /\ row.tenant = user[u].tenant /\ row.role = user[u].role
    BY <2>1, <2>2 DEF UserRow
  <2>5. /\ user' = [user EXCEPT ![u] = row] /\ minted' \in Nat
        /\ overlapped' = IF Verifying(u) THEN overlapped \cup {u} ELSE overlapped
    <3>1. /\ user' = [user EXCEPT ![u].secret = n, ![u].enabled = FALSE]
          /\ overlapped' = IF Verifying(u) THEN overlapped \cup {u} ELSE overlapped
          /\ minted' = n
      BY <1>3, <2>0 DEF TotpSetup
    <3> QED
      BY <1>1, <2>1, <3>1
  <2>6. UNCHANGED <<invite, mail, req, workload, now, seen, moved, confirmed, proved>>
    BY <1>3 DEF TotpSetup
  <2>7. row.verified => <<u, row.email>> \in confirmed
    BY <1>1, <2>4 DEF VerifiedThisAddress
  <2>8. /\ overlapped \subseteq overlapped' /\ overlapped' \subseteq UserIds
        /\ ~Verifying(u) \/ u \in overlapped'
    BY <1>1, <2>5
  <2> QED
    BY <1>1, <2>2, <2>3, <2>4, <2>5, <2>6, <2>7, <2>8, ChangeAccount
<1>4. CASE Tick
  BY <1>1, <1>4 DEF Tick, history, AccountsInv, TypeOK, Rows, Invites, Reads, ReadsHold, Origins,
     AcceptedMeansMember, InviteSpentOnce, VerifiedThisAddress, EnabledSecretProved, Exists
<1> QED
  BY <1>2, <1>3, <1>4

(* Every step of the accounts keeps the invariant.                         *)
LEMMA AccountsStep ==
  ASSUME AccountsInv, [Next]_vars
  PROVE  AccountsInv'
<1>1. CASE \E r \in Requests : Request(r)
  BY <1>1, LookSteps, CreateSteps, InviteSteps, AccountSteps DEF Request
<1>2. CASE (\E u \in UserIds : SendVerification(u) \/ TotpSetup(u)) \/ Tick
  BY <1>2, OtherSteps
<1>3. CASE UNCHANGED vars
  BY <1>3 DEF vars, history, AccountsInv, TypeOK, Rows, Invites, Reads, ReadsHold, Origins,
     AcceptedMeansMember, InviteSpentOnce, VerifiedThisAddress, EnabledSecretProved, Exists
<1> QED
  BY <1>1, <1>2, <1>3 DEF Next

(* The account properties follow from the invariant: an account outside its *)
(* own tenant names an invite.                                             *)
LEMMA AccountsImplied ==
  AccountsInv => Membership /\ VerifiedThisAddress /\ EnabledSecretProved
BY DEF AccountsInv, Membership, MembersInvited, Origins, Exists

(* The accounts keep what was proved, and an account keeps its tenant: only *)
(* free rows are inserted into and no UPDATE moves a user.                 *)
LEMMA AccountsKept ==
  ASSUME AccountsInv, [Next]_vars
  PROVE  /\ proved \subseteq proved' /\ overlapped \subseteq overlapped'
         /\ \A u \in UserIds : Exists(u) => Exists(u)' /\ user'[u].tenant = user[u].tenant
<1> USE AccountsAssumption
<1> DEFINE Kept == \A u \in UserIds : Exists(u) => Exists(u)' /\ user'[u].tenant = user[u].tenant
<1>1. user \in [UserIds -> UserRow] /\ \A r \in Requests : ReadsHold(req[r])
  BY DEF AccountsInv, TypeOK, Reads
<1>2. proved \subseteq proved' /\ overlapped \subseteq overlapped'
  BY DEF Next, Request, vars, history, SignUpLook, SignUpCreate, CreateInviteLook, CreateInvite,
     RevokeLook, Revoke, AcceptLook, AcceptFindEmail, AcceptCreate, MarkAccepted,
     UpdateProfileLook, UpdateProfile, VerifyTake, VerifyMark, TotpCheck, EnableTotp,
     TotpDisableCheck, ClearTotp, SendVerification, TotpSetup, Tick
<1>3. ASSUME NEW r \in Requests, SignUpCreate(r) \/ AcceptCreate(r) PROVE Kept
  <2>1. CASE UNCHANGED user
    BY <2>1 DEF Exists
  <2>2. ASSUME NEW v \in UserIds, NEW row, ~Exists(v), Insert(v, row) PROVE Kept
    BY <1>1, <2>2 DEF Insert, Exists
  <2> QED
    BY <1>3, <2>1, <2>2 DEF SignUpCreate, AcceptCreate
<1>4. ASSUME NEW r \in Requests, UpdateProfile(r) PROVE Kept
  <2>1. CASE UNCHANGED user
    BY <2>1 DEF Exists
  <2>2. CASE user' = [user EXCEPT ![req[r].who].email = req[r].email,
                                  ![req[r].who].verified = FALSE]
    <3>1. req[r].email \in Emails /\ req[r].who \in UserIds
      BY <1>1, <1>4 DEF UpdateProfile, ReadsHold
    <3>2. PICK u : u = req[r].who
      OBVIOUS
    <3>3. /\ user'[u].email = req[r].email /\ user'[u].tenant = user[u].tenant
          /\ \A v \in UserIds \ {u} : user'[v] = user[v]
      BY <1>1, <2>2, <3>1, <3>2 DEF UserRow
    <3> QED
      BY <3>1, <3>2, <3>3 DEF Exists
  <2> QED
    BY <1>4, <2>1, <2>2 DEF UpdateProfile
<1>5. ASSUME NEW r \in Requests, VerifyMark(r) \/ EnableTotp(r) \/ ClearTotp(r) PROVE Kept
  <2>1. \A v \in UserIds : user'[v].email = user[v].email /\ user'[v].tenant = user[v].tenant
    BY <1>1, <1>5 DEF VerifyMark, EnableTotp, ClearTotp, UserRow
  <2> QED
    BY <2>1 DEF Exists
<1>6. ASSUME NEW u \in UserIds, TotpSetup(u) PROVE Kept
  <2>1. PICK n : n = minted + 1
    OBVIOUS
  <2>2. user' = [user EXCEPT ![u].secret = n, ![u].enabled = FALSE]
    BY <1>6, <2>1 DEF TotpSetup
  <2>3. \A v \in UserIds : user'[v].email = user[v].email /\ user'[v].tenant = user[v].tenant
    BY <1>1, <2>2 DEF UserRow
  <2> QED
    BY <2>3 DEF Exists
<1>7. CASE UNCHANGED user
  BY <1>2, <1>7 DEF Exists
<1>8. \/ UNCHANGED user \/ \E u \in UserIds : TotpSetup(u)
      \/ \E r \in Requests : \/ SignUpCreate(r) \/ AcceptCreate(r) \/ UpdateProfile(r)
                             \/ VerifyMark(r) \/ EnableTotp(r) \/ ClearTotp(r)
  <2>1. ASSUME NEW r \in Requests, Request(r)
        PROVE  \/ UNCHANGED user
               \/ SignUpCreate(r) \/ AcceptCreate(r) \/ UpdateProfile(r)
               \/ VerifyMark(r) \/ EnableTotp(r) \/ ClearTotp(r)
    BY <2>1 DEF Request, SignUpLook, CreateInviteLook, CreateInvite, RevokeLook, Revoke,
       AcceptLook, AcceptFindEmail, MarkAccepted, UpdateProfileLook, VerifyTake, TotpCheck,
       TotpDisableCheck
  <2>2. ASSUME NEW u \in UserIds, SendVerification(u) PROVE UNCHANGED user
    BY <2>2 DEF SendVerification
  <2>3. Tick \/ UNCHANGED vars => UNCHANGED user
    BY DEF Tick, vars
  <2> QED
    BY <2>1, <2>2, <2>3 DEF Next
<1> QED
  BY <1>2, <1>3, <1>4, <1>5, <1>6, <1>7, <1>8

-----------------------------------------------------------------------------
(* The inductive invariant of the keys.                                    *)

KeyRow == [by: UserIds \cup {None}, tenant: UserIds \cup {None},
           prefix: Prefixes \cup {None}, expires: Nat \cup {None},
           revoked: BOOLEAN, used: BOOLEAN]
CallRow == [at: {"idle", "revoke", "user", "touch"}, key: KeyIds \cup {None},
            tenant: UserIds \cup {None}, role: Roles, late: BOOLEAN]

KeyTypeOK ==
    /\ key \in [KeyIds -> KeyRow]
    /\ call \in [KeyCalls -> CallRow]
    /\ told \subseteq KeyIds

\* A row of a key that has been minted.
Minted(k) == k \in KeyIds /\ key[k].by \in UserIds

\* The free rows are empty; a key lists the tenant its creator belongs to.
KeyRows ==
    \A k \in KeyIds :
        \/ key[k] = NoKey
        \/ /\ key[k].by \in UserIds /\ Exists(key[k].by)
           /\ user[key[k].by].tenant = key[k].tenant

\* What a request about a key, or under a key, has read and still relies on.
CallHolds(q) ==
    /\ ~q.late
    /\ q.at # "idle" => Minted(q.key)
    /\ q.at = "touch" => q.tenant = key[q.key].tenant

CallReads == \A c \in KeyCalls : CallHolds(call[c])

Admissions == \A a \in admitted : ~a.late /\ Minted(a.key) /\ key[a.key].tenant = a.tenant

KeysInv ==
    /\ AccountsInv /\ KeyTypeOK /\ KeyRows /\ CallReads /\ Admissions
    /\ RevocationKept /\ SecondStepProved

LEMMA KeysStart == KeyInit => KeysInv
<1> SUFFICES ASSUME KeyInit PROVE KeysInv
  OBVIOUS
<1> USE AccountsAssumption, ApiKeysAssumption
<1>1. NoKey \in KeyRow /\ NoCall \in CallRow
  BY DEF NoKey, NoCall, KeyRow, CallRow, Roles
<1>2. KeyTypeOK /\ KeyRows
  BY <1>1 DEF KeyInit, KeyTypeOK, KeyRows
<1>3. CallReads
  BY DEF KeyInit, CallReads, CallHolds, NoCall
<1>4. Admissions /\ RevocationKept /\ SecondStepProved
  BY DEF KeyInit, Admissions, RevocationKept, SecondStepProved
<1> QED
  BY <1>2, <1>3, <1>4, AccountsStart DEF KeyInit, KeysInv

(* A step of the accounts does not disturb the keys.                       *)
LEMMA KeysUndisturbed ==
  ASSUME KeysInv, [Next]_vars, UNCHANGED <<key, call, told, admitted>>,
         \/ UNCHANGED entered
         \/ \E u \in UserIds, step \in {"password", "totp"} :
               Enter(u, step) /\ (step = "totp" => user[u].enabled)
  PROVE  KeysInv'
<1>1. AccountsInv'
  BY AccountsStep DEF KeysInv
<1>2. KeyTypeOK' /\ CallReads' /\ Admissions' /\ RevocationKept'
  BY DEF KeysInv, KeyTypeOK, CallReads, CallHolds, Minted, Admissions, RevocationKept
<1>3. KeyRows'
  BY AccountsKept DEF KeysInv, KeyRows
<1>4. proved \subseteq proved' /\ overlapped \subseteq overlapped'
  BY AccountsKept DEF KeysInv
<1>5. SecondStepProved'
  <2> SUFFICES ASSUME NEW e \in entered', e.step = "totp"
               PROVE  <<e.who, e.secret>> \in proved \/ e.who \in overlapped
    BY <1>4 DEF SecondStepProved
  <2>1. CASE e \in entered
    BY <2>1 DEF KeysInv, SecondStepProved
  <2>2. CASE e \notin entered
    <3>1. PICK u \in UserIds, step \in {"password", "totp"} :
            Enter(u, step) /\ (step = "totp" => user[u].enabled)
      BY <2>2
    <3>2. e = [who |-> u, step |-> step, secret |-> user[u].secret,
               enabled |-> user[u].enabled]
      BY <2>2, <3>1 DEF Enter
    <3> QED
      BY <3>1, <3>2 DEF KeysInv, AccountsInv, EnabledSecretProved
  <2> QED
    BY <2>1, <2>2
<1> QED
  BY <1>1, <1>2, <1>3, <1>5 DEF KeysInv

(* The keys are minted, revoked and used.                                  *)
LEMMA MintStep ==
  ASSUME KeysInv, NEW u \in UserIds, NEW k \in KeyIds, NEW p \in Prefixes,
         NEW e \in ExpiryChoices, CreateApiKey(u, k, p, e)
  PROVE  KeysInv'
<1> USE AccountsAssumption, ApiKeysAssumption
<1>1. UNCHANGED vars /\ UNCHANGED <<call, told, admitted, entered>>
  BY DEF CreateApiKey, accountVars, vars, history
<1>2. AccountsInv'
  BY <1>1, AccountsStep DEF KeysInv
<1>3. PICK row : row = [NoKey EXCEPT !.by = u, !.tenant = user[u].tenant,
                                     !.prefix = p, !.expires = e]
  OBVIOUS
<1>4. Exists(u) /\ user[u] \in UserRow /\ now \in Nat
  BY DEF CreateApiKey, MayManageKeys, KeysInv, AccountsInv, TypeOK
<1>5. e \in Nat \cup {None}
  BY <1>4 DEF ExpiryChoices
<1>6. NoKey \in KeyRow
  BY DEF NoKey, KeyRow
<1>7. row \in KeyRow /\ row.by = u /\ row.tenant = user[u].tenant
  BY <1>3, <1>4, <1>5, <1>6 DEF KeyRow, UserRow
<1>8. key[k] = NoKey /\ key' = [key EXCEPT ![k] = row]
  BY <1>3 DEF CreateApiKey
<1>9. key'[k] = row /\ \A j \in KeyIds \ {k} : key'[j] = key[j]
  BY <1>8 DEF KeysInv, KeyTypeOK
<1>10. ~Minted(k) /\ k \notin told
  BY <1>8 DEF Minted, NoKey, KeysInv, RevocationKept
<1>11. KeyTypeOK'
  BY <1>1, <1>7, <1>8 DEF KeysInv, KeyTypeOK
<1>12. KeyRows'
  BY <1>1, <1>4, <1>7, <1>9 DEF KeysInv, KeyRows, Exists, vars
<1>13. CallReads' /\ Admissions'
  BY <1>1, <1>9, <1>10 DEF KeysInv, CallReads, CallHolds, Minted, Admissions
<1>14. RevocationKept'
  BY <1>1, <1>9, <1>10 DEF KeysInv, KeyTypeOK, RevocationKept
<1>15. SecondStepProved'
  BY <1>1 DEF KeysInv, SecondStepProved, vars
<1> QED
  BY <1>2, <1>11, <1>12, <1>13, <1>14, <1>15 DEF KeysInv

(* A call moves on; the row of its key may be marked as revoked or used.   *)
LEMMA MoveCall ==
  ASSUME KeysInv, NEW c \in KeyCalls, NEW q \in CallRow, UNCHANGED vars, UNCHANGED entered,
         call' = [call EXCEPT ![c] = q], CallHolds(q),
         key' \in [KeyIds -> KeyRow],
         \A k \in KeyIds : \/ key'[k] = key[k]
                           \/ /\ Minted(k) /\ key'[k].by = key[k].by
                              /\ key'[k].tenant = key[k].tenant
                              /\ key[k].revoked => key'[k].revoked,
         told' \subseteq KeyIds, \A k \in told' : k \in told \/ key'[k].revoked,
         \A a \in admitted' : a \in admitted \/ (~a.late /\ Minted(a.key) /\ key[a.key].tenant = a.tenant)
  PROVE  KeysInv'
<1> USE AccountsAssumption, ApiKeysAssumption
<1>1. AccountsInv'
  BY AccountsStep DEF KeysInv
<1>2. KeyTypeOK'
  BY DEF KeysInv, KeyTypeOK
<1>3. \A k : Minted(k) => Minted(k)' /\ key'[k].tenant = key[k].tenant
  BY DEF Minted
<1>4. KeyRows'
  <2> SUFFICES ASSUME NEW k \in KeyIds
               PROVE  \/ key'[k] = NoKey
                      \/ /\ key'[k].by \in UserIds /\ Exists(key'[k].by)
                         /\ user[key'[k].by].tenant = key'[k].tenant
    BY DEF KeyRows, Exists, vars
  <2>1. NoKey.by \notin UserIds
    BY DEF NoKey
  <2> QED
    BY <2>1 DEF KeysInv, KeyRows, Minted
<1>5. CallReads'
  <2> SUFFICES ASSUME NEW d \in KeyCalls PROVE CallHolds(call[d])'
    BY DEF CallReads
  <2>1. PICK x : x = call'[d]
    OBVIOUS
  <2>2. CallHolds(x)
    BY <2>1 DEF KeysInv, KeyTypeOK, CallReads
  <2> QED
    BY <1>3, <2>1, <2>2 DEF CallHolds
<1>6. Admissions'
  BY <1>3 DEF KeysInv, Admissions
<1>7. RevocationKept'
  BY DEF KeysInv, KeyTypeOK, RevocationKept
<1>8. SecondStepProved'
  BY DEF KeysInv, SecondStepProved, vars
<1> QED
  BY <1>1, <1>2, <1>4, <1>5, <1>6, <1>7, <1>8 DEF KeysInv

LEMMA CallSteps ==
  ASSUME KeysInv, NEW c \in KeyCalls, KeyCall(c)
  PROVE  KeysInv'
<1> USE AccountsAssumption, ApiKeysAssumption
<1>1. /\ key \in [KeyIds -> KeyRow] /\ told \subseteq KeyIds /\ call \in [KeyCalls -> CallRow]
      /\ call[c] \in CallRow /\ CallHolds(call[c]) /\ NoCall \in CallRow /\ CallHolds(NoCall)
      /\ RevocationKept
      /\ \A k \in KeyIds : key[k] # NoKey => Minted(k)
  BY DEF KeysInv, KeyTypeOK, KeyRows, Minted, CallReads, CallHolds, NoCall, CallRow, Roles
<1>2. ASSUME NEW u \in UserIds, NEW k \in KeyIds, RevokeKeyLook(c, u, k) PROVE KeysInv'
  <2>1. UNCHANGED vars /\ UNCHANGED <<key, admitted, entered>> /\ call[c] = NoCall /\ Minted(k)
    BY <1>1, <1>2 DEF RevokeKeyLook, accountVars, vars, history, KeysOf
  <2>2. CASE key[k].revoked
    <3>1. told' = told \cup {k} /\ call' = [call EXCEPT ![c] = NoCall]
      BY <1>1, <1>2, <2>1, <2>2 DEF RevokeKeyLook
    <3> QED
      BY <1>1, <2>1, <2>2, <3>1, MoveCall
  <2>3. CASE ~key[k].revoked
    <3>1. PICK q : q = [NoCall EXCEPT !.at = "revoke", !.key = k]
      OBVIOUS
    <3>2. q \in CallRow /\ CallHolds(q)
      BY <1>1, <2>1, <3>1 DEF CallRow, CallHolds, NoCall
    <3>3. told' = told /\ call' = [call EXCEPT ![c].at = "revoke", ![c].key = k]
      BY <1>2, <2>3 DEF RevokeKeyLook
    <3>4. call' = [call EXCEPT ![c] = q]
      BY <1>1, <2>1, <3>1, <3>3
    <3> QED
      BY <1>1, <2>1, <3>2, <3>3, <3>4, MoveCall
  <2> QED
    BY <2>2, <2>3
<1>3. CASE RevokeKey(c)
  <2>1. PICK k : k = call[c].key
    OBVIOUS
  <2>2. Minted(k) /\ k \in KeyIds /\ key[k] \in KeyRow
    BY <1>1, <1>3, <2>1 DEF RevokeKey, CallHolds, Minted
  <2>3. /\ UNCHANGED vars /\ UNCHANGED <<admitted, entered>>
        /\ call' = [call EXCEPT ![c] = NoCall] /\ told' = told \cup {k}
        /\ key' = [key EXCEPT ![k].revoked = TRUE]
    BY <1>3, <2>1 DEF RevokeKey, accountVars, vars, history, Answered
  <2>4. key' \in [KeyIds -> KeyRow] /\ key'[k].revoked
    BY <1>1, <2>2, <2>3 DEF KeyRow
  <2>5. key'[k].by = key[k].by /\ key'[k].tenant = key[k].tenant
    BY <1>1, <2>2, <2>3 DEF KeyRow
  <2>6. \A j \in KeyIds \ {k} : key'[j] = key[j]
    BY <1>1, <2>3
  <2>7. \A j \in KeyIds : \/ key'[j] = key[j]
                          \/ /\ Minted(j) /\ key'[j].by = key[j].by
                             /\ key'[j].tenant = key[j].tenant
                             /\ key[j].revoked => key'[j].revoked
    BY <2>2, <2>4, <2>5, <2>6
  <2> QED
    BY <1>1, <2>2, <2>3, <2>4, <2>7, MoveCall
<1>4. ASSUME NEW b \in Bearers, ResolveLook(c, b) PROVE KeysInv'
  <2>1. PICK k \in KeyIds : /\ Found(PrefixOf(b)) = {k} /\ Matches(k, b) /\ Live(k)
                            /\ call' = [call EXCEPT ![c].at = "user", ![c].key = k,
                                                    ![c].late = k \in told]
    BY <1>4 DEF ResolveLook
  <2>2. UNCHANGED vars /\ UNCHANGED <<key, told, admitted, entered>> /\ call[c] = NoCall
    BY <1>4 DEF ResolveLook, accountVars, vars, history
  <2>3. key[k].prefix \in Prefixes /\ k \notin told
    BY <1>1, <2>1 DEF Bearers, PrefixOf, Found, Matches, Live, RevocationKept
  <2>4. Minted(k)
    BY <1>1, <2>3 DEF NoKey
  <2>5. PICK q : q = [NoCall EXCEPT !.at = "user", !.key = k, !.late = k \in told]
    OBVIOUS
  <2>6. q \in CallRow /\ CallHolds(q)
    <3>0. (k \in told) = FALSE
      BY <2>3
    <3>1. q \in CallRow
      BY <1>1, <2>5, <3>0 DEF CallRow
    <3>2. q.at = "user" /\ q.key = k /\ (q.late <=> k \in told)
      BY <2>5 DEF NoCall
    <3> QED
      BY <2>3, <2>4, <3>1, <3>2 DEF CallHolds
  <2>7. call' = [call EXCEPT ![c] = q]
    BY <1>1, <2>1, <2>2, <2>5
  <2> QED
    BY <1>1, <2>2, <2>6, <2>7, MoveCall
<1>5. CASE ResolveUser(c)
  <2>1. PICK k, by : k = call[c].key /\ by = user[key[k].by]
    OBVIOUS
  <2>2. /\ UNCHANGED vars /\ UNCHANGED <<key, told, admitted, entered>>
        /\ call[c].at = "user"
        /\ call' = [call EXCEPT ![c].at = "touch", ![c].tenant = by.tenant, ![c].role = by.role]
    BY <1>5, <2>1 DEF ResolveUser, accountVars, vars, history
  <2>3. Minted(k) /\ k \in KeyIds
    BY <1>1, <2>1, <2>2 DEF CallHolds, Minted
  <2>4. by \in UserRow /\ by.tenant = key[k].tenant
    BY <2>1, <2>3 DEF KeysInv, KeyRows, Minted, NoKey, AccountsInv, TypeOK
  <2>5. PICK q : q = [call[c] EXCEPT !.at = "touch", !.tenant = by.tenant, !.role = by.role]
    OBVIOUS
  <2>6. q \in CallRow
    BY <1>1, <2>4, <2>5 DEF CallRow, UserRow
  <2>7. q.late = call[c].late /\ q.key = k /\ q.tenant = by.tenant
    BY <1>1, <2>1, <2>5 DEF CallRow
  <2>8. CallHolds(q)
    BY <1>1, <2>3, <2>4, <2>7 DEF CallHolds
  <2>9. call' = [call EXCEPT ![c] = q]
    BY <1>1, <2>2, <2>5
  <2> QED
    BY <1>1, <2>2, <2>6, <2>8, <2>9, MoveCall
<1>6. CASE TouchKey(c)
  <2>1. PICK k, a : k = call[c].key /\ a = [key |-> k, tenant |-> call[c].tenant,
                                            role |-> call[c].role, late |-> call[c].late]
    OBVIOUS
  <2>2. /\ UNCHANGED vars /\ UNCHANGED <<told, entered>> /\ admitted' = admitted \cup {a}
        /\ call' = [call EXCEPT ![c] = NoCall] /\ call[c].at = "touch"
        /\ key' = [key EXCEPT ![k].used = TRUE]
    BY <1>6, <2>1 DEF TouchKey, accountVars, vars, history, Answered
  <2>3. Minted(k) /\ k \in KeyIds /\ key[k] \in KeyRow
    BY <1>1, <2>1, <2>2 DEF CallHolds, Minted
  <2>4. ~a.late /\ a.key = k /\ key[k].tenant = a.tenant
    BY <1>1, <2>1, <2>2 DEF CallHolds
  <2>5. key' \in [KeyIds -> KeyRow]
    BY <1>1, <2>2, <2>3 DEF KeyRow
  <2>6. /\ key'[k].by = key[k].by /\ key'[k].tenant = key[k].tenant
        /\ key'[k].revoked = key[k].revoked
    BY <1>1, <2>2, <2>3 DEF KeyRow
  <2>7. \A j \in KeyIds \ {k} : key'[j] = key[j]
    BY <1>1, <2>2
  <2>8. \A j \in KeyIds : \/ key'[j] = key[j]
                          \/ /\ Minted(j) /\ key'[j].by = key[j].by
                             /\ key'[j].tenant = key[j].tenant
                             /\ key[j].revoked => key'[j].revoked
    BY <2>3, <2>6, <2>7
  <2>9. \A x \in admitted' : \/ x \in admitted
                             \/ ~x.late /\ Minted(x.key) /\ key[x.key].tenant = x.tenant
    BY <2>2, <2>3, <2>4
  <2> QED
    BY <1>1, <2>2, <2>5, <2>8, <2>9, MoveCall
<1> QED
  BY <1>2, <1>3, <1>4, <1>5, <1>6 DEF KeyCall

LEMMA KeysStep ==
  ASSUME KeysInv, [KeyNext]_allVars
  PROVE  KeysInv'
<1>1. CASE Next /\ UNCHANGED keyVars
  BY <1>1, KeysUndisturbed DEF keyVars
<1>2. CASE UNCHANGED allVars
  BY <1>2, KeysUndisturbed DEF keyVars, allVars
<1>3. CASE \E u \in UserIds : SignIn(u) \/ SignInTotp(u)
  <2>1. PICK u \in UserIds : SignIn(u) \/ SignInTotp(u)
    BY <1>3
  <2>2. UNCHANGED vars /\ UNCHANGED <<key, call, told, admitted>>
    BY <2>1 DEF SignIn, SignInTotp, accountVars, vars, history
  <2>3. \E step \in {"password", "totp"} :
          Enter(u, step) /\ (step = "totp" => user[u].enabled)
    BY <2>1 DEF SignIn, SignInTotp
  <2> QED
    BY <2>2, <2>3, KeysUndisturbed
<1> QED
  BY <1>1, <1>2, <1>3, MintStep, CallSteps DEF KeyNext, MintedPrefixes

LEMMA KeysImplied == KeysInv => Membership /\ ProofsSound /\ KeysSound
<1> SUFFICES ASSUME KeysInv PROVE Membership /\ ProofsSound /\ KeysSound
  OBVIOUS
<1>1. Membership /\ ProofsSound
  BY AccountsImplied DEF KeysInv, ProofsSound
<1>2. RevokedKeysRefused /\ RevocationKept
  BY DEF KeysInv, Admissions, RevokedKeysRefused
<1>3. KeyOpensItsTenant
  BY AccountsAssumption DEF KeysInv, Admissions, KeyOpensItsTenant, KeysOf, Minted, NoKey
<1> QED
  BY <1>1, <1>2, <1>3 DEF KeysSound

-----------------------------------------------------------------------------
(* The theorems.                                                           *)

(* The invariant holds throughout, whatever the workload.                  *)
THEOREM KeysInvariant == KeySpec => []KeysInv
BY KeysStart, KeysStep, PTL DEF KeySpec

(* Sign-ups, invites, acceptances, revocations and changes of address, with *)
(* any number of requests in flight: nobody is in a tenant uninvited, no   *)
(* invite is spent twice, and accounts and invites account for each other. *)
THEOREM MembershipAlways == KeySpec => []Membership
BY KeysInvariant, KeysImplied, PTL

(* Verified marks and second factors belong to what was proved.            *)
THEOREM ProofsAlwaysSound == KeySpec => []ProofsSound
BY KeysInvariant, KeysImplied, PTL

(* A revoked key stays revoked and opens nothing to a request that began   *)
(* afterwards, and a key opens only the tenant that can revoke it.         *)
THEOREM KeysAlwaysSound == KeySpec => []KeysSound
BY KeysInvariant, KeysImplied, PTL

(* The same of the accounts by themselves, without keys.                   *)
THEOREM AccountsAlone == Spec => []Membership
BY AccountsStart, AccountsStep, AccountsImplied, PTL DEF Spec

-----------------------------------------------------------------------------
(* What the API and the clients know.                                      *)

\* A token that is held anywhere has been issued; 0 is no token.
Issued(p) == p # 0 => pair[p].state # "none"

\* Pairs that have not been issued are blank.
Blank == \A p \in Pairs : pair[p].state = "none" => pair[p] = NoPair

NoneHashed == \A r \in Submits : resetting[r] # "hashed"

\* A request the API serves.  Between its read and its issue it has the
\* password's current generation, or will mark the new pair as late.
SrvHolds(q) ==
    /\ Issued(q.tok) /\ Issued(q.acc) /\ Issued(q.out)
    /\ q.at \in {"refresh", "rotate"} => q.tok # 0
    /\ q.at \in {"rotate", "issue"} =>
         /\ q.epoch <= resets
         /\ NoneHashed => q.pw = password \/ q.late \/ q.epoch # resets

ClHolds(q) == Issued(q.acc) /\ Issued(q.rt)

Known ==
    /\ \A c \in Callers : SrvHolds(srv[c]) /\ ClHolds(cl[c])
    /\ Issued(store.at) /\ Issued(store.rt)

\* A denylist key lapses no earlier than its token expires.
Denials ==
    \A p \in Pairs : denied[p] # 0 =>
        pair[p].state # "none" /\ denied[p] >= 2 * pair[p].aexp

\* A reset that wrote its hash has changed the password.
Passwords ==
    /\ password >= 1
    /\ \A r \in Submits : resetting[r] \in {"hashed", "done"} => password > 1

ApiInv == SessionsTyped /\ Blank /\ Known /\ Denials /\ Passwords /\ ResetCutsOff

-----------------------------------------------------------------------------
(* The shared refresh of the phone and the desktop.                        *)

\* The callers that wait for the refresh under way, and the one that sent it.
Sharers ==
    /\ \A c \in inflight : cl[c].at \in {"wait", "posted", "persist"}
    /\ \A c \in Callers : cl[c].at \in {"wait", "posted"} => c \in inflight
    /\ \A c, d \in inflight :
         cl[c].at \in {"posted", "persist"} /\ cl[d].at \in {"posted", "persist"} => c = d

\* Which call a request belongs to.
Served ==
    \A c \in Callers :
        /\ srv[c].at \in {"refresh", "rotate"} => cl[c].at = "posted"
        /\ srv[c].at = "issue" => cl[c].at \in {"posted", "signing"}
        /\ srv[c].at = "signin" => cl[c].at = "signing"
        /\ srv[c].at = "me" => cl[c].at = "asked"
        /\ srv[c].at \notin {"signout", "deny"}

\* Pair p has been issued to c, which has not stored its refresh token yet.
Arriving(c, p) ==
    \/ cl[c].at = "persist" /\ cl[c].rt = p
    \/ srv[c].at = "answered" /\ cl[c].at \in {"posted", "signing"} /\ srv[c].out = p

\* Such a pair is active and nobody else has it.
Arrivals ==
    \A c \in Callers, p \in Pairs : Arriving(c, p) =>
        /\ pair[p].state = "active" /\ store.rt # p
        /\ \A d \in Callers : /\ d # c => ~Arriving(d, p)
                              /\ srv[d].at \in {"refresh", "rotate"} => srv[d].tok # p

\* c has had the stored token revoked and its replacement will be stored.
Replacing(c) ==
    \/ cl[c].at = "persist"
    \/ cl[c].at = "posted" /\ srv[c].at = "issue"
    \/ cl[c].at = "posted" /\ srv[c].at = "answered" /\ srv[c].out # 0

\* The stored refresh token is active, or is being replaced.
Stored ==
    \/ store.rt = 0 \/ pair[store.rt].state = "active"
    \/ \E c \in inflight : Replacing(c)

Shared == Sharers /\ Served /\ Arrivals /\ Stored

SharedInv == kind # "web" /\ ~faulted /\ password = 1 => Shared
-----------------------------------------------------------------------------
(* Arithmetic of the clock, which counts half seconds.                     *)

LEMMA Halves ==
  ASSUME NEW n \in Nat
  PROVE  n \div 2 \in Nat /\ 2 * (n \div 2) <= n
OBVIOUS

(* Cutting the TTL of a denylist key to whole seconds does not make it     *)
(* lapse before the token expires: the clock is cut as well.               *)
LEMMA LapseCovers ==
  ASSUME SessionsTyped, NEW p \in Pairs, pair[p].aexp > Sec(clock)
  PROVE  Lapse(p) \in Nat /\ Lapse(p) >= 2 * pair[p].aexp /\ Lapse(p) # 0
<1>1. clock \in Nat /\ pair[p].aexp \in Nat
  BY DEF SessionsTyped, PairRow
<1>2. Sec(clock) \in Nat /\ 2 * Sec(clock) <= clock
  BY <1>1, Halves DEF Sec
<1> QED
  BY <1>1, <1>2 DEF Lapse

LEMMA FreshRow ==
  ASSUME SessionsTyped, NEW pw \in Nat, NEW late \in BOOLEAN
  PROVE  /\ Fresh(pw, late) \in PairRow
         /\ Fresh(pw, late).state = "active" /\ Fresh(pw, late).pw = pw
         /\ Fresh(pw, late).late = late
<1>1. clock \in Nat /\ clock + AccessTtl \in Nat /\ clock + RefreshTtl \in Nat
  BY SessionsAssumption DEF SessionsTyped
<1>2. Sec(clock + AccessTtl) \in Nat
  BY <1>1, Halves DEF Sec
<1> QED
  BY <1>1, <1>2 DEF Fresh, PairRow

LEMMA BlankRows ==
  /\ Quiet \in SrvRow /\ Free \in ClRow /\ NoPair \in PairRow
  /\ Nothing \in [at: 0..MaxPairs, rt: 0..MaxPairs]
  /\ SrvHolds(Quiet) /\ ClHolds(Free) /\ Nothing.at = 0 /\ Nothing.rt = 0
<1>1. MaxPairs \in Nat /\ 0 \in 0..MaxPairs
  BY SessionsAssumption
<1>2. Quiet \in SrvRow /\ Free \in ClRow
  BY <1>1 DEF Quiet, Free, SrvRow, ClRow
<1>3. NoPair \in PairRow /\ Nothing \in [at: 0..MaxPairs, rt: 0..MaxPairs]
  BY <1>1 DEF NoPair, Nothing, PairRow
<1>4. SrvHolds(Quiet) /\ ClHolds(Free) /\ Nothing.at = 0 /\ Nothing.rt = 0
  BY DEF SrvHolds, ClHolds, Issued, Quiet, Free, Nothing
<1> QED
  BY <1>2, <1>3, <1>4

-----------------------------------------------------------------------------
(* The API's invariant.                                                    *)

LEMMA ApiStart == SessionsInit => ApiInv
<1> SUFFICES ASSUME SessionsInit PROVE ApiInv
  OBVIOUS
<1> USE SessionsAssumption
<1>1. PICK s \in Setups : kind = s[1] /\ traffic = s[2]
  BY DEF SessionsInit
<1>2. <<kind, traffic>> \in Setups
  BY <1>1
<1>3. clock = 0 /\ Sec(clock + AccessTtl) \in Nat
  BY Halves DEF SessionsInit, Sec
<1>4. Fresh(1, FALSE) \in PairRow
  BY <1>3 DEF Fresh, PairRow
<1>5. 1 \in 0..MaxPairs /\ 1 \in Pairs
  BY DEF Pairs
<1>6. SessionsTyped
  BY <1>2, <1>4, <1>5, BlankRows DEF SessionsInit, SessionsTyped
<1>7. Blank /\ Denials /\ Passwords
  BY DEF SessionsInit, Blank, Denials, Passwords, Fresh
<1>8. pair[1].state = "active" /\ \A p \in Pairs : pair[p].state = "active" => pair[p].pw = 1
  BY <1>5 DEF SessionsInit, Fresh, NoPair
<1>9. Known
  BY <1>8, BlankRows DEF SessionsInit, Known, Issued
<1>10. ResetCutsOff
  BY <1>8 DEF SessionsInit, ResetCutsOff
<1> QED
  BY <1>6, <1>7, <1>9, <1>10 DEF ApiInv

(* A step that writes nothing at the server keeps the invariant if what    *)
(* the requests, the calls and the store then hold was issued.             *)
LEMMA NoWrite ==
  ASSUME ApiInv, SessionsTyped', UNCHANGED <<pair, denied, password, resetting, resets>>,
         \A c \in Callers : SrvHolds(srv'[c]) /\ ClHolds(cl'[c]),
         Issued(store'.at), Issued(store'.rt)
  PROVE  ApiInv'
<1>1. Blank' /\ Denials' /\ Passwords' /\ ResetCutsOff'
  BY DEF ApiInv, Blank, Denials, Passwords, ResetCutsOff
<1>2. Known'
  BY DEF Known, SrvHolds, ClHolds, Issued, NoneHashed
<1> QED
  BY <1>1, <1>2 DEF ApiInv

(* The request of c moves on.                                              *)
LEMMA MoveServed ==
  ASSUME ApiInv, NEW c \in Callers, NEW q \in SrvRow, SrvHolds(q),
         srv' = [srv EXCEPT ![c] = q],
         UNCHANGED <<setup, server, cl, store, inflight, clock, faulted>>
  PROVE  ApiInv'
<1>1. SessionsTyped'
  BY DEF ApiInv, SessionsTyped, setup, server
<1>2. \A d \in Callers : SrvHolds(srv'[d]) /\ ClHolds(cl[d])
  BY DEF ApiInv, SessionsTyped, Known
<1> QED
  BY <1>1, <1>2, NoWrite DEF ApiInv, Known, server

LEMMA ReadSteps ==
  ASSUME ApiInv, NEW c \in Callers, RefreshRead(c) \/ SignInRead(c) \/ Me(c)
  PROVE  ApiInv'
<1> USE SessionsAssumption
<1>1. srv[c] \in SrvRow /\ SrvHolds(srv[c]) /\ MaxPairs \in Nat /\ resets \in Nat
  BY DEF ApiInv, SessionsTyped, Known
<1>2. ASSUME NEW p \in 0..MaxPairs, Issued(p), Answer(c, p),
             UNCHANGED <<setup, server, cl, store, inflight, clock, faulted>>
      PROVE  ApiInv'
  <2>1. PICK q : q = [srv[c] EXCEPT !.at = "answered", !.out = p]
    OBVIOUS
  <2>2. q \in SrvRow
    BY <1>1, <2>1 DEF SrvRow
  <2>3. q.at = "answered" /\ q.out = p /\ q.tok = srv[c].tok /\ q.acc = srv[c].acc
    BY <1>1, <2>1 DEF SrvRow
  <2>4. SrvHolds(q)
    BY <1>1, <1>2, <2>3 DEF SrvHolds
  <2>5. srv' = [srv EXCEPT ![c] = q]
    BY <1>2, <2>1 DEF Answer, ApiInv, SessionsTyped
  <2> QED
    BY <1>2, <2>2, <2>4, <2>5, MoveServed
<1>3. 0 \in 0..MaxPairs /\ Issued(0)
  BY <1>1 DEF Issued
<1>4. CASE RefreshRead(c)
  <2>1. CASE Answer(c, 0)
    BY <1>2, <1>3, <1>4, <2>1 DEF RefreshRead
  <2>2. CASE ~Answer(c, 0)
    <3>1. PICK row : row = pair[srv[c].tok]
      OBVIOUS
    <3>2. /\ srv[c].at = "refresh" /\ row.state = "active"
          /\ srv' = [srv EXCEPT ![c].at = "rotate", ![c].pw = row.pw,
                                ![c].late = row.late, ![c].epoch = resets]
      BY <1>4, <2>2, <3>1 DEF RefreshRead
    <3>3. srv[c].tok \in Pairs
      BY <1>1, <3>2 DEF SrvHolds, SrvRow, Pairs
    <3>4. row \in PairRow
      BY <3>1, <3>3 DEF ApiInv, SessionsTyped
    <3>5. NoneHashed => row.pw = password \/ row.late
      BY <3>1, <3>2, <3>3 DEF ApiInv, ResetCutsOff, NoneHashed
    <3>6. PICK q : q = [srv[c] EXCEPT !.at = "rotate", !.pw = row.pw,
                                      !.late = row.late, !.epoch = resets]
      OBVIOUS
    <3>7. q \in SrvRow
      BY <1>1, <3>4, <3>6 DEF SrvRow, PairRow
    <3>8. /\ q.at = "rotate" /\ q.pw = row.pw /\ q.late = row.late /\ q.epoch = resets
          /\ q.tok = srv[c].tok /\ q.acc = srv[c].acc /\ q.out = srv[c].out
      BY <1>1, <3>6 DEF SrvRow
    <3>9. SrvHolds(q)
      BY <1>1, <3>2, <3>5, <3>8 DEF SrvHolds
    <3>10. srv' = [srv EXCEPT ![c] = q]
      BY <3>2, <3>6 DEF ApiInv, SessionsTyped
    <3> QED
      BY <1>4, <3>7, <3>9, <3>10, MoveServed DEF RefreshRead
  <2> QED
    BY <2>1, <2>2
<1>5. CASE SignInRead(c)
  <2>1. CASE Answer(c, 0)
    BY <1>2, <1>3, <1>5, <2>1 DEF SignInRead
  <2>2. CASE ~Answer(c, 0)
    <3>1. /\ srv[c].pw = password
          /\ srv' = [srv EXCEPT ![c].at = "issue", ![c].epoch = resets]
      BY <1>5, <2>2 DEF SignInRead
    <3>2. PICK q : q = [srv[c] EXCEPT !.at = "issue", !.epoch = resets]
      OBVIOUS
    <3>3. q \in SrvRow
      BY <1>1, <3>2 DEF SrvRow
    <3>4. /\ q.at = "issue" /\ q.epoch = resets /\ q.pw = srv[c].pw
          /\ q.tok = srv[c].tok /\ q.acc = srv[c].acc /\ q.out = srv[c].out
      BY <1>1, <3>2 DEF SrvRow
    <3>5. SrvHolds(q)
      BY <1>1, <3>1, <3>4 DEF SrvHolds
    <3>6. srv' = [srv EXCEPT ![c] = q]
      BY <3>1, <3>2 DEF ApiInv, SessionsTyped
    <3> QED
      BY <1>5, <3>3, <3>5, <3>6, MoveServed DEF SignInRead
  <2> QED
    BY <2>1, <2>2
<1>6. CASE Me(c)
  <2>1. srv[c].acc \in 0..MaxPairs /\ Issued(srv[c].acc)
    BY <1>1 DEF SrvRow, SrvHolds
  <2> QED
    BY <1>2, <1>3, <1>6, <2>1 DEF Me
<1> QED
  BY <1>4, <1>5, <1>6

(* One issued pair is revoked while the request of c moves on.             *)
LEMMA RevokeOne ==
  ASSUME ApiInv, NEW c \in Callers, NEW q \in SrvRow, SrvHolds(q),
         NEW p \in Pairs, pair[p].state # "none",
         pair' = [pair EXCEPT ![p].state = "revoked"], srv' = [srv EXCEPT ![c] = q],
         UNCHANGED <<setup, denied, password, link, resetting, resets, cl, store, inflight,
                     clock, faulted>>
  PROVE  ApiInv'
<1>1. pair \in [Pairs -> PairRow] /\ srv \in [Callers -> SrvRow]
  BY DEF ApiInv, SessionsTyped
<1>2. PICK row : row = [pair[p] EXCEPT !.state = "revoked"]
  OBVIOUS
<1>3. row \in PairRow /\ row.state = "revoked" /\ row.aexp = pair[p].aexp
  BY <1>1, <1>2 DEF PairRow
<1>4. pair' = [pair EXCEPT ![p] = row]
  BY <1>2
<1>5. pair'[p] = row /\ \A o \in Pairs \ {p} : pair'[o] = pair[o]
  BY <1>1, <1>4
<1>6. SessionsTyped'
  BY <1>3, <1>4 DEF ApiInv, SessionsTyped, setup
<1>7. Blank' /\ Denials' /\ Passwords' /\ ResetCutsOff'
  BY <1>3, <1>5 DEF ApiInv, Blank, Denials, Passwords, ResetCutsOff
<1>8. \A o \in 0..MaxPairs : Issued(o) => Issued(o)'
  BY <1>3, <1>5, SessionsAssumption DEF Issued, Pairs
<1>9. \A d \in Callers : srv'[d] \in SrvRow /\ SrvHolds(srv'[d]) /\ cl[d] \in ClRow /\ ClHolds(cl[d])
  BY <1>1 DEF ApiInv, SessionsTyped, Known
<1>10. store.at \in 0..MaxPairs /\ store.rt \in 0..MaxPairs /\ Issued(store.at) /\ Issued(store.rt)
  BY DEF ApiInv, SessionsTyped, Known
<1>11. Known'
  <2>1. ASSUME NEW d \in Callers PROVE SrvHolds(srv[d])'
    <3>1. /\ srv'[d].tok \in 0..MaxPairs /\ srv'[d].acc \in 0..MaxPairs
          /\ srv'[d].out \in 0..MaxPairs
      BY <1>9 DEF SrvRow
    <3> QED
      BY <1>8, <1>9, <3>1 DEF SrvHolds, NoneHashed
  <2>2. ASSUME NEW d \in Callers PROVE ClHolds(cl[d])'
    <3>1. cl[d].acc \in 0..MaxPairs /\ cl[d].rt \in 0..MaxPairs
      BY <1>9 DEF ClRow
    <3> QED
      BY <1>8, <1>9, <3>1 DEF ClHolds
  <2> QED
    BY <1>8, <1>10, <2>1, <2>2 DEF Known
<1> QED
  BY <1>6, <1>7, <1>11 DEF ApiInv

LEMMA RevokeSteps ==
  ASSUME ApiInv, NEW c \in Callers, Rotate(c) \/ SignOutRefresh(c)
  PROVE  ApiInv'
<1> USE SessionsAssumption
<1>1. srv[c] \in SrvRow /\ SrvHolds(srv[c])
  BY DEF ApiInv, SessionsTyped, Known
<1>2. ASSUME srv[c].tok # 0 PROVE srv[c].tok \in Pairs /\ pair[srv[c].tok].state # "none"
  BY <1>1, <1>2 DEF SrvRow, SrvHolds, Issued, Pairs
<1>3. CASE Rotate(c)
  <2>1. PICK q : q = [srv[c] EXCEPT !.at = "issue"]
    OBVIOUS
  <2>2. q \in SrvRow
    BY <1>1, <2>1 DEF SrvRow
  <2>3. /\ q.at = "issue" /\ q.epoch = srv[c].epoch /\ q.pw = srv[c].pw /\ q.late = srv[c].late
        /\ q.tok = srv[c].tok /\ q.acc = srv[c].acc /\ q.out = srv[c].out
    BY <1>1, <2>1 DEF SrvRow
  <2>4. SrvHolds(q) /\ srv[c].tok # 0
    BY <1>1, <1>3, <2>3 DEF SrvHolds, Rotate
  <2>5. srv' = [srv EXCEPT ![c] = q]
    BY <1>3, <2>1 DEF Rotate
  <2> QED
    BY <1>2, <1>3, <2>2, <2>4, <2>5, RevokeOne DEF Rotate
<1>4. CASE SignOutRefresh(c)
  <2>1. PICK q : q = [srv[c] EXCEPT !.at = "deny"]
    OBVIOUS
  <2>2. q \in SrvRow
    BY <1>1, <2>1 DEF SrvRow
  <2>3. q.at = "deny" /\ q.tok = srv[c].tok /\ q.acc = srv[c].acc /\ q.out = srv[c].out
    BY <1>1, <2>1 DEF SrvRow
  <2>4. SrvHolds(q)
    BY <1>1, <2>3 DEF SrvHolds
  <2>5. srv' = [srv EXCEPT ![c] = q]
    BY <1>4, <2>1 DEF SignOutRefresh
  <2>6. CASE UNCHANGED pair
    BY <1>4, <2>2, <2>4, <2>5, <2>6, MoveServed DEF SignOutRefresh, server
  <2>7. CASE srv[c].tok # 0 /\ pair' = [pair EXCEPT ![srv[c].tok].state = "revoked"]
    BY <1>2, <1>4, <2>2, <2>4, <2>5, <2>7, RevokeOne DEF SignOutRefresh
  <2> QED
    BY <1>4, <2>6, <2>7 DEF SignOutRefresh
<1> QED
  BY <1>3, <1>4

LEMMA IssueStep ==
  ASSUME ApiInv, NEW c \in Callers, Issue(c)
  PROVE  ApiInv'
<1> USE SessionsAssumption
<1>1. pair \in [Pairs -> PairRow] /\ srv \in [Callers -> SrvRow]
  BY DEF ApiInv, SessionsTyped
<1>2. srv[c] \in SrvRow /\ SrvHolds(srv[c]) /\ srv[c].at = "issue"
  BY DEF ApiInv, SessionsTyped, Known, Issue
<1>3. PICK late \in BOOLEAN : late = (srv[c].late \/ srv[c].epoch # resets)
  <2>1. (srv[c].late \/ srv[c].epoch # resets) \in BOOLEAN
    OBVIOUS
  <2> QED
    BY <2>1
<1>4. srv[c].pw \in Nat
  BY <1>2 DEF SrvRow
<1>5. PICK row : row = Fresh(srv[c].pw, late)
  OBVIOUS
<1>6. row \in PairRow /\ row.state = "active" /\ row.pw = srv[c].pw /\ row.late = late
  BY <1>3, <1>4, <1>5, FreshRow DEF ApiInv
<1>7. PICK p \in Pairs : /\ pair[p] = NoPair /\ pair' = [pair EXCEPT ![p] = row] /\ Answer(c, p)
  BY <1>3, <1>5 DEF Issue
<1>8. pair'[p] = row /\ \A o \in Pairs \ {p} : pair'[o] = pair[o]
  BY <1>1, <1>7
<1>9. PICK q : q = [srv[c] EXCEPT !.at = "answered", !.out = p]
  OBVIOUS
<1>10. q \in SrvRow
  <2>1. p \in 0..MaxPairs
    BY <1>7 DEF Pairs
  <2> QED
    BY <1>2, <1>9, <2>1 DEF SrvRow
<1>11. q.at = "answered" /\ q.out = p /\ q.tok = srv[c].tok /\ q.acc = srv[c].acc
  BY <1>2, <1>9 DEF SrvRow
<1>12. srv' = [srv EXCEPT ![c] = q]
  BY <1>1, <1>7, <1>9 DEF Answer
<1>13. UNCHANGED <<setup, denied, password, link, resetting, resets, cl, store, inflight,
                   clock, faulted>>
  BY DEF Issue
<1>14. SessionsTyped'
  BY <1>6, <1>7, <1>10, <1>12, <1>13 DEF ApiInv, SessionsTyped, setup
<1>15. Blank' /\ Passwords'
  BY <1>6, <1>8, <1>13 DEF ApiInv, Blank, Passwords
<1>16. Denials'
  BY <1>7, <1>8, <1>13 DEF ApiInv, Denials, NoPair
<1>17. NoneHashed => row.pw = password \/ row.late
  BY <1>2, <1>3, <1>6 DEF SrvHolds
<1>18. ResetCutsOff'
  BY <1>6, <1>8, <1>13, <1>17 DEF ApiInv, ResetCutsOff, NoneHashed
<1>19. \A o \in 0..MaxPairs : Issued(o) => Issued(o)'
  BY <1>6, <1>8 DEF Issued, Pairs
<1>20. Issued(p)'
  BY <1>6, <1>8 DEF Issued
<1>21. Known'
  <2>1. ASSUME NEW d \in Callers PROVE SrvHolds(srv[d])'
    <3>1. CASE d = c
      <4>1. srv'[d] = q
        BY <1>1, <1>12, <3>1
      <4>2. q.tok \in 0..MaxPairs /\ q.acc \in 0..MaxPairs
        BY <1>10 DEF SrvRow
      <4> QED
        BY <1>2, <1>11, <1>19, <1>20, <4>1, <4>2 DEF SrvHolds
    <3>2. CASE d # c
      <4>1. srv'[d] = srv[d] /\ SrvHolds(srv[d]) /\ srv[d] \in SrvRow
        BY <1>1, <1>12, <3>2 DEF ApiInv, Known
      <4>2. /\ srv[d].tok \in 0..MaxPairs /\ srv[d].acc \in 0..MaxPairs
            /\ srv[d].out \in 0..MaxPairs
        BY <4>1 DEF SrvRow
      <4> QED
        BY <1>13, <1>19, <4>1, <4>2 DEF SrvHolds, NoneHashed
    <3> QED
      BY <3>1, <3>2
  <2>2. ASSUME NEW d \in Callers PROVE ClHolds(cl[d])'
    <3>1. cl[d].acc \in 0..MaxPairs /\ cl[d].rt \in 0..MaxPairs /\ ClHolds(cl[d])
      BY DEF ClRow, ApiInv, SessionsTyped, Known
    <3> QED
      BY <1>13, <1>19, <3>1 DEF ClHolds
  <2>3. store.at \in 0..MaxPairs /\ store.rt \in 0..MaxPairs /\ Issued(store.at) /\ Issued(store.rt)
    BY DEF ApiInv, SessionsTyped, Known
  <2> QED
    BY <1>13, <1>19, <2>1, <2>2, <2>3 DEF Known
<1> QED
  BY <1>14, <1>15, <1>16, <1>18, <1>21 DEF ApiInv

LEMMA DenyStep ==
  ASSUME ApiInv, NEW c \in Callers, SignOutAccess(c)
  PROVE  ApiInv'
<1> USE SessionsAssumption
<1>1. srv[c] \in SrvRow /\ SrvHolds(srv[c]) /\ srv \in [Callers -> SrvRow] /\ denied \in [Pairs -> Nat]
  BY DEF ApiInv, SessionsTyped, Known
<1>2. PICK q : q = [srv[c] EXCEPT !.at = "answered", !.out = 0]
  OBVIOUS
<1>3. q \in SrvRow
  <2>1. 0 \in 0..MaxPairs
    OBVIOUS
  <2> QED
    BY <1>1, <1>2, <2>1 DEF SrvRow
<1>4. q.at = "answered" /\ q.out = 0 /\ q.tok = srv[c].tok /\ q.acc = srv[c].acc
  BY <1>1, <1>2 DEF SrvRow
<1>5. SrvHolds(q)
  BY <1>1, <1>4 DEF SrvHolds, Issued
<1>6. srv' = [srv EXCEPT ![c] = q]
  <2>1. srv' = [srv EXCEPT ![c].at = "answered", ![c].out = 0]
    BY DEF SignOutAccess, Answer
  <2> QED
    BY <1>1, <1>2, <2>1
<1>7. CASE UNCHANGED denied
  BY <1>3, <1>5, <1>6, <1>7, MoveServed DEF SignOutAccess, server
<1>8. CASE ~UNCHANGED denied
  <2>1. PICK p : p = srv[c].acc
    OBVIOUS
  <2>2. Valid(p) /\ pair[p].aexp > Sec(clock) /\ denied' = [denied EXCEPT ![p] = Lapse(p)]
    BY <1>8, <2>1 DEF SignOutAccess
  <2>3. p \in Pairs /\ pair[p].state # "none"
    BY <1>1, <2>1, <2>2 DEF Valid, SrvRow, SrvHolds, Issued, Pairs
  <2>4. Lapse(p) \in Nat /\ Lapse(p) >= 2 * pair[p].aexp
    BY <2>2, <2>3, LapseCovers DEF ApiInv
  <2>5. UNCHANGED <<setup, pair, password, link, resetting, resets, cl, store, inflight,
                    clock, faulted>>
    BY DEF SignOutAccess
  <2>6. SessionsTyped'
    BY <1>3, <1>6, <2>2, <2>4, <2>5 DEF ApiInv, SessionsTyped, setup
  <2>7. Denials'
    BY <1>1, <2>2, <2>3, <2>4, <2>5 DEF ApiInv, Denials
  <2>8. Blank' /\ Passwords' /\ ResetCutsOff'
    BY <2>5 DEF ApiInv, Blank, Passwords, ResetCutsOff
  <2>9. \A d \in Callers : SrvHolds(srv'[d]) /\ ClHolds(cl[d])
    BY <1>1, <1>5, <1>6 DEF ApiInv, Known
  <2>10. Known'
    BY <2>5, <2>9 DEF ApiInv, Known, SrvHolds, ClHolds, Issued, NoneHashed
  <2> QED
    BY <2>6, <2>7, <2>8, <2>10 DEF ApiInv
<1> QED
  BY <1>7, <1>8

(* The password reset, the mailed link and the clock.                      *)
LEMMA ResetSteps ==
  ASSUME ApiInv,
         \/ RequestReset \/ ClockTicks
         \/ \E r \in Submits : TakeGet(r) \/ TakeDelete(r) \/ ResetHash(r) \/ ResetRevokeAll(r)
  PROVE  ApiInv'
<1> USE SessionsAssumption
<1>1. /\ clock \in Nat /\ password \in Nat /\ resets \in Nat /\ link \in Nat
      /\ resetting \in [Submits -> {"no", "found", "taken", "hashed", "done"}]
      /\ pair \in [Pairs -> PairRow]
  BY DEF ApiInv, SessionsTyped
<1>2. /\ \A d \in Callers : SrvHolds(srv[d]) /\ ClHolds(cl[d])
      /\ Issued(store.at) /\ Issued(store.rt)
  BY DEF ApiInv, Known
<1>3. CASE RequestReset \/ ClockTicks
  <2>1. SessionsTyped'
    BY <1>1, <1>3 DEF ApiInv, SessionsTyped, RequestReset, ClockTicks, setup, server
  <2> QED
    BY <1>2, <1>3, <2>1, NoWrite DEF RequestReset, ClockTicks, server
<1>4. ASSUME NEW r \in Submits, TakeGet(r) \/ TakeDelete(r) PROVE ApiInv'
  <2>1. PICK to \in {"found", "taken"} :
          /\ resetting' = [resetting EXCEPT ![r] = to] /\ resetting[r] \in {"no", "found"}
          /\ link' \in {0, link}
          /\ UNCHANGED <<setup, pair, denied, password, resets, srv, cl, store, inflight, clock,
                         faulted>>
    BY <1>4 DEF TakeGet, TakeDelete, Reset
  <2>2. SessionsTyped'
    BY <1>1, <2>1 DEF ApiInv, SessionsTyped, setup
  <2>3. NoneHashed' = NoneHashed /\ \A s \in Submits : resetting'[s] \in {"hashed", "done"} =>
                                       resetting[s] \in {"hashed", "done"}
    BY <1>1, <2>1 DEF NoneHashed
  <2>4. Blank' /\ Denials' /\ Passwords'
    BY <2>1, <2>3 DEF ApiInv, Blank, Denials, Passwords
  <2>5. ResetCutsOff'
    BY <2>1, <2>3 DEF ApiInv, ResetCutsOff, NoneHashed
  <2>6. Known'
    BY <1>2, <2>1, <2>3 DEF Known, SrvHolds, ClHolds, Issued
  <2> QED
    BY <2>2, <2>4, <2>5, <2>6 DEF ApiInv
<1>5. ASSUME NEW r \in Submits, ResetHash(r) PROVE ApiInv'
  <2>1. /\ resetting' = [resetting EXCEPT ![r] = "hashed"] /\ password' = password + 1
        /\ UNCHANGED <<setup, pair, denied, link, resets, srv, cl, store, inflight, clock, faulted>>
    BY <1>5 DEF ResetHash, Reset
  <2>2. SessionsTyped'
    BY <1>1, <2>1 DEF ApiInv, SessionsTyped, setup
  <2>3. ~NoneHashed'
    BY <1>1, <2>1 DEF NoneHashed
  <2>4. Blank' /\ Denials'
    BY <2>1 DEF ApiInv, Blank, Denials
  <2>5. Passwords'
    BY <1>1, <2>1 DEF ApiInv, Passwords
  <2>6. ResetCutsOff'
    BY <2>3 DEF ResetCutsOff, NoneHashed
  <2>7. Known'
    BY <1>2, <2>1, <2>3 DEF Known, SrvHolds, ClHolds, Issued
  <2> QED
    BY <2>2, <2>4, <2>5, <2>6, <2>7 DEF ApiInv
<1>6. ASSUME NEW r \in Submits, ResetRevokeAll(r) PROVE ApiInv'
  <2>1. /\ resetting' = [resetting EXCEPT ![r] = "done"] /\ resetting[r] = "hashed"
        /\ resets' = resets + 1
        /\ pair' = [p \in Pairs |-> IF pair[p].state = "active"
                                    THEN [pair[p] EXCEPT !.state = "revoked"] ELSE pair[p]]
        /\ UNCHANGED <<setup, denied, password, link, srv, cl, store, inflight, clock, faulted>>
    BY <1>6 DEF ResetRevokeAll, Reset
  <2>2. ASSUME NEW p \in Pairs
        PROVE  /\ pair'[p] \in PairRow /\ pair'[p].state # "active"
               /\ pair'[p].aexp = pair[p].aexp
               /\ pair'[p].state = "none" <=> pair[p].state = "none"
               /\ pair'[p].state = "none" => pair'[p] = pair[p]
    BY <1>1, <2>1 DEF PairRow
  <2>3. pair' \in [Pairs -> PairRow]
    BY <2>1, <2>2
  <2>4. SessionsTyped'
    BY <1>1, <2>1, <2>3 DEF ApiInv, SessionsTyped, setup
  <2>5. Blank' /\ Denials' /\ ResetCutsOff'
    BY <2>1, <2>2 DEF ApiInv, Blank, Denials, ResetCutsOff
  <2>6. Passwords'
    BY <1>1, <2>1 DEF ApiInv, Passwords
  <2>7. \A o \in 0..MaxPairs : Issued(o) => Issued(o)'
    BY <2>2 DEF Issued, Pairs
  <2>8. ASSUME NEW d \in Callers PROVE SrvHolds(srv[d])'
    <3>1. /\ srv[d].tok \in 0..MaxPairs /\ srv[d].acc \in 0..MaxPairs
          /\ srv[d].out \in 0..MaxPairs /\ srv[d].epoch \in Nat
      BY DEF ApiInv, SessionsTyped, SrvRow
    <3>2. srv[d].at \in {"rotate", "issue"} => srv[d].epoch <= resets' /\ srv[d].epoch # resets'
      BY <1>1, <1>2, <2>1, <3>1 DEF SrvHolds
    <3> QED
      BY <1>2, <2>1, <2>7, <3>1, <3>2 DEF SrvHolds
  <2>9. ASSUME NEW d \in Callers PROVE ClHolds(cl[d])'
    <3>1. cl[d].acc \in 0..MaxPairs /\ cl[d].rt \in 0..MaxPairs
      BY DEF ClRow, ApiInv, SessionsTyped
    <3> QED
      BY <1>2, <2>1, <2>7, <3>1 DEF ClHolds
  <2>10. store.at \in 0..MaxPairs /\ store.rt \in 0..MaxPairs
    BY DEF ApiInv, SessionsTyped
  <2>11. Known'
    BY <1>2, <2>1, <2>7, <2>8, <2>9, <2>10 DEF Known
  <2> QED
    BY <2>4, <2>5, <2>6, <2>11 DEF ApiInv
<1> QED
  BY <1>3, <1>4, <1>5, <1>6

-----------------------------------------------------------------------------
(* The client libraries hold only what was issued to them.                 *)

ClientStep(c) == Client(c) \/ Start(c) \/ Abandon(c)

LEMMA ClientLeaves ==
  ASSUME NEW c \in Callers, ClientStep(c), faulted \in BOOLEAN
  PROVE  UNCHANGED <<setup, server, clock>> /\ faulted' \in BOOLEAN
BY DEF ClientStep, Client, Start, Abandon, JoinRefresh, NothingToRefresh, PostRefresh,
   RefreshRefused, RefreshGranted, PersistRefresh, PostMe, MeAnswered, SignInAnswered,
   SignedOut, Orphan, Call, AskSignIn, SignOut

(* The requests the clients send.                                          *)
LEMMA ClientPosts ==
  ASSUME ApiInv, NEW c \in Callers, ClientStep(c)
  PROVE  srv' \in [Callers -> SrvRow] /\ \A d \in Callers : SrvHolds(srv'[d])
<1> USE SessionsAssumption
<1> DEFINE Goal == srv' \in [Callers -> SrvRow] /\ \A d \in Callers : SrvHolds(srv'[d])
<1>1. /\ srv \in [Callers -> SrvRow] /\ \A d \in Callers : SrvHolds(srv[d]) /\ ClHolds(cl[d])
      /\ store.at \in 0..MaxPairs /\ store.rt \in 0..MaxPairs
      /\ Issued(store.at) /\ Issued(store.rt) /\ cl[c] \in ClRow /\ password \in Nat
  BY DEF ApiInv, SessionsTyped, Known
<1>2. ASSUME NEW q \in SrvRow, SrvHolds(q), srv' = [srv EXCEPT ![c] = q] PROVE Goal
  BY <1>1, <1>2
<1>3. CASE UNCHANGED srv
  BY <1>1, <1>3
<1>4. CASE srv' = [srv EXCEPT ![c] = Quiet]
  BY <1>2, <1>4, BlankRows
<1>5. CASE PostRefresh(c)
  <2>1. PICK rt : rt = IF kind = "web" THEN cl[c].rt ELSE store.rt
    OBVIOUS
  <2>2. rt \in 0..MaxPairs /\ Issued(rt)
    BY <1>1, <2>1 DEF ClRow, ClHolds
  <2>3. PICK q : q = [Quiet EXCEPT !.at = "refresh", !.tok = rt]
    OBVIOUS
  <2>4. srv' = [srv EXCEPT ![c] = q] /\ rt # 0
    BY <1>5, <2>1, <2>3 DEF PostRefresh, Post
  <2>5. q \in SrvRow
    BY <2>2, <2>3, BlankRows DEF SrvRow
  <2>6. SrvHolds(q)
    BY <2>2, <2>3, <2>4 DEF Quiet, SrvHolds, Issued
  <2> QED
    BY <1>2, <2>4, <2>5, <2>6
<1>6. CASE PostMe(c)
  <2>1. cl[c].acc \in 0..MaxPairs /\ Issued(cl[c].acc)
    BY <1>1 DEF ClRow, ClHolds
  <2>2. PICK q : q = [Quiet EXCEPT !.at = "me", !.acc = cl[c].acc]
    OBVIOUS
  <2>3. srv' = [srv EXCEPT ![c] = q]
    BY <1>6, <2>2 DEF PostMe, Post
  <2>4. q \in SrvRow
    BY <2>1, <2>2, BlankRows DEF SrvRow
  <2>5. SrvHolds(q)
    BY <2>1, <2>2 DEF Quiet, SrvHolds, Issued
  <2> QED
    BY <1>2, <2>3, <2>4, <2>5
<1>7. ASSUME NEW pw \in 1 .. password, AskSignIn(c, pw) PROVE Goal
  <2>1. PICK q : q = [Quiet EXCEPT !.at = "signin", !.pw = pw]
    OBVIOUS
  <2>2. srv' = [srv EXCEPT ![c] = q]
    BY <1>7, <2>1 DEF AskSignIn, Post
  <2>3. pw \in Nat
    BY <1>1
  <2>4. q \in SrvRow
    BY <2>1, <2>3, BlankRows DEF SrvRow
  <2>5. SrvHolds(q)
    BY <2>1 DEF Quiet, SrvHolds, Issued
  <2> QED
    BY <1>2, <2>2, <2>4, <2>5
<1>8. CASE SignOut(c)
  <2>1. PICK q : q = [Quiet EXCEPT !.at = "signout", !.tok = store.rt, !.acc = store.at]
    OBVIOUS
  <2>2. srv' = [srv EXCEPT ![c] = q]
    BY <1>8, <2>1 DEF SignOut, Post
  <2>3. q \in SrvRow
    BY <1>1, <2>1, BlankRows DEF SrvRow
  <2>4. SrvHolds(q)
    BY <1>1, <2>1 DEF Quiet, SrvHolds, Issued
  <2> QED
    BY <1>2, <2>2, <2>3, <2>4
<1>9. CASE Abandon(c)
  BY <1>1, <1>2, <1>9, BlankRows DEF Abandon
<1>10. CASE \/ JoinRefresh(c) \/ NothingToRefresh(c) \/ PersistRefresh(c)
            \/ Call(c, "token") \/ Call(c, "boot")
  BY <1>3, <1>10 DEF JoinRefresh, NothingToRefresh, PersistRefresh, Call
<1>11. CASE \/ RefreshRefused(c) \/ RefreshGranted(c) \/ MeAnswered(c) \/ SignInAnswered(c)
            \/ SignedOut(c) \/ Orphan(c)
  BY <1>4, <1>11 DEF RefreshRefused, RefreshGranted, MeAnswered, SignInAnswered, SignedOut,
     Orphan, Take
<1> QED
  BY <1>5, <1>6, <1>7, <1>8, <1>9, <1>10, <1>11 DEF ClientStep, Client, Start

(* What the clients store.                                                 *)
LEMMA ClientStores ==
  ASSUME ApiInv, NEW c \in Callers, ClientStep(c)
  PROVE  /\ store' \in [at: 0..MaxPairs, rt: 0..MaxPairs]
         /\ Issued(store'.at) /\ Issued(store'.rt)
<1> USE SessionsAssumption
<1> DEFINE Goal == /\ store' \in [at: 0..MaxPairs, rt: 0..MaxPairs]
                   /\ Issued(store'.at) /\ Issued(store'.rt)
<1>1. /\ store \in [at: 0..MaxPairs, rt: 0..MaxPairs] /\ Issued(store.at) /\ Issued(store.rt)
      /\ srv[c].out \in 0..MaxPairs /\ Issued(srv[c].out)
      /\ cl[c].rt \in 0..MaxPairs /\ Issued(cl[c].rt)
  BY DEF ApiInv, SessionsTyped, Known, SrvHolds, ClHolds, SrvRow, ClRow
<1>2. CASE store' = Nothing
  BY <1>2, BlankRows DEF Issued
<1>3. CASE UNCHANGED store
  BY <1>1, <1>3
<1>4. ASSUME NEW p \in 0..MaxPairs, Issued(p),
             \/ store' = [at |-> p, rt |-> p]
             \/ store' = [store EXCEPT !.at = p]
             \/ store' = [store EXCEPT !.rt = p]
      PROVE  Goal
  BY <1>1, <1>4
<1>5. CASE \/ JoinRefresh(c) \/ PostRefresh(c) \/ PostMe(c) \/ Orphan(c)
           \/ Call(c, "token") \/ Call(c, "boot") \/ SignOut(c)
           \/ \E pw \in 1 .. password : AskSignIn(c, pw)
  BY <1>3, <1>5 DEF JoinRefresh, PostRefresh, PostMe, Orphan, Call, SignOut, AskSignIn
<1>6. CASE \/ NothingToRefresh(c) \/ RefreshRefused(c) \/ MeAnswered(c) \/ SignedOut(c)
           \/ Abandon(c)
  BY <1>2, <1>3, <1>6 DEF NothingToRefresh, RefreshRefused, MeAnswered, SignedOut, Abandon, Empty
<1>7. CASE RefreshGranted(c) \/ SignInAnswered(c)
  BY <1>1, <1>3, <1>4, <1>7 DEF RefreshGranted, SignInAnswered
<1>8. CASE PersistRefresh(c)
  BY <1>1, <1>4, <1>8 DEF PersistRefresh
<1> QED
  BY <1>5, <1>6, <1>7, <1>8 DEF ClientStep, Client, Start

(* The sharers of a refresh are released with its result.                  *)
LEMMA Settled ==
  ASSUME ApiInv, NEW c \in Callers, NEW p \in 0..MaxPairs, Issued(p), Settle(c, p)
  PROVE  /\ cl' \in [Callers -> ClRow] /\ inflight' \subseteq Callers
         /\ \A d \in Callers : ClHolds(cl'[d])
<1>1. /\ cl \in [Callers -> ClRow] /\ inflight \subseteq Callers
      /\ \A d \in Callers : ClHolds(cl[d])
  BY DEF ApiInv, SessionsTyped, Known
<1>2. PICK all : all = IF kind = "web" THEN {c} ELSE inflight
  OBVIOUS
<1>3. inflight' = inflight \ all
  BY <1>2 DEF Settle
<1>4. cl' = [d \in Callers |-> cl'[d]]
  BY DEF Settle
<1>5. ASSUME NEW d \in Callers PROVE cl'[d] \in ClRow /\ ClHolds(cl'[d])
  <2>1. \/ cl'[d] = cl[d] \/ cl'[d] = Free
        \/ cl'[d] = [cl[d] EXCEPT !.at = "me", !.acc = p, !.op = "reboot"]
    BY DEF Settle
  <2>2. CASE cl'[d] = [cl[d] EXCEPT !.at = "me", !.acc = p, !.op = "reboot"]
    <3>1. PICK q : q = [cl[d] EXCEPT !.at = "me", !.acc = p, !.op = "reboot"]
      OBVIOUS
    <3>2. q \in ClRow
      BY <1>1, <3>1 DEF ClRow
    <3>3. q.acc = p /\ q.rt = cl[d].rt
      BY <1>1, <3>1 DEF ClRow
    <3> QED
      BY <1>1, <2>2, <3>1, <3>2, <3>3 DEF ClHolds
  <2> QED
    BY <1>1, <2>1, <2>2, BlankRows
<1> QED
  BY <1>1, <1>3, <1>4, <1>5

(* Where the calls into the library stand.                                 *)
LEMMA ClientCalls ==
  ASSUME ApiInv, NEW c \in Callers, ClientStep(c)
  PROVE  /\ cl' \in [Callers -> ClRow] /\ inflight' \subseteq Callers
         /\ \A d \in Callers : ClHolds(cl'[d])
<1> USE SessionsAssumption
<1> DEFINE Goal == /\ cl' \in [Callers -> ClRow] /\ inflight' \subseteq Callers
                   /\ \A d \in Callers : ClHolds(cl'[d])
<1>1. /\ cl \in [Callers -> ClRow] /\ inflight \subseteq Callers
      /\ \A d \in Callers : ClHolds(cl[d])
      /\ store.at \in 0..MaxPairs /\ store.rt \in 0..MaxPairs
      /\ Issued(store.at) /\ Issued(store.rt)
      /\ srv[c].out \in 0..MaxPairs /\ Issued(srv[c].out)
      /\ cl[c].rt \in 0..MaxPairs /\ Issued(cl[c].rt)
      /\ 0 \in 0..MaxPairs /\ Issued(0)
  BY DEF ApiInv, SessionsTyped, Known, SrvHolds, ClHolds, SrvRow, ClRow, Issued
<1>2. ASSUME NEW q \in ClRow, ClHolds(q), cl' = [cl EXCEPT ![c] = q],
             inflight' \subseteq inflight \cup {c}
      PROVE  Goal
  BY <1>1, <1>2
<1>3. ASSUME NEW stage \in {"refresh", "wait", "posted", "asked"}, Move(c, stage),
             inflight' \subseteq inflight \cup {c}
      PROVE  Goal
  <2>1. PICK q : q = [cl[c] EXCEPT !.at = stage]
    OBVIOUS
  <2>2. q \in ClRow
    BY <1>1, <2>1 DEF ClRow
  <2>3. q.acc = cl[c].acc /\ q.rt = cl[c].rt
    BY <1>1, <2>1 DEF ClRow
  <2>4. ClHolds(q) /\ cl' = [cl EXCEPT ![c] = q]
    BY <1>1, <1>3, <2>1, <2>3 DEF ClHolds, Move
  <2> QED
    BY <1>2, <1>3, <2>2, <2>4
<1>4. ASSUME Return(c), UNCHANGED inflight PROVE Goal
  BY <1>2, <1>4, BlankRows DEF Return
<1>5. CASE JoinRefresh(c) \/ PostRefresh(c)
  BY <1>3, <1>5 DEF JoinRefresh, PostRefresh
<1>6. CASE NothingToRefresh(c) \/ SignedOut(c)
  BY <1>4, <1>6 DEF NothingToRefresh, SignedOut
<1>7. CASE PostMe(c) \/ MeAnswered(c)
  BY <1>3, <1>4, <1>7 DEF PostMe, MeAnswered
<1>8. CASE RefreshRefused(c)
  BY <1>1, <1>8, Settled DEF RefreshRefused
<1>9. ASSUME cl' = [cl EXCEPT ![c].at = "persist", ![c].rt = srv[c].out], UNCHANGED inflight
      PROVE  Goal
  <2>1. PICK q : q = [cl[c] EXCEPT !.at = "persist", !.rt = srv[c].out]
    OBVIOUS
  <2>2. q \in ClRow
    BY <1>1, <2>1 DEF ClRow
  <2>3. q.acc = cl[c].acc /\ q.rt = srv[c].out
    BY <1>1, <2>1 DEF ClRow
  <2>4. ClHolds(q)
    BY <1>1, <2>3 DEF ClHolds
  <2>5. cl' = [cl EXCEPT ![c] = q]
    BY <1>1, <1>9, <2>1
  <2> QED
    BY <1>2, <1>9, <2>2, <2>4, <2>5
<1>10. CASE RefreshGranted(c)
  BY <1>1, <1>9, <1>10, Settled DEF RefreshGranted
<1>11. CASE SignInAnswered(c)
  BY <1>4, <1>9, <1>11 DEF SignInAnswered
<1>12. CASE PersistRefresh(c)
  BY <1>1, <1>4, <1>12, Settled DEF PersistRefresh
<1>13. CASE Orphan(c)
  BY <1>1, <1>13 DEF Orphan
<1>14. ASSUME NEW op \in {"token", "boot"}, Call(c, op) PROVE Goal
  <2>1. PICK next \in {"refresh", "me", "idle"} :
          next = IF ~Usable(store.at) THEN "refresh" ELSE IF op = "boot" THEN "me" ELSE "idle"
    OBVIOUS
  <2>2. PICK q : q = [at |-> next, op |-> op, acc |-> store.at, rt |-> store.rt]
    OBVIOUS
  <2>3. q \in ClRow /\ ClHolds(q)
    BY <1>1, <2>2 DEF ClRow, ClHolds
  <2>4. inflight' = inflight /\ (cl' = [cl EXCEPT ![c] = q] \/ cl' = [cl EXCEPT ![c] = Free])
    BY <1>14, <2>1, <2>2 DEF Call
  <2> QED
    BY <1>2, <2>3, <2>4, BlankRows
<1>15. ASSUME NEW pw \in 1 .. password, AskSignIn(c, pw) PROVE Goal
  <2>1. PICK q : q = [Free EXCEPT !.at = "signing", !.op = "token"]
    OBVIOUS
  <2>2. q \in ClRow
    BY <2>1, BlankRows DEF ClRow
  <2>3. ClHolds(q)
    BY <2>1 DEF ClHolds, Free, Issued
  <2>4. inflight' = inflight /\ cl' = [cl EXCEPT ![c] = q]
    BY <1>15, <2>1 DEF AskSignIn
  <2> QED
    BY <1>2, <2>2, <2>3, <2>4
<1>16. CASE SignOut(c)
  <2>1. PICK q : q = [Free EXCEPT !.at = "leaving"]
    OBVIOUS
  <2>2. q \in ClRow
    BY <2>1, BlankRows DEF ClRow
  <2>3. ClHolds(q)
    BY <2>1 DEF ClHolds, Free, Issued
  <2>4. inflight' = inflight /\ cl' = [cl EXCEPT ![c] = q]
    BY <1>16, <2>1 DEF SignOut
  <2> QED
    BY <1>2, <2>2, <2>3, <2>4
<1>17. CASE Abandon(c)
  BY <1>1, <1>3, <1>4, <1>17, Settled DEF Abandon
<1> QED
  BY <1>5, <1>6, <1>7, <1>8, <1>10, <1>11, <1>12, <1>13, <1>14, <1>15, <1>16, <1>17
  DEF ClientStep, Client, Start

LEMMA ClientSteps ==
  ASSUME ApiInv, NEW c \in Callers, ClientStep(c)
  PROVE  ApiInv'
<1>1. UNCHANGED <<setup, server, clock>> /\ faulted' \in BOOLEAN
  BY ClientLeaves DEF ApiInv, SessionsTyped
<1>2. SessionsTyped'
  BY <1>1, ClientPosts, ClientStores, ClientCalls DEF ApiInv, SessionsTyped, setup, server
<1> QED
  BY <1>1, <1>2, ClientPosts, ClientStores, ClientCalls, NoWrite DEF server

(* Every step keeps the API's invariant.                                   *)
LEMMA ApiStep ==
  ASSUME ApiInv, [SessionsNext]_sessionVars
  PROVE  ApiInv'
<1>1. CASE UNCHANGED sessionVars
  <2>1. SessionsTyped'
    BY <1>1 DEF sessionVars, ApiInv, SessionsTyped
  <2> QED
    BY <1>1, <2>1, NoWrite DEF sessionVars, ApiInv, Known
<1> QED
  BY <1>1, ReadSteps, RevokeSteps, IssueStep, DenyStep, ResetSteps, ClientSteps
  DEF SessionsNext, Api, ClientStep

(* A denylist key that lapses after its token covers it, and nothing is    *)
(* left of the old password.                                               *)
LEMMA ApiImplied == ApiInv => EndedForGood
<1> SUFFICES ASSUME ApiInv, NEW p \in Pairs, denied[p] # 0, Valid(p) PROVE Revoked(p)
  BY DEF ApiInv, EndedForGood, DeniedToTheEnd
<1>1. denied[p] >= 2 * pair[p].aexp /\ 2 * pair[p].aexp > clock
  BY DEF ApiInv, Denials, Valid
<1>2. clock \in Nat /\ denied[p] \in Nat /\ pair[p].aexp \in Nat
  BY DEF ApiInv, SessionsTyped, PairRow
<1> QED
  BY <1>1, <1>2 DEF Revoked

(* What a sign-out or a password reset ended stays ended.                  *)
THEOREM AlwaysEndedForGood == SessionsSpec => []EndedForGood
<1>1. SessionsInit /\ [][SessionsNext]_sessionVars => []EndedForGood
  BY ApiStart, ApiStep, ApiImplied, PTL
<1> QED
  BY <1>1, PTL DEF SessionsSpec

-----------------------------------------------------------------------------
(* The shared refresh.  Its invariant is about the phone and the desktop,  *)
(* as long as no connection broke, nobody signed out and the password is   *)
(* the first one.                                                          *)

Undisturbed == kind # "web" /\ ~faulted /\ password = 1

LEMMA SharedStart == SessionsInit => SharedInv
<1> SUFFICES ASSUME SessionsInit PROVE Shared
  BY DEF SharedInv
<1>1. 1 \in Pairs /\ pair[1].state = "active" /\ store.rt = 1 /\ inflight = {}
  BY SessionsAssumption DEF SessionsInit, Pairs, Fresh
<1>2. \A c \in Callers : srv[c].at = "idle" /\ cl[c].at = "idle"
  BY DEF SessionsInit, Quiet, Free
<1>3. Sharers /\ Served /\ Arrivals
  BY <1>1, <1>2 DEF Sharers, Served, Arrivals, Arriving
<1> QED
  BY <1>1, <1>3 DEF Shared, Stored

\* Nobody but c moves.
Others(c) == \A d \in Callers \ {c} : srv'[d] = srv[d] /\ cl'[d] = cl[d]

(* A step of c that has nothing to do with the refresh under way, or that  *)
(* serves it without a write.                                              *)
LEMMA Aside ==
  ASSUME Shared, NEW c \in Callers, Others(c), inflight \subseteq Callers,
         UNCHANGED <<pair, inflight>>, store'.rt = store.rt \/ store'.rt = 0,
         \/ cl'[c].at = cl[c].at
         \/ /\ cl[c].at \notin {"wait", "posted", "persist"}
            /\ cl'[c].at \notin {"wait", "posted", "persist"},
         srv'[c].at \in {"refresh", "rotate"} =>
            srv[c].at \in {"refresh", "rotate"} /\ srv'[c].tok = srv[c].tok /\ cl'[c].at = "posted",
         srv'[c].at = "issue" => cl'[c].at \in {"posted", "signing"},
         srv'[c].at = "signin" => cl'[c].at = "signing",
         srv'[c].at = "me" => cl'[c].at = "asked",
         srv'[c].at \notin {"signout", "deny"},
         \A p \in Pairs : Arriving(c, p)' => Arriving(c, p),
         Replacing(c) => Replacing(c)'
  PROVE  Shared'
<1> USE DEF Shared
<1>1. Sharers'
  BY DEF Sharers, Others
<1>2. Served'
  BY DEF Served, Others
<1>3. \A d \in Callers, p \in Pairs : Arriving(d, p)' => Arriving(d, p)
  BY DEF Arriving, Others
<1>4. \A d \in Callers : srv'[d].at \in {"refresh", "rotate"} =>
                           srv[d].at \in {"refresh", "rotate"} /\ srv'[d].tok = srv[d].tok
  BY DEF Others
<1>5. Arrivals'
  <2> SUFFICES ASSUME NEW d \in Callers, NEW p \in Pairs, Arriving(d, p)'
               PROVE  /\ pair'[p].state = "active" /\ store'.rt # p
                      /\ \A e \in Callers :
                           /\ e # d => ~Arriving(e, p)'
                           /\ srv'[e].at \in {"refresh", "rotate"} => srv'[e].tok # p
    BY DEF Arrivals
  <2>1. /\ pair[p].state = "active" /\ store.rt # p
        /\ \A e \in Callers : /\ e # d => ~Arriving(e, p)
                              /\ srv[e].at \in {"refresh", "rotate"} => srv[e].tok # p
    BY <1>3 DEF Arrivals
  <2>2. p # 0
    BY SessionsAssumption DEF Pairs
  <2> QED
    BY <1>3, <1>4, <2>1, <2>2
<1>6. Stored'
  <2>1. \A d \in inflight : Replacing(d) => Replacing(d)'
    BY DEF Replacing, Others
  <2> QED
    BY <2>1 DEF Stored
<1> QED
  BY <1>1, <1>2, <1>5, <1>6

LEMMA ServedAside ==
  ASSUME ApiInv, Shared, NEW c \in Callers, RefreshRead(c) \/ SignInRead(c) \/ Me(c)
  PROVE  Shared'
<1> USE SessionsAssumption
<1>1. srv \in [Callers -> SrvRow] /\ inflight \subseteq Callers
  BY DEF ApiInv, SessionsTyped
<1>2. UNCHANGED <<pair, inflight, store, cl>>
  BY DEF RefreshRead, SignInRead, Me, server
<1>3. ASSUME NEW p, Answer(c, p) PROVE Others(c) /\ srv'[c].at = "answered" /\ srv'[c].out = p
  BY <1>1, <1>2, <1>3 DEF Answer, Others, SrvRow
<1>4. 0 \notin Pairs
  BY DEF Pairs
<1>5. CASE RefreshRead(c)
  <2>1. srv[c].at = "refresh" /\ cl[c].at = "posted"
    BY <1>5 DEF RefreshRead, Shared, Served
  <2>2. CASE Answer(c, 0)
    <3>1. ~Replacing(c) /\ \A p \in Pairs : ~Arriving(c, p)'
      BY <1>2, <1>3, <1>4, <2>1, <2>2 DEF Arriving, Replacing
    <3> QED
      BY <1>1, <1>2, <1>3, <2>2, <3>1, Aside
  <2>3. CASE ~Answer(c, 0)
    <3>1. PICK row : row = pair[srv[c].tok]
      OBVIOUS
    <3>2. srv' = [srv EXCEPT ![c].at = "rotate", ![c].pw = row.pw,
                             ![c].late = row.late, ![c].epoch = resets]
      BY <1>5, <2>3, <3>1 DEF RefreshRead
    <3>3. srv'[c].at = "rotate" /\ srv'[c].tok = srv[c].tok /\ Others(c)
      BY <1>1, <1>2, <3>2 DEF SrvRow, Others
    <3>4. ~Replacing(c) /\ \A p \in Pairs : ~Arriving(c, p)'
      BY <1>2, <2>1, <3>3 DEF Arriving, Replacing
    <3> QED
      BY <1>1, <1>2, <2>1, <3>3, <3>4, Aside
  <2> QED
    BY <2>2, <2>3
<1>6. CASE SignInRead(c)
  <2>1. srv[c].at = "signin" /\ cl[c].at = "signing"
    BY <1>6 DEF SignInRead, Shared, Served
  <2>2. CASE Answer(c, 0)
    <3>1. ~Replacing(c) /\ \A p \in Pairs : ~Arriving(c, p)'
      BY <1>2, <1>3, <1>4, <2>1, <2>2 DEF Arriving, Replacing
    <3> QED
      BY <1>1, <1>2, <1>3, <2>2, <3>1, Aside
  <2>3. CASE ~Answer(c, 0)
    <3>1. srv' = [srv EXCEPT ![c].at = "issue", ![c].epoch = resets]
      BY <1>6, <2>3 DEF SignInRead
    <3>2. srv'[c].at = "issue" /\ Others(c)
      BY <1>1, <1>2, <3>1 DEF SrvRow, Others
    <3>3. ~Replacing(c) /\ \A p \in Pairs : ~Arriving(c, p)'
      BY <1>2, <2>1, <3>2 DEF Arriving, Replacing
    <3> QED
      BY <1>1, <1>2, <2>1, <3>2, <3>3, Aside
  <2> QED
    BY <2>2, <2>3
<1>7. CASE Me(c)
  <2>1. srv[c].at = "me" /\ cl[c].at = "asked"
    BY <1>7 DEF Me, Shared, Served
  <2>2. PICK p : Answer(c, p)
    BY <1>7 DEF Me
  <2>3. ~Replacing(c) /\ \A o \in Pairs : ~Arriving(c, o)'
    BY <1>2, <2>1 DEF Arriving, Replacing
  <2> QED
    BY <1>1, <1>2, <1>3, <2>2, <2>3, Aside
<1> QED
  BY <1>5, <1>6, <1>7

(* Rotate and issue: the old token goes, and its replacement is on its way *)
(* to the one caller that refreshes.                                       *)
LEMMA RotateShared ==
  ASSUME ApiInv, Shared, NEW c \in Callers, Rotate(c)
  PROVE  Shared'
<1> USE SessionsAssumption DEF Shared
<1>1. srv \in [Callers -> SrvRow] /\ pair \in [Pairs -> PairRow] /\ inflight \subseteq Callers
  BY DEF ApiInv, SessionsTyped
<1>2. srv[c].at = "rotate" /\ cl[c].at = "posted" /\ c \in inflight
  BY DEF Rotate, Served, Sharers
<1>3. UNCHANGED <<cl, store, inflight>>
  BY DEF Rotate
<1>4. /\ srv'[c].at = "issue" /\ srv'[c].tok = srv[c].tok
      /\ \A d \in Callers \ {c} : srv'[d] = srv[d]
  BY <1>1 DEF Rotate, SrvRow
<1>5. srv[c].tok \in Pairs
  BY <1>1, <1>2 DEF ApiInv, Known, SrvHolds, SrvRow, Pairs
<1>6. \A p \in Pairs \ {srv[c].tok} : pair'[p] = pair[p]
  BY <1>1 DEF Rotate
<1>7. Sharers' /\ Served'
  BY <1>2, <1>3, <1>4 DEF Sharers, Served
<1>8. \A d \in Callers, p \in Pairs : Arriving(d, p)' => Arriving(d, p)
  BY <1>2, <1>3, <1>4 DEF Arriving
<1>9. Arrivals'
  BY <1>2, <1>3, <1>4, <1>6, <1>8 DEF Arrivals
<1>10. Replacing(c)'
  BY <1>2, <1>3, <1>4 DEF Replacing
<1>11. Stored'
  BY <1>2, <1>3, <1>10 DEF Stored
<1> QED
  BY <1>7, <1>9, <1>11

LEMMA IssueShared ==
  ASSUME ApiInv, Shared, NEW c \in Callers, Issue(c)
  PROVE  Shared'
<1> USE SessionsAssumption DEF Shared
<1>1. /\ srv \in [Callers -> SrvRow] /\ pair \in [Pairs -> PairRow] /\ inflight \subseteq Callers
      /\ cl \in [Callers -> ClRow]
  BY DEF ApiInv, SessionsTyped
<1>2. srv[c].at = "issue" /\ cl[c].at \in {"posted", "signing"}
  BY DEF Issue, Served
<1>3. UNCHANGED <<cl, store, inflight>>
  BY DEF Issue
<1>4a. PICK p \in Pairs : \E row :
         pair[p] = NoPair /\ pair' = [pair EXCEPT ![p] = row] /\ row.state = "active" /\ Answer(c, p)
  BY DEF Issue, Fresh
<1>4. PICK row :
        pair[p] = NoPair /\ pair' = [pair EXCEPT ![p] = row] /\ row.state = "active" /\ Answer(c, p)
  BY <1>4a
<1>5. pair'[p].state = "active" /\ \A o \in Pairs \ {p} : pair'[o] = pair[o]
  BY <1>1, <1>4
<1>6. /\ srv'[c].at = "answered" /\ srv'[c].out = p
      /\ \A d \in Callers \ {c} : srv'[d] = srv[d]
  BY <1>1, <1>4 DEF Answer, SrvRow
<1>7. p # 0 /\ pair[p].state = "none"
  BY <1>4 DEF NoPair, Pairs
<1>8. /\ store.rt # p
      /\ \A d \in Callers : srv[d].tok # p /\ srv[d].out # p /\ cl[d].rt # p
  BY <1>7 DEF ApiInv, Known, SrvHolds, ClHolds, Issued
<1>9. Sharers' /\ Served'
  BY <1>2, <1>3, <1>6 DEF Sharers, Served
<1>10. \A d \in Callers, o \in Pairs : Arriving(d, o)' => (d = c /\ o = p) \/ (o # p /\ Arriving(d, o))
  BY <1>2, <1>3, <1>6, <1>8 DEF Arriving
<1>11. \A d \in Callers : srv'[d].at \in {"refresh", "rotate"} => d # c /\ srv'[d] = srv[d]
  BY <1>6
<1>12. Arrivals'
  <2> SUFFICES ASSUME NEW d \in Callers, NEW o \in Pairs, Arriving(d, o)'
               PROVE  /\ pair'[o].state = "active" /\ store'.rt # o
                      /\ \A e \in Callers :
                           /\ e # d => ~Arriving(e, o)'
                           /\ srv'[e].at \in {"refresh", "rotate"} => srv'[e].tok # o
    BY DEF Arrivals
  <2>1. CASE o = p
    BY <1>3, <1>5, <1>8, <1>10, <1>11, <2>1
  <2>2. CASE o # p
    BY <1>3, <1>5, <1>10, <1>11, <2>2 DEF Arrivals
  <2> QED
    BY <2>1, <2>2
<1>13. \A d \in inflight : Replacing(d) => Replacing(d)'
  BY <1>1, <1>2, <1>3, <1>6, <1>7 DEF Replacing
<1>14. Stored'
  BY <1>3, <1>5, <1>13, <1>4, <1>1, <1>8 DEF Stored, ApiInv, SessionsTyped, Pairs
<1> QED
  BY <1>9, <1>12, <1>14

(* The calls that neither join nor send a refresh.                         *)
LEMMA CallAside ==
  ASSUME ApiInv, Shared, NEW c \in Callers,
         \/ NothingToRefresh(c) \/ PostMe(c) \/ MeAnswered(c) \/ SignedOut(c) \/ Orphan(c)
         \/ SignInAnswered(c) /\ srv[c].out = 0
         \/ Call(c, "token") \/ Call(c, "boot")
         \/ \E pw \in 1 .. password : AskSignIn(c, pw)
  PROVE  Shared'
<1> USE SessionsAssumption
<1>1. /\ srv \in [Callers -> SrvRow] /\ cl \in [Callers -> ClRow] /\ inflight \subseteq Callers
      /\ srv[c] \in SrvRow /\ cl[c] \in ClRow
  BY DEF ApiInv, SessionsTyped
<1>2. UNCHANGED <<pair, inflight>> /\ (store' = store \/ store'.rt = 0)
  BY BlankRows DEF NothingToRefresh, PostMe, MeAnswered, SignedOut, Orphan, SignInAnswered,
     Call, AskSignIn, server, Empty
<1>3. Quiet.at = "idle" /\ Free.at = "idle"
  BY DEF Quiet, Free
<1>4. Served
  BY DEF Shared
<1>5. ASSUME Others(c), cl[c].at \notin {"wait", "posted", "persist"},
             \/ cl'[c].at \in {"idle", "refresh", "me"} /\ srv'[c].at = "idle"
             \/ cl'[c].at = "signing" /\ srv'[c].at = "signin"
             \/ cl'[c].at = "asked" /\ srv'[c].at = "me"
      PROVE  Shared'
  <2>1. ~Replacing(c) /\ \A p \in Pairs : ~Arriving(c, p)'
    BY <1>5 DEF Replacing, Arriving
  <2> QED
    BY <1>1, <1>2, <1>5, <2>1, Aside
<1>6. CASE NothingToRefresh(c)
  <2>1. cl[c].at = "refresh" /\ cl' = [cl EXCEPT ![c] = Free] /\ srv' = srv
    BY <1>6 DEF NothingToRefresh, At, Return
  <2>2. Others(c) /\ cl'[c].at = "idle" /\ srv'[c].at \in {"idle", "answered"}
    BY <1>1, <1>3, <1>4, <2>1 DEF Others, Served, SrvRow
  <2>3. ~Replacing(c) /\ \A p \in Pairs : ~Arriving(c, p)'
    BY <2>1, <2>2 DEF Replacing, Arriving
  <2> QED
    BY <1>1, <1>2, <2>1, <2>2, <2>3, Aside
<1>7. CASE PostMe(c)
  <2>1. cl[c].at = "me" /\ cl' = [cl EXCEPT ![c].at = "asked"]
    BY <1>7 DEF PostMe, At, Move
  <2>2. srv' = [srv EXCEPT ![c] = [Quiet EXCEPT !.at = "me", !.acc = cl[c].acc]]
    BY <1>7 DEF PostMe, Post
  <2>3. Others(c) /\ cl'[c].at = "asked"
    BY <1>1, <2>1, <2>2 DEF Others, ClRow
  <2>4. srv'[c].at = "me"
    BY <1>1, <2>2 DEF Quiet
  <2> QED
    BY <1>5, <2>1, <2>3, <2>4
<1>8. CASE MeAnswered(c) \/ SignedOut(c) \/ (SignInAnswered(c) /\ srv[c].out = 0)
  <2>1. cl[c].at \in {"asked", "leaving", "signing"} /\ srv' = [srv EXCEPT ![c] = Quiet]
    BY <1>8 DEF MeAnswered, SignedOut, SignInAnswered, At, Take
  <2>2. cl' = [cl EXCEPT ![c] = Free] \/ cl' = [cl EXCEPT ![c].at = "refresh"]
    BY <1>8 DEF MeAnswered, SignedOut, SignInAnswered, Return, Move
  <2>3. Others(c) /\ srv'[c].at = "idle" /\ cl'[c].at \in {"idle", "refresh"}
    BY <1>1, <1>3, <2>1, <2>2 DEF Others, ClRow
  <2> QED
    BY <1>5, <2>1, <2>3
<1>9. CASE Orphan(c)
  <2>1. /\ srv[c].at = "answered" /\ cl' = cl /\ srv' = [srv EXCEPT ![c] = Quiet]
        /\ cl[c].at \notin {"posted", "asked", "signing", "leaving"}
    BY <1>9 DEF Orphan
  <2>2. Others(c) /\ srv'[c].at = "idle" /\ cl'[c] = cl[c]
    BY <1>1, <1>3, <2>1 DEF Others
  <2>3. (Replacing(c) => Replacing(c)') /\ \A p \in Pairs : Arriving(c, p)' => Arriving(c, p)
    BY <2>1, <2>2 DEF Replacing, Arriving
  <2> QED
    BY <1>1, <1>2, <2>1, <2>2, <2>3, Aside
<1>10. CASE Call(c, "token") \/ Call(c, "boot")
  <2>1. cl[c].at = "idle" /\ srv' = srv /\ srv[c] = Quiet
    BY <1>10 DEF Call, At
  <2>2. PICK q : q.at \in {"idle", "refresh", "me"} /\ cl' = [cl EXCEPT ![c] = q]
    BY <1>3, <1>10 DEF Call
  <2>3. Others(c) /\ srv'[c].at = "idle" /\ cl'[c].at \in {"idle", "refresh", "me"}
    BY <1>1, <1>3, <2>1, <2>2 DEF Others
  <2> QED
    BY <1>5, <2>1, <2>3
<1>11. ASSUME NEW pw \in 1 .. password, AskSignIn(c, pw) PROVE Shared'
  <2>1. cl[c].at = "idle" /\ cl' = [cl EXCEPT ![c] = [Free EXCEPT !.at = "signing", !.op = "token"]]
    BY <1>11 DEF AskSignIn, At
  <2>2. srv' = [srv EXCEPT ![c] = [Quiet EXCEPT !.at = "signin", !.pw = pw]]
    BY <1>11 DEF AskSignIn, Post
  <2>3. Others(c) /\ cl'[c].at = "signing"
    BY <1>1, <2>1, <2>2 DEF Others, Free
  <2>4. srv'[c].at = "signin"
    BY <1>1, <2>2 DEF Quiet
  <2> QED
    BY <1>5, <2>1, <2>3, <2>4
<1> QED
  BY <1>6, <1>7, <1>8, <1>9, <1>10, <1>11

(* One caller sends the refresh, and only while none is under way.         *)
LEMMA JoinShared ==
  ASSUME ApiInv, Shared, NEW c \in Callers, kind # "web", JoinRefresh(c) \/ PostRefresh(c)
  PROVE  Shared'
<1> USE SessionsAssumption DEF Shared
<1>1. /\ srv \in [Callers -> SrvRow] /\ cl \in [Callers -> ClRow] /\ inflight \subseteq Callers
      /\ srv[c] \in SrvRow /\ cl[c] \in ClRow
  BY DEF ApiInv, SessionsTyped
<1>2. cl[c].at = "refresh" /\ UNCHANGED <<pair, store>>
  BY DEF JoinRefresh, PostRefresh, At, server
<1>3. CASE JoinRefresh(c)
  <2>1. /\ srv' = srv /\ inflight' = inflight \cup {c} /\ cl'[c].at = "wait"
        /\ \A d \in Callers \ {c} : cl'[d] = cl[d]
    BY <1>1, <1>3 DEF JoinRefresh, Move, ClRow
  <2>2. Sharers'
    <3>1. \A d \in inflight : d # c /\ cl'[d] = cl[d]
      BY <1>1, <1>2, <2>1 DEF Sharers
    <3>2. \A d \in inflight' : cl'[d].at \in {"posted", "persist"} => d \in inflight
      BY <2>1
    <3>3. \A d \in inflight' : cl'[d].at \in {"wait", "posted", "persist"}
      BY <2>1, <3>1 DEF Sharers
    <3>4. \A d \in Callers : cl'[d].at \in {"wait", "posted"} => d \in inflight'
      BY <2>1 DEF Sharers
    <3>5. \A d, e \in inflight' :
            cl'[d].at \in {"posted", "persist"} /\ cl'[e].at \in {"posted", "persist"} => d = e
      BY <3>1, <3>2 DEF Sharers
    <3> QED
      BY <3>3, <3>4, <3>5 DEF Sharers
  <2>3. Served'
    BY <1>2, <2>1 DEF Served
  <2>4. \A d \in Callers, p \in Pairs : Arriving(d, p)' => Arriving(d, p)
    BY <1>2, <2>1 DEF Arriving
  <2>5. Arrivals'
    BY <1>2, <2>1, <2>4 DEF Arrivals
  <2>6. Stored'
    BY <1>1, <1>2, <2>1 DEF Stored, Replacing
  <2> QED
    BY <2>2, <2>3, <2>5, <2>6
<1>4. CASE PostRefresh(c)
  <2>1. /\ inflight = {} /\ inflight' = {c} /\ cl'[c].at = "posted"
        /\ \A d \in Callers \ {c} : cl'[d] = cl[d]
    <3>1. inflight = {} /\ inflight' = {c} /\ cl' = [cl EXCEPT ![c].at = "posted"]
      BY <1>4 DEF PostRefresh, Move
    <3> QED
      BY <1>1, <3>1 DEF ClRow
  <2>2. srv' = [srv EXCEPT ![c] = [Quiet EXCEPT !.at = "refresh", !.tok = store.rt]]
    BY <1>4 DEF PostRefresh, Post
  <2>3. /\ srv'[c].at = "refresh" /\ srv'[c].tok = store.rt
        /\ \A d \in Callers \ {c} : srv'[d] = srv[d]
    BY <1>1, <2>2 DEF Quiet
  <2>4. Sharers'
    BY <2>1 DEF Sharers
  <2>5. Served'
    BY <2>1, <2>3 DEF Served
  <2>6. \A d \in Callers, p \in Pairs : Arriving(d, p)' => Arriving(d, p)
    BY <2>1, <2>3 DEF Arriving
  <2>7. Arrivals'
    BY <1>2, <2>3, <2>6 DEF Arrivals
  <2>8. Stored'
    BY <1>2, <2>1 DEF Stored
  <2> QED
    BY <2>4, <2>5, <2>7, <2>8
<1> QED
  BY <1>3, <1>4

(* The refresh is settled: nobody waits for it any more, and what is stored *)
(* is nothing, the token that was there and is active, or the new one.     *)
LEMMA SettleShared ==
  ASSUME ApiInv, Shared, NEW c \in inflight, NEW p, kind # "web", Settle(c, p),
         cl[c].at \in {"posted", "persist"}, UNCHANGED pair,
         srv'[c].at \in {"idle", "answered"}, \A d \in Callers \ {c} : srv'[d] = srv[d],
         \/ store'.rt = 0
         \/ store'.rt = store.rt /\ pair[store.rt].state = "active"
         \/ store'.rt \in Pairs /\ Arriving(c, store'.rt)
  PROVE  Shared'
<1> USE SessionsAssumption DEF Shared
<1>1. cl \in [Callers -> ClRow] /\ inflight \subseteq Callers
  BY DEF ApiInv, SessionsTyped
<1>2. inflight' = {}
  BY DEF Settle
<1>3. /\ \A d \in inflight : cl'[d].at \in {"idle", "me"}
      /\ \A d \in Callers \ inflight : cl'[d] = cl[d]
  BY <1>1 DEF Settle, Free, ClRow
<1>4. \A d \in inflight : d # c => cl[d].at = "wait"
  BY DEF Sharers
<1>5. Sharers'
  BY <1>2, <1>3 DEF Sharers
<1>6. Served'
  BY <1>3, <1>4 DEF Served
<1>7. \A d \in Callers, o \in Pairs : Arriving(d, o)' => d # c /\ d \notin inflight /\ Arriving(d, o)
  BY <1>3 DEF Arriving
<1>8. Arrivals'
  <2> SUFFICES ASSUME NEW d \in Callers, NEW o \in Pairs, Arriving(d, o)'
               PROVE  /\ pair'[o].state = "active" /\ store'.rt # o
                      /\ \A e \in Callers :
                           /\ e # d => ~Arriving(e, o)'
                           /\ srv'[e].at \in {"refresh", "rotate"} => srv'[e].tok # o
    BY DEF Arrivals
  <2>1. Arriving(d, o) /\ d # c
    BY <1>7
  <2>2. /\ pair[o].state = "active" /\ store.rt # o /\ ~Arriving(c, o)
        /\ \A e \in Callers : /\ e # d => ~Arriving(e, o)
                              /\ srv[e].at \in {"refresh", "rotate"} => srv[e].tok # o
    BY <1>1, <2>1 DEF Arrivals
  <2>3. store'.rt # o
    BY <2>2 DEF Pairs
  <2> QED
    BY <1>7, <2>2, <2>3
<1>9. Stored'
  BY <1>1 DEF Stored, Arrivals
<1> QED
  BY <1>5, <1>6, <1>8, <1>9

LEMMA AnsweredShared ==
  ASSUME ApiInv, Shared, NEW c \in Callers, kind # "web",
         \/ RefreshRefused(c) \/ RefreshGranted(c) \/ PersistRefresh(c)
         \/ SignInAnswered(c) /\ srv[c].out # 0
  PROVE  Shared'
<1> USE SessionsAssumption DEF Shared
<1>1. /\ srv \in [Callers -> SrvRow] /\ cl \in [Callers -> ClRow] /\ inflight \subseteq Callers
      /\ srv[c] \in SrvRow /\ cl[c] \in ClRow /\ store \in [at: 0..MaxPairs, rt: 0..MaxPairs]
  BY DEF ApiInv, SessionsTyped
<1>2. UNCHANGED pair
  BY DEF RefreshRefused, RefreshGranted, PersistRefresh, SignInAnswered, server
<1>3. ASSUME Take(c)
      PROVE  /\ srv[c].at = "answered" /\ srv'[c] = Quiet /\ srv'[c].at = "idle"
             /\ \A d \in Callers \ {c} : srv'[d] = srv[d]
  BY <1>1, <1>3 DEF Take, Quiet
<1>4. srv[c].out # 0 => srv[c].out \in Pairs
  BY <1>1 DEF SrvRow, Pairs
<1>5. CASE RefreshRefused(c)
  <2>1. Take(c) /\ cl[c].at = "posted" /\ srv[c].out = 0 /\ Settle(c, 0)
    BY <1>5 DEF RefreshRefused, At
  <2>2. c \in inflight
    BY <2>1 DEF Sharers
  <2>3. store'.rt = 0 \/ store' = store
    BY <1>5, BlankRows DEF RefreshRefused
  <2>4. store.rt = 0 \/ pair[store.rt].state = "active"
    <3>1. ~Replacing(c) /\ \A d \in inflight : Replacing(d) => d = c
      BY <1>3, <2>1, <2>2 DEF Replacing, Sharers
    <3> QED
      BY <3>1 DEF Stored
  <2> QED
    BY <1>2, <1>3, <2>1, <2>2, <2>3, <2>4, SettleShared
<1>6. CASE RefreshGranted(c) /\ kind # "mobile"
  <2>1. PICK p \in Pairs : p = srv[c].out
    BY <1>4, <1>6 DEF RefreshGranted
  <2>2. /\ Take(c) /\ cl[c].at = "posted" /\ store' = [at |-> p, rt |-> p] /\ Settle(c, p)
    BY <1>6, <2>1 DEF RefreshGranted, At
  <2>3. c \in inflight
    BY <2>2 DEF Sharers
  <2>4. Arriving(c, p) /\ store'.rt = p
    BY <1>3, <2>1, <2>2 DEF Arriving
  <2> QED
    BY <1>2, <1>3, <2>1, <2>2, <2>3, <2>4, SettleShared
<1>7. ASSUME NEW p \in Pairs, p = srv[c].out, Take(c), cl[c].at \in {"posted", "signing"},
             store'.rt = store.rt, UNCHANGED inflight,
             cl' = [cl EXCEPT ![c].at = "persist", ![c].rt = p]
      PROVE  Shared'
  <2>1. cl'[c].at = "persist" /\ cl'[c].rt = p /\ \A d \in Callers \ {c} : cl'[d] = cl[d]
    BY <1>1, <1>7 DEF ClRow
  <2>2. Sharers'
    <3>1. \A d \in inflight :
            /\ cl'[d].at \in {"posted", "persist"} => cl[d].at \in {"posted", "persist"}
            /\ cl'[d].at \in {"wait", "posted", "persist"}
      BY <1>1, <1>7, <2>1 DEF Sharers
    <3>2. \A d \in Callers : cl'[d].at \in {"wait", "posted"} => d \in inflight
      BY <2>1 DEF Sharers
    <3>3. \A d, e \in inflight :
            cl'[d].at \in {"posted", "persist"} /\ cl'[e].at \in {"posted", "persist"} => d = e
      BY <3>1 DEF Sharers
    <3> QED
      BY <1>7, <3>1, <3>2, <3>3 DEF Sharers
  <2>3. Served'
    <3>1. srv'[c].at = "idle" /\ \A d \in Callers \ {c} : srv'[d] = srv[d] /\ cl'[d] = cl[d]
      BY <1>3, <1>7, <2>1
    <3> QED
      BY <3>1 DEF Served
  <2>4. \A d \in Callers, o \in Pairs : Arriving(d, o)' => Arriving(d, o)
    BY <1>3, <1>7, <2>1 DEF Arriving
  <2>5. \A d \in Callers : srv'[d].at \in {"refresh", "rotate"} => srv'[d] = srv[d]
    BY <1>3, <1>7
  <2>6. Arrivals'
    BY <1>2, <1>7, <2>4, <2>5 DEF Arrivals
  <2>7. \A d \in inflight : Replacing(d) => Replacing(d)'
    BY <1>1, <1>3, <1>7, <2>1 DEF Replacing
  <2>8. Stored'
    BY <1>2, <1>7, <2>7 DEF Stored
  <2> QED
    BY <2>2, <2>3, <2>6, <2>8
<1>8. CASE RefreshGranted(c) /\ kind = "mobile"
  <2>1. PICK p \in Pairs : p = srv[c].out
    BY <1>4, <1>8 DEF RefreshGranted
  <2>2. /\ Take(c) /\ cl[c].at = "posted" /\ UNCHANGED inflight
        /\ store' = [store EXCEPT !.at = p]
        /\ cl' = [cl EXCEPT ![c].at = "persist", ![c].rt = p]
    BY <1>8, <2>1 DEF RefreshGranted, At
  <2>3. store'.rt = store.rt
    BY <1>1, <2>2
  <2> QED
    BY <1>7, <2>1, <2>2, <2>3
\* A pair is stored by a caller that no refresh is shared with.
<1>9. ASSUME NEW p \in Pairs, Arriving(c, p), c \notin inflight, store'.rt = p,
             Return(c), UNCHANGED inflight,
             srv'[c].at \in {"idle", "answered"}, \A d \in Callers \ {c} : srv'[d] = srv[d]
      PROVE  Shared'
  <2>1. cl'[c].at = "idle" /\ \A d \in Callers \ {c} : cl'[d] = cl[d]
    BY <1>1, <1>9 DEF Return, Free
  <2>2. Sharers'
    BY <1>1, <1>9, <2>1 DEF Sharers
  <2>3. Served'
    BY <1>9, <2>1 DEF Served
  <2>4. \A d \in Callers, o \in Pairs : Arriving(d, o)' => Arriving(d, o) /\ d # c
    BY <1>9, <2>1 DEF Arriving
  <2>5. \A d \in Callers : srv'[d].at \in {"refresh", "rotate"} => srv'[d] = srv[d]
    BY <1>9
  <2>6. Arrivals'
    BY <1>2, <1>9, <2>4, <2>5 DEF Arrivals
  <2>7. Stored'
    BY <1>2, <1>9 DEF Stored, Arrivals
  <2> QED
    BY <2>2, <2>3, <2>6, <2>7
<1>10. CASE PersistRefresh(c)
  <2>1. cl[c].at = "persist" /\ srv' = srv /\ store'.rt = cl[c].rt
    BY <1>1, <1>10 DEF PersistRefresh, At
  <2>2. srv[c].at \in {"idle", "answered"}
    BY <1>1, <2>1 DEF Served, SrvRow
  <2>3. CASE cl[c].rt = 0
    <3>1. CASE c \in inflight
      BY <1>2, <1>10, <2>1, <2>2, <2>3, <3>1, SettleShared DEF PersistRefresh
    <3>2. CASE c \notin inflight
      <4>1. Return(c) /\ UNCHANGED inflight
        BY <1>10, <3>2 DEF PersistRefresh
      <4>2. cl'[c].at = "idle" /\ \A d \in Callers \ {c} : cl'[d] = cl[d]
        BY <1>1, <4>1 DEF Return, Free
      <4>3. Sharers' /\ Served'
        BY <1>1, <2>1, <2>2, <3>2, <4>1, <4>2 DEF Sharers, Served
      <4>4. \A d \in Callers, o \in Pairs : Arriving(d, o)' => Arriving(d, o)
        BY <2>1, <4>2 DEF Arriving
      <4>5. Arrivals'
        BY <1>2, <2>1, <2>3, <4>4 DEF Arrivals, Pairs
      <4>6. Stored'
        BY <2>1, <2>3 DEF Stored
      <4> QED
        BY <4>3, <4>5, <4>6
    <3> QED
      BY <3>1, <3>2
  <2>4. CASE cl[c].rt # 0
    <3>1. cl[c].rt \in Pairs /\ Arriving(c, cl[c].rt)
      BY <1>1, <2>1, <2>4 DEF Arriving, ClRow, Pairs
    <3>2. CASE c \in inflight
      BY <1>2, <1>10, <2>1, <2>2, <3>1, <3>2, SettleShared DEF PersistRefresh
    <3>3. CASE c \notin inflight
      BY <1>9, <1>10, <2>1, <2>2, <3>1, <3>3 DEF PersistRefresh
    <3> QED
      BY <3>2, <3>3
  <2> QED
    BY <2>3, <2>4
<1>11. CASE SignInAnswered(c) /\ srv[c].out # 0
  <2>1. PICK p \in Pairs : p = srv[c].out
    BY <1>4, <1>11
  <2>2. Take(c) /\ cl[c].at = "signing" /\ UNCHANGED inflight /\ p # 0
    BY <1>11, <2>1 DEF SignInAnswered, At
  <2>3. CASE kind = "mobile"
    <3>1. store' = [store EXCEPT !.at = p] /\ cl' = [cl EXCEPT ![c].at = "persist", ![c].rt = p]
      BY <1>11, <2>1, <2>2, <2>3 DEF SignInAnswered
    <3>2. store'.rt = store.rt
      BY <1>1, <3>1
    <3> QED
      BY <1>7, <2>1, <2>2, <3>1, <3>2
  <2>4. CASE kind # "mobile"
    <3>1. store' = [at |-> p, rt |-> p] /\ Return(c)
      BY <1>11, <2>1, <2>2, <2>4 DEF SignInAnswered
    <3>2. Arriving(c, p) /\ c \notin inflight
      BY <1>3, <2>1, <2>2 DEF Arriving, Sharers
    <3> QED
      BY <1>3, <1>9, <2>2, <3>1, <3>2
  <2> QED
    BY <2>3, <2>4
<1> QED
  BY <1>5, <1>6, <1>8, <1>10, <1>11

(* Every step keeps the invariant of the shared refresh.                   *)
LEMMA SharedStep ==
  ASSUME ApiInv, SharedInv, [SessionsNext]_sessionVars
  PROVE  SharedInv'
<1> SUFFICES ASSUME Undisturbed' PROVE Shared'
  BY DEF SharedInv, Undisturbed
<1>1. password \in Nat /\ password >= 1 /\ resetting \in [Submits -> {"no", "found", "taken", "hashed", "done"}]
  BY DEF ApiInv, SessionsTyped, Passwords
<1>2. Undisturbed
  <2>1. kind' = kind /\ (faulted => faulted') /\ (password' = 1 => password = 1)
    <3>1. ASSUME NEW c \in Callers, ClientStep(c) PROVE faulted => faulted'
      BY <3>1 DEF ClientStep, Client, Start, Abandon, JoinRefresh, NothingToRefresh, PostRefresh,
         RefreshRefused, RefreshGranted, PersistRefresh, PostMe, MeAnswered, SignInAnswered,
         SignedOut, Orphan, Call, AskSignIn, SignOut
    <3>2. ASSUME NEW c \in Callers, ClientStep(c) PROVE kind' = kind /\ password' = password
      BY <3>2, ClientLeaves DEF setup, server, ApiInv, SessionsTyped
    <3>3. ASSUME NEW c \in Callers, Api(c)
          PROVE  kind' = kind /\ faulted' = faulted /\ password' = password
      BY <3>3 DEF Api, setup, server, RefreshRead, Rotate, Issue, SignInRead, SignOutRefresh,
         SignOutAccess, Me
    <3>4. ASSUME NEW r \in Submits, TakeGet(r) \/ TakeDelete(r) \/ ResetHash(r) \/ ResetRevokeAll(r)
          PROVE  kind' = kind /\ faulted' = faulted /\ (password' = 1 => password = 1)
      BY <1>1, <3>4 DEF setup, TakeGet, TakeDelete, ResetHash, ResetRevokeAll
    <3>5. CASE RequestReset \/ ClockTicks \/ UNCHANGED sessionVars
      BY <3>5 DEF RequestReset, ClockTicks, sessionVars, setup, server
    <3> QED
      BY <3>1, <3>2, <3>3, <3>4, <3>5 DEF SessionsNext, ClientStep
  <2> QED
    BY <2>1 DEF Undisturbed
<1>3. Shared
  BY <1>2 DEF SharedInv, Undisturbed
<1>4. ASSUME UNCHANGED <<pair, srv, cl, store, inflight>> PROVE Shared'
  BY <1>3, <1>4 DEF Shared, Sharers, Served, Arrivals, Arriving, Stored, Replacing
<1>5. ASSUME NEW c \in Callers, Api(c) PROVE Shared'
  <2>1. ~SignOutRefresh(c) /\ ~SignOutAccess(c)
    BY <1>3 DEF SignOutRefresh, SignOutAccess, Shared, Served
  <2> QED
    BY <1>3, <1>5, <2>1, ServedAside, RotateShared, IssueShared DEF Api
<1>6. ASSUME NEW c \in Callers, ClientStep(c) PROVE Shared'
  <2>1. kind # "web" /\ ~Abandon(c) /\ ~SignOut(c)
    BY <1>2 DEF Undisturbed, Abandon, SignOut
  <2>2. SignInAnswered(c) => \/ SignInAnswered(c) /\ srv[c].out = 0
                             \/ SignInAnswered(c) /\ srv[c].out # 0
    OBVIOUS
  <2> QED
    BY <1>3, <1>6, <2>1, <2>2, CallAside, JoinShared, AnsweredShared DEF ClientStep, Client, Start
<1>7. ASSUME NEW r \in Submits, TakeGet(r) \/ TakeDelete(r) \/ ResetHash(r) \/ ResetRevokeAll(r)
      PROVE  Shared'
  <2>1. ~ResetRevokeAll(r) /\ ~ResetHash(r)
    BY <1>1, <1>2 DEF Undisturbed, ResetRevokeAll, ResetHash, Reset, ApiInv, Passwords
  <2> QED
    BY <1>4, <1>7, <2>1 DEF TakeGet, TakeDelete
<1>8. CASE RequestReset \/ ClockTicks \/ UNCHANGED sessionVars
  BY <1>4, <1>8 DEF RequestReset, ClockTicks, sessionVars, server
<1> QED
  BY <1>5, <1>6, <1>7, <1>8 DEF SessionsNext, ClientStep

(* A stored token that is not active is being replaced, and then a refresh *)
(* is under way.                                                           *)
LEMMA SharedImplied == SharedInv => HeldTokenLive
BY DEF SharedInv, Shared, Stored, HeldTokenLive

(* Rotation never strands a phone or a desktop that shares its refreshes,  *)
(* however calls, start-ups, sign-ins and answers interleave.              *)
THEOREM AlwaysHeldTokenLive == SessionsSpec => []HeldTokenLive
<1>1. SessionsInit /\ [][SessionsNext]_sessionVars => [](ApiInv /\ SharedInv)
  BY ApiStart, ApiStep, SharedStart, SharedStep, PTL
<1> QED
  BY <1>1, SharedImplied, PTL DEF SessionsSpec

=============================================================================
