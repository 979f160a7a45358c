-------------------------- MODULE Workspace_proofs --------------------------
(***************************************************************************)
(* Machine-checked proofs about Workspace and ChatStream.  Enquiries, chat *)
(* sessions and messages stay sound through every overlap of any number of *)
(* requests on them, for every set of tenants, drafts and patches; and a   *)
(* chat turn reaches its client in order, unchanged and without silent     *)
(* gaps over any number of reconnects, for every list of messages, buffer  *)
(* cap, number of retries and length of a turn.                            *)
(***************************************************************************)
EXTENDS Workspace, ChatStream, SequenceTheorems, FiniteSetTheorems, WellFoundedInduction, TLAPS

-----------------------------------------------------------------------------
(* The inductive invariant of Workspace.                                   *)

CallRow == [at: {"idle", "patch", "promote", "title", "rename", "delete", "append"},
            tenant: Tenants, id: Nat, patch: Patches \cup {<<>>}, loaded: EnquiryRow,
            title: Titles \cup {NoTitle}, next: Nat]

TablesTyped ==
    /\ now \in Nat
    /\ enquiry \in Seq(EnquiryRow) /\ session \in Seq(SessionRow)
    /\ messages \in Seq(Seq(Nat)) /\ Len(messages) = Len(session)
    /\ minted \in Seq(SUBSET Nat) /\ Len(minted) = Len(enquiry)
    /\ raced \subseteq DOMAIN enquiry /\ relinked \subseteq DOMAIN enquiry

\* What a request has read is still true when it writes: whose row it is and,
\* for an append, that no sequence below the one it will insert is free.
Known(r) ==
    /\ r.at \in {"patch", "promote"} =>
         r.id \in DOMAIN enquiry /\ enquiry[r.id].tenant = r.tenant
    /\ r.at = "promote" => r.loaded.session = Null
    /\ r.at \in {"title", "rename", "delete", "append"} =>
         r.id \in DOMAIN session /\ session[r.id].tenant = r.tenant
    /\ r.at = "append" /\ session[r.id].there => r.next <= Len(messages[r.id])

MintedThere == \A e \in DOMAIN minted : minted[e] \subseteq DOMAIN session

RecordInv ==
    /\ TablesTyped
    /\ call \in [Callers -> CallRow] /\ \A c \in Callers : Known(call[c])
    /\ MintedThere /\ DatesOrdered /\ PromotedOnce /\ MessagesDense

LEMMA IdleTyped == IdleCall \in CallRow /\ NoEnquiry \in EnquiryRow /\ IdleCall.at = "idle"
  <1>1. (CHOOSE t \in Tenants : TRUE) \in Tenants
    BY AuditAssumption
  <1>2. NoEnquiry \in EnquiryRow
    BY <1>1 DEF NoEnquiry, EnquiryRow, Statuses, Null
  <1> QED BY <1>1, <1>2 DEF IdleCall, CallRow

LEMMA InvSound ==
  ASSUME RecordInv
  PROVE  RecordsSound
  <1>1. TypeOK
    BY DEF RecordInv, TablesTyped, TypeOK, CallRow
  <1> QED BY <1>1 DEF RecordInv, RecordsSound

LEMMA InitInv == Init => RecordInv
  <1> SUFFICES ASSUME Init PROVE RecordInv
    OBVIOUS
  <1>1. TablesTyped
    BY DEF Init, AuditInit, TablesTyped
  <1>2. call \in [Callers -> CallRow] /\ \A c \in Callers : Known(call[c])
    BY IdleTyped DEF Init, Known
  <1>3. MintedThere /\ DatesOrdered /\ PromotedOnce /\ MessagesDense
    BY DEF Init, MintedThere, DatesOrdered, PromotedOnce, MessagesDense
  <1> QED BY <1>1, <1>2, <1>3 DEF RecordInv

-----------------------------------------------------------------------------
(* What one request leaves to the others.                                  *)

\* Rows are added and keep their tenants; a session that is there has not
\* lost messages.
Grown ==
    /\ DOMAIN enquiry \subseteq DOMAIN enquiry'
    /\ \A e \in DOMAIN enquiry : enquiry'[e].tenant = enquiry[e].tenant
    /\ DOMAIN session \subseteq DOMAIN session'
    /\ \A s \in DOMAIN session :
         /\ session'[s].tenant = session[s].tenant
         /\ session'[s].there => session[s].there /\ Len(messages[s]) <= Len(messages'[s])

LEMMA KnownStays ==
  ASSUME RecordInv, Grown, TablesTyped', NEW c \in Callers, call'[c] = call[c]
  PROVE  Known(call[c])'
  <1> DEFINE r == call[c]
  <1>1. r \in CallRow /\ Known(r)
    BY DEF RecordInv
  <1>2. \A s \in DOMAIN session : Len(messages[s]) \in Nat /\ Len(messages'[s]) \in Nat
    BY DEF RecordInv, TablesTyped, Grown
  <1>3. r.next \in Nat
    BY <1>1 DEF CallRow
  <1> QED BY <1>1, <1>2, <1>3 DEF Known, Grown

\* A request that is answered, while the tables may change.
LEMMA CallsAnswered ==
  ASSUME RecordInv, Grown, TablesTyped', NEW c \in Callers, Answer(c)
  PROVE  call' \in [Callers -> CallRow] /\ \A d \in Callers : Known(call[d])'
  <1>1. call' = [call EXCEPT ![c] = IdleCall] /\ call \in [Callers -> CallRow]
    BY DEF Answer, RecordInv
  <1>2. call' \in [Callers -> CallRow]
    BY <1>1, IdleTyped
  <1>3. ASSUME NEW d \in Callers PROVE Known(call[d])'
    <2>1. CASE d = c
      <3>1. call'[d] = IdleCall
        BY <1>1, <2>1
      <3> QED BY <3>1, IdleTyped DEF Known
    <2>2. CASE d # c
      BY <1>1, <2>2, KnownStays
    <2> QED BY <2>1, <2>2
  <1> QED BY <1>2, <1>3

tables == <<enquiry, session, messages, raced, relinked, minted>>

\* A request reads, or is answered without having written.
LEMMA CallMoves ==
  ASSUME RecordInv, UNCHANGED tables, now' \in Nat, NEW c \in Callers, NEW r \in CallRow,
         Known(r), call' = [call EXCEPT ![c] = r]
  PROVE  RecordInv'
  <1>1. TablesTyped' /\ MintedThere' /\ DatesOrdered' /\ PromotedOnce' /\ MessagesDense'
    BY DEF RecordInv, TablesTyped, MintedThere, DatesOrdered, PromotedOnce, MessagesDense, tables
  <1>2. call' \in [Callers -> CallRow]
    BY DEF RecordInv
  <1>3. ASSUME NEW d \in Callers PROVE Known(call[d])'
    BY DEF RecordInv, Known, tables
  <1> QED BY <1>1, <1>2, <1>3 DEF RecordInv

-----------------------------------------------------------------------------
(* Requests that read, or are answered without having written.             *)

LEMMA ReadSteps ==
  ASSUME RecordInv, NEW c \in Callers,
         \/ RefusePatch(c) \/ PromoteFails(c) \/ AppendFails(c)
         \/ \E t \in Tenants, e \in DOMAIN enquiry :
              \/ \E p \in Patches : LoadEnquiry(c, t, e, p)
              \/ LoadPromotion(c, t, e)
         \/ \E s \in DOMAIN session :
              \/ AppendRead(c, s)
              \/ \E t \in Tenants, text \in Titles :
                   \/ SendMessage(c, t, s, text)
                   \/ Own(c, t, s, "rename", text)
                   \/ Own(c, t, s, "delete", NoTitle)
  PROVE  /\ UNCHANGED tables /\ now' = now
         /\ \E r \in CallRow : Known(r) /\ call' = [call EXCEPT ![c] = r]
  <1>0. Known(IdleCall) /\ IdleCall \in CallRow /\ NoEnquiry \in EnquiryRow
    BY IdleTyped DEF Known
  <1>t. /\ enquiry \in Seq(EnquiryRow) /\ session \in Seq(SessionRow)
        /\ messages \in Seq(Seq(Nat)) /\ Len(messages) = Len(session)
    BY DEF RecordInv, TablesTyped
  <1>1. CASE RefusePatch(c) \/ PromoteFails(c) \/ AppendFails(c)
    BY <1>0, <1>1 DEF RefusePatch, PromoteFails, AppendFails, Answer, tables, auditVars,
                      limiterVars
  <1>2. ASSUME NEW t \in Tenants, NEW e \in DOMAIN enquiry, NEW p \in Patches,
               LoadEnquiry(c, t, e, p)
        PROVE  /\ UNCHANGED tables /\ now' = now
               /\ \E r \in CallRow : Known(r) /\ call' = [call EXCEPT ![c] = r]
    <2> DEFINE r == [IdleCall EXCEPT !.at = "patch", !.tenant = t, !.id = e,
                                     !.patch = p, !.loaded = enquiry[e]]
    <2>1. enquiry[e] \in EnquiryRow /\ e \in Nat
      BY <1>t
    <2>2. r \in CallRow /\ r.at = "patch" /\ r.id = e /\ r.tenant = t
      BY <1>0, <2>1 DEF CallRow
    <2>3. Known(r)
      BY <1>2, <2>2 DEF Known, LoadEnquiry, Owned
    <2> QED BY <1>2, <2>2, <2>3 DEF LoadEnquiry, Begin, tables, auditVars, limiterVars
  <1>3. ASSUME NEW t \in Tenants, NEW e \in DOMAIN enquiry, LoadPromotion(c, t, e)
        PROVE  /\ UNCHANGED tables /\ now' = now
               /\ \E r \in CallRow : Known(r) /\ call' = [call EXCEPT ![c] = r]
    <2> DEFINE r == [IdleCall EXCEPT !.at = "promote", !.tenant = t, !.id = e,
                                     !.loaded = enquiry[e]]
    <2>1. enquiry[e] \in EnquiryRow /\ e \in Nat
      BY <1>t
    <2>2. r \in CallRow /\ r.at = "promote" /\ r.id = e /\ r.tenant = t /\ r.loaded = enquiry[e]
      BY <1>0, <2>1 DEF CallRow
    <2>3. enquiry[e].session = Null => Known(r)
      BY <1>3, <2>2 DEF Known, LoadPromotion, Owned
    <2>4. call' = [call EXCEPT ![c] = IF enquiry[e].session # Null THEN IdleCall ELSE r]
      BY <1>3 DEF LoadPromotion, Begin
    <2>5. UNCHANGED tables /\ now' = now
      BY <1>3 DEF LoadPromotion, tables, auditVars, limiterVars
    <2>6. CASE enquiry[e].session # Null
      BY <1>0, <2>4, <2>5, <2>6
    <2>7. CASE enquiry[e].session = Null
      BY <2>2, <2>3, <2>4, <2>5, <2>7
    <2> QED BY <2>6, <2>7
  <1>4. ASSUME NEW s \in DOMAIN session, AppendRead(c, s)
        PROVE  /\ UNCHANGED tables /\ now' = now
               /\ \E r \in CallRow : Known(r) /\ call' = [call EXCEPT ![c] = r]
    <2> DEFINE n == IF messages[s] = <<>> THEN 0 ELSE Last(messages[s]) + 1
               r == [IdleCall EXCEPT !.at = "append", !.id = s,
                                     !.tenant = session[s].tenant, !.next = n]
    <2>1. session[s] \in SessionRow /\ messages[s] \in Seq(Nat) /\ s \in Nat
      BY <1>t
    <2>2. messages[s] # <<>> => Len(messages[s]) \in 1..Len(messages[s])
      BY <2>1
    <2>3. messages[s] # <<>> => Last(messages[s]) = Len(messages[s]) - 1
      <3>1. \A i \in DOMAIN messages[s] : messages[s][i] = i - 1
        BY DEF RecordInv, MessagesDense
      <3> QED BY <2>1, <2>2, <3>1 DEF Last
    <2>4. n \in Nat /\ n <= Len(messages[s])
      BY <2>1, <2>2, <2>3
    <2>5. r \in CallRow /\ r.at = "append" /\ r.id = s /\ r.tenant = session[s].tenant /\ r.next = n
      <3> HIDE DEF n
      <3> QED BY <1>0, <2>1, <2>4 DEF CallRow, SessionRow
    <2>6. Known(r)
      BY <2>4, <2>5 DEF Known
    <2> QED BY <1>4, <2>5, <2>6 DEF AppendRead, Begin, tables, auditVars, limiterVars
  <1>5. ASSUME NEW s \in DOMAIN session, NEW t \in Tenants, NEW text \in Titles \cup {NoTitle},
               NEW what \in {"rename", "delete"}, Own(c, t, s, what, text)
        PROVE  /\ UNCHANGED tables /\ now' = now
               /\ \E r \in CallRow : Known(r) /\ call' = [call EXCEPT ![c] = r]
    <2> DEFINE r == [IdleCall EXCEPT !.at = what, !.tenant = t, !.id = s, !.title = text]
    <2>1. s \in Nat
      BY <1>t
    <2>2. r \in CallRow /\ r.at = what /\ r.id = s /\ r.tenant = t
      BY <1>0, <2>1 DEF CallRow
    <2>3. Known(r)
      BY <1>5, <2>2 DEF Known, Own, Mine
    <2> QED BY <1>5, <2>2, <2>3 DEF Own, Begin, tables, auditVars, limiterVars
  <1>6. ASSUME NEW s \in DOMAIN session, NEW t \in Tenants, NEW text \in Titles,
               SendMessage(c, t, s, text)
        PROVE  /\ UNCHANGED tables /\ now' = now
               /\ \E r \in CallRow : Known(r) /\ call' = [call EXCEPT ![c] = r]
    <2> DEFINE r == [IdleCall EXCEPT !.at = "title", !.tenant = t, !.id = s, !.title = text]
    <2>1. s \in Nat
      BY <1>t
    <2>2. r \in CallRow /\ r.at = "title" /\ r.id = s /\ r.tenant = t
      BY <1>0, <2>1 DEF CallRow
    <2>3. Known(r)
      BY <1>6, <2>2 DEF Known, SendMessage, Mine
    <2>4. call' = [call EXCEPT ![c] = IF messages[s] # <<>> THEN IdleCall ELSE r]
      BY <1>6 DEF SendMessage, Begin
    <2>5. UNCHANGED tables /\ now' = now
      BY <1>6 DEF SendMessage, tables, auditVars, limiterVars
    <2>6. CASE messages[s] # <<>>
      BY <1>0, <2>4, <2>5, <2>6
    <2>7. CASE messages[s] = <<>>
      BY <2>2, <2>3, <2>4, <2>5, <2>7
    <2> QED BY <2>6, <2>7
  <1> QED BY <1>1, <1>2, <1>3, <1>4, <1>5, <1>6

-----------------------------------------------------------------------------
(* Requests that write.                                                    *)

LEMMA CreateEnquiryInv ==
  ASSUME RecordInv, NEW t \in Tenants, NEW d \in Drafts, CreateEnquiry(t, d)
  PROVE  RecordInv'
  <1> DEFINE x == [tenant |-> t, created |-> now, depart |-> d.depart, ret |-> d.ret,
                   pax |-> d.pax, status |-> d.status, session |-> d.session,
                   given |-> d.session]
  <1>1. /\ enquiry' = Append(enquiry, x) /\ minted' = Append(minted, {})
        /\ UNCHANGED <<session, messages, call, raced, relinked>> /\ now' = now
        /\ ValidDateRange(d.depart, d.ret) /\ ValidPax(d.pax)
    BY DEF CreateEnquiry, auditVars, limiterVars
  <1>2. /\ TablesTyped /\ enquiry \in Seq(EnquiryRow) /\ minted \in Seq(SUBSET Nat)
        /\ Len(minted) = Len(enquiry) /\ now \in Nat
    BY DEF RecordInv, TablesTyped
  <1>3. x \in EnquiryRow /\ x.tenant = t /\ x.depart = d.depart /\ x.ret = d.ret
        /\ x.session = x.given
    BY <1>1, <1>2, WorkspaceAssumption DEF EnquiryRow, ValidPax, Null
  <1> HIDE DEF x
  <1>4. /\ enquiry' \in Seq(EnquiryRow) /\ Len(enquiry') = Len(enquiry) + 1
        /\ \A e \in 1..Len(enquiry) : enquiry'[e] = enquiry[e]
        /\ enquiry'[Len(enquiry) + 1] = x
        /\ minted' \in Seq(SUBSET Nat) /\ Len(minted') = Len(minted) + 1
        /\ \A e \in 1..Len(minted) : minted'[e] = minted[e]
        /\ minted'[Len(minted) + 1] = {}
    BY <1>1, <1>2, <1>3, AppendProperties
  <1>5. /\ DOMAIN enquiry = 1..Len(enquiry) /\ DOMAIN minted = 1..Len(enquiry)
        /\ DOMAIN enquiry' = 1..(Len(enquiry) + 1) /\ DOMAIN minted' = 1..(Len(enquiry) + 1)
        /\ Len(enquiry) \in Nat
    BY <1>2, <1>4, LenProperties
  <1>6. TablesTyped'
    BY <1>1, <1>2, <1>4, <1>5 DEF TablesTyped
  <1>7. Grown
    BY <1>1, <1>2, <1>4, <1>5 DEF Grown, TablesTyped
  <1>8. call' \in [Callers -> CallRow] /\ \A c \in Callers : Known(call[c])'
    BY <1>1, <1>6, <1>7, KnownStays DEF RecordInv
  <1>9. MintedThere' /\ DatesOrdered' /\ MessagesDense'
    <2>1. MessagesDense'
      BY <1>1 DEF RecordInv, MessagesDense
    <2>2. MintedThere'
      BY <1>1, <1>2, <1>4, <1>5 DEF RecordInv, MintedThere
    <2>3. DatesOrdered'
      BY <1>1, <1>2, <1>3, <1>4, <1>5 DEF RecordInv, DatesOrdered
    <2> QED BY <2>1, <2>2, <2>3
  <1>10. PromotedOnce'
    <2> SUFFICES ASSUME NEW e \in DOMAIN enquiry'
                 PROVE  /\ \A s \in minted'[e] : session'[s].tenant = enquiry'[e].tenant
                        /\ e \notin raced' \cup relinked' => LinkedOnce(enquiry'[e], minted'[e])
      BY DEF PromotedOnce
    <2>1. CASE e \in DOMAIN enquiry
      BY <1>1, <1>2, <1>4, <1>5, <2>1 DEF RecordInv, PromotedOnce
    <2>2. CASE e = Len(enquiry) + 1
      BY <1>2, <1>3, <1>4, <2>2 DEF LinkedOnce
    <2> QED BY <1>5, <2>1, <2>2
  <1> QED BY <1>6, <1>8, <1>9, <1>10 DEF RecordInv

\* What a PATCH makes of a row.
LEMMA PatchedRow ==
  ASSUME RecordInv, NEW c \in Callers, PatchEnquiry(c)
  PROVE  LET r == call[c]  e == r.id
             y == [col \in DOMAIN enquiry[e] |-> IF col \in Changed(r) THEN r.patch[col]
                                                 ELSE enquiry[e][col]]
         IN /\ e \in DOMAIN enquiry /\ enquiry[e].tenant = r.tenant
            /\ enquiry' = [enquiry EXCEPT ![e] = y]
            /\ y \in EnquiryRow /\ y.tenant = enquiry[e].tenant /\ y.given = enquiry[e].given
            /\ "session" \notin Changed(r) => y.session = enquiry[e].session
            /\ enquiry[e] = r.loaded =>
                 /\ ValidDateRange(y.depart, y.ret)
                 /\ enquiry[e].status \in Terminal => y.status \notin Open
  <1> DEFINE r == call[c]
             e == r.id
             x == enquiry[e]
             y == [col \in DOMAIN x |-> IF col \in Changed(r) THEN r.patch[col] ELSE x[col]]
  <1>1. /\ r \in CallRow /\ Known(r) /\ r.at = "patch" /\ ValidPatch(r)
        /\ enquiry' = [enquiry EXCEPT ![e] = y]
    BY DEF RecordInv, PatchEnquiry, At
  <1>2. e \in DOMAIN enquiry /\ x.tenant = r.tenant /\ enquiry \in Seq(EnquiryRow)
    BY <1>1 DEF Known, RecordInv, TablesTyped
  <1>3. x \in EnquiryRow /\ r.loaded \in EnquiryRow
    BY <1>1, <1>2 DEF CallRow
  <1>4. DOMAIN r.patch \subseteq Columns
    BY <1>1, WorkspaceAssumption DEF CallRow
  <1>5. \A col \in DOMAIN r.patch :
          r.patch[col] \in (IF col = "status" THEN Statuses \cup {NullStatus} ELSE Nat)
    BY <1>1, WorkspaceAssumption DEF CallRow
  <1>6. DOMAIN x = {"tenant", "created", "depart", "ret", "pax", "status", "session", "given"}
    BY <1>3 DEF EnquiryRow
  <1>7. Changed(r) = {col \in DOMAIN r.patch : r.patch[col] # r.loaded[col]}
    BY DEF Changed
  <1>8. /\ "tenant" \notin Changed(r) /\ "created" \notin Changed(r)
        /\ "given" \notin Changed(r)
    BY <1>4, <1>7 DEF Columns
  <1>9. /\ "pax" \in DOMAIN r.patch => r.patch["pax"] \in Nat /\ r.patch["pax"] >= 1
        /\ "status" \in DOMAIN r.patch => r.patch["status"] \in Statuses
    BY <1>1, <1>5 DEF ValidPatch, ValidPax, Final, NullStatus
  <1> HIDE DEF e, r, x
  <1>10. /\ y.tenant = x.tenant /\ y.created = x.created /\ y.given = x.given
         /\ \A col \in {"depart", "ret", "pax", "status", "session"} :
              y[col] = IF col \in Changed(r) THEN r.patch[col] ELSE x[col]
    BY <1>6, <1>8
  <1>11. y \in EnquiryRow
    <2>1. y.depart \in Nat /\ y.ret \in Nat /\ y.session \in Nat
      BY <1>3, <1>5, <1>7, <1>10 DEF EnquiryRow
    <2>2. y.pax \in Nat \ {0} /\ y.status \in Statuses
      BY <1>3, <1>7, <1>9, <1>10 DEF EnquiryRow
    <2>3. y = [tenant |-> y.tenant, created |-> y.created, depart |-> y.depart, ret |-> y.ret,
               pax |-> y.pax, status |-> y.status, session |-> y.session, given |-> y.given]
      BY <1>6
    <2> HIDE DEF y
    <2> QED BY <1>3, <1>10, <2>1, <2>2, <2>3 DEF EnquiryRow
  <1>12. "session" \notin Changed(r) => y.session = x.session
    BY <1>10
  <1>13. ASSUME x = r.loaded
         PROVE  ValidDateRange(y.depart, y.ret) /\ (x.status \in Terminal => y.status \notin Open)
    <2>1. \A col \in {"depart", "ret", "status"} : y[col] = Final(r, col)
      BY <1>7, <1>10, <1>13 DEF Final
    <2>2. ValidDateRange(y.depart, y.ret)
      BY <1>1, <2>1 DEF ValidPatch
    <2>3. x.status \in Terminal => y.status \notin Open
      BY <1>1, <1>13, <2>1 DEF ValidPatch, Final, ValidTransition, Terminal, Open
    <2> QED BY <2>2, <2>3
  <1> QED BY <1>1, <1>2, <1>10, <1>11, <1>12, <1>13 DEF r, e, x

LEMMA PatchInv ==
  ASSUME RecordInv, NEW c \in Callers, PatchEnquiry(c)
  PROVE  RecordInv'
  <1> DEFINE r == call[c]
             e == r.id
  <1>1. PICK y \in EnquiryRow :
          /\ e \in DOMAIN enquiry /\ enquiry' = [enquiry EXCEPT ![e] = y]
          /\ y.tenant = enquiry[e].tenant /\ y.given = enquiry[e].given
          /\ "session" \notin Changed(r) => y.session = enquiry[e].session
          /\ enquiry[e] = r.loaded => ValidDateRange(y.depart, y.ret)
    BY PatchedRow
  <1>2. /\ raced' = raced \cup (IF enquiry[e] # r.loaded THEN {e} ELSE {})
        /\ relinked' = relinked \cup (IF "session" \in Changed(r) THEN {e} ELSE {})
        /\ Answer(c) /\ UNCHANGED <<session, messages, minted>> /\ now' = now
    BY DEF PatchEnquiry, auditVars, limiterVars
  <1> HIDE DEF e
  <1>3. TablesTyped /\ enquiry \in Seq(EnquiryRow)
    BY DEF RecordInv, TablesTyped
  <1>4. /\ enquiry' \in Seq(EnquiryRow) /\ Len(enquiry') = Len(enquiry)
        /\ DOMAIN enquiry' = DOMAIN enquiry /\ enquiry'[e] = y
        /\ \A f \in DOMAIN enquiry : f # e => enquiry'[f] = enquiry[f]
    BY <1>1, <1>3, ExceptSeq
  <1>5. TablesTyped' /\ Grown
    BY <1>1, <1>2, <1>3, <1>4 DEF TablesTyped, Grown
  <1>6. call' \in [Callers -> CallRow] /\ \A d \in Callers : Known(call[d])'
    BY <1>2, <1>5, CallsAnswered
  <1>7. MintedThere' /\ MessagesDense'
    BY <1>2 DEF RecordInv, MintedThere, MessagesDense
  <1>8. DatesOrdered'
    BY <1>1, <1>2, <1>4 DEF RecordInv, DatesOrdered
  <1>9. PromotedOnce'
    <2> SUFFICES ASSUME NEW f \in DOMAIN enquiry
                 PROVE  /\ \A s \in minted[f] : session[s].tenant = enquiry'[f].tenant
                        /\ f \notin raced' \cup relinked' => LinkedOnce(enquiry'[f], minted[f])
      BY <1>2, <1>4 DEF PromotedOnce
    <2>1. /\ \A s \in minted[f] : session[s].tenant = enquiry[f].tenant
          /\ f \notin raced \cup relinked => LinkedOnce(enquiry[f], minted[f])
      BY DEF RecordInv, PromotedOnce
    <2>2. f \notin raced' \cup relinked' => f \notin raced \cup relinked
      BY <1>2
    <2>3. CASE f # e
      <3>1. enquiry'[f] = enquiry[f]
        BY <1>4, <2>3
      <3> QED BY <2>1, <2>2, <3>1
    <2>4. CASE f = e
      <3>1. f \notin relinked' => enquiry'[f].session = enquiry[f].session
        BY <1>1, <1>2, <1>4, <2>4
      <3>2. enquiry'[f].tenant = enquiry[f].tenant /\ enquiry'[f].given = enquiry[f].given
        BY <1>1, <1>4, <2>4
      <3> QED BY <2>1, <2>2, <3>1, <3>2 DEF LinkedOnce
    <2> QED BY <2>3, <2>4
  <1> QED BY <1>5, <1>6, <1>7, <1>8, <1>9 DEF RecordInv

LEMMA PromotedStays ==
  ASSUME PromotedOnce, UNCHANGED <<enquiry, raced, relinked, minted>>,
         \A e \in DOMAIN enquiry : \A s \in minted[e] : session'[s].tenant = session[s].tenant
  PROVE  PromotedOnce'
  <1> SUFFICES ASSUME NEW e \in DOMAIN enquiry
               PROVE  /\ \A s \in minted[e] : session'[s].tenant = enquiry[e].tenant
                      /\ e \notin raced \cup relinked => LinkedOnce(enquiry[e], minted[e])
    BY DEF PromotedOnce
  <1> QED BY DEF PromotedOnce

\* A session is added, by create_session or by a promotion.
AddSession(t) == session' = Append(session, NewSession(t)) /\ messages' = Append(messages, <<>>)

LEMMA SessionAdded ==
  ASSUME RecordInv, NEW t \in Tenants, AddSession(t)
  PROVE  /\ session' \in Seq(SessionRow) /\ messages' \in Seq(Seq(Nat))
         /\ Len(messages') = Len(session') /\ Len(session) \in Nat
         /\ DOMAIN session = 1..Len(session) /\ DOMAIN session' = 1..(Len(session) + 1)
         /\ \A s \in DOMAIN session : session'[s] = session[s] /\ messages'[s] = messages[s]
         /\ session'[Len(session) + 1].tenant = t
         /\ MessagesDense'
  <1>1. /\ session \in Seq(SessionRow) /\ messages \in Seq(Seq(Nat))
        /\ Len(messages) = Len(session)
    BY DEF RecordInv, TablesTyped
  <1>2. NewSession(t) \in SessionRow /\ NewSession(t).tenant = t /\ <<>> \in Seq(Nat)
    BY DEF NewSession, SessionRow
  <1>3. /\ session' \in Seq(SessionRow) /\ Len(session') = Len(session) + 1
        /\ \A s \in 1..Len(session) : session'[s] = session[s]
        /\ session'[Len(session) + 1] = NewSession(t)
        /\ messages' \in Seq(Seq(Nat)) /\ Len(messages') = Len(messages) + 1
        /\ \A s \in 1..Len(messages) : messages'[s] = messages[s]
        /\ messages'[Len(messages) + 1] = <<>>
    BY <1>1, <1>2, AppendProperties DEF AddSession
  <1>4. /\ DOMAIN session = 1..Len(session) /\ DOMAIN session' = 1..(Len(session) + 1)
        /\ Len(session) \in Nat
    BY <1>1, <1>3, LenProperties
  <1>5. MessagesDense'
    <2> SUFFICES ASSUME NEW s \in DOMAIN session'
                 PROVE  /\ \A i \in DOMAIN messages'[s] : messages'[s][i] = i - 1
                        /\ ~session'[s].there => messages'[s] = <<>>
      BY DEF MessagesDense
    <2>1. CASE s \in 1..Len(session)
      <3>1. session'[s] = session[s] /\ messages'[s] = messages[s]
        BY <1>1, <1>3, <2>1
      <3>2. /\ \A i \in DOMAIN messages[s] : messages[s][i] = i - 1
            /\ ~session[s].there => messages[s] = <<>>
        BY <1>4, <2>1 DEF RecordInv, MessagesDense
      <3> QED BY <3>1, <3>2
    <2>2. CASE s = Len(session) + 1
      BY <1>1, <1>3, <2>2
    <2> QED BY <1>4, <2>1, <2>2
  <1> QED BY <1>1, <1>2, <1>3, <1>4, <1>5

LEMMA CreateSessionInv ==
  ASSUME RecordInv, NEW t \in Tenants, CreateSession(t)
  PROVE  RecordInv'
  <1>1. /\ AddSession(t) /\ UNCHANGED <<enquiry, call, raced, relinked, minted>> /\ now' = now
    BY DEF CreateSession, AddSession, auditVars, limiterVars
  <1>2. TablesTyped' /\ Grown
    <2>1. TablesTyped'
      BY <1>1, SessionAdded DEF RecordInv, TablesTyped
    <2>2. \A s \in DOMAIN session : Len(messages[s]) \in Nat
      BY DEF RecordInv, TablesTyped
    <2>3. Grown
      BY <1>1, <2>2, SessionAdded DEF Grown
    <2> QED BY <2>1, <2>3
  <1>3. call' \in [Callers -> CallRow] /\ \A c \in Callers : Known(call[c])'
    BY <1>1, <1>2, KnownStays DEF RecordInv
  <1>4. MintedThere' /\ DatesOrdered' /\ MessagesDense'
    BY <1>1, SessionAdded DEF RecordInv, MintedThere, DatesOrdered
  <1>5. PromotedOnce'
    <2>1. \A e \in DOMAIN enquiry : minted[e] \subseteq DOMAIN session
      BY DEF RecordInv, MintedThere, TablesTyped
    <2>2. \A e \in DOMAIN enquiry : \A s \in minted[e] : session'[s] = session[s]
      BY <1>1, <2>1, SessionAdded
    <2> QED BY <1>1, <2>2, PromotedStays DEF RecordInv
  <1> QED BY <1>2, <1>3, <1>4, <1>5 DEF RecordInv

LEMMA PromoteInv ==
  ASSUME RecordInv, NEW c \in Callers, Promote(c)
  PROVE  RecordInv'
  <1> DEFINE r == call[c]
             e == r.id
             n == Len(session) + 1
             x == [enquiry[e] EXCEPT !.session = n]
  <1>1. r \in CallRow /\ Known(r) /\ r.at = "promote"
    BY DEF RecordInv, Promote, At
  <1>2. /\ AddSession(r.tenant) /\ enquiry' = [enquiry EXCEPT ![e] = x]
        /\ minted' = [minted EXCEPT ![e] = minted[e] \cup {n}]
        /\ raced' = raced \cup (IF enquiry[e] # r.loaded THEN {e} ELSE {})
        /\ relinked' = relinked /\ Answer(c) /\ now' = now
    BY DEF Promote, AddSession, auditVars, limiterVars
  <1>3. /\ e \in DOMAIN enquiry /\ r.tenant \in Tenants /\ enquiry[e].tenant = r.tenant
        /\ r.loaded.session = Null
    BY <1>1 DEF CallRow, Known
  <1>4. /\ TablesTyped /\ enquiry \in Seq(EnquiryRow) /\ minted \in Seq(SUBSET Nat)
        /\ DOMAIN minted = DOMAIN enquiry /\ Len(session) \in Nat
    BY DEF RecordInv, TablesTyped
  <1>5. x \in EnquiryRow /\ x.tenant = r.tenant /\ x.session = n
        /\ x.depart = enquiry[e].depart /\ x.ret = enquiry[e].ret /\ x.given = enquiry[e].given
    <2>1. enquiry[e] \in EnquiryRow
      BY <1>3, <1>4
    <2>2. n \in Nat
      BY <1>4
    <2> HIDE DEF n, e
    <2> QED BY <1>3, <2>1, <2>2 DEF EnquiryRow
  <1> HIDE DEF r, e, x
  <1>6. /\ enquiry' \in Seq(EnquiryRow) /\ Len(enquiry') = Len(enquiry)
        /\ DOMAIN enquiry' = DOMAIN enquiry /\ enquiry'[e] = x
        /\ \A f \in DOMAIN enquiry : f # e => enquiry'[f] = enquiry[f]
    BY <1>2, <1>3, <1>4, <1>5, ExceptSeq
  <1>7. /\ minted' \in Seq(SUBSET Nat) /\ Len(minted') = Len(minted)
        /\ DOMAIN minted' = DOMAIN minted /\ minted'[e] = minted[e] \cup {n}
        /\ \A f \in DOMAIN minted : f # e => minted'[f] = minted[f]
    <2>1. minted[e] \cup {n} \in SUBSET Nat
      BY <1>3, <1>4
    <2> QED BY <1>2, <1>3, <1>4, <2>1, ExceptSeq
  <1>8. /\ session' \in Seq(SessionRow) /\ messages' \in Seq(Seq(Nat))
        /\ Len(messages') = Len(session')
        /\ DOMAIN session = 1..Len(session) /\ DOMAIN session' = 1..n
        /\ \A s \in DOMAIN session : session'[s] = session[s] /\ messages'[s] = messages[s]
        /\ session'[n].tenant = r.tenant /\ MessagesDense'
    BY <1>2, <1>3, SessionAdded
  <1>9. TablesTyped'
    BY <1>2, <1>3, <1>4, <1>6, <1>7, <1>8 DEF TablesTyped
  <1>10. Grown
    <2>1. \A s \in DOMAIN session : Len(messages[s]) \in Nat
      BY <1>4 DEF TablesTyped
    <2>2. \A f \in DOMAIN enquiry : enquiry'[f].tenant = enquiry[f].tenant
      BY <1>3, <1>5, <1>6
    <2>3. DOMAIN session \subseteq DOMAIN session'
      BY <1>4, <1>8
    <2> QED BY <1>6, <1>8, <2>1, <2>2, <2>3 DEF Grown
  <1>11. call' \in [Callers -> CallRow] /\ \A d \in Callers : Known(call[d])'
    BY <1>2, <1>9, <1>10, CallsAnswered
  <1>12. MintedThere'
    <2>1. DOMAIN session \subseteq DOMAIN session' /\ n \in DOMAIN session'
      BY <1>4, <1>8
    <2>2. \A f \in DOMAIN minted : minted[f] \subseteq DOMAIN session
      BY DEF RecordInv, MintedThere
    <2>3. \A f \in DOMAIN minted : minted'[f] \subseteq DOMAIN session'
      BY <1>7, <2>1, <2>2
    <2> QED BY <1>7, <2>3 DEF MintedThere
  <1>13. DatesOrdered'
    BY <1>2, <1>3, <1>5, <1>6 DEF RecordInv, DatesOrdered
  <1>14. PromotedOnce'
    <2> SUFFICES ASSUME NEW f \in DOMAIN enquiry
                 PROVE  /\ \A s \in minted'[f] : session'[s].tenant = enquiry'[f].tenant
                        /\ f \notin raced' \cup relinked' => LinkedOnce(enquiry'[f], minted'[f])
      BY <1>6 DEF PromotedOnce
    <2>1. /\ \A s \in minted[f] : session[s].tenant = enquiry[f].tenant
          /\ f \notin raced \cup relinked => LinkedOnce(enquiry[f], minted[f])
      BY DEF RecordInv, PromotedOnce
    <2>2. \A s \in minted[f] : session'[s] = session[s]
      BY <1>4, <1>8 DEF RecordInv, MintedThere
    <2>3. f \notin raced' \cup relinked' => f \notin raced \cup relinked
      BY <1>2
    <2>4. CASE f # e
      BY <1>4, <1>6, <1>7, <2>1, <2>2, <2>3, <2>4
    <2>5. CASE f = e
      <3>1. f \notin raced' => enquiry[f].session = Null
        BY <1>2, <1>3, <2>5
      <3>2. n # Null
        BY <1>4 DEF Null
      <3>3. minted'[f] = minted[f] \cup {n} /\ enquiry'[f].session = n
            /\ enquiry'[f].given = enquiry[f].given
        BY <1>3, <1>4, <1>5, <1>6, <1>7, <2>5
      <3>4. \A s \in minted'[f] : session'[s].tenant = enquiry'[f].tenant
        BY <1>3, <1>5, <1>6, <1>8, <2>1, <2>2, <2>5, <3>3
      <3> QED BY <2>1, <2>3, <3>1, <3>2, <3>3, <3>4 DEF LinkedOnce
    <2> QED BY <2>4, <2>5
  <1> QED BY <1>8, <1>9, <1>11, <1>12, <1>13, <1>14 DEF RecordInv

\* A request writes a session's row and messages and is answered.
LEMMA SessionWritten ==
  ASSUME RecordInv, NEW c \in Callers, NEW s \in DOMAIN session, NEW x \in SessionRow,
         NEW m \in Seq(Nat), Answer(c), UNCHANGED <<enquiry, raced, relinked, minted>>,
         now' = now, session' = [session EXCEPT ![s] = x],
         messages' = [messages EXCEPT ![s] = m], x.tenant = session[s].tenant,
         x.there => session[s].there /\ Len(messages[s]) <= Len(m),
         \A i \in DOMAIN m : m[i] = i - 1, ~x.there => m = <<>>
  PROVE  RecordInv'
  <1>1. /\ TablesTyped /\ session \in Seq(SessionRow) /\ messages \in Seq(Seq(Nat))
        /\ DOMAIN messages = DOMAIN session
    BY DEF RecordInv, TablesTyped
  <1>2. /\ session' \in Seq(SessionRow) /\ Len(session') = Len(session)
        /\ DOMAIN session' = DOMAIN session /\ session'[s] = x
        /\ \A u \in DOMAIN session : u # s => session'[u] = session[u]
    BY <1>1, ExceptSeq
  <1>3. /\ messages' \in Seq(Seq(Nat)) /\ Len(messages') = Len(messages) /\ messages'[s] = m
        /\ \A u \in DOMAIN session : u # s => messages'[u] = messages[u]
    BY <1>1, ExceptSeq
  <1>4. TablesTyped'
    BY <1>1, <1>2, <1>3 DEF TablesTyped
  <1>5. Grown
    <2>1. \A u \in DOMAIN session : Len(messages[u]) \in Nat
      BY <1>1
    <2>2. ASSUME NEW u \in DOMAIN session
          PROVE  /\ session'[u].tenant = session[u].tenant
                 /\ session'[u].there => session[u].there /\ Len(messages[u]) <= Len(messages'[u])
      BY <1>2, <1>3, <2>1
    <2> QED BY <1>2, <2>2 DEF Grown
  <1>6. call' \in [Callers -> CallRow] /\ \A d \in Callers : Known(call[d])'
    BY <1>4, <1>5, CallsAnswered
  <1>7. MintedThere' /\ DatesOrdered'
    BY <1>2 DEF RecordInv, MintedThere, DatesOrdered
  <1>8. MessagesDense'
    <2> SUFFICES ASSUME NEW u \in DOMAIN session
                 PROVE  /\ \A i \in DOMAIN messages'[u] : messages'[u][i] = i - 1
                        /\ ~session'[u].there => messages'[u] = <<>>
      BY <1>2 DEF MessagesDense
    <2>1. CASE u = s
      BY <1>2, <1>3, <2>1
    <2>2. CASE u # s
      <3>1. session'[u] = session[u] /\ messages'[u] = messages[u]
        BY <1>2, <1>3, <2>2
      <3> QED BY <3>1 DEF RecordInv, MessagesDense
    <2> QED BY <2>1, <2>2
  <1>9. PromotedOnce'
    <2>1. \A e \in DOMAIN enquiry : minted[e] \subseteq DOMAIN session
      BY DEF RecordInv, MintedThere, TablesTyped
    <2>2. \A e \in DOMAIN enquiry : \A u \in minted[e] : session'[u].tenant = session[u].tenant
      BY <1>5, <2>1 DEF Grown
    <2> QED BY <2>2, PromotedStays DEF RecordInv
  <1> QED BY <1>4, <1>6, <1>7, <1>8, <1>9 DEF RecordInv

LEMMA SessionSteps ==
  ASSUME RecordInv, NEW c \in Callers,
         PersistTitle(c) \/ RenameSession(c) \/ DeleteSession(c) \/ AppendMessage(c)
  PROVE  /\ RecordInv' /\ call[c].id \in DOMAIN session /\ Answer(c)
         /\ session[call[c].id].tenant = call[c].tenant
         /\ \A u \in DOMAIN session : u # call[c].id =>
              session'[u] = session[u] /\ messages'[u] = messages[u]
  <1> DEFINE r == call[c]
             s == r.id
             y == session[s]
             m == messages[s]
  <1>1. /\ r \in CallRow /\ Known(r) /\ Answer(c) /\ now' = now
        /\ UNCHANGED <<enquiry, raced, relinked, minted>>
        /\ r.at \in {"title", "rename", "delete", "append"}
    BY DEF RecordInv, PersistTitle, RenameSession, DeleteSession, AppendMessage, At,
           auditVars, limiterVars
  <1>2. s \in DOMAIN session /\ y.tenant = r.tenant /\ r.title \in Titles \cup {NoTitle}
        /\ r.next \in Nat
    BY <1>1 DEF Known, CallRow
  <1>3. /\ session \in Seq(SessionRow) /\ messages \in Seq(Seq(Nat))
        /\ DOMAIN messages = DOMAIN session
    BY DEF RecordInv, TablesTyped
  <1>4. /\ y \in SessionRow /\ m \in Seq(Nat) /\ Len(m) \in Nat /\ DOMAIN m = 1..Len(m)
        /\ \A i \in DOMAIN m : m[i] = i - 1
        /\ ~y.there => m = <<>>
    BY <1>2, <1>3, LenProperties DEF RecordInv, MessagesDense
  <1>5. session = [session EXCEPT ![s] = y] /\ messages = [messages EXCEPT ![s] = m]
    BY <1>2, <1>3
  <1>6. [y EXCEPT !.title = r.title] \in SessionRow
    BY <1>2, <1>4 DEF SessionRow
  <1> DEFINE Writes(x, k) ==
               /\ x \in SessionRow /\ k \in Seq(Nat)
               /\ session' = [session EXCEPT ![s] = x] /\ messages' = [messages EXCEPT ![s] = k]
               /\ x.tenant = y.tenant /\ (x.there => y.there /\ Len(m) <= Len(k))
               /\ \A i \in DOMAIN k : k[i] = i - 1
               /\ ~x.there => k = <<>>
  <1> HIDE DEF r, s, y, m
  <1>7. \E x, k : Writes(x, k)
    <2>1. CASE PersistTitle(c) \/ RenameSession(c)
      <3>1. messages' = [messages EXCEPT ![s] = m]
        BY <1>5, <2>1 DEF PersistTitle, RenameSession
      <3>2. \/ session' = [session EXCEPT ![s] = y]
            \/ session' = [session EXCEPT ![s] = [y EXCEPT !.title = r.title]]
        BY <1>5, <2>1 DEF PersistTitle, RenameSession, r, s, y
      <3>3. [y EXCEPT !.title = r.title].tenant = y.tenant /\ [y EXCEPT !.title = r.title].there = y.there
        BY <1>4 DEF SessionRow
      <3>4. Writes(y, m) \/ Writes([y EXCEPT !.title = r.title], m)
        BY <1>4, <1>6, <3>1, <3>2, <3>3
      <3> QED BY <3>4
    <2>2. CASE DeleteSession(c)
      <3> DEFINE x == [NewSession(y.tenant) EXCEPT !.there = FALSE]
      <3>1. x \in SessionRow /\ x.tenant = y.tenant /\ x.there = FALSE
        BY <1>4 DEF NewSession, SessionRow
      <3>2. session' = [session EXCEPT ![s] = x] /\ messages' = [messages EXCEPT ![s] = <<>>]
        BY <2>2 DEF DeleteSession, r, s, y
      <3> HIDE DEF x
      <3>3. Writes(x, <<>>)
        BY <3>1, <3>2
      <3> QED BY <3>3
    <2>3. CASE AppendMessage(c)
      <3>1. /\ messages' = [messages EXCEPT ![s] = Append(m, r.next)] /\ session' = session
            /\ y.there /\ \A i \in DOMAIN m : m[i] # r.next
            /\ r.at = "append"
        BY <2>3 DEF AppendMessage, Accepts, At, r, s, y, m
      <3>2. r.next <= Len(m)
        BY <1>1, <3>1 DEF Known, s, y, m
      <3>3. r.next = Len(m)
        <4>1. SUFFICES ASSUME r.next < Len(m) PROVE FALSE
          BY <1>2, <1>4, <3>2
        <4>2. r.next + 1 \in DOMAIN m
          BY <1>2, <1>4, <4>1
        <4>3. m[r.next + 1] = r.next
          BY <1>2, <1>4, <4>2
        <4> QED BY <3>1, <4>2, <4>3
      <3> DEFINE k == Append(m, r.next)
      <3>4. /\ k \in Seq(Nat) /\ Len(k) = Len(m) + 1 /\ k[Len(m) + 1] = r.next
            /\ \A i \in 1..Len(m) : k[i] = m[i]
        BY <1>2, <1>4, AppendProperties
      <3> HIDE DEF k
      <3>5. DOMAIN k = 1..(Len(m) + 1)
        BY <3>4, LenProperties
      <3>6. ASSUME NEW i \in DOMAIN k PROVE k[i] = i - 1
        <4>1. CASE i = Len(m) + 1
          BY <1>4, <3>3, <3>4, <4>1
        <4>2. CASE i \in 1..Len(m)
          <5>1. k[i] = m[i] /\ m[i] = i - 1
            BY <1>4, <3>4, <4>2
          <5> QED BY <5>1
        <4> QED BY <1>4, <3>5, <4>1, <4>2
      <3>7. messages' = [messages EXCEPT ![s] = k] /\ session' = [session EXCEPT ![s] = y]
        BY <1>5, <3>1 DEF k
      <3>8. Len(m) <= Len(k)
        BY <1>4, <3>4
      <3>9. Writes(y, k)
        BY <1>4, <3>1, <3>4, <3>6, <3>7, <3>8
      <3> QED BY <3>9
    <2> QED BY <2>1, <2>2, <2>3
  <1>8. PICK x, k : Writes(x, k)
    BY <1>7
  <1>9. RecordInv'
    BY <1>1, <1>2, <1>8, SessionWritten DEF y, m
  <1>10. \A u \in DOMAIN session : u # s => session'[u] = session[u] /\ messages'[u] = messages[u]
    BY <1>3, <1>8
  <1> QED BY <1>1, <1>2, <1>9, <1>10 DEF r, s, y

-----------------------------------------------------------------------------
(* Every step.                                                             *)

LEMMA AuditClock ==
  ASSUME AuditNext, now \in Nat
  PROVE  now' \in Nat
  <1>1. CASE Tick
    BY <1>1 DEF Tick
  <1>2. CASE BuildBundle \/ Restart
    BY <1>2 DEF BuildBundle, Restart
  <1>3. ASSUME NEW q \in Requests, NEW k \in Addresses, Reject(q, k) PROVE now' \in Nat
    BY <1>3 DEF Reject
  <1>4. ASSUME NEW q \in Requests, RecordInMem(q) \/ RedisIncr(q) \/ RedisExpire(q)
                                   \/ RedisFails(q) \/ Write(q)
        PROVE  now' \in Nat
    BY <1>4 DEF RecordInMem, RedisIncr, RedisExpire, RedisFails, Write
  <1>5. CASE ReadNext
    BY <1>5 DEF ReadNext, ToolEvent, OpenLog, ListCount, ListRows, ExportCount, ExportRows,
                CloseLog, limiterVars
  <1> QED BY <1>1, <1>2, <1>3, <1>4, <1>5 DEF AuditNext, LimiterNext

LEMMA NextInv == RecordInv /\ [Next]_vars => RecordInv'
  <1> SUFFICES ASSUME RecordInv, [Next]_vars PROVE RecordInv'
    OBVIOUS
  <1>1. CASE (AuditNext /\ UNCHANGED recordVars) \/ UNCHANGED vars
    <2>1. now' \in Nat
      BY <1>1, AuditClock DEF RecordInv, TablesTyped, vars, auditVars, limiterVars
    <2>2. UNCHANGED <<enquiry, session, messages, call, raced, relinked, minted>>
      BY <1>1 DEF vars, recordVars
    <2> QED BY <2>1, <2>2 DEF RecordInv, TablesTyped, Known, MintedThere, DatesOrdered,
                              PromotedOnce, MessagesDense
  <1>2. ASSUME NEW t \in Tenants, NEW d \in Drafts, CreateEnquiry(t, d) PROVE RecordInv'
    BY <1>2, CreateEnquiryInv
  <1>3. ASSUME NEW t \in Tenants, CreateSession(t) PROVE RecordInv'
    BY <1>3, CreateSessionInv
  <1>4. ASSUME NEW c \in Callers,
               \/ CallSteps(c) \/ PromoteFails(c)
               \/ \E t \in Tenants, e \in DOMAIN enquiry :
                    \/ \E p \in Patches : LoadEnquiry(c, t, e, p)
                    \/ LoadPromotion(c, t, e)
               \/ \E s \in DOMAIN session :
                    \/ AppendRead(c, s)
                    \/ \E t \in Tenants, text \in Titles :
                         \/ SendMessage(c, t, s, text)
                         \/ Own(c, t, s, "rename", text)
                         \/ Own(c, t, s, "delete", NoTitle)
        PROVE  RecordInv'
    <2>1. CASE PatchEnquiry(c)
      BY <2>1, PatchInv
    <2>2. CASE Promote(c)
      BY <2>2, PromoteInv
    <2>3. CASE PersistTitle(c) \/ RenameSession(c) \/ DeleteSession(c) \/ AppendMessage(c)
      BY <2>3, SessionSteps
    <2>4. CASE ~(PatchEnquiry(c) \/ Promote(c) \/ PersistTitle(c) \/ RenameSession(c)
                 \/ DeleteSession(c) \/ AppendMessage(c))
      <3>1. /\ UNCHANGED tables /\ now' = now
            /\ \E r \in CallRow : Known(r) /\ call' = [call EXCEPT ![c] = r]
        BY <1>4, <2>4, ReadSteps DEF CallSteps
      <3> QED BY <3>1, CallMoves DEF RecordInv, TablesTyped
    <2> QED BY <2>1, <2>2, <2>3, <2>4
  <1> QED BY <1>1, <1>2, <1>3, <1>4 DEF Next, RecordNext

(* The invariant that ties the rows to what the requests under way have    *)
(* read of them (enquiries.py, chat.py, PostgresSessionStore).             *)
THEOREM RecordsInvariant == Spec => []RecordInv
  BY InitInv, NextInv, PTL DEF Spec

(* Enquiries, sessions and messages are sound in every state, however the  *)
(* requests that change them overlap: dates in order, one session for an   *)
(* enquiry, messages numbered without a gap (enquiries.py, chat.py,        *)
(* PostgresSessionStore).                                                  *)
THEOREM RecordsAlwaysSound == Spec => []RecordsSound
  BY RecordsInvariant, InvSound, PTL

-----------------------------------------------------------------------------
(* What a step may not do.                                                 *)

TerminalStep ==
    \A e \in DOMAIN enquiry :
        enquiry[e].status \in Terminal /\ e \notin raced' => enquiry'[e].status \notin Open

OwnStep ==
    /\ \A e \in DOMAIN enquiry : enquiry'[e] # enquiry[e] => AnswersFor(enquiry[e].tenant)
    /\ \A s \in DOMAIN session :
         <<session'[s], messages'[s]>> # <<session[s], messages[s]>>
             => AnswersFor(session[s].tenant)

TitleStep ==
    \A s \in DOMAIN session :
        /\ session[s].title # NoTitle /\ session'[s].there
        /\ session'[s].title # session[s].title
        => \E c \in Callers : At(c, "rename") /\ call[c].id = s
                              /\ call[c].title = session'[s].title

EnquiriesSame == \A e \in DOMAIN enquiry : enquiry'[e] = enquiry[e]
SessionsSame ==
    \A s \in DOMAIN session : session'[s] = session[s] /\ messages'[s] = messages[s]

LEMMA SameKept ==
  /\ EnquiriesSame /\ SessionsSame => OwnStep
  /\ EnquiriesSame => TerminalStep
  /\ SessionsSame => TitleStep
  BY DEF EnquiriesSame, SessionsSame, OwnStep, TerminalStep, TitleStep, Terminal, Open

LEMMA AnswerSeen ==
  ASSUME RecordInv, NEW c \in Callers, Answer(c), ~At(c, "idle")
  PROVE  AnswersFor(call[c].tenant)
  BY IdleTyped DEF RecordInv, Answer, AnswersFor, At

LEMMA PatchKept ==
  ASSUME RecordInv, NEW c \in Callers, PatchEnquiry(c)
  PROVE  TerminalStep /\ OwnStep /\ TitleStep
  <1> DEFINE r == call[c]
             e == r.id
  <1>1. PICK y \in EnquiryRow :
          /\ e \in DOMAIN enquiry /\ enquiry[e].tenant = r.tenant
          /\ enquiry' = [enquiry EXCEPT ![e] = y]
          /\ enquiry[e] = r.loaded /\ enquiry[e].status \in Terminal => y.status \notin Open
    BY PatchedRow
  <1>2. /\ raced' = raced \cup (IF enquiry[e] # r.loaded THEN {e} ELSE {})
        /\ Answer(c) /\ UNCHANGED <<session, messages>> /\ ~At(c, "idle")
    BY DEF PatchEnquiry, At
  <1>3. SessionsSame
    BY <1>2 DEF SessionsSame
  <1>4. AnswersFor(r.tenant)
    BY <1>2, AnswerSeen
  <1>5. enquiry \in Seq(EnquiryRow)
    BY DEF RecordInv, TablesTyped
  <1> HIDE DEF e, r
  <1>6. /\ enquiry'[e] = y
        /\ \A f \in DOMAIN enquiry : f # e => enquiry'[f] = enquiry[f]
    BY <1>1, <1>5
  <1>7. OwnStep
    BY <1>1, <1>3, <1>4, <1>6 DEF OwnStep, SessionsSame
  <1>8. TerminalStep
    <2> SUFFICES ASSUME NEW f \in DOMAIN enquiry, enquiry[f].status \in Terminal, f \notin raced'
                 PROVE  enquiry'[f].status \notin Open
      BY DEF TerminalStep
    <2>1. CASE f = e
      BY <1>1, <1>2, <1>6, <2>1
    <2>2. CASE f # e
      BY <1>6, <2>2 DEF Terminal, Open
    <2> QED BY <2>1, <2>2
  <1> QED BY <1>3, <1>7, <1>8, SameKept

LEMMA PromoteKept ==
  ASSUME RecordInv, NEW c \in Callers, Promote(c)
  PROVE  TerminalStep /\ OwnStep /\ TitleStep
  <1> DEFINE r == call[c]
             e == r.id
             x == [enquiry[e] EXCEPT !.session = Len(session) + 1]
  <1>1. r \in CallRow /\ Known(r) /\ r.at = "promote"
    BY DEF RecordInv, Promote, At
  <1>2. /\ AddSession(r.tenant) /\ enquiry' = [enquiry EXCEPT ![e] = x] /\ Answer(c)
        /\ ~At(c, "idle")
    BY DEF Promote, AddSession, At
  <1>3. e \in DOMAIN enquiry /\ r.tenant \in Tenants /\ enquiry[e].tenant = r.tenant
    BY <1>1 DEF CallRow, Known
  <1>4. enquiry \in Seq(EnquiryRow) /\ enquiry[e] \in EnquiryRow
    BY <1>3 DEF RecordInv, TablesTyped
  <1>5. x.status = enquiry[e].status
    BY <1>4 DEF EnquiryRow
  <1>6. AnswersFor(r.tenant)
    BY <1>2, AnswerSeen
  <1>7. SessionsSame
    BY <1>2, <1>3, SessionAdded DEF SessionsSame
  <1> HIDE DEF e, r, x
  <1>8. /\ enquiry'[e] = x
        /\ \A f \in DOMAIN enquiry : f # e => enquiry'[f] = enquiry[f]
    BY <1>2, <1>3, <1>4
  <1>9. OwnStep
    BY <1>3, <1>6, <1>7, <1>8 DEF OwnStep, SessionsSame
  <1>10. \A f \in DOMAIN enquiry : enquiry'[f].status = enquiry[f].status
    BY <1>3, <1>5, <1>8
  <1>11. TerminalStep
    BY <1>10 DEF TerminalStep, Terminal, Open
  <1> QED BY <1>7, <1>9, <1>11, SameKept

LEMMA SessionKept ==
  ASSUME RecordInv, NEW c \in Callers,
         PersistTitle(c) \/ RenameSession(c) \/ DeleteSession(c) \/ AppendMessage(c)
  PROVE  TerminalStep /\ OwnStep /\ TitleStep
  <1> DEFINE s == call[c].id
  <1>1. /\ s \in DOMAIN session /\ Answer(c) /\ session[s].tenant = call[c].tenant
        /\ \A u \in DOMAIN session : u # s => session'[u] = session[u] /\ messages'[u] = messages[u]
    BY SessionSteps
  <1>2. enquiry' = enquiry /\ ~At(c, "idle")
    BY DEF PersistTitle, RenameSession, DeleteSession, AppendMessage, At
  <1>3. AnswersFor(session[s].tenant)
    BY <1>1, <1>2, AnswerSeen
  <1>4. EnquiriesSame
    BY <1>2 DEF EnquiriesSame
  <1>5. session \in Seq(SessionRow) /\ session[s] \in SessionRow
    BY <1>1 DEF RecordInv, TablesTyped
  <1>6. OwnStep
    <2> HIDE DEF s
    <2> QED BY <1>1, <1>2, <1>3 DEF OwnStep
  <1>7. /\ session[s].title # NoTitle /\ session'[s].there
        /\ session'[s].title # session[s].title
        => At(c, "rename") /\ call[c].title = session'[s].title
    <2>1. CASE PersistTitle(c)
      BY <2>1 DEF PersistTitle
    <2>2. CASE RenameSession(c)
      BY <1>1, <1>5, <2>2 DEF RenameSession, SessionRow, At
    <2>3. CASE DeleteSession(c)
      BY <1>1, <1>5, <2>3 DEF DeleteSession, NewSession
    <2>4. CASE AppendMessage(c)
      BY <2>4 DEF AppendMessage
    <2> QED BY <2>1, <2>2, <2>3, <2>4
  <1>8. TitleStep
    <2> HIDE DEF s
    <2>1. call[c].id = s
      BY DEF s
    <2> QED BY <1>1, <1>7, <2>1 DEF TitleStep
  <1> QED BY <1>4, <1>6, <1>8, SameKept

LEMMA NextKept == RecordInv /\ [Next]_vars => TerminalStep /\ OwnStep /\ TitleStep
  <1> SUFFICES ASSUME RecordInv, [Next]_vars PROVE TerminalStep /\ OwnStep /\ TitleStep
    OBVIOUS
  <1>1. CASE UNCHANGED tables
    BY <1>1, SameKept DEF tables, EnquiriesSame, SessionsSame
  <1>2. CASE (AuditNext /\ UNCHANGED recordVars) \/ UNCHANGED vars
    BY <1>1, <1>2 DEF vars, recordVars, tables
  <1>3. ASSUME NEW t \in Tenants, NEW d \in Drafts, CreateEnquiry(t, d)
        PROVE  TerminalStep /\ OwnStep /\ TitleStep
    <2>1. enquiry \in Seq(EnquiryRow)
      BY DEF RecordInv, TablesTyped
    <2>2. EnquiriesSame /\ SessionsSame
      BY <1>3, <2>1 DEF CreateEnquiry, EnquiriesSame, SessionsSame
    <2> QED BY <2>2, SameKept
  <1>4. ASSUME NEW t \in Tenants, CreateSession(t) PROVE TerminalStep /\ OwnStep /\ TitleStep
    <2>1. AddSession(t) /\ enquiry' = enquiry
      BY <1>4 DEF CreateSession, AddSession
    <2>2. EnquiriesSame /\ SessionsSame
      BY <2>1, SessionAdded DEF EnquiriesSame, SessionsSame
    <2> QED BY <2>2, SameKept
  <1>5. ASSUME NEW c \in Callers,
               \/ CallSteps(c) \/ PromoteFails(c)
               \/ \E t \in Tenants, e \in DOMAIN enquiry :
                    \/ \E p \in Patches : LoadEnquiry(c, t, e, p)
                    \/ LoadPromotion(c, t, e)
               \/ \E s \in DOMAIN session :
                    \/ AppendRead(c, s)
                    \/ \E t \in Tenants, text \in Titles :
                         \/ SendMessage(c, t, s, text)
                         \/ Own(c, t, s, "rename", text)
                         \/ Own(c, t, s, "delete", NoTitle)
        PROVE  TerminalStep /\ OwnStep /\ TitleStep
    <2>1. CASE PatchEnquiry(c)
      BY <2>1, PatchKept
    <2>2. CASE Promote(c)
      BY <2>2, PromoteKept
    <2>3. CASE PersistTitle(c) \/ RenameSession(c) \/ DeleteSession(c) \/ AppendMessage(c)
      BY <2>3, SessionKept
    <2>4. CASE ~(PatchEnquiry(c) \/ Promote(c) \/ PersistTitle(c) \/ RenameSession(c)
                 \/ DeleteSession(c) \/ AppendMessage(c))
      <3>1. UNCHANGED tables
        BY <1>5, <2>4, ReadSteps DEF CallSteps
      <3> QED BY <1>1, <3>1
    <2> QED BY <2>1, <2>2, <2>3, <2>4
  <1> QED BY <1>2, <1>3, <1>4, <1>5 DEF Next, RecordNext

(* No step opens a booked or cancelled enquiry again unless two requests   *)
(* on it overlapped, none touches a row of another tenant, and none but a  *)
(* rename replaces a title (patch_enquiry, promote_to_session,             *)
(* rename_session, delete_session, _persist_session_title).                *)
THEOREM RecordsAlwaysKept == Spec => RecordsKept
  <1>1. RecordInv /\ [Next]_vars => [TerminalStep]_vars /\ [OwnStep]_vars /\ [TitleStep]_vars
    BY NextKept
  <1>2. Spec => [][TerminalStep]_vars /\ [][OwnStep]_vars /\ [][TitleStep]_vars
    BY <1>1, RecordsInvariant, PTL DEF Spec
  <1> QED BY <1>2 DEF RecordsKept, TerminalKept, OwnRecordsOnly, TitleKept, TerminalStep,
                      OwnStep, TitleStep

-----------------------------------------------------------------------------
(* The inductive invariant of ChatStream.                                  *)

Objs == {0} \cup Conns
SessRow == [last: Nat, buf: Seq(Frames), hist: Seq(Messages)]
ConnRow == [phase : {"opened", "live", "over"}, msg : Messages, after : Nat, valid : BOOLEAN,
            link : BOOLEAN, wire : Seq(Frames), sent : 0 .. MaxEvents + 1, ran : BOOLEAN]
ClientRow == [phase: {"idle", "fetch", "read", "backoff"}, msg: {0} \cup Messages,
              conn: {0} \cup Conns, last: Nat, attempt: 0 .. MaxRetries, terminal: BOOLEAN,
              seen: Seq(Frames), answered: SUBSET Messages]

RowsTyped ==
    /\ store \in Stores /\ exists \in BOOLEAN /\ title \in {0} \cup Messages
    /\ sess \in [Objs -> SessRow] /\ log \in [Objs -> Seq(Frames)]
    /\ conn \in Seq(ConnRow) /\ client \in ClientRow

\* Requests are counted by message and attempt.
Counted ==
    /\ client.phase # "idle" => client.msg # 0
    /\ client.msg = 0 => Len(conn) = 0
    /\ client.msg # 0 =>
         Len(conn) <= (client.msg - 1) * (MaxRetries + 1) + client.attempt
                        + (IF client.phase \in {"read", "idle"} THEN 1 ELSE 0)

\* The ids of a session are those of its log, and its buffer is the log's end.
Logged(s, L) ==
    /\ s.last = Len(L) /\ \A i \in 1..Len(L) : L[i].id = i
    /\ Len(s.buf) <= Len(L) /\ Len(s.buf) <= BufferCap
    /\ Len(L) <= BufferCap => Len(s.buf) = Len(L)
    /\ Len(L) > 0 => Len(s.buf) > 0
    /\ \A j \in 1..Len(s.buf) : s.buf[j] = L[Len(L) - Len(s.buf) + j]

Books ==
    \A o \in Objs : Logged(sess[o], log[o]) /\ \A i \in 1..Len(log[o]) : log[o][i].run \in 1..Len(conn)

InMemory == store = "memory"
Remembered == Range(sess[0].hist)

\* A request that is served and linked is being read; one that runs has been
\* recorded.
LinkOK(c, r) ==
    /\ ~r.link => r.wire = <<>>
    /\ r.link /\ r.phase # "over" => Reading(c)
    /\ r.phase = "opened" => r.wire = <<>> /\ ~r.ran /\ r.sent = 0
    /\ r.phase = "live" => r.ran /\ r.sent <= MaxEvents
    /\ r.ran /\ InMemory => r.msg \in Remembered
Links == \A c \in 1..Len(conn) : LinkOK(c, conn[c])

\* What was decided of the last id a client sent still holds when it is used.
OpenedOK(c, r) ==
    /\ InMemory => r.valid /\ r.after <= sess[0].last
    /\ ~InMemory => (r.valid <=> r.after = 0)
    /\ c = Len(conn) =>
         \/ client.last = r.after /\ client.msg = r.msg
         \/ client.last = 0 /\ ~Reading(c)
Opened == \A c \in 1..Len(conn) : conn[c].phase = "opened" => OpenedOK(c, conn[c])

Unused ==
    ~InMemory => \A o \in Conns : (o \in 1..Len(conn) => conn[o].phase = "opened") =>
        sess[o] = FreshSession

Holds ==
    /\ client.phase = "read" => /\ client.conn = Len(conn) /\ Len(conn) # 0
                                /\ conn[Len(conn)].msg = client.msg
    /\ client.last = 0 <=> client.seen = <<>>
    /\ client.seen # <<>> => client.last = client.seen[Len(client.seen)].id
    /\ client.terminal => client.last # 0

Recalls ==
    InMemory =>
        /\ client.answered \subseteq Remembered
        /\ client.last # 0 => client.msg \in Remembered
        /\ \A c \in 1..Len(conn) : Reading(c) /\ conn[c].wire # <<>> => client.msg \in Remembered

\* What the client has and what is on its way, in the order of the ids.
Genuine(w) == \A i \in 1..Len(w) : w[i].id \in 1..Len(log[0]) /\ log[0][w[i].id] = w[i]
Ascending(w) == \A i, j \in 1..Len(w) : i < j => w[i].id < w[j].id
Ordered ==
    InMemory =>
        /\ Genuine(client.seen) /\ Ascending(client.seen)
        /\ \A i \in 1..Len(client.seen) : client.seen[i].id <= client.last
        /\ \A c \in 1..Len(conn) : Reading(c) =>
             /\ Genuine(conn[c].wire) /\ Ascending(conn[c].wire)
             /\ \A i \in 1..Len(conn[c].wire) : conn[c].wire[i].id > client.last

Alone == PromptNotice => \A c \in 1..Len(conn) : conn[c].phase # "over" => c = Len(conn)

\* What the client has, what is on its way and what will be sent join up.
Joins(n, g) == g.id = n + 1 \/ g.kind = "replay_failed"
Joined(w) == \A i \in 2..Len(w) : Joins(w[i - 1].id, w[i])
WireJoined(r, last) ==
    /\ Joined(r.wire)
    /\ client.last # 0 /\ r.wire # <<>> => Joins(client.last, r.wire[1])
    /\ r.phase = "live" /\ r.link =>
         /\ r.wire # <<>> => r.wire[Len(r.wire)].id = last
         /\ r.wire = <<>> /\ client.last # 0 => client.last = last
Unbroken ==
    PromptNotice /\ NothingDropped =>
        /\ Joined(client.seen)
        /\ \A c \in 1..Len(conn) : Reading(c) => WireJoined(conn[c], sess[Obj(c)].last)

\* Runs follow each other on the log of the in-memory session, each ends with
\* its final, and a final the client has not seen is the last frame.
FinalOf(p, m) == log[0][p].kind = "final" /\ conn[log[0][p].run].msg = m
RunsFollow ==
    /\ \A p, q \in 1..Len(log[0]) : p < q =>
         /\ log[0][p].run <= log[0][q].run
         /\ log[0][p].kind = "final" => log[0][p].run < log[0][q].run
    /\ \A p \in 1..Len(log[0]) : log[0][p].kind = "final" => conn[log[0][p].run].phase = "over"
FirstFrames ==
    \A c \in 1..Len(conn) : Reading(c) /\ client.last = 0 =>
        \A i \in 1..Len(conn[c].wire) : conn[c].wire[i].run = c
UnseenFinal ==
    client.last # 0 => \A p \in 1..Len(log[0]) :
        p > client.last /\ FinalOf(p, client.msg) =>
            p = Len(log[0]) /\ \A e \in 1..Len(conn) : conn[e].phase # "live"
FinalReplayed ==
    \A d \in 1..Len(conn) : conn[d].phase = "opened" /\ conn[d].after # 0 =>
        \A p \in 1..Len(log[0]) : p > conn[d].after /\ FinalOf(p, conn[d].msg) => p = Len(log[0])
NotRerun ==
    \A d \in 1..Len(conn) : conn[d].after # 0 /\ conn[d].ran =>
        \A p \in 1..Len(log[0]) :
            p > conn[d].after /\ log[0][p].run < d => ~FinalOf(p, conn[d].msg)
Finals ==
    PromptNotice /\ InMemory =>
        RunsFollow /\ FirstFrames /\ UnseenFinal /\ FinalReplayed /\ NotRerun

StreamInv ==
    /\ RowsTyped /\ Counted /\ Books /\ Links /\ Opened /\ Unused /\ Holds /\ Recalls
    /\ Ordered /\ Alone /\ Unbroken /\ Finals

-----------------------------------------------------------------------------
(* Scanning a buffer: induction by the least counterexample.               *)

LEMMA Least == ASSUME NEW T, T \subseteq Nat, T # {} PROVE \E x \in T : \A y \in T : x <= y
  <1> DEFINE R == OpToRel(<, Nat)
  <1>1. \E x \in T : \A y \in T : ~ (<<y, x>> \in R)
    <2> HIDE DEF R
    <2>1. IsWellFoundedOn(R, Nat)
      BY NatLessThanWellFounded DEF R
    <2> QED BY <2>1, WFMin
  <1>2. \A x, y \in Nat : y < x => <<y, x>> \in R
    BY DEF OpToRel
  <1> HIDE DEF R
  <1>3. PICK x \in T : \A y \in T : ~ (<<y, x>> \in R)
    BY <1>1
  <1>4. \A y \in T : ~ (y < x)
    BY <1>2, <1>3
  <1> QED BY <1>3, <1>4

(* Where the ids ascend, the frames above n are the end of the buffer.     *)
LEMMA SinceScan ==
  ASSUME NEW M, NEW b \in Seq(M), NEW n \in Nat, NEW k \in 0..Len(b),
         \A j \in 1..Len(b) : b[j].id > n <=> j > k
  PROVE  Since(b, n) = SubSeq(b, k + 1, Len(b))
  <1> DEFINE g == [i \in 0..Len(b) |-> SubSeq(b, k + 1, i)]
             E(h) == h = [i \in 0..Len(b) |->
                            IF i = 0 THEN <<>>
                            ELSE IF b[i].id > n THEN Append(h[i - 1], b[i]) ELSE h[i - 1]]
  <1>1. Len(b) \in Nat
    OBVIOUS
  <1>2. \A i \in 0..Len(b) : i <= k => SubSeq(b, k + 1, i) = <<>>
    BY <1>1
  <1>3. \A i \in 1..Len(b) : i > k => SubSeq(b, k + 1, i) = Append(SubSeq(b, k + 1, i - 1), b[i])
    <2> SUFFICES ASSUME NEW i \in 1..Len(b), i > k
                 PROVE  SubSeq(b, k + 1, i) = Append(SubSeq(b, k + 1, i - 1), b[i])
      OBVIOUS
    <2>1. k + 1 \in 1..Len(b) + 1 /\ i - 1 \in k..(Len(b) - 1)
      BY <1>1
    <2> DEFINE u == SubSeq(b, k + 1, i)
               v == SubSeq(b, k + 1, i - 1)
               w == Append(v, b[i])
    <2>2. u \in Seq(M) /\ Len(u) = i - k /\ \A j \in 1..(i - k) : u[j] = b[k + j]
      BY <1>1
    <2>3. v \in Seq(M) /\ Len(v) = i - 1 - k /\ \A j \in 1..(i - 1 - k) : v[j] = b[k + j]
      BY <1>1
    <2>4. b[i] \in M
      OBVIOUS
    <2> HIDE DEF u, v
    <2>5. w \in Seq(M) /\ Len(w) = i - k /\ w[i - k] = b[i] /\ \A j \in 1..(i - 1 - k) : w[j] = b[k + j]
      BY <1>1, <2>3, <2>4, AppendProperties
    <2> HIDE DEF w
    <2>6. ASSUME NEW j \in 1..(i - k) PROVE u[j] = w[j]
      <3>1. CASE j = i - k
        <4>1. k + j = i
          BY <1>1, <3>1
        <4>2. u[j] = b[i]
          BY <2>2, <4>1
        <4> QED BY <2>5, <3>1, <4>2
      <3>2. CASE j # i - k
        <4>1. j \in 1..(i - 1 - k)
          BY <1>1, <3>2
        <4> QED BY <2>2, <2>5, <4>1
      <3> QED BY <3>1, <3>2
    <2>7. u = w
      BY <2>2, <2>5, <2>6, SeqEqual
    <2> QED BY <2>7 DEF u, v, w
  <1>4. E(g)
    <2>1. ASSUME NEW i \in 0..Len(b)
          PROVE  g[i] = IF i = 0 THEN <<>>
                        ELSE IF b[i].id > n THEN Append(g[i - 1], b[i]) ELSE g[i - 1]
      <3>0. i # 0 => i - 1 \in 0..Len(b)
        BY <1>1
      <3>1. g[i] = SubSeq(b, k + 1, i) /\ (i # 0 => g[i - 1] = SubSeq(b, k + 1, i - 1))
        BY <3>0
      <3> HIDE DEF g
      <3>2. CASE i = 0
        BY <1>1, <1>2, <3>1, <3>2
      <3>3. CASE i # 0 /\ i > k
        <4>1. b[i].id > n
          BY <1>1, <3>3
        <4>2. i \in 1..Len(b)
          BY <1>1, <3>3
        <4>3. SubSeq(b, k + 1, i) = Append(SubSeq(b, k + 1, i - 1), b[i])
          BY <1>3, <3>3, <4>2
        <4> QED BY <3>1, <3>3, <4>1, <4>3
      <3>4. CASE i # 0 /\ i <= k
        <4>1. ~(b[i].id > n) /\ i - 1 \in 0..Len(b) /\ i - 1 <= k
          BY <1>1, <3>4
        <4> QED BY <1>2, <3>1, <3>4, <4>1
      <3> QED BY <1>1, <3>2, <3>3, <3>4
    <2> QED BY <2>1
  <1> DEFINE f == CHOOSE h : E(h)
  <1>5. E(f)
    <2> HIDE DEF E, g
    <2> QED BY <1>4
  <1>6. Since(b, n) = f[Len(b)]
    BY DEF Since
  <1> HIDE DEF f
  <1>7. \A i \in 0..Len(b) : f[i] = g[i]
    <2> DEFINE T == {i \in 0..Len(b) : f[i] # g[i]}
    <2> SUFFICES ASSUME T # {} PROVE FALSE
      OBVIOUS
    <2>0. T \subseteq Nat
      BY <1>1
    <2>1. PICK i \in T : \A j \in T : i <= j
      <3> HIDE DEF T
      <3> QED BY <2>0, Least
    <2>2. i \in 0..Len(b) /\ (i # 0 => i - 1 \in 0..Len(b) /\ i - 1 \notin T)
      <3>1. i \in 0..Len(b)
        OBVIOUS
      <3> HIDE DEF T
      <3>2. i # 0 => i - 1 \notin T
        BY <1>1, <2>1, <3>1
      <3> QED BY <1>1, <3>1, <3>2
    <2>3. i # 0 => f[i - 1] = g[i - 1]
      BY <2>2
    <2>4. f[i] = IF i = 0 THEN <<>> ELSE IF b[i].id > n THEN Append(f[i - 1], b[i]) ELSE f[i - 1]
      BY <1>5, <2>2
    <2>5. g[i] = IF i = 0 THEN <<>> ELSE IF b[i].id > n THEN Append(g[i - 1], b[i]) ELSE g[i - 1]
      <3> HIDE DEF g
      <3> QED BY <1>4, <2>2
    <2>6. f[i] = g[i]
      <3> HIDE DEF g
      <3> QED BY <2>3, <2>4, <2>5
    <2> QED BY <2>1, <2>6
  <1> QED BY <1>1, <1>6, <1>7

-----------------------------------------------------------------------------
(* Numbering and buffering a frame.                                        *)

LEMMA NumberedFrame ==
  ASSUME NEW s \in SessRow, NEW c \in Conns, NEW kind \in FrameKinds
  PROVE  LET f == Numbered(s, c, kind)
         IN f \in Frames /\ f.id = s.last + 1 /\ f.run = c /\ f.kind = kind
  BY DEF Numbered, Frames, SessRow

LEMMA BufferedRow ==
  ASSUME NEW s \in SessRow, NEW L \in Seq(Frames), NEW f \in Frames, Logged(s, L),
         f.id = s.last + 1
  PROVE  /\ Buffered(s, f) \in SessRow /\ Buffered(s, f).hist = s.hist
         /\ Buffered(s, f).last = s.last + 1
         /\ Logged(Buffered(s, f), Append(L, f))
  <1> USE ChatStreamAssumption
  <1> DEFINE b == Append(s.buf, f)
             n == Len(s.buf) + 1
             over == IF n > BufferCap THEN n - BufferCap ELSE 0
             d == SubSeq(b, over + 1, n)
             z == [s EXCEPT !.last = f.id, !.buf = d]
             P == Append(L, f)
             l == Len(L)
  <1>1. s.buf \in Seq(Frames) /\ s.hist \in Seq(Messages) /\ s.last \in Nat /\ f.id \in Nat
    BY DEF SessRow, Frames
  <1>2. Len(s.buf) \in Nat /\ n \in Nat /\ l \in Nat /\ over \in Nat /\ over <= 1 /\ over < n
    BY <1>1 DEF Logged
  <1>3. /\ b \in Seq(Frames) /\ Len(b) = n /\ b[n] = f
        /\ \A j \in 1..Len(s.buf) : b[j] = s.buf[j]
    BY <1>1, AppendProperties
  <1>4. Buffered(s, f) = z
    BY <1>3 DEF Buffered
  <1>5. /\ P \in Seq(Frames) /\ Len(P) = l + 1 /\ P[l + 1] = f
        /\ \A i \in 1..l : P[i] = L[i]
    BY AppendProperties
  <1> HIDE DEF b, P, over
  <1>6. d \in Seq(Frames) /\ Len(d) = n - over /\ \A j \in 1..(n - over) : d[j] = b[over + j]
    BY <1>2, <1>3
  <1> HIDE DEF d
  <1>7. z \in SessRow /\ z.hist = s.hist /\ z.last = f.id /\ z.buf = d
    BY <1>1, <1>6 DEF SessRow
  <1> HIDE DEF z
  <1>8. n - over <= BufferCap /\ (n <= BufferCap => over = 0) /\ n - over > 0
    <2>1. BufferCap \in Nat /\ BufferCap > 0 /\ n \in Nat /\ n > 0
      BY <1>2
    <2> HIDE DEF n
    <2> QED BY <2>1 DEF over
  <1>9. s.last = l /\ Len(s.buf) <= l /\ (l <= BufferCap => Len(s.buf) = l)
    BY DEF Logged
  <1>10. ASSUME NEW i \in 1..Len(P) PROVE P[i].id = i
    <2>1. \A x \in 1..l : L[x].id = x
      BY DEF Logged
    <2>2. CASE i = l + 1
      BY <1>5, <1>9, <2>2
    <2>3. CASE i # l + 1
      <3>1. i \in 1..l
        BY <1>2, <1>5, <2>3
      <3> QED BY <1>5, <2>1, <3>1
    <2> QED BY <2>2, <2>3
  <1>11. ASSUME NEW j \in 1..Len(d) PROVE d[j] = P[Len(P) - Len(d) + j]
    <2>1. d[j] = b[over + j] /\ Len(P) - Len(d) + j = l + 1 - n + over + j
      BY <1>2, <1>5, <1>6
    <2>2. CASE over + j = n
      <3>1. l + 1 - n + over + j = l + 1
        BY <1>2, <2>2
      <3> QED BY <1>3, <1>5, <2>1, <2>2, <3>1
    <2>3. CASE over + j < n
      <3>1. over + j \in 1..Len(s.buf) /\ l - Len(s.buf) + (over + j) \in 1..l
            /\ l + 1 - n + over + j = l - Len(s.buf) + (over + j)
        <4>1. j \in Nat /\ j > 0
          BY <1>2, <1>6
        <4> QED BY <1>2, <1>9, <2>3, <4>1
      <3>2. \A x \in 1..Len(s.buf) : s.buf[x] = L[Len(L) - Len(s.buf) + x]
        BY DEF Logged
      <3> DEFINE x == over + j
      <3>3. b[x] = L[l - Len(s.buf) + x]
        <4> HIDE DEF x
        <4> QED BY <1>3, <3>1, <3>2 DEF x
      <3> QED BY <1>5, <2>1, <3>1, <3>3
    <2>4. over + j <= n
      <3>1. j \in Nat /\ j <= n - over
        BY <1>2, <1>6
      <3> HIDE DEF n
      <3> QED BY <1>2, <3>1
    <2>5. over + j = n \/ over + j < n
      <3>1. j \in Nat
        BY <1>2, <1>6
      <3> HIDE DEF n
      <3> QED BY <1>2, <2>4, <3>1
    <2> QED BY <2>2, <2>3, <2>5
  <1>12. Logged(z, P)
    <2>1. z.last = Len(P) /\ Len(d) <= Len(P) /\ Len(d) <= BufferCap /\ Len(d) > 0
      BY <1>2, <1>5, <1>6, <1>7, <1>8, <1>9
    <2>2. Len(P) <= BufferCap => Len(d) = Len(P)
      BY <1>2, <1>5, <1>6, <1>8, <1>9
    <2> QED BY <1>7, <1>10, <1>11, <2>1, <2>2 DEF Logged
  <1> QED BY <1>4, <1>7, <1>12 DEF P

-----------------------------------------------------------------------------
(* The first state, and what the invariant says of the properties.         *)

LEMMA StreamStarts == StreamInit => StreamInv
  <1> SUFFICES ASSUME StreamInit PROVE StreamInv
    OBVIOUS
  <1> USE ChatStreamAssumption DEF StreamInit
  <1>1. FreshSession \in SessRow /\ Len(FreshSession.buf) = 0 /\ FreshSession.last = 0
    BY DEF FreshSession, SessRow
  <1>2. RowsTyped
    <2>1. client \in ClientRow
      BY DEF ClientRow
    <2> QED BY <1>1, <2>1 DEF RowsTyped, Objs
  <1>3. Len(conn) = 0 /\ client.phase = "idle" /\ client.last = 0 /\ client.msg = 0
        /\ client.seen = <<>> /\ client.terminal = FALSE /\ client.answered = {}
    OBVIOUS
  <1>4. Counted
    BY <1>3 DEF Counted
  <1>5. Books
    <2> SUFFICES ASSUME NEW o \in Objs
                 PROVE  Logged(sess[o], log[o]) /\ \A i \in 1..Len(log[o]) : log[o][i].run \in 1..Len(conn)
      BY DEF Books
    <2>1. sess[o] = FreshSession /\ log[o] = <<>>
      BY DEF Objs
    <2>2. BufferCap \in Nat /\ Len(log[o]) = 0
      BY <2>1
    <2>3. Logged(sess[o], log[o])
      <3> DEFINE s == sess[o]
                 L == log[o]
      <3>1. s.last = 0 /\ Len(s.buf) = 0
        BY <1>1, <2>1
      <3> HIDE DEF s, L
      <3>2. Len(L) = 0
        BY <2>2 DEF L
      <3>3. Logged(s, L)
        BY <2>2, <3>1, <3>2 DEF Logged
      <3> QED BY <3>3 DEF s, L
    <2> QED BY <2>2, <2>3
  <1>6. Links /\ Opened /\ Alone
    BY <1>3 DEF Links, Opened, Alone
  <1>7. Unused
    BY DEF Unused
  <1>8. Holds /\ Recalls
    BY <1>3 DEF Holds, Recalls
  <1>9. Ordered
    BY <1>3 DEF Ordered, Genuine, Ascending
  <1>10. Unbroken
    BY <1>3 DEF Unbroken, Joined
  <1>11. Finals
    <2>1. Len(log[0]) = 0
      OBVIOUS
    <2> QED BY <1>3, <2>1 DEF Finals, RunsFollow, FirstFrames, UnseenFinal, FinalReplayed, NotRerun
  <1> QED BY <1>2, <1>4, <1>5, <1>6, <1>7, <1>8, <1>9, <1>10, <1>11 DEF StreamInv

\* Every attempt of every message has a number.
LEMMA Multiple ==
  ASSUME NEW m \in Nat, NEW n \in Nat, NEW k \in Nat, m <= n
  PROVE  m * k \in Nat /\ m * k <= n * k /\ (m + 1) * k = m * k + k
  <1>1. n = m + (n - m) /\ n - m \in Nat
    OBVIOUS
  <1>2. n * k = m * k + (n - m) * k /\ (n - m) * k \in Nat
    BY <1>1
  <1> QED BY <1>2

LEMMA Numbers ==
  ASSUME RowsTyped, Counted
  PROVE  /\ Len(conn) <= Len(Sends) * (MaxRetries + 1) /\ 1..Len(conn) \subseteq Conns
         /\ client.phase = "fetch" => Len(conn) + 1 \in Conns
  <1> DEFINE K == MaxRetries + 1
             N == Len(Sends)
             l == Len(conn)
             m == client.msg
             a == client.attempt
  <1>1. K \in Nat /\ N \in Nat /\ l \in Nat /\ m \in 0..N /\ a \in 0..MaxRetries /\ MaxRetries \in Nat
    BY ChatStreamAssumption DEF RowsTyped, ClientRow, Messages
  <1>2. /\ client.phase # "idle" => m # 0
        /\ m = 0 => l = 0
        /\ m # 0 => l <= (m - 1) * K + a + (IF client.phase \in {"read", "idle"} THEN 1 ELSE 0)
    BY DEF Counted
  <1>3. Conns = 1..(N * K)
    BY DEF Conns
  <1>4. N * K \in Nat
    BY <1>1
  <1>5. m # 0 => (m - 1) * K + K <= N * K
    <2> SUFFICES ASSUME m # 0 PROVE (m - 1) * K + K <= N * K
      OBVIOUS
    <2>1. m \in Nat /\ m - 1 \in Nat /\ m <= N /\ (m - 1) + 1 = m
      BY <1>1
    <2> HIDE DEF m, K, N
    <2>2. ((m - 1) + 1) * K = (m - 1) * K + K
      BY <1>1, <2>1, Multiple
    <2>3. m * K <= N * K
      BY <1>1, <2>1, Multiple
    <2> QED BY <2>1, <2>2, <2>3
  <1>6. m # 0 => (m - 1) * K \in Nat
    BY <1>1
  <1> HIDE DEF m, a, l, N
  <1>7. l <= N * K /\ (client.phase = "fetch" => l + 1 <= N * K)
    <2> DEFINE x == (m - 1) * K
               y == N * K
    <2> HIDE DEF x, y
    <2>1. m # 0 => l <= x + a + (IF client.phase \in {"read", "idle"} THEN 1 ELSE 0)
      BY <1>2 DEF x
    <2>2. y \in Nat /\ (m # 0 => x \in Nat /\ x + K <= y)
      BY <1>4, <1>5, <1>6 DEF x, y
    <2>3. K = MaxRetries + 1
      OBVIOUS
    <2>4. l <= y /\ (client.phase = "fetch" => l + 1 <= y)
      <3>1. CASE m = 0
        BY <1>2, <2>2, <3>1
      <3>2. CASE m # 0
        BY <1>1, <2>1, <2>2, <3>2
      <3> QED BY <3>1, <3>2
    <2> QED BY <2>4 DEF y
  <1> QED BY <1>1, <1>3, <1>4, <1>7 DEF l, N

LEMMA InvTyped == ASSUME StreamInv PROVE StreamTyped
  <1> USE ChatStreamAssumption
  <1>1. RowsTyped /\ Books /\ Counted
    BY DEF StreamInv
  <1>2. \A o \in DOMAIN sess :
         /\ sess[o].last \in Nat
         /\ sess[o].buf \in Seq(Frames) /\ Len(sess[o].buf) <= BufferCap
         /\ sess[o].hist \in Seq(Messages)
         /\ log[o] \in Seq(Frames)
    BY <1>1 DEF RowsTyped, Books, Logged, SessRow
  <1>3. Len(conn) <= Cardinality(Conns)
    <2> DEFINE n == Len(Sends) * (MaxRetries + 1)
    <2>1. n \in Nat
      OBVIOUS
    <2>2. Len(conn) <= n
      BY <1>1, Numbers
    <2> HIDE DEF n
    <2>3. Cardinality(1..n) = n
      <3>1. Cardinality(1..n) = IF 1 > n THEN 0 ELSE n - 1 + 1
        BY <2>1, FS_Interval
      <3> QED BY <2>1, <3>1
    <2>4. Conns = 1..n
      BY DEF Conns, n
    <2> QED BY <2>2, <2>3, <2>4
  <1>4. \A c \in DOMAIN conn : conn[c] \in ConnRow
    BY <1>1 DEF RowsTyped
  <1>5. /\ client.phase \in {"idle", "fetch", "read", "backoff"}
        /\ client.msg \in {0} \union Messages /\ client.attempt \in 0 .. MaxRetries
        /\ client.answered \subseteq Messages /\ client.seen \in Seq(Frames)
    BY <1>1 DEF RowsTyped, ClientRow
  <1>6. store \in Stores /\ exists \in BOOLEAN /\ title \in {0} \union Messages
    BY <1>1 DEF RowsTyped
  <1> QED BY <1>2, <1>3, <1>4, <1>5, <1>6 DEF StreamTyped, ConnRow

LEMMA InvDelivered == ASSUME StreamInv PROVE FramesDelivered
  <1>1. StreamTyped
    BY InvTyped
  <1>2. RowsTyped /\ Ordered /\ Unbroken
    BY DEF StreamInv
  <1>3. client.seen \in Seq(Frames) /\ DOMAIN client.seen = 1..Len(client.seen) /\ Len(client.seen) \in Nat
    BY <1>2 DEF RowsTyped, ClientRow
  <1>4. DOMAIN log = Objs /\ 0 \in DOMAIN log /\ log[0] \in Seq(Frames) /\ DOMAIN log[0] = 1..Len(log[0])
    BY <1>2 DEF RowsTyped, Objs
  <1>5. SeenInOrder
    BY <1>2, <1>3, <1>4 DEF SeenInOrder, SeenAscending, Ordered, InMemory, Genuine, Ascending
  <1>6. PromptNotice /\ NothingDropped => GapsTold
    <2> SUFFICES ASSUME PromptNotice, NothingDropped, NEW i \in DOMAIN client.seen \ {1}
                 PROVE  Joins(client.seen[i - 1].id, client.seen[i])
      BY DEF GapsTold, Joins
    <2>1. i \in 2..Len(client.seen)
      BY <1>3
    <2> QED BY <1>2, <2>1 DEF Unbroken, Joined
  <1> QED BY <1>1, <1>5, <1>6 DEF FramesDelivered

LEMMA InvKeeps == ASSUME StreamInv PROVE MemoryKeeps
  <1>1. RowsTyped /\ Books /\ Recalls /\ Finals
    BY DEF StreamInv
  <1>2. log[0] \in Seq(Frames) /\ DOMAIN log[0] = 1..Len(log[0]) /\ 0 \in Objs /\ DOMAIN conn = 1..Len(conn)
    BY <1>1 DEF RowsTyped, Objs
  <1>3. ASSUME PromptNotice PROVE FinishedNotRerun
    <2> SUFFICES ASSUME store = "memory", NEW c \in DOMAIN conn, NEW d \in DOMAIN conn,
                        c < d, conn[c].msg = conn[d].msg, conn[d].after # 0, conn[d].ran,
                        NEW f \in Range(log[Obj(c)]),
                        f.run = c, f.kind = "final", f.id > conn[d].after
                 PROVE  FALSE
      BY DEF FinishedNotRerun
    <2>1. Obj(c) = 0
      BY DEF Obj
    <2>2. PICK p \in 1..Len(log[0]) : log[0][p] = f
      BY <1>2, <2>1 DEF Range
    <2>3. f.id = p
      BY <1>1, <1>2, <2>2 DEF Books, Logged
    <2>4. NotRerun
      BY <1>1, <1>3 DEF Finals, InMemory
    <2> QED BY <1>2, <2>2, <2>3, <2>4 DEF NotRerun, FinalOf
  <1>4. MemoryRemembers
    BY <1>1 DEF Recalls, InMemory, Remembered, MemoryRemembers, RemembersAnswered, Obj
  <1> QED BY <1>3, <1>4 DEF MemoryKeeps

-----------------------------------------------------------------------------
(* Steps that number no frame and serve no request: links are cut, requests *)
(* end, and the client stops reading.                                      *)

Fainter(r, q) ==
    /\ q.msg = r.msg /\ q.after = r.after /\ q.valid = r.valid /\ q.sent = r.sent /\ q.ran = r.ran
    /\ q.phase = r.phase \/ q.phase = "over"
    /\ q.link => r.link /\ q.wire = r.wire
    /\ ~q.link => q.wire = <<>>

Leaves ==
    /\ client'.phase # "read"
    /\ client.phase = "read" => ~conn'[client.conn].link \/ conn'[client.conn].phase = "over"
    /\ \/ /\ client'.last = client.last /\ client'.seen = client.seen
          /\ client'.msg = client.msg /\ client'.terminal = client.terminal
       \/ client'.last = 0 /\ client'.seen = <<>> /\ client'.terminal = FALSE
    /\ client'.answered \subseteq client.answered \cup (IF client.terminal THEN {client.msg} ELSE {})

Quiet ==
    /\ store' = store /\ sess' = sess /\ log' = log /\ title' = title
    /\ exists' \in BOOLEAN /\ client' \in ClientRow /\ conn' \in Seq(ConnRow)
    /\ Len(conn') = Len(conn) /\ \A c \in 1..Len(conn) : Fainter(conn[c], conn'[c])
    /\ client' = client \/ Leaves

LEMMA QuietKeeps ==
  ASSUME StreamInv, Quiet, Counted'
  PROVE  StreamInv'
  <1> DEFINE I == 1..Len(conn)
  <1>1. /\ RowsTyped /\ Books /\ Links /\ Opened /\ Unused /\ Holds /\ Recalls
        /\ Ordered /\ Alone /\ Unbroken /\ Finals
    BY DEF StreamInv
  <1>2. /\ store' = store /\ sess' = sess /\ log' = log /\ Len(conn') = Len(conn)
        /\ \A c \in I : Fainter(conn[c], conn'[c])
    BY DEF Quiet
  <1>3. RowsTyped'
    BY <1>1 DEF RowsTyped, Quiet
  <1>4. Books'
    BY <1>1, <1>2 DEF Books, Logged
  <1>5. ASSUME NEW c, Reading(c)' PROVE client' = client /\ Reading(c)
    BY <1>5 DEF Reading, Quiet, Leaves
  <1>6. Links'
    <2> SUFFICES ASSUME NEW c \in I PROVE LinkOK(c, conn[c])'
      BY <1>2 DEF Links
    <2>1. LinkOK(c, conn[c]) /\ Fainter(conn[c], conn'[c])
      BY <1>1, <1>2 DEF Links
    <2>2. conn'[c].link /\ conn'[c].phase # "over" => Reading(c)'
      <3> SUFFICES ASSUME conn'[c].link, conn'[c].phase # "over" PROVE Reading(c)'
        OBVIOUS
      <3>1. Reading(c)
        BY <2>1 DEF LinkOK, Fainter
      <3> QED BY <3>1 DEF Reading, Quiet, Leaves
    <2>3. InMemory' = InMemory /\ Remembered' = Remembered
      BY <1>2 DEF InMemory, Remembered
    <2> QED BY <2>1, <2>2, <2>3 DEF LinkOK, Fainter
  <1>7. Opened'
    <2> SUFFICES ASSUME NEW c \in I, conn'[c].phase = "opened" PROVE OpenedOK(c, conn[c])'
      BY <1>2 DEF Opened
    <2>1. Fainter(conn[c], conn'[c]) /\ conn[c].phase = "opened"
      BY <1>2 DEF Fainter
    <2>2. OpenedOK(c, conn[c])
      BY <1>1, <2>1 DEF Opened
    <2>3. InMemory' = InMemory
      BY <1>2 DEF InMemory
    <2>4. c = Len(conn) =>
         \/ client'.last = conn[c].after /\ client'.msg = conn[c].msg
         \/ client'.last = 0 /\ ~Reading(c)'
      BY <2>2 DEF OpenedOK, Quiet, Leaves, Reading
    <2> QED BY <1>2, <2>1, <2>2, <2>3, <2>4 DEF OpenedOK, Fainter
  <1>8. Unused'
    BY <1>1, <1>2 DEF Unused, InMemory, Fainter
  <1>9. Holds'
    <2>1. client'.phase = "read" => client' = client
      BY DEF Quiet, Leaves
    <2>2. client.phase = "read" => conn'[Len(conn)].msg = conn[Len(conn)].msg
      <3>1. client.phase = "read" => Len(conn) \in I
        BY <1>1 DEF Holds, RowsTyped
      <3> QED BY <1>2, <3>1 DEF Fainter
    <2>3. client'.phase = "read" => /\ client'.conn = Len(conn') /\ Len(conn') # 0
                                    /\ conn'[Len(conn')].msg = client'.msg
      BY <1>1, <1>2, <2>1, <2>2 DEF Holds
    <2>4. /\ client'.last = 0 <=> client'.seen = <<>>
          /\ client'.seen # <<>> => client'.last = client'.seen[Len(client'.seen)].id
          /\ client'.terminal => client'.last # 0
      BY <1>1 DEF Holds, Quiet, Leaves
    <2> QED BY <2>3, <2>4 DEF Holds
  <1>10. Recalls'
    <2> SUFFICES ASSUME InMemory'
                 PROVE  /\ client'.answered \subseteq Remembered'
                        /\ client'.last # 0 => client'.msg \in Remembered'
                        /\ \A c \in I : Reading(c)' /\ conn'[c].wire # <<>> => client'.msg \in Remembered'
      BY <1>2 DEF Recalls
    <2>1. InMemory /\ Remembered' = Remembered
      BY <1>2 DEF InMemory, Remembered
    <2>2. client.terminal => client.msg \in Remembered
      BY <1>1, <2>1 DEF Recalls, Holds
    <2>3. client'.answered \subseteq Remembered' /\ (client'.last # 0 => client'.msg \in Remembered')
      BY <1>1, <2>1, <2>2 DEF Recalls, Quiet, Leaves
    <2>4. ASSUME NEW c \in I, Reading(c)', conn'[c].wire # <<>> PROVE client'.msg \in Remembered'
      <3>1. client' = client /\ Reading(c)
        BY <1>5, <2>4
      <3>2. conn[c].wire # <<>>
        BY <1>2, <2>4 DEF Fainter
      <3> QED BY <1>1, <2>1, <3>1, <3>2 DEF Recalls
    <2> QED BY <2>3, <2>4
  <1>11. Ordered'
    <2> SUFFICES ASSUME InMemory' PROVE Ordered'
      BY DEF Ordered
    <2>0. InMemory
      BY <1>2 DEF InMemory
    <2>1. /\ Genuine(client.seen)' /\ Ascending(client.seen)'
          /\ \A i \in 1..Len(client'.seen) : client'.seen[i].id <= client'.last
      <3>1. CASE client'.seen = client.seen /\ client'.last = client.last
        BY <1>1, <1>2, <2>0, <3>1 DEF Ordered, Genuine, Ascending
      <3>2. CASE client'.seen = <<>>
        BY <3>2 DEF Genuine, Ascending
      <3> QED BY <3>1, <3>2 DEF Quiet, Leaves
    <2>2. ASSUME NEW c \in I, Reading(c)'
          PROVE  /\ Genuine(conn[c].wire)' /\ Ascending(conn[c].wire)'
                 /\ \A i \in 1..Len(conn'[c].wire) : conn'[c].wire[i].id > client'.last
      <3>1. client' = client /\ Reading(c)
        BY <1>5, <2>2
      <3>2. CASE conn'[c].wire = conn[c].wire
        BY <1>1, <1>2, <2>0, <3>1, <3>2 DEF Ordered, Genuine, Ascending
      <3>3. CASE conn'[c].wire = <<>>
        BY <3>3 DEF Genuine, Ascending
      <3> QED BY <1>2, <3>2, <3>3 DEF Fainter
    <2> QED BY <1>2, <2>1, <2>2 DEF Ordered
  <1>12. Alone'
    BY <1>1, <1>2 DEF Alone, Fainter
  <1>13. Unbroken'
    <2> SUFFICES ASSUME PromptNotice, NothingDropped' PROVE Unbroken'
      BY DEF Unbroken
    <2>0. NothingDropped
      BY <1>2 DEF NothingDropped
    <2>1. Joined(client.seen)'
      <3>1. CASE client'.seen = client.seen
        BY <1>1, <2>0, <3>1 DEF Unbroken, Joined, Joins
      <3>2. CASE client'.seen = <<>>
        BY <3>2 DEF Joined
      <3> QED BY <3>1, <3>2 DEF Quiet, Leaves
    <2>2. ASSUME NEW c \in I, Reading(c)' PROVE WireJoined(conn[c], sess[Obj(c)].last)'
      <3>1. client' = client /\ Reading(c) /\ Obj(c)' = Obj(c) /\ sess' = sess
        BY <1>2, <1>5, <2>2 DEF Obj
      <3>2. WireJoined(conn[c], sess[Obj(c)].last)
        BY <1>1, <2>0, <3>1 DEF Unbroken
      <3>3. CASE conn'[c].link
        <4>1. conn'[c].wire = conn[c].wire /\ conn[c].link /\ (conn'[c].phase = "live" => conn[c].phase = "live")
          BY <1>2, <3>3 DEF Fainter
        <4> QED BY <3>1, <3>2, <4>1 DEF WireJoined, Joined, Joins
      <3>4. CASE ~conn'[c].link
        <4>1. conn'[c].wire = <<>>
          BY <1>2, <3>4 DEF Fainter
        <4> QED BY <3>4, <4>1 DEF WireJoined, Joined
      <3> QED BY <3>3, <3>4
    <2> QED BY <1>2, <2>1, <2>2 DEF Unbroken
  <1>14. Finals'
    <2> SUFFICES ASSUME PromptNotice, InMemory'
                 PROVE  (RunsFollow /\ FirstFrames /\ UnseenFinal /\ FinalReplayed /\ NotRerun)'
      BY DEF Finals
    <2>0. RunsFollow /\ FirstFrames /\ UnseenFinal /\ FinalReplayed /\ NotRerun
      BY <1>1, <1>2 DEF Finals, InMemory
    <2>1. \A c \in I : /\ conn'[c].msg = conn[c].msg /\ conn'[c].after = conn[c].after
                       /\ conn'[c].ran = conn[c].ran /\ (conn[c].phase = "over" => conn'[c].phase = "over")
                       /\ conn'[c].phase \in {conn[c].phase, "over"}
                       /\ conn'[c].wire \in {conn[c].wire, <<>>}
      BY <1>2 DEF Fainter
    <2>2. \A p \in 1..Len(log[0]) : log[0][p].run \in I
      BY <1>1 DEF Books, Objs
    <2>3. \A p \in 1..Len(log[0]) : \A m : FinalOf(p, m)' <=> FinalOf(p, m)
      BY <1>2, <2>1, <2>2 DEF FinalOf
    <2>4. RunsFollow'
      BY <1>2, <2>0, <2>1, <2>2 DEF RunsFollow
    <2>5. FirstFrames'
      <3> SUFFICES ASSUME NEW c \in I, Reading(c)', client'.last = 0, NEW i \in 1..Len(conn'[c].wire)
                   PROVE  conn'[c].wire[i].run = c
        BY <1>2 DEF FirstFrames
      <3>1. client' = client /\ Reading(c)
        BY <1>5
      <3>2. conn'[c].wire = conn[c].wire
        BY <2>1
      <3> QED BY <2>0, <3>1, <3>2 DEF FirstFrames
    <2>6. UnseenFinal'
      <3> SUFFICES ASSUME client'.last # 0, NEW p \in 1..Len(log[0]), p > client'.last, FinalOf(p, client.msg)'
                   PROVE  p = Len(log[0]) /\ \A e \in I : conn'[e].phase # "live"
        BY <1>2 DEF UnseenFinal
      <3>1. client'.last = client.last /\ client'.msg = client.msg
        BY DEF Quiet, Leaves
      <3>2. FinalOf(p, client.msg)
        BY <2>3, <3>1 DEF FinalOf
      <3> QED BY <2>0, <2>1, <3>1, <3>2 DEF UnseenFinal
    <2>7. FinalReplayed'
      <3> SUFFICES ASSUME NEW d \in I, conn'[d].phase = "opened", conn'[d].after # 0,
                          NEW p \in 1..Len(log[0]), p > conn'[d].after, FinalOf(p, conn[d].msg)'
                   PROVE  p = Len(log[0])
        BY <1>2 DEF FinalReplayed
      <3>1. conn[d].phase = "opened" /\ conn[d].after = conn'[d].after /\ conn[d].msg = conn'[d].msg
        BY <2>1
      <3>2. FinalOf(p, conn[d].msg)
        BY <1>2, <2>1, <2>2, <3>1 DEF FinalOf
      <3> QED BY <2>0, <3>1, <3>2 DEF FinalReplayed
    <2>8. NotRerun'
      <3> SUFFICES ASSUME NEW d \in I, conn'[d].after # 0, conn'[d].ran,
                          NEW p \in 1..Len(log[0]), p > conn'[d].after, log[0][p].run < d,
                          FinalOf(p, conn[d].msg)'
                   PROVE  FALSE
        BY <1>2 DEF NotRerun
      <3>1. conn[d].ran /\ conn[d].after = conn'[d].after /\ conn[d].msg = conn'[d].msg
        BY <2>1
      <3>2. FinalOf(p, conn[d].msg)
        BY <1>2, <2>1, <2>2, <3>1 DEF FinalOf
      <3> QED BY <2>0, <3>1, <3>2 DEF NotRerun
    <2> QED BY <2>4, <2>5, <2>6, <2>7, <2>8
  <1> QED BY <1>3, <1>4, <1>6, <1>7, <1>8, <1>9, <1>10, <1>11, <1>12, <1>13, <1>14 DEF StreamInv

\* The count of requests, with its products hidden.
LEMMA CountKept ==
  ASSUME RowsTyped, Counted, client' \in ClientRow, Len(conn') = Len(conn),
         client'.msg = client.msg, client'.attempt >= client.attempt,
         client'.phase # "idle" => client.phase # "idle",
         client.phase \in {"read", "idle"} =>
            client'.phase \in {"read", "idle"} \/ client'.attempt > client.attempt
  PROVE  Counted'
  <1> DEFINE x == (client.msg - 1) * (MaxRetries + 1)
             a == client.attempt
             b == client'.attempt
             l == Len(conn)
             u == IF client.phase \in {"read", "idle"} THEN 1 ELSE 0
             v == IF client'.phase \in {"read", "idle"} THEN 1 ELSE 0
  <1>1. a \in Nat /\ b \in Nat /\ l \in Nat
    BY ChatStreamAssumption DEF RowsTyped, ClientRow
  <1>2. client.msg # 0 => x \in Nat
    BY ChatStreamAssumption DEF RowsTyped, ClientRow, Messages
  <1>3. client.msg # 0 => l <= x + a + u
    BY DEF Counted
  <1>4. a + u <= b + v
    BY <1>1
  <1>5. u \in Nat /\ v \in Nat
    OBVIOUS
  <1> HIDE DEF x, a, b, l, u, v
  <1>6. client.msg # 0 => l <= x + b + v
    BY <1>1, <1>2, <1>3, <1>4, <1>5
  <1> QED BY <1>6 DEF Counted, x, a, b, l, u, v

LEMMA Same == ASSUME NEW r, r \in ConnRow, ~r.link => r.wire = <<>> PROVE Fainter(r, r)
  BY DEF Fainter

LEMMA AllSame == ASSUME StreamInv, conn' = conn PROVE \A c \in 1..Len(conn) : Fainter(conn[c], conn'[c])
  BY DEF StreamInv, Links, LinkOK, Fainter

\* Records with some fields set.
LEMMA ClientSent ==
  ASSUME NEW k \in ClientRow, NEW m \in Messages
  PROVE  [k EXCEPT !.phase = "fetch", !.msg = m, !.last = 0,
                   !.attempt = 0, !.terminal = FALSE, !.seen = << >>] \in ClientRow
  <1> DEFINE e == <<>>
             z == 0
  <1>1. e \in Seq(Frames) /\ z \in 0..MaxRetries
    BY ChatStreamAssumption
  <1> HIDE DEF e, z
  <1>2. [k EXCEPT !.phase = "fetch", !.msg = m, !.last = 0,
                   !.attempt = z, !.terminal = FALSE, !.seen = e] \in ClientRow
    BY <1>1 DEF ClientRow
  <1> QED BY <1>2 DEF e, z

LEMMA ConnCut ==
  ASSUME NEW r \in ConnRow
  PROVE  /\ [r EXCEPT !.link = FALSE, !.wire = <<>>] \in ConnRow
         /\ Fainter(r, [r EXCEPT !.link = FALSE, !.wire = <<>>])
         /\ [r EXCEPT !.phase = "over", !.link = FALSE, !.wire = <<>>] \in ConnRow
         /\ Fainter(r, [r EXCEPT !.phase = "over", !.link = FALSE, !.wire = <<>>])
         /\ ~r.link /\ r.wire = <<>> =>
              /\ [r EXCEPT !.phase = "over"] \in ConnRow
              /\ Fainter(r, [r EXCEPT !.phase = "over"])
  <1> DEFINE e == <<>>
             q1 == [r EXCEPT !.link = FALSE, !.wire = e]
             q2 == [r EXCEPT !.phase = "over", !.link = FALSE, !.wire = e]
             q3 == [r EXCEPT !.phase = "over"]
  <1>1. e \in Seq(Frames)
    OBVIOUS
  <1> HIDE DEF e
  <1>2. q1 \in ConnRow /\ q2 \in ConnRow /\ q3 \in ConnRow
    BY <1>1 DEF ConnRow
  <1>3. Fainter(r, q1)
    BY <1>1 DEF ConnRow, Fainter, e
  <1>4. Fainter(r, q2)
    BY <1>1 DEF ConnRow, Fainter, e
  <1>5. ~r.link /\ r.wire = <<>> => Fainter(r, q3)
    BY <1>1 DEF ConnRow, Fainter
  <1> QED BY <1>2, <1>3, <1>4, <1>5 DEF e

LEMMA SendStep == ASSUME StreamInv, Send PROVE StreamInv'
  <1> USE ChatStreamAssumption
  <1>1. RowsTyped /\ Counted
    BY DEF StreamInv
  <1>2. client \in ClientRow /\ client.msg + 1 \in Messages /\ 0 \in 0..MaxRetries /\ <<>> \in Seq(Frames)
    BY <1>1 DEF Send, RowsTyped, ClientRow, Messages
  <1>3. client' = [client EXCEPT !.phase = "fetch", !.msg = client.msg + 1, !.last = 0,
                                 !.attempt = 0, !.terminal = FALSE, !.seen = << >>]
    BY DEF Send
  <1>4. client' \in ClientRow /\ client'.phase = "fetch" /\ client'.msg = client.msg + 1 /\ client'.last = 0
        /\ client'.attempt = 0 /\ client'.terminal = FALSE /\ client'.seen = <<>>
        /\ client'.answered = client.answered
    <2>1. client' \in ClientRow
      BY <1>2, <1>3, ClientSent
    <2> QED BY <1>2, <1>3, <2>1 DEF ClientRow
  <1>5. Quiet
    BY <1>1, <1>4, AllSame DEF Send, RowsTyped, Quiet, Leaves
  <1>6. Counted'
    <2> DEFINE K == MaxRetries + 1
               m == client.msg
               l == Len(conn)
               x == (m - 1) * K
               y == m * K
    <2>1. m \in Nat /\ l \in Nat /\ K \in Nat /\ client.attempt \in 0..MaxRetries /\ K = MaxRetries + 1
      BY <1>1 DEF RowsTyped, ClientRow, Messages
    <2>2. m # 0 => x \in Nat /\ y = x + K
      BY <2>1
    <2>3. y \in Nat
      BY <2>1
    <2>4. (m # 0 => l <= x + client.attempt + 1) /\ (m = 0 => l = 0)
      BY <1>1 DEF Counted, Send
    <2>5. l <= y
      <3> HIDE DEF x, y, m, l, K
      <3> QED BY <2>1, <2>2, <2>3, <2>4
    <2>6. ((m + 1) - 1) * K = y /\ m + 1 # 0
      BY <2>1
    <2>7. Len(conn') = l /\ l <= y + 0 + 0
      BY <2>1, <2>3, <2>5 DEF Send
    <2> HIDE DEF y, l, K
    <2> QED BY <1>4, <2>6, <2>7 DEF Counted, K
  <1> QED BY <1>5, <1>6, QuietKeeps

\* The stream is over: what StreamOver leaves.
LEMMA OverStep ==
  ASSUME StreamInv, client' = StreamOver, client.phase \in {"fetch", "read"},
         client.phase = "read" => ~conn[client.conn].link \/ conn[client.conn].phase = "over",
         UNCHANGED <<store, sess, exists, title, conn, log, restarts>>
  PROVE  StreamInv'
  <1> USE ChatStreamAssumption
  <1>1. RowsTyped /\ Counted
    BY DEF StreamInv
  <1>2. /\ client' \in ClientRow /\ client'.phase \in {"idle", "backoff"}
        /\ client'.last = client.last /\ client'.seen = client.seen
        /\ client'.msg = client.msg /\ client'.terminal = client.terminal
        /\ client'.answered \subseteq client.answered \cup (IF client.terminal THEN {client.msg} ELSE {})
        /\ client'.attempt >= client.attempt
        /\ client'.phase = "backoff" => client'.attempt > client.attempt
    <2>1. client.msg \in Messages
      BY <1>1 DEF RowsTyped, ClientRow, Counted
    <2> DEFINE k == client
    <2>2. k \in ClientRow
      BY <1>1 DEF RowsTyped
    <2>3. CASE client.terminal
      <3>1. client' = [k EXCEPT !.phase = "idle", !.answered = @ \union {k.msg}]
        BY <2>3 DEF StreamOver
      <3>2. k.answered \cup {k.msg} \in SUBSET Messages
        BY <2>1, <2>2 DEF ClientRow
      <3>3. /\ client'.phase = "idle" /\ client'.last = k.last /\ client'.seen = k.seen
            /\ client'.msg = k.msg /\ client'.terminal = k.terminal
            /\ client'.answered = k.answered \cup {k.msg} /\ client'.attempt = k.attempt
        BY <2>2, <3>1 DEF ClientRow
      <3>4. client' \in ClientRow /\ k.attempt \in 0..MaxRetries
        BY <2>2, <3>1, <3>2 DEF ClientRow
      <3> QED BY <2>3, <3>3, <3>4
    <2>4. CASE ~client.terminal /\ client.attempt >= MaxRetries
      <3>1. client' = [k EXCEPT !.phase = "idle"]
        BY <2>4 DEF StreamOver
      <3>2. /\ client'.phase = "idle" /\ client'.last = k.last /\ client'.seen = k.seen
            /\ client'.msg = k.msg /\ client'.terminal = k.terminal
            /\ client'.answered = k.answered /\ client'.attempt = k.attempt
        BY <2>2, <3>1 DEF ClientRow
      <3>3. client' \in ClientRow /\ k.attempt \in 0..MaxRetries
        BY <2>2, <3>1 DEF ClientRow
      <3> QED BY <2>4, <3>2, <3>3
    <2>5. CASE ~client.terminal /\ ~(client.attempt >= MaxRetries)
      <3>1. client' = [k EXCEPT !.phase = "backoff", !.attempt = @ + 1]
        BY <2>5 DEF StreamOver
      <3>2. k.attempt \in 0..MaxRetries /\ k.attempt + 1 \in 0..MaxRetries
        BY <2>2, <2>5 DEF ClientRow
      <3>3. /\ client'.phase = "backoff" /\ client'.last = k.last /\ client'.seen = k.seen
            /\ client'.msg = k.msg /\ client'.terminal = k.terminal
            /\ client'.answered = k.answered /\ client'.attempt = k.attempt + 1
        BY <2>2, <3>1 DEF ClientRow
      <3>4. client' \in ClientRow /\ k.attempt \in 0..MaxRetries
        BY <2>2, <3>1, <3>2 DEF ClientRow
      <3> QED BY <2>5, <3>3, <3>4
    <2> QED BY <2>3, <2>4, <2>5
  <1>3. Quiet
    BY <1>1, <1>2, AllSame DEF RowsTyped, Quiet, Leaves
  <1>4. Counted'
    BY <1>1, <1>2, CountKept
  <1> QED BY <1>3, <1>4, QuietKeeps

\* The client stops or goes on without a request.
LEMMA PhaseStep ==
  ASSUME StreamInv, NEW ph \in {"idle", "fetch"}, client' = [client EXCEPT !.phase = ph],
         client.phase \in {"fetch", "read", "backoff"}, ph = "fetch" => client.phase = "backoff",
         \/ conn' = conn /\ client.phase # "read"
         \/ /\ client.phase = "read"
            /\ conn' = [conn EXCEPT ![client.conn].link = FALSE, ![client.conn].wire = << >>],
         UNCHANGED <<store, sess, exists, title, log, restarts>>
  PROVE  StreamInv'
  <1>1. RowsTyped /\ Counted /\ Links /\ Holds
    BY DEF StreamInv
  <1>2. /\ client' \in ClientRow /\ client'.phase = ph
        /\ client'.last = client.last /\ client'.seen = client.seen /\ client'.attempt = client.attempt
        /\ client'.msg = client.msg /\ client'.terminal = client.terminal /\ client'.answered = client.answered
        /\ client.attempt \in Nat
    <2>1. client'.attempt = client.attempt /\ client'.answered = client.answered /\ client \in ClientRow
          /\ client.attempt \in Nat
      BY <1>1, ChatStreamAssumption DEF RowsTyped, ClientRow
    <2>2. client' \in ClientRow
      BY <2>1 DEF ClientRow
    <2>3. /\ client'.phase = ph /\ client'.last = client.last /\ client'.seen = client.seen
          /\ client'.msg = client.msg /\ client'.terminal = client.terminal
      BY <2>1 DEF ClientRow
    <2> QED BY <2>1, <2>2, <2>3
  <1>3. /\ conn' \in Seq(ConnRow) /\ Len(conn') = Len(conn)
        /\ \A c \in 1..Len(conn) : Fainter(conn[c], conn'[c])
        /\ client.phase = "read" => ~conn'[client.conn].link
    <2>1. CASE client.phase # "read"
      BY <1>1, <2>1, AllSame DEF RowsTyped
    <2>2. CASE client.phase = "read"
      <3> DEFINE c == client.conn
                 r == [conn[c] EXCEPT !.link = FALSE, !.wire = <<>>]
      <3>1. conn \in Seq(ConnRow) /\ c \in 1..Len(conn) /\ conn[c] \in ConnRow
        BY <1>1, <2>2 DEF Holds, RowsTyped
      <3>2. conn' = [conn EXCEPT ![c] = r]
        BY <2>2, <3>1
      <3>3. r \in ConnRow /\ Fainter(conn[c], r) /\ ~r.link
        <4>1. ~r.link
          BY <3>1 DEF ConnRow
        <4> QED BY <3>1, <4>1, ConnCut
      <3> HIDE DEF r
      <3>4. \A d \in 1..Len(conn) : Fainter(conn[d], conn[d])
        BY <1>1, <3>1, Same DEF Links, LinkOK
      <3>5. conn' \in Seq(ConnRow) /\ Len(conn') = Len(conn) /\ conn'[c] = r
            /\ \A d \in 1..Len(conn) : d # c => conn'[d] = conn[d]
        BY <3>1, <3>2, <3>3
      <3> QED BY <3>1, <3>3, <3>4, <3>5
    <2> QED BY <2>1, <2>2
  <1>4. Quiet
    BY <1>1, <1>2, <1>3 DEF RowsTyped, Quiet, Leaves
  <1>5. Counted'
    BY <1>1, <1>2, <1>3, CountKept
  <1> QED BY <1>4, <1>5, QuietKeeps

\* One request becomes fainter and the client does not move.
LEMMA FaintStep ==
  ASSUME StreamInv, NEW c \in 1..Len(conn), NEW r \in ConnRow, Fainter(conn[c], r),
         conn' = [conn EXCEPT ![c] = r],
         UNCHANGED <<store, sess, exists, title, client, log, restarts>>
  PROVE  StreamInv'
  <1>1. RowsTyped /\ Counted /\ Links /\ conn \in Seq(ConnRow)
    BY DEF StreamInv, RowsTyped
  <1>2. conn' \in Seq(ConnRow) /\ Len(conn') = Len(conn) /\ conn'[c] = r
        /\ \A d \in 1..Len(conn) : d # c => conn'[d] = conn[d]
    BY <1>1
  <1>3. \A d \in 1..Len(conn) : Fainter(conn[d], conn[d])
    BY <1>1, Same DEF Links, LinkOK
  <1>4. Quiet
    BY <1>1, <1>2, <1>3 DEF RowsTyped, Quiet
  <1>5. Counted'
    BY <1>1, <1>2 DEF Counted
  <1> QED BY <1>4, <1>5, QuietKeeps

LEMMA RestartStep == ASSUME StreamInv, RestartApi PROVE StreamInv'
  <1> DEFINE h(c) == [conn[c] EXCEPT !.phase = "over", !.link = FALSE, !.wire = << >>]
             g == conn'
             n == Len(conn)
  <1>1. RowsTyped /\ Counted /\ conn \in Seq(ConnRow) /\ DOMAIN conn = 1..n /\ n \in Nat
    BY DEF StreamInv, RowsTyped
  <1>2. g = [c \in 1..n |-> h(c)] /\ UNCHANGED <<store, sess, title, client, log>> /\ exists' \in BOOLEAN
    BY <1>1 DEF RestartApi
  <1>3. ASSUME NEW c \in 1..n PROVE h(c) \in ConnRow /\ Fainter(conn[c], h(c))
    <2> DEFINE r == conn[c]
    <2>1. r \in ConnRow
      BY <1>1
    <2> HIDE DEF r
    <2>2. /\ [r EXCEPT !.phase = "over", !.link = FALSE, !.wire = <<>>] \in ConnRow
          /\ Fainter(r, [r EXCEPT !.phase = "over", !.link = FALSE, !.wire = <<>>])
      BY <2>1, ConnCut
    <2> QED BY <2>2 DEF r
  <1> HIDE DEF h, n
  <1>4. conn' \in Seq(ConnRow) /\ Len(conn') = n /\ \A c \in 1..n : Fainter(conn[c], conn'[c])
    <2> HIDE DEF g
    <2>1. DOMAIN g = 1..n /\ g \in [1..n -> ConnRow] /\ \A c \in 1..n : g[c] = h(c)
      BY <1>2, <1>3
    <2>2. g \in Seq(ConnRow)
      BY <1>1, <2>1, SeqDef
    <2>3. Len(g) = n
      BY <1>1, <2>1, <2>2
    <2> QED BY <1>3, <2>1, <2>2, <2>3 DEF g
  <1> USE DEF n
  <1>5. Quiet
    BY <1>1, <1>2, <1>4 DEF RowsTyped, Quiet
  <1>6. Counted'
    BY <1>1, <1>2, <1>4 DEF Counted
  <1> QED BY <1>5, <1>6, QuietKeeps

-----------------------------------------------------------------------------
(* The client reads a frame.                                               *)

LEMMA ReceiveStep ==
  ASSUME StreamInv, NEW c \in 1..Len(conn), Receive(c)
  PROVE  StreamInv'
  <1> USE ChatStreamAssumption
  <1>0. SUFFICES ASSUME NEW r, r = conn[c], NEW w, w = r.wire, NEW f, f = w[1], NEW v, v = Tail(w),
                        NEW q, q = [r EXCEPT !.wire = v]
                 PROVE  StreamInv'
    OBVIOUS
  <1> DEFINE n == Len(conn)
  <1>1. /\ RowsTyped /\ Counted /\ Books /\ Links /\ Opened /\ Unused /\ Holds /\ Recalls
        /\ Ordered /\ Alone /\ Unbroken /\ Finals
    BY DEF StreamInv
  <1>2. conn \in Seq(ConnRow) /\ n \in Nat /\ r \in ConnRow /\ w \in Seq(Frames) /\ client \in ClientRow
        /\ client.seen \in Seq(Frames) /\ client.last \in Nat /\ log \in [Objs -> Seq(Frames)] /\ 0 \in Objs
    <2>1. conn \in Seq(ConnRow) /\ client \in ClientRow /\ log \in [Objs -> Seq(Frames)] /\ 0 \in Objs
      BY <1>1 DEF RowsTyped, Objs
    <2>2. n \in Nat /\ r \in ConnRow
      BY <1>0, <2>1
    <2>3. w \in Seq(Frames)
      BY <1>0, <2>2 DEF ConnRow
    <2> QED BY <2>1, <2>2, <2>3 DEF ClientRow
  <1>3. /\ Reading(c) /\ w # <<>> /\ conn' = [conn EXCEPT ![c] = q]
        /\ client' = [client EXCEPT !.last = f.id, !.seen = Append(client.seen, f),
                                    !.terminal = client.terminal \/ f.kind = "final"]
        /\ UNCHANGED <<store, sess, exists, title, log, restarts>>
    BY <1>0, <1>2 DEF Receive
  <1>4. Len(w) \in Nat /\ Len(w) # 0 /\ f \in Frames /\ f.id \in Nat /\ f.id # 0
    <2>1. Len(w) \in Nat /\ Len(w) # 0
      BY <1>2, <1>3
    <2>2. f \in Frames
      BY <1>0, <1>2, <2>1
    <2> QED BY <2>1, <2>2 DEF Frames
  <1>5. v \in Seq(Frames) /\ Len(v) = Len(w) - 1 /\ \A i \in 1..Len(v) : v[i] = w[i + 1]
    BY <1>0, <1>2, <1>3, HeadTailProperties
  <1>6. c = n /\ client.conn = c /\ client.phase = "read"
    BY <1>1, <1>3 DEF Reading, Holds
  <1>7. /\ q \in ConnRow /\ q.phase = r.phase /\ q.msg = r.msg /\ q.after = r.after /\ q.valid = r.valid
        /\ q.link = r.link /\ q.wire = v /\ q.sent = r.sent /\ q.ran = r.ran
    <2>1. q \in ConnRow
      BY <1>0, <1>2, <1>5 DEF ConnRow
    <2> QED BY <1>0, <1>2, <2>1 DEF ConnRow
  <1>14. r = conn[c] /\ w = conn[c].wire /\ f = w[1]
    BY <1>0
  <1>8. r.link /\ r.phase # "opened"
    BY <1>1, <1>3, <1>14 DEF Links, LinkOK
  <1>9. /\ conn' \in Seq(ConnRow) /\ Len(conn') = n /\ conn'[c] = q
        /\ \A d \in 1..n : d # c => conn'[d] = conn[d]
    BY <1>2, <1>3, <1>7
  <1>10. /\ client' \in ClientRow /\ client'.last = f.id /\ client'.seen = Append(client.seen, f)
         /\ client'.phase = client.phase /\ client'.msg = client.msg /\ client'.conn = client.conn
         /\ client'.attempt = client.attempt /\ client'.answered = client.answered
    <2> DEFINE t == client.terminal \/ f.kind = "final"
               e == Append(client.seen, f)
    <2>1. t \in BOOLEAN /\ e \in Seq(Frames)
      BY <1>2, <1>4
    <2> HIDE DEF t, e
    <2>2. client' = [client EXCEPT !.last = f.id, !.seen = e, !.terminal = t]
      BY <1>3 DEF t, e
    <2>3. client' \in ClientRow
      BY <1>2, <1>4, <2>1, <2>2 DEF ClientRow
    <2>4. /\ client'.last = f.id /\ client'.seen = e
          /\ client'.phase = client.phase /\ client'.msg = client.msg /\ client'.conn = client.conn
          /\ client'.attempt = client.attempt /\ client'.answered = client.answered
      BY <1>2, <2>2 DEF ClientRow
    <2> QED BY <2>3, <2>4 DEF e
  <1>11. \A d : Reading(d)' <=> d = c
    BY <1>6, <1>10 DEF Reading
  <1>12. client'.seen \in Seq(Frames) /\ Len(client'.seen) = Len(client.seen) + 1 /\ Len(client.seen) \in Nat
         /\ client'.seen[Len(client.seen) + 1] = f /\ \A i \in 1..Len(client.seen) : client'.seen[i] = client.seen[i]
    BY <1>2, <1>4, <1>10, AppendProperties
  <1>13. InMemory' = InMemory /\ Remembered' = Remembered /\ sess' = sess /\ log' = log /\ store' = store
    BY <1>3 DEF InMemory, Remembered
  <1>20. RowsTyped'
    BY <1>1, <1>3, <1>9, <1>10 DEF RowsTyped
  <1>21. Counted'
    BY <1>1, <1>9, <1>10 DEF Counted
  <1>22. Books'
    BY <1>1, <1>9, <1>13 DEF Books, Logged
  <1>23. Links'
    <2> SUFFICES ASSUME NEW d \in 1..n PROVE LinkOK(d, conn[d])'
      BY <1>9 DEF Links
    <2>1. LinkOK(d, conn[d])
      BY <1>1 DEF Links
    <2>2. CASE d = c
      BY <1>7, <1>8, <1>9, <1>11, <1>13, <1>14, <2>1, <2>2 DEF LinkOK
    <2>3. CASE d # c
      <3>1. ~Reading(d)
        BY <1>6, <2>3 DEF Reading
      <3> QED BY <1>9, <1>13, <2>1, <2>3, <3>1 DEF LinkOK
    <2> QED BY <2>2, <2>3
  <1>24. Opened'
    <2> SUFFICES ASSUME NEW d \in 1..n, conn'[d].phase = "opened" PROVE OpenedOK(d, conn[d])'
      BY <1>9 DEF Opened
    <2>1. d # c
      BY <1>7, <1>8, <1>9
    <2>2. conn'[d] = conn[d] /\ OpenedOK(d, conn[d])
      BY <1>1, <1>9, <2>1 DEF Opened
    <2> QED BY <1>6, <1>9, <1>13, <2>1, <2>2 DEF OpenedOK
  <1>25. Unused'
    <2>1. \A d \in 1..n : conn'[d].phase = conn[d].phase
      BY <1>7, <1>9, <1>14
    <2> QED BY <1>1, <1>9, <1>13, <2>1 DEF Unused
  <1>26. Holds'
    <2>1. client'.seen # <<>>
      BY <1>12
    <2>2. conn'[n].msg = client'.msg
      BY <1>1, <1>6, <1>7, <1>9, <1>10, <1>14 DEF Holds
    <2> QED BY <1>4, <1>6, <1>9, <1>10, <1>12, <2>1, <2>2 DEF Holds
  <1>27. Recalls'
    <2>1. InMemory => client.msg \in Remembered
      BY <1>1, <1>3, <1>14 DEF Recalls
    <2> QED BY <1>1, <1>10, <1>13, <2>1 DEF Recalls
  <1>28. Alone'
    <2>1. \A d \in 1..n : conn'[d].phase = conn[d].phase
      BY <1>7, <1>9, <1>14
    <2> QED BY <1>1, <1>9, <2>1 DEF Alone
  <1>29. Ordered'
    <2> SUFFICES ASSUME InMemory PROVE Ordered'
      BY <1>13 DEF Ordered
    <2>1. /\ Genuine(client.seen) /\ Ascending(client.seen)
          /\ \A i \in 1..Len(client.seen) : client.seen[i].id <= client.last
          /\ Genuine(w) /\ Ascending(w) /\ \A i \in 1..Len(w) : w[i].id > client.last
      BY <1>1, <1>3, <1>14 DEF Ordered
    <2>2. f.id \in 1..Len(log[0]) /\ log[0][f.id] = f /\ f.id > client.last
      BY <1>4, <1>14, <2>1 DEF Genuine
    <2>3. \A i \in 1..Len(client.seen) : client.seen[i].id \in Nat
      <3>1. \A i \in 1..Len(client.seen) : client.seen[i] \in Frames
        BY <1>2
      <3> QED BY <3>1 DEF Frames
    <2>4. \A i \in 1..Len(client.seen) + 1 : i = Len(client.seen) + 1 \/ i \in 1..Len(client.seen)
      BY <1>12
    <2>5. \A i \in 1..Len(client.seen) : client.seen[i].id < f.id
      BY <1>2, <1>4, <2>1, <2>2, <2>3
    <2>6. Genuine(client.seen)'
      BY <1>12, <1>13, <2>1, <2>2, <2>4 DEF Genuine
    <2>7. Ascending(client.seen)'
      <3> SUFFICES ASSUME NEW i \in 1..Len(client.seen) + 1, NEW j \in 1..Len(client.seen) + 1, i < j
                   PROVE  client'.seen[i].id < client'.seen[j].id
        BY <1>12 DEF Ascending
      <3>1. i \in 1..Len(client.seen)
        BY <1>12
      <3>2. CASE j = Len(client.seen) + 1
        BY <1>12, <2>5, <3>1, <3>2
      <3>3. CASE j \in 1..Len(client.seen)
        BY <1>12, <2>1, <3>1, <3>3 DEF Ascending
      <3> QED BY <2>4, <3>2, <3>3
    <2>8. \A i \in 1..Len(client'.seen) : client'.seen[i].id <= client'.last
      BY <1>4, <1>10, <1>12, <2>3, <2>4, <2>5
    <2>9. \A i \in 1..Len(v) : i \in Nat /\ i + 1 \in 1..Len(w) /\ 1 < i + 1 /\ 1 \in 1..Len(w)
      BY <1>4, <1>5
    <2>10. Genuine(v)' /\ \A i \in 1..Len(v) : v[i].id > f.id
      <3>1. \A i \in 1..Len(v) : v[i].id > f.id
        <4> SUFFICES ASSUME NEW i \in 1..Len(v) PROVE f.id < v[i].id
          BY <1>4, <1>5 DEF Frames
        <4> QED BY <1>5, <1>14, <2>1, <2>9 DEF Ascending
      <3>2. ASSUME NEW i \in 1..Len(v) PROVE v[i].id \in 1..Len(log[0]) /\ log[0][v[i].id] = v[i]
        <4>1. v[i] = w[i + 1] /\ i + 1 \in 1..Len(w)
          BY <1>5, <2>9
        <4> QED BY <2>1, <4>1 DEF Genuine
      <3> QED BY <1>13, <3>1, <3>2 DEF Genuine
    <2>11. Ascending(v)'
      <3> SUFFICES ASSUME NEW i \in 1..Len(v), NEW j \in 1..Len(v), i < j PROVE v[i].id < v[j].id
        BY DEF Ascending
      <3>1. i + 1 < j + 1
        OBVIOUS
      <3> QED BY <1>5, <2>1, <2>9, <3>1 DEF Ascending
    <2>12. conn'[c].wire = v /\ client'.last = f.id
      BY <1>7, <1>9, <1>10
    <2> QED BY <1>9, <1>11, <2>6, <2>7, <2>8, <2>10, <2>11, <2>12 DEF Ordered, Genuine, Ascending
  <1>30. Unbroken'
    <2> SUFFICES ASSUME PromptNotice, NothingDropped PROVE Unbroken'
      BY <1>13 DEF Unbroken, NothingDropped
    <2> DEFINE last == sess[Obj(c)].last
    <2>1. Joined(client.seen) /\ WireJoined(r, last)
      BY <1>1, <1>3, <1>14 DEF Unbroken
    <2>2. Joined(client.seen)'
      <3> SUFFICES ASSUME NEW i \in 2..Len(client.seen) + 1 PROVE Joins(client'.seen[i - 1].id, client'.seen[i])
        BY <1>12 DEF Joined, Joins
      <3>1. CASE i \in 2..Len(client.seen)
        <4>1. i - 1 \in 1..Len(client.seen) /\ i \in 1..Len(client.seen)
          BY <1>12, <3>1
        <4> QED BY <1>12, <2>1, <3>1, <4>1 DEF Joined
      <3>2. CASE i = Len(client.seen) + 1
        <4>1. i - 1 \in 1..Len(client.seen) /\ i - 1 = Len(client.seen) /\ client.seen # <<>>
          BY <1>2, <1>12, <3>2
        <4>2. client.last # 0 /\ client'.seen[i - 1].id = client.last
          BY <1>1, <1>12, <4>1 DEF Holds
        <4>3. Joins(client.last, f)
          BY <1>3, <1>14, <2>1, <4>2 DEF WireJoined
        <4> QED BY <1>12, <3>2, <4>2, <4>3
      <3> QED BY <1>12, <3>1, <3>2
    <2>3. WireJoined(q, last)'
      <3>1. \A i \in 1..Len(v) : i + 1 \in 1..Len(w)
        BY <1>4, <1>5
      <3>2. Joined(v)
        <4> SUFFICES ASSUME NEW i \in 2..Len(v) PROVE Joins(v[i - 1].id, v[i])
          BY DEF Joined
        <4>1. i - 1 \in 1..Len(v) /\ i \in 1..Len(v) /\ (i - 1) + 1 = i /\ i + 1 \in 2..Len(w) /\ (i + 1) - 1 = i
          BY <1>4, <1>5
        <4>2. Joins(w[(i + 1) - 1].id, w[i + 1])
          BY <1>14, <2>1, <4>1 DEF WireJoined, Joined
        <4>3. v[i - 1] = w[(i - 1) + 1] /\ v[i] = w[i + 1]
          BY <1>5, <4>1
        <4> QED BY <4>1, <4>2, <4>3
      <3>3. v # <<>> => Joins(f.id, v[1])
        <4> SUFFICES ASSUME v # <<>> PROVE Joins(f.id, v[1])
          OBVIOUS
        <4>1. 1 \in 1..Len(v) /\ 2 \in 2..Len(w) /\ v[1] = w[2]
          BY <1>4, <1>5
        <4>2. Joins(w[2 - 1].id, w[2])
          BY <1>14, <2>1, <4>1 DEF WireJoined, Joined
        <4> QED BY <1>14, <4>1, <4>2
      <3>4. r.phase = "live" => w[Len(w)].id = last
        BY <1>3, <1>8, <1>14, <2>1 DEF WireJoined
      <3>5. v # <<>> => v[Len(v)] = w[Len(w)]
        <4> SUFFICES ASSUME v # <<>> PROVE v[Len(v)] = w[Len(w)]
          OBVIOUS
        <4>1. Len(v) \in 1..Len(v) /\ Len(v) + 1 = Len(w)
          BY <1>4, <1>5
        <4> QED BY <1>5, <4>1
      <3>6. v = <<>> => f = w[Len(w)]
        <4>1. v = <<>> => Len(w) = 1
          BY <1>4, <1>5
        <4> QED BY <1>14, <4>1
      <3>7. last' = last
        BY <1>13 DEF Obj
      <3> QED BY <1>7, <1>10, <3>2, <3>3, <3>4, <3>5, <3>6, <3>7 DEF WireJoined, Joined, Joins
    <2>4. conn'[c] = q /\ last' = last
      BY <1>9, <1>13 DEF Obj
    <2>5. \A d \in 1..n : Reading(d)' => WireJoined(conn[d], sess[Obj(d)].last)'
      <3> SUFFICES ASSUME NEW d \in 1..n, d = c PROVE WireJoined(conn[d], sess[Obj(d)].last)'
        BY <1>11
      <3> QED BY <2>3, <2>4 DEF WireJoined, Joined, Joins
    <2> QED BY <1>9, <2>2, <2>5 DEF Unbroken
  <1>31. Finals'
    <2> SUFFICES ASSUME PromptNotice, InMemory
                 PROVE  (RunsFollow /\ FirstFrames /\ UnseenFinal /\ FinalReplayed /\ NotRerun)'
      BY <1>13 DEF Finals
    <2>0. RunsFollow /\ FirstFrames /\ UnseenFinal /\ FinalReplayed /\ NotRerun
      BY <1>1 DEF Finals
    <2> DEFINE L == log[0]
    <2>1. L \in Seq(Frames) /\ Len(L) \in Nat /\ \A p \in 1..Len(L) : L[p].run \in 1..n /\ L[p].id = p
      <3>1. Logged(sess[0], log[0]) /\ \A i \in 1..Len(log[0]) : log[0][i].run \in 1..Len(conn)
        BY <1>1, <1>2 DEF Books
      <3> QED BY <1>2, <3>1 DEF Logged
    <2>2. \A d \in 1..n : /\ conn'[d].phase = conn[d].phase /\ conn'[d].msg = conn[d].msg
                          /\ conn'[d].after = conn[d].after /\ conn'[d].ran = conn[d].ran
      BY <1>7, <1>9, <1>14
    <2>3. RunsFollow'
      BY <1>13, <2>0, <2>1, <2>2 DEF RunsFollow
    <2>4. FirstFrames'
      BY <1>4, <1>10 DEF FirstFrames
    <2>5. UnseenFinal'
      <3> SUFFICES ASSUME NEW p \in 1..Len(L), p > f.id, L[p].kind = "final", conn[L[p].run].msg = client.msg
                   PROVE  p = Len(L) /\ \A e \in 1..n : conn[e].phase # "live"
        <4> SUFFICES ASSUME NEW p \in 1..Len(L), p > f.id, FinalOf(p, client.msg)'
                     PROVE  p = Len(L) /\ \A e \in 1..n : conn'[e].phase # "live"
          BY <1>9, <1>10, <1>13 DEF UnseenFinal
        <4>1. L[p].kind = "final" /\ conn[L[p].run].msg = client.msg
          BY <1>10, <1>13, <2>1, <2>2 DEF FinalOf
        <4> QED BY <2>2, <4>1
      <3>0. /\ f.id \in 1..Len(L) /\ L[f.id] = f /\ f.id > client.last
        <4>1. Genuine(w) /\ \A i \in 1..Len(w) : w[i].id > client.last
          BY <1>1, <1>3, <1>14 DEF Ordered
        <4> QED BY <1>4, <1>14, <4>1 DEF Genuine
      <3>1. CASE client.last # 0
        <4>1. p > client.last
          BY <1>2, <1>4, <3>0
        <4> QED BY <2>0, <3>1, <4>1 DEF UnseenFinal, FinalOf
      <3>2. CASE client.last = 0
        <4>1. f.run = c
          BY <1>3, <1>4, <1>14, <2>0, <3>2 DEF FirstFrames
        <4>2. L[f.id].run <= L[p].run
          BY <2>0, <3>0 DEF RunsFollow
        <4>3. L[p].run = c
          BY <1>2, <1>6, <2>1, <3>0, <4>1, <4>2
        <4>4. conn[c].phase = "over"
          BY <2>0, <4>3 DEF RunsFollow
        <4>5. ASSUME NEW k \in 1..Len(L), p < k PROVE FALSE
          <5>1. L[p].run < L[k].run
            BY <2>0, <4>5 DEF RunsFollow
          <5> QED BY <1>2, <1>6, <2>1, <4>3, <5>1
        <4>6. p = Len(L)
          <5>1. Len(L) \in 1..Len(L)
            BY <2>1
          <5>2. ~(p < Len(L))
            BY <4>5, <5>1
          <5> QED BY <2>1, <5>2
        <4>7. \A e \in 1..n : conn[e].phase # "live"
          BY <1>1, <1>6, <4>4 DEF Alone
        <4> QED BY <4>6, <4>7
      <3> QED BY <3>1, <3>2
    <2>6. FinalReplayed'
      BY <1>9, <1>13, <2>0, <2>1, <2>2 DEF FinalReplayed, FinalOf
    <2>7. NotRerun'
      <3> SUFFICES ASSUME NEW d \in 1..n, conn'[d].after # 0, conn'[d].ran,
                          NEW p \in 1..Len(L), p > conn'[d].after, L[p].run < d, FinalOf(p, conn[d].msg)'
                   PROVE  FALSE
        BY <1>9, <1>13 DEF NotRerun
      <3>1. FinalOf(p, conn[d].msg)
        BY <1>13, <2>1, <2>2 DEF FinalOf
      <3> QED BY <2>0, <2>2, <3>1 DEF NotRerun
    <2> QED BY <2>3, <2>4, <2>5, <2>6, <2>7
  <1> QED BY <1>20, <1>21, <1>22, <1>23, <1>24, <1>25, <1>26, <1>27, <1>28, <1>29, <1>30, <1>31 DEF StreamInv

-----------------------------------------------------------------------------
(* The server accepts a request.                                           *)

LEMMA LogZero ==
  ASSUME RowsTyped, Books
  PROVE  /\ log[0] \in Seq(Frames) /\ Len(log[0]) \in Nat /\ sess[0] \in SessRow /\ 0 \in Objs
         /\ sess[0].last = Len(log[0]) /\ Logged(sess[0], log[0])
         /\ \A p \in 1..Len(log[0]) : log[0][p].run \in 1..Len(conn) /\ log[0][p].id = p
  <1>1. 0 \in Objs /\ log[0] \in Seq(Frames) /\ sess[0] \in SessRow
    BY DEF RowsTyped, Objs
  <1>2. Logged(sess[0], log[0]) /\ \A i \in 1..Len(log[0]) : log[0][i].run \in 1..Len(conn)
    BY <1>1 DEF Books
  <1>3. Len(log[0]) \in Nat
    BY <1>1
  <1> QED BY <1>1, <1>2, <1>3 DEF Logged

\* The client's last id is one the session has given.
LEMMA LastGiven ==
  ASSUME StreamInv, InMemory
  PROVE  client.last \in Nat /\ client.last <= sess[0].last
  <1>1. RowsTyped /\ Books /\ Holds /\ Ordered
    BY DEF StreamInv
  <1>2. client.last \in Nat /\ client.seen \in Seq(Frames) /\ Len(client.seen) \in Nat
    BY <1>1 DEF RowsTyped, ClientRow
  <1>3. sess[0].last = Len(log[0]) /\ Len(log[0]) \in Nat
    BY <1>1, LogZero
  <1>4. CASE client.seen = <<>>
    BY <1>1, <1>2, <1>3, <1>4 DEF Holds
  <1>5. CASE client.seen # <<>>
    <2>1. Len(client.seen) \in 1..Len(client.seen)
      BY <1>2, <1>5
    <2>2. client.last \in 1..Len(log[0])
      BY <1>1, <1>5, <2>1 DEF Holds, Ordered, Genuine
    <2> QED BY <1>2, <1>3, <2>2
  <1> QED BY <1>4, <1>5

LEMMA OpenStep == ASSUME StreamInv, OpenStream PROVE StreamInv'
  <1> USE ChatStreamAssumption
  <1>0. SUFFICES ASSUME NEW n, n = Len(conn), NEW c, c = n + 1,
                        NEW q, q = [phase |-> "opened", msg |-> client.msg, after |-> client.last,
                           valid |-> ReplayValid(sess[Obj(c)], client.last), link |-> TRUE, wire |-> << >>,
                           sent |-> 0, ran |-> FALSE]
                 PROVE  StreamInv'
    OBVIOUS
  <1>1. /\ RowsTyped /\ Counted /\ Books /\ Links /\ Opened /\ Unused /\ Holds /\ Recalls
        /\ Ordered /\ Alone /\ Unbroken /\ Finals
    BY DEF StreamInv
  <1>2. conn \in Seq(ConnRow) /\ n \in Nat /\ client \in ClientRow /\ client.last \in Nat
        /\ client.phase = "fetch" /\ client.msg \in Messages
    BY <1>0, <1>1 DEF RowsTyped, ClientRow, OpenStream, Counted
  <1>3. c \in Conns /\ c \in Objs /\ Obj(c) \in Objs /\ c \in Nat /\ c # 0
    <2>1. c \in Conns
      BY <1>0, <1>1, <1>2, Numbers
    <2> QED BY <1>0, <1>2, <2>1 DEF Objs, Obj
  <1>4. /\ conn' = Append(conn, q) /\ client' = [client EXCEPT !.phase = "read", !.conn = c]
        /\ title' \in {title, client.msg}
        /\ PromptNotice => \A d \in 1..n : conn[d].phase # "over" => conn[d].link
        /\ UNCHANGED <<store, sess, exists, log, restarts>>
    <2>1. DOMAIN conn = 1..n
      BY <1>0, <1>2
    <2> QED BY <1>0, <2>1 DEF OpenStream
  <1>5. /\ q \in ConnRow /\ q.phase = "opened" /\ q.msg = client.msg /\ q.after = client.last
        /\ q.valid = (client.last <= sess[Obj(c)].last) /\ q.link /\ q.wire = <<>> /\ q.sent = 0 /\ ~q.ran
    <2> DEFINE b == ReplayValid(sess[Obj(c)], client.last)
               e == <<>>
               z == 0
    <2>1. b \in BOOLEAN /\ e \in Seq(Frames) /\ z \in 0..MaxEvents + 1
      BY DEF ReplayValid
    <2>2. q = [phase |-> "opened", msg |-> client.msg, after |-> client.last,
               valid |-> b, link |-> TRUE, wire |-> e, sent |-> z, ran |-> FALSE]
      BY <1>0
    <2>3. q.valid = b /\ (b <=> client.last <= sess[Obj(c)].last)
      BY <2>2 DEF ReplayValid
    <2> HIDE DEF b, e, z
    <2>4. q \in ConnRow
      BY <1>2, <2>1, <2>2 DEF ConnRow
    <2>5. /\ q.phase = "opened" /\ q.msg = client.msg /\ q.after = client.last
          /\ q.link /\ q.wire = e /\ q.sent = z /\ ~q.ran
      BY <2>2
    <2> QED BY <2>1, <2>3, <2>4, <2>5 DEF e, z
  <1>6. /\ conn' \in Seq(ConnRow) /\ Len(conn') = c /\ conn'[c] = q
        /\ \A d \in 1..n : conn'[d] = conn[d]
    BY <1>0, <1>2, <1>4, <1>5, AppendProperties
  <1>7. \A d \in 1..c : d = c \/ d \in 1..n
    BY <1>0, <1>2
  <1>8. \A d \in 1..n : d # c /\ d \in 1..c
    BY <1>0, <1>2
  <1>9. /\ client' \in ClientRow /\ client'.phase = "read" /\ client'.conn = c /\ client'.last = client.last
        /\ client'.seen = client.seen /\ client'.msg = client.msg /\ client'.terminal = client.terminal
        /\ client'.answered = client.answered /\ client'.attempt = client.attempt
    <2>1. client' \in ClientRow
      BY <1>2, <1>3, <1>4 DEF ClientRow
    <2> QED BY <1>2, <1>4, <2>1 DEF ClientRow
  <1>10. InMemory' = InMemory /\ Remembered' = Remembered /\ sess' = sess /\ log' = log /\ store' = store
    BY <1>4 DEF InMemory, Remembered
  <1>11. \A d : Reading(d)' <=> d = c
    BY <1>9 DEF Reading
  <1>12. \A d : ~Reading(d)
    BY <1>2 DEF Reading
  <1>13. PromptNotice => \A d \in 1..n : conn[d].phase = "over"
    BY <1>0, <1>1, <1>4, <1>12 DEF Links, LinkOK
  <1>14. \A d \in 1..n : d \in 1..Len(conn)
    BY <1>0
  <1>15. c \in 1..c /\ c \notin 1..n
    BY <1>0, <1>2
  <1>20. RowsTyped'
    BY <1>1, <1>2, <1>4, <1>6, <1>9 DEF RowsTyped
  <1>21. Counted'
    <2> DEFINE x == (client.msg - 1) * (MaxRetries + 1)
    <2>1. n <= x + client.attempt + 0 /\ client.msg # 0
      BY <1>0, <1>1, <1>2 DEF Counted
    <2>2. x \in Nat /\ client.attempt \in Nat
      BY <1>2 DEF Messages, ClientRow
    <2>3. c <= x + client.attempt + 1
      <3> HIDE DEF x
      <3> QED BY <1>0, <1>2, <2>1, <2>2
    <2> QED BY <1>6, <1>9, <2>1, <2>3 DEF Counted
  <1>22. Books'
    <2> SUFFICES ASSUME NEW o \in Objs
                 PROVE  /\ Logged(sess[o], log[o])
                        /\ \A i \in 1..Len(log[o]) : log[o][i].run \in 1..c
      BY <1>6, <1>10 DEF Books, Logged
    <2> QED BY <1>0, <1>1, <1>8 DEF Books
  <1>23. Links'
    <2> SUFFICES ASSUME NEW d \in 1..c PROVE LinkOK(d, conn[d])'
      BY <1>6 DEF Links
    <2>1. CASE d = c
      BY <1>5, <1>6, <1>11, <2>1 DEF LinkOK
    <2>2. CASE d \in 1..n
      <3>1. LinkOK(d, conn[d])
        BY <1>1, <1>14, <2>2 DEF Links
      <3> QED BY <1>6, <1>10, <1>12, <2>2, <3>1 DEF LinkOK
    <2> QED BY <1>7, <2>1, <2>2
  <1>24. Opened'
    <2> SUFFICES ASSUME NEW d \in 1..c, conn'[d].phase = "opened" PROVE OpenedOK(d, conn[d])'
      BY <1>6 DEF Opened
    <2>1. CASE d = c
      <3>1. InMemory => q.valid /\ client.last <= sess[0].last
        BY <1>5, LastGiven DEF InMemory, Obj
      <3>2. ~InMemory => (q.valid <=> client.last = 0)
        <4>1. ~InMemory => Obj(c) = c /\ sess[c].last = 0
          <5>1. c \notin 1..Len(conn)
            BY <1>0, <1>15
          <5> QED BY <1>1, <1>3, <5>1 DEF InMemory, Obj, Unused, FreshSession
        <4>2. ~InMemory => (q.valid = (client.last <= 0))
          BY <1>5, <4>1
        <4>3. client.last <= 0 <=> client.last = 0
          BY <1>2
        <4> QED BY <4>2, <4>3
      <3> QED BY <1>5, <1>6, <1>9, <1>10, <2>1, <3>1, <3>2 DEF OpenedOK
    <2>2. CASE d \in 1..n
      <3>1. conn'[d] = conn[d] /\ OpenedOK(d, conn[d]) /\ d # c
        BY <1>1, <1>6, <1>8, <1>14, <2>2 DEF Opened
      <3> QED BY <1>6, <1>10, <3>1 DEF OpenedOK
    <2> QED BY <1>7, <2>1, <2>2
  <1>25. Unused'
    <2> SUFFICES ASSUME ~InMemory, NEW o \in Conns, o \in 1..c => conn'[o].phase = "opened"
                 PROVE  sess[o] = FreshSession
      BY <1>6, <1>10 DEF Unused
    <2>1. o \in 1..n => conn[o].phase = "opened"
      BY <1>6, <1>8
    <2> QED BY <1>0, <1>1, <2>1 DEF Unused
  <1>26. Holds'
    BY <1>1, <1>3, <1>5, <1>6, <1>9 DEF Holds
  <1>27. Recalls'
    BY <1>1, <1>5, <1>6, <1>9, <1>10, <1>11 DEF Recalls
  <1>28. Alone'
    BY <1>6, <1>7, <1>13 DEF Alone
  <1>29. Ordered'
    <2> SUFFICES ASSUME InMemory PROVE Ordered'
      BY <1>10 DEF Ordered
    <2>1. /\ Genuine(client.seen)' /\ Ascending(client.seen)'
          /\ \A i \in 1..Len(client'.seen) : client'.seen[i].id <= client'.last
      BY <1>1, <1>9, <1>10 DEF Ordered, Genuine, Ascending
    <2>2. conn'[c].wire = <<>>
      BY <1>5, <1>6
    <2>3. \A d \in 1..c : Reading(d)' =>
             /\ Genuine(conn[d].wire)' /\ Ascending(conn[d].wire)'
             /\ \A i \in 1..Len(conn'[d].wire) : conn'[d].wire[i].id > client'.last
      BY <1>11, <2>2 DEF Genuine, Ascending
    <2> QED BY <1>6, <2>1, <2>3 DEF Ordered
  <1>30. Unbroken'
    <2> SUFFICES ASSUME PromptNotice, NothingDropped PROVE Unbroken'
      BY <1>10 DEF Unbroken, NothingDropped
    <2>1. Joined(client.seen)'
      BY <1>1, <1>9 DEF Unbroken, Joined, Joins
    <2>2. conn'[c].wire = <<>> /\ conn'[c].phase = "opened"
      BY <1>5, <1>6
    <2>3. \A d \in 1..c : Reading(d)' => WireJoined(conn[d], sess[Obj(d)].last)'
      BY <1>11, <2>2 DEF WireJoined, Joined
    <2> QED BY <1>6, <2>1, <2>3 DEF Unbroken
  <1>31. Finals'
    <2> SUFFICES ASSUME PromptNotice, InMemory
                 PROVE  (RunsFollow /\ FirstFrames /\ UnseenFinal /\ FinalReplayed /\ NotRerun)'
      BY <1>10 DEF Finals
    <2>0. RunsFollow /\ FirstFrames /\ UnseenFinal /\ FinalReplayed /\ NotRerun
      BY <1>1 DEF Finals
    <2> DEFINE L == log[0]
    <2>1. L \in Seq(Frames) /\ Len(L) \in Nat /\ \A p \in 1..Len(L) : L[p].run \in 1..n /\ L[p].id = p
      BY <1>0, <1>1, LogZero
    <2>2. \A p \in 1..Len(L) : conn'[L[p].run] = conn[L[p].run]
      BY <1>6, <2>1
    <2>3. RunsFollow'
      BY <1>10, <2>0, <2>2 DEF RunsFollow
    <2>4. FirstFrames'
      BY <1>5, <1>6, <1>11 DEF FirstFrames
    <2>5. UnseenFinal'
      <3> SUFFICES ASSUME client.last # 0, NEW p \in 1..Len(L), p > client.last, FinalOf(p, client.msg)'
                   PROVE  p = Len(L) /\ \A e \in 1..c : conn'[e].phase # "live"
        BY <1>6, <1>9, <1>10 DEF UnseenFinal
      <3>1. FinalOf(p, client.msg)
        BY <1>9, <1>10, <2>2 DEF FinalOf
      <3>2. p = Len(L)
        BY <2>0, <3>1 DEF UnseenFinal
      <3> QED BY <1>5, <1>6, <1>7, <1>13, <3>2
    <2>6. FinalReplayed'
      <3> SUFFICES ASSUME NEW d \in 1..c, conn'[d].phase = "opened", conn'[d].after # 0,
                          NEW p \in 1..Len(L), p > conn'[d].after, FinalOf(p, conn[d].msg)'
                   PROVE  p = Len(L)
        BY <1>6, <1>10 DEF FinalReplayed
      <3>1. d = c
        BY <1>6, <1>7, <1>13
      <3>2. client.last # 0 /\ p > client.last /\ FinalOf(p, client.msg)
        BY <1>5, <1>6, <1>10, <2>2, <3>1 DEF FinalOf
      <3> QED BY <2>0, <3>2 DEF UnseenFinal
    <2>7. NotRerun'
      <3> SUFFICES ASSUME NEW d \in 1..c, conn'[d].after # 0, conn'[d].ran,
                          NEW p \in 1..Len(L), p > conn'[d].after, L[p].run < d, FinalOf(p, conn[d].msg)'
                   PROVE  FALSE
        BY <1>6, <1>10 DEF NotRerun
      <3>1. d \in 1..n
        BY <1>5, <1>6, <1>7
      <3>2. conn'[d] = conn[d] /\ FinalOf(p, conn[d].msg)
        BY <1>6, <1>10, <2>2, <3>1 DEF FinalOf
      <3> QED BY <1>14, <2>0, <3>1, <3>2 DEF NotRerun
    <2> QED BY <2>3, <2>4, <2>5, <2>6, <2>7
  <1> QED BY <1>20, <1>21, <1>22, <1>23, <1>24, <1>25, <1>26, <1>27, <1>28, <1>29, <1>30, <1>31 DEF StreamInv

-----------------------------------------------------------------------------
(* A request is served from the buffer, and its turn begins.               *)

\* w is the end of L above a, all of it when the buffer drops none.
EndAbove(w, L, a) ==
    /\ w \in Seq(Frames) /\ Len(w) \in 0..Len(L)
    /\ \A j \in 1..Len(w) : w[j] = L[Len(L) - Len(w) + j]
    /\ Len(L) - Len(w) >= a
    /\ a < Len(L) => Len(w) > 0
    /\ Len(L) <= BufferCap => Len(L) - Len(w) = a

\* Where a buffer is the end of a log, the frames above an id are too.
LEMMA SinceTail ==
  ASSUME NEW s \in SessRow, NEW L \in Seq(Frames), Logged(s, L), NEW a \in Nat, a <= s.last
  PROVE  EndAbove(Since(s.buf, a), L, a)
  <1>0. SUFFICES ASSUME NEW w, w = Since(s.buf, a), NEW b, b = s.buf, NEW l, l = Len(L), NEW m, m = Len(b)
                 PROVE  /\ w \in Seq(Frames) /\ Len(w) \in 0..l
                        /\ \A j \in 1..Len(w) : w[j] = L[l - Len(w) + j]
                        /\ l - Len(w) >= a
                        /\ a < l => Len(w) > 0
                        /\ l <= BufferCap => l - Len(w) = a
    BY DEF EndAbove
  <1>1. l \in Nat /\ s.last = l /\ \A i \in 1..l : L[i].id = i
    BY <1>0 DEF Logged
  <1>2. b \in Seq(Frames) /\ m \in Nat
    BY <1>0 DEF SessRow
  <1>3. m <= l /\ (l <= BufferCap => m = l) /\ (l > 0 => m > 0) /\ a <= l
    BY <1>0, <1>1 DEF Logged
  <1>4. \A j \in 1..m : b[j] = L[l - m + j]
    BY <1>0 DEF Logged
  <1> DEFINE k == IF a <= l - m THEN 0 ELSE a - (l - m)
  <1>5. k \in 0..m /\ l - m + k >= a /\ (l = m => k = a) /\ (a < l => k < m)
    BY <1>1, <1>2, <1>3
  <1>6. ASSUME NEW j \in 1..m PROVE b[j].id > a <=> j > k
    <2>1. l - m + j \in 1..l
      BY <1>1, <1>2, <1>3
    <2>2. b[j].id = l - m + j
      BY <1>1, <1>4, <2>1
    <2>3. l - m + j > a <=> j > k
      BY <1>1, <1>2, <1>3
    <2> QED BY <2>2, <2>3
  <1> HIDE DEF k
  <1>7. w = SubSeq(b, k + 1, m)
    BY <1>0, <1>2, <1>5, <1>6, SinceScan
  <1>8. w \in Seq(Frames) /\ Len(w) = m - k /\ \A j \in 1..(m - k) : w[j] = b[k + j]
    BY <1>0, <1>2, <1>5, <1>7
  <1>9. ASSUME NEW j \in 1..(m - k) PROVE w[j] = L[l - (m - k) + j]
    <2>1. k + j \in 1..m /\ l - m + (k + j) = l - (m - k) + j
      BY <1>1, <1>2, <1>3, <1>5
    <2>2. b[k + j] = L[l - m + (k + j)]
      BY <1>4, <2>1
    <2> QED BY <1>8, <2>1, <2>2
  <1>11. m - k \in 0..l /\ l - (m - k) >= a /\ (a < l => m - k > 0) /\ (l = m => l - (m - k) = a)
    BY <1>1, <1>2, <1>3, <1>5
  <1> QED BY <1>3, <1>8, <1>9, <1>11

\* The frames a client has not seen are the end of the log.
LEMMA ReplayTail ==
  ASSUME StreamInv, InMemory, NEW c \in 1..Len(conn), conn[c].after \in Nat, conn[c].after <= sess[0].last
  PROVE  EndAbove(Replayed(c), log[0], conn[c].after)
  <1>1. log[0] \in Seq(Frames) /\ sess[0] \in SessRow /\ Logged(sess[0], log[0])
    BY LogZero DEF StreamInv
  <1>2. Replayed(c) = Since(sess[0].buf, conn[c].after)
    BY DEF Replayed, Obj, InMemory
  <1> QED BY <1>1, <1>2, SinceTail

LEMMA EndFacts ==
  ASSUME NEW L \in Seq(Frames), \A i \in 1..Len(L) : L[i].id = i, NEW a \in Nat, a <= Len(L),
         NEW w, EndAbove(w, L, a)
  PROVE  /\ w \in Seq(Frames)
         /\ \A i \in 1..Len(w) : w[i].id \in 1..Len(L) /\ L[w[i].id] = w[i] /\ w[i].id > a
         /\ Ascending(w) /\ Joined(w)
         /\ w # <<>> <=> a < Len(L)
         /\ w # <<>> => w[Len(w)] = L[Len(L)] /\ w[Len(w)].id = Len(L)
         /\ Len(L) <= BufferCap /\ w # <<>> => w[1].id = a + 1
  <1>0. SUFFICES ASSUME NEW l, l = Len(L), NEW m, m = Len(w)
                 PROVE  /\ w \in Seq(Frames)
                        /\ \A i \in 1..m : w[i].id \in 1..l /\ L[w[i].id] = w[i] /\ w[i].id > a
                        /\ Ascending(w) /\ Joined(w)
                        /\ w # <<>> <=> a < l
                        /\ w # <<>> => w[m] = L[l] /\ w[m].id = l
                        /\ l <= BufferCap /\ w # <<>> => w[1].id = a + 1
    OBVIOUS
  <1>1. w \in Seq(Frames) /\ l \in Nat /\ m \in Nat /\ m <= l /\ l - m >= a
    BY <1>0 DEF EndAbove
  <1>2. (a < l => m > 0) /\ (l <= BufferCap => l - m = a)
    BY <1>0 DEF EndAbove
  <1>3. \A j \in 1..m : w[j] = L[l - m + j]
    BY <1>0 DEF EndAbove
  <1>4. \A j \in 1..m : l - m + j \in 1..l /\ l - m + j > a
    BY <1>1
  <1>5. \A j \in 1..m : w[j].id = l - m + j
    BY <1>0, <1>3, <1>4
  <1>6. \A i \in 1..m : w[i].id \in 1..l /\ L[w[i].id] = w[i] /\ w[i].id > a
    BY <1>3, <1>4, <1>5
  <1>7. Ascending(w)
    <2> SUFFICES ASSUME NEW i \in 1..m, NEW j \in 1..m, i < j PROVE w[i].id < w[j].id
      BY <1>0 DEF Ascending
    <2>1. l - m + i < l - m + j
      BY <1>1
    <2> QED BY <1>5, <2>1
  <1>8. Joined(w)
    <2> SUFFICES ASSUME NEW i \in 2..m PROVE w[i].id = w[i - 1].id + 1
      BY <1>0 DEF Joined, Joins
    <2>1. i \in 1..m /\ i - 1 \in 1..m /\ l - m + i = (l - m + (i - 1)) + 1
      BY <1>1
    <2> QED BY <1>5, <2>1
  <1>9. w # <<>> <=> m > 0
    BY <1>0, <1>1
  <1>10. m > 0 <=> a < l
    BY <1>1, <1>2
  <1>11. m > 0 => m \in 1..m /\ 1 \in 1..m /\ l - m + m = l
    BY <1>1
  <1>12. m > 0 => w[m] = L[l] /\ w[m].id = l
    BY <1>3, <1>5, <1>11
  <1>13. l <= BufferCap /\ m > 0 => w[1].id = a + 1
    BY <1>1, <1>2, <1>5, <1>11
  <1> QED BY <1>1, <1>6, <1>7, <1>8, <1>9, <1>10, <1>12, <1>13

LEMMA LoggedSame ==
  ASSUME NEW s, NEW z, z.last = s.last, z.buf = s.buf, NEW L, Logged(s, L)
  PROVE  Logged(z, L)
  <1> DEFINE b == s.buf
             c == z.buf
  <1>1. c = b
    OBVIOUS
  <1> HIDE DEF b, c
  <1>2. /\ s.last = Len(L) /\ \A i \in 1..Len(L) : L[i].id = i
        /\ Len(b) <= Len(L) /\ Len(b) <= BufferCap
        /\ Len(L) <= BufferCap => Len(b) = Len(L)
        /\ Len(L) > 0 => Len(b) > 0
        /\ \A j \in 1..Len(b) : b[j] = L[Len(L) - Len(b) + j]
    BY DEF Logged, b
  <1>3. /\ Len(c) <= Len(L) /\ Len(c) <= BufferCap
        /\ Len(L) <= BufferCap => Len(c) = Len(L)
        /\ Len(L) > 0 => Len(c) > 0
        /\ \A j \in 1..Len(c) : c[j] = L[Len(L) - Len(c) + j]
    BY <1>1, <1>2
  <1> QED BY <1>2, <1>3 DEF Logged, c

LEMMA ReplayStep ==
  ASSUME StreamInv, NEW c \in 1..Len(conn), conn[c].phase = "opened",
         ReplayRequested(c) => conn[c].valid,
         NEW fs, fs = IF ReplayRequested(c) THEN Replayed(c) ELSE <<>>,
         NEW q \in ConnRow, q.phase \in {"live", "over"}, q.msg = conn[c].msg, q.after = conn[c].after,
         q.valid = conn[c].valid, q.link = conn[c].link, q.sent = 0, q.ran <=> q.phase = "live",
         q.wire = IF conn[c].link THEN fs ELSE <<>>,
         ReplayRequested(c) /\ q.phase = "live" => ~ReplayFinished(c),
         conn' = [conn EXCEPT ![c] = q],
         sess' \in [Objs -> SessRow],
         \A o \in Objs : /\ sess'[o].last = sess[o].last /\ sess'[o].buf = sess[o].buf
                         /\ o # Obj(c) => sess'[o] = sess[o],
         Remembered \subseteq Remembered', q.ran /\ InMemory => q.msg \in Remembered',
         UNCHANGED <<store, exists, title, client, log, restarts>>
  PROVE  StreamInv'
  <1> DEFINE n == Len(conn)
             L == log[0]
  <1>1. /\ RowsTyped /\ Counted /\ Books /\ Links /\ Opened /\ Unused /\ Holds /\ Recalls
        /\ Ordered /\ Alone /\ Unbroken /\ Finals
    BY DEF StreamInv
  <1>2. conn \in Seq(ConnRow) /\ n \in Nat /\ client.last \in Nat /\ conn[c].after \in Nat
        /\ sess \in [Objs -> SessRow] /\ log \in [Objs -> Seq(Frames)]
    <2>1. conn[c] \in ConnRow
      BY <1>1 DEF RowsTyped
    <2>2. conn[c].after \in Nat
      BY <2>1 DEF ConnRow
    <2>3. client.last \in Nat
      BY <1>1 DEF RowsTyped, ClientRow
    <2>4. conn \in Seq(ConnRow) /\ sess \in [Objs -> SessRow] /\ log \in [Objs -> Seq(Frames)]
      BY <1>1 DEF RowsTyped
    <2> QED BY <2>2, <2>3, <2>4
  <1>3. /\ conn' \in Seq(ConnRow) /\ Len(conn') = n /\ conn'[c] = q
        /\ \A d \in 1..n : d # c => conn'[d] = conn[d]
    BY <1>2
  <1>4. InMemory' = InMemory /\ log' = log /\ store' = store /\ client' = client
        /\ \A d : Reading(d)' <=> Reading(d)
    BY DEF InMemory, Reading
  <1>5. L \in Seq(Frames) /\ Len(L) \in Nat /\ sess[0].last = Len(L) /\ 0 \in Objs
        /\ \A p \in 1..Len(L) : L[p].run \in 1..n /\ L[p].id = p
    BY <1>1, LogZero
  <1>6. LinkOK(c, conn[c]) /\ OpenedOK(c, conn[c])
    BY <1>1 DEF Links, Opened
  <1>7. ReplayRequested(c) => InMemory /\ conn[c].after # 0 /\ conn[c].after <= Len(L) /\ EndAbove(fs, L, conn[c].after)
    <2>1. ReplayRequested(c) => InMemory /\ conn[c].after # 0 /\ conn[c].after <= sess[0].last
      BY <1>6 DEF ReplayRequested, OpenedOK
    <2> QED BY <1>2, <1>5, <2>1, ReplayTail
  <1>8. ReplayRequested(c) =>
         /\ fs \in Seq(Frames)
         /\ \A i \in 1..Len(fs) : fs[i].id \in 1..Len(L) /\ L[fs[i].id] = fs[i] /\ fs[i].id > conn[c].after
         /\ Ascending(fs) /\ Joined(fs)
         /\ fs # <<>> <=> conn[c].after < Len(L)
         /\ fs # <<>> => fs[Len(fs)] = L[Len(L)] /\ fs[Len(fs)].id = Len(L)
         /\ Len(L) <= BufferCap /\ fs # <<>> => fs[1].id = conn[c].after + 1
    <2> DEFINE a == conn[c].after
               K == L
    <2>1. K \in Seq(Frames) /\ (\A i \in 1..Len(K) : K[i].id = i) /\ a \in Nat
          /\ (ReplayRequested(c) => a <= Len(K) /\ EndAbove(fs, K, a))
      BY <1>2, <1>5, <1>7
    <2> HIDE DEF a, K
    <2>2. ReplayRequested(c) =>
         /\ fs \in Seq(Frames)
         /\ \A i \in 1..Len(fs) : fs[i].id \in 1..Len(K) /\ K[fs[i].id] = fs[i] /\ fs[i].id > a
         /\ Ascending(fs) /\ Joined(fs)
         /\ fs # <<>> <=> a < Len(K)
         /\ fs # <<>> => fs[Len(fs)] = K[Len(K)] /\ fs[Len(fs)].id = Len(K)
         /\ Len(K) <= BufferCap /\ fs # <<>> => fs[1].id = a + 1
      BY <2>1, EndFacts
    <2> QED BY <2>2 DEF a, K
  <1>9. ~ReplayRequested(c) => fs = <<>>
    OBVIOUS
  <1>10. Reading(c) => conn[c].after = client.last /\ conn[c].msg = client.msg
    BY <1>1, <1>6 DEF OpenedOK, Holds, Reading
  <1>11. /\ q.msg = conn[c].msg /\ q.after = conn[c].after /\ q.link = conn[c].link /\ q.wire \in {fs, <<>>}
         /\ (q.link => q.wire = fs) /\ (~q.link => q.wire = <<>>)
    OBVIOUS
  <1>12. \A d \in 1..n : /\ conn'[d].msg = conn[d].msg /\ conn'[d].after = conn[d].after
                         /\ conn'[d].phase = "opened" => conn[d].phase = "opened" /\ d # c
                         /\ conn[d].phase = "over" => conn'[d].phase = "over"
                         /\ d # c => conn'[d] = conn[d]
    BY <1>3, <1>11
  <1>20. RowsTyped'
    BY <1>1, <1>2, <1>3, <1>4 DEF RowsTyped
  <1>21. Counted'
    BY <1>1, <1>3, <1>4 DEF Counted
  <1>22. Books'
    <2> SUFFICES ASSUME NEW o \in Objs
                 PROVE  /\ Logged(sess'[o], log[o])
                        /\ \A i \in 1..Len(log[o]) : log[o][i].run \in 1..n
      BY <1>3, <1>4 DEF Books
    <2>1. Logged(sess[o], log[o]) /\ \A i \in 1..Len(log[o]) : log[o][i].run \in 1..n
      BY <1>1 DEF Books
    <2>2. sess'[o].last = sess[o].last /\ sess'[o].buf = sess[o].buf
      OBVIOUS
    <2> QED BY <2>1, <2>2, LoggedSame
  <1>23. Links'
    <2> SUFFICES ASSUME NEW d \in 1..n PROVE LinkOK(d, conn[d])'
      BY <1>3 DEF Links
    <2>1. CASE d = c
      <3>1. q.link /\ q.phase # "over" => Reading(c)
        BY <1>6, <1>11 DEF LinkOK
      <3>2. 0 <= MaxEvents
        BY ChatStreamAssumption
      <3> QED BY <1>3, <1>4, <1>11, <2>1, <3>1, <3>2 DEF LinkOK
    <2>2. CASE d # c
      <3>1. LinkOK(d, conn[d])
        BY <1>1 DEF Links
      <3> QED BY <1>3, <1>4, <2>2, <3>1 DEF LinkOK
    <2> QED BY <2>1, <2>2
  <1>24. Opened'
    <2> SUFFICES ASSUME NEW d \in 1..n, conn'[d].phase = "opened" PROVE OpenedOK(d, conn[d])'
      BY <1>3 DEF Opened
    <2>1. conn'[d] = conn[d] /\ OpenedOK(d, conn[d])
      BY <1>1, <1>12 DEF Opened
    <2> QED BY <1>3, <1>4, <1>5, <2>1 DEF OpenedOK
  <1>25. Unused'
    <2> SUFFICES ASSUME ~InMemory, NEW o \in Conns, o \in 1..n => conn'[o].phase = "opened"
                 PROVE  sess'[o] = FreshSession
      BY <1>3, <1>4 DEF Unused
    <2>1. o # c /\ (o \in 1..n => conn[o].phase = "opened")
      BY <1>12
    <2>2. o # Obj(c) /\ o \in Objs
      BY <2>1 DEF Obj, InMemory, Objs
    <2> QED BY <1>1, <2>1, <2>2 DEF Unused
  <1>26. Holds'
    BY <1>1, <1>3, <1>4, <1>12 DEF Holds
  <1>27. Recalls'
    <2> SUFFICES ASSUME InMemory PROVE Recalls'
      BY <1>4 DEF Recalls
    <2>1. ASSUME NEW d \in 1..n, Reading(d), conn'[d].wire # <<>> PROVE client.msg \in Remembered'
      <3>1. CASE d = c
        <4>1. fs # <<>> /\ ReplayRequested(c)
          BY <1>3, <1>9, <1>11, <2>1, <3>1
        <4>2. client.last # 0
          BY <1>7, <1>10, <2>1, <3>1, <4>1
        <4> QED BY <1>1, <4>2 DEF Recalls
      <3>2. CASE d # c
        BY <1>1, <1>3, <2>1, <3>2 DEF Recalls
      <3> QED BY <3>1, <3>2
    <2> QED BY <1>1, <1>3, <1>4, <2>1 DEF Recalls
  <1>28. Alone'
    BY <1>1, <1>3, <1>12 DEF Alone
  <1>29. Ordered'
    <2> SUFFICES ASSUME InMemory PROVE Ordered'
      BY <1>4 DEF Ordered
    <2>1. /\ Genuine(client.seen)' /\ Ascending(client.seen)'
          /\ \A i \in 1..Len(client'.seen) : client'.seen[i].id <= client'.last
      BY <1>1, <1>4 DEF Ordered, Genuine, Ascending
    <2>2. ASSUME NEW d \in 1..n, Reading(d)
          PROVE  /\ Genuine(conn[d].wire)' /\ Ascending(conn[d].wire)'
                 /\ \A i \in 1..Len(conn'[d].wire) : conn'[d].wire[i].id > client'.last
      <3>1. CASE d # c
        <4>1. conn'[d].wire = conn[d].wire
          BY <1>3, <3>1
        <4> QED BY <1>1, <1>4, <2>2, <4>1 DEF Ordered, Genuine, Ascending
      <3>2. CASE d = c /\ conn'[d].wire = <<>>
        BY <3>2 DEF Genuine, Ascending
      <3>3. CASE d = c /\ conn'[d].wire # <<>>
        <4>1. conn'[d].wire = fs /\ ReplayRequested(c) /\ client.last = conn[c].after
          BY <1>3, <1>9, <1>10, <1>11, <2>2, <3>3
        <4>2. (\A i \in 1..Len(fs) : fs[i].id \in 1..Len(L) /\ L[fs[i].id] = fs[i] /\ fs[i].id > client.last) /\ Ascending(fs)
          BY <1>8, <4>1
        <4>3. Genuine(conn[d].wire)'
          <5> SUFFICES ASSUME NEW i \in 1..Len(fs) PROVE fs[i].id \in 1..Len(L) /\ L[fs[i].id] = fs[i]
            BY <1>4, <4>1 DEF Genuine
          <5> QED BY <4>2
        <4>4. Ascending(conn[d].wire)'
          BY <4>1, <4>2 DEF Ascending
        <4>5. \A i \in 1..Len(conn'[d].wire) : conn'[d].wire[i].id > client'.last
          BY <1>4, <4>1, <4>2
        <4> QED BY <4>3, <4>4, <4>5
      <3> QED BY <3>1, <3>2, <3>3
    <2> QED BY <1>3, <1>4, <2>1, <2>2 DEF Ordered
  <1>30. Unbroken'
    <2> SUFFICES ASSUME PromptNotice, NothingDropped PROVE Unbroken'
      <3>1. NothingDropped' => NothingDropped
        BY <1>2 DEF NothingDropped
      <3> QED BY <3>1 DEF Unbroken
    <2>1. Joined(client.seen)'
      BY <1>1, <1>4 DEF Unbroken, Joined, Joins
    <2>2. ASSUME NEW d \in 1..n, Reading(d) PROVE WireJoined(conn[d], sess[Obj(d)].last)'
      <3>0. Obj(d)' = Obj(d) /\ Obj(d) \in Objs /\ sess'[Obj(d)].last = sess[Obj(d)].last
        <4>1. d \in Conns
          BY <1>1, Numbers
        <4>2. Obj(d) \in Objs /\ Obj(d)' = Obj(d)
          BY <1>4, <4>1 DEF Obj, Objs
        <4> QED BY <4>2
      <3>1. CASE d # c
        <4>1. conn'[d] = conn[d] /\ WireJoined(conn[d], sess[Obj(d)].last)
          BY <1>1, <1>3, <2>2, <3>1 DEF Unbroken
        <4> QED BY <1>4, <3>0, <4>1 DEF WireJoined, Joined, Joins
      <3>2. CASE d = c
        <4>0. conn'[d] = q /\ client.last = conn[c].after
          BY <1>3, <1>10, <2>2, <3>2
        <4>1. CASE ReplayRequested(c) /\ q.link
          <5>1. Obj(c) = 0 /\ sess[0].last = Len(L) /\ Len(L) <= BufferCap /\ q.wire = fs
            BY <1>2, <1>5, <1>7, <1>11, <4>1 DEF Obj, InMemory, NothingDropped
          <5>2. Joined(q.wire) /\ (q.wire # <<>> => Joins(client.last, q.wire[1]))
            BY <1>8, <4>0, <4>1, <5>1 DEF Joins
          <5>3. (q.wire # <<>> => q.wire[Len(q.wire)].id = Len(L)) /\ (q.wire = <<>> => client.last = Len(L))
            BY <1>2, <1>5, <1>7, <1>8, <4>0, <4>1, <5>1
          <5>4. sess'[Obj(d)'].last = Len(L)
            BY <3>0, <3>2, <5>1
          <5> QED BY <1>4, <4>0, <5>2, <5>3, <5>4 DEF WireJoined, Joined, Joins
        <4>2. CASE ~ReplayRequested(c)
          <5>1. client.last = 0 /\ q.wire = <<>>
            BY <1>9, <1>11, <4>0, <4>2 DEF ReplayRequested
          <5> QED BY <1>4, <4>0, <5>1 DEF WireJoined, Joined
        <4>3. CASE ~q.link
          <5>1. q.wire = <<>>
            BY <1>11, <4>3
          <5> QED BY <1>4, <4>0, <4>3, <5>1 DEF WireJoined, Joined
        <4> QED BY <4>1, <4>2, <4>3
      <3> QED BY <3>1, <3>2
    <2> QED BY <1>3, <1>4, <2>1, <2>2 DEF Unbroken
  <1>31. Finals'
    <2> SUFFICES ASSUME PromptNotice, InMemory
                 PROVE  (RunsFollow /\ FirstFrames /\ UnseenFinal /\ FinalReplayed /\ NotRerun)'
      BY <1>4 DEF Finals
    <2>0. RunsFollow /\ FirstFrames /\ UnseenFinal /\ FinalReplayed /\ NotRerun
      BY <1>1 DEF Finals
    <2>1. c = n
      BY <1>1 DEF Alone
    <2>2. ASSUME NEW p \in 1..Len(L), NEW m, FinalOf(p, m)' PROVE FinalOf(p, m)
      BY <1>4, <1>5, <1>12, <2>2 DEF FinalOf
    \* A request whose turn begins has no unseen final of its message.
    <2>3. ASSUME q.phase = "live", conn[c].after # 0, NEW p \in 1..Len(L), p > conn[c].after, FinalOf(p, conn[c].msg)
          PROVE  FALSE
      <3>1. p = Len(L)
        BY <2>0, <2>3 DEF FinalReplayed
      <3>2. ReplayRequested(c)
        BY <2>3 DEF ReplayRequested
      <3>3. fs # <<>> /\ fs \in Seq(Frames) /\ fs[Len(fs)] = L[Len(L)] /\ fs = Replayed(c)
        BY <1>8, <2>3, <3>1, <3>2
      <3>4. Last(fs).kind = "final"
        BY <2>3, <3>1, <3>3 DEF Last, FinalOf
      <3>5. ReplayFinished(c)
        BY <3>3, <3>4 DEF ReplayFinished
      <3> QED BY <2>3, <3>2, <3>5
    <2>4. RunsFollow'
      BY <1>4, <1>5, <1>12, <2>0 DEF RunsFollow
    <2>5. FirstFrames'
      <3> SUFFICES ASSUME NEW d \in 1..n, Reading(d), client.last = 0, NEW i \in 1..Len(conn'[d].wire)
                   PROVE  conn'[d].wire[i].run = d
        BY <1>3, <1>4 DEF FirstFrames
      <3>1. CASE d # c
        <4>1. conn'[d].wire = conn[d].wire
          BY <1>3, <3>1
        <4> QED BY <2>0, <4>1 DEF FirstFrames
      <3>2. CASE d = c
        <4>1. conn[c].after = 0
          BY <1>10, <3>2
        <4>2. conn'[d].wire = <<>>
          BY <1>3, <1>9, <1>11, <3>2, <4>1 DEF ReplayRequested
        <4> QED BY <4>2
      <3> QED BY <3>1, <3>2
    <2>6. UnseenFinal'
      <3> SUFFICES ASSUME client.last # 0, NEW p \in 1..Len(L), p > client.last, FinalOf(p, client.msg)'
                   PROVE  p = Len(L) /\ \A e \in 1..n : conn'[e].phase # "live"
        BY <1>3, <1>4 DEF UnseenFinal
      <3>1. FinalOf(p, client.msg)
        BY <1>4, <1>5, <1>12 DEF FinalOf
      <3>2. p = Len(L) /\ \A e \in 1..n : conn[e].phase # "live"
        BY <2>0, <3>1 DEF UnseenFinal
      <3>3. client.last = conn[c].after /\ client.msg = conn[c].msg
        BY <1>6, <2>1 DEF OpenedOK
      <3>4. q.phase # "live"
        BY <2>3, <3>1, <3>3
      <3> QED BY <1>3, <3>2, <3>4
    <2>7. FinalReplayed'
      <3> SUFFICES ASSUME NEW d \in 1..n, conn'[d].phase = "opened", conn'[d].after # 0,
                          NEW p \in 1..Len(L), p > conn'[d].after, FinalOf(p, conn[d].msg)'
                   PROVE  p = Len(L)
        BY <1>3, <1>4 DEF FinalReplayed
      <3>1. conn[d].phase = "opened" /\ conn'[d] = conn[d] /\ FinalOf(p, conn[d].msg)
        BY <1>4, <1>5, <1>12 DEF FinalOf
      <3> QED BY <2>0, <3>1 DEF FinalReplayed
    <2>8. NotRerun'
      <3> SUFFICES ASSUME NEW d \in 1..n, conn'[d].after # 0, conn'[d].ran,
                          NEW p \in 1..Len(L), p > conn'[d].after, L[p].run < d, FinalOf(p, conn[d].msg)'
                   PROVE  FALSE
        BY <1>3, <1>4 DEF NotRerun
      <3>1. FinalOf(p, conn[d].msg) /\ conn'[d].after = conn[d].after
        BY <1>4, <1>5, <1>12 DEF FinalOf
      <3>2. CASE d = c
        <4>1. q.phase = "live"
          BY <1>3, <3>2
        <4> QED BY <2>3, <3>1, <3>2, <4>1
      <3>3. CASE d # c
        BY <1>3, <2>0, <3>1, <3>3 DEF NotRerun
      <3> QED BY <3>2, <3>3
    <2> QED BY <2>4, <2>5, <2>6, <2>7, <2>8
  <1> QED BY <1>20, <1>21, <1>22, <1>23, <1>24, <1>25, <1>26, <1>27, <1>28, <1>29, <1>30, <1>31 DEF StreamInv

-----------------------------------------------------------------------------
(* A frame is numbered, buffered and sent.                                 *)

FrameSent(q, r, f) ==
    /\ q \in ConnRow /\ q.phase \in {"live", "over"} /\ q.msg = r.msg /\ q.after = r.after
    /\ q.link = r.link /\ q.wire = IF r.link THEN Append(r.wire, f) ELSE <<>>
FrameReady(q, f) ==
    q.ran /\ (q.phase = "live" => q.sent <= MaxEvents) /\ (f.kind = "final" => q.phase = "over")
FrameDue(c, f) ==
    \/ conn[c].phase = "live"
    \/ conn[c].phase = "opened" /\ ~InMemory /\ f.kind = "replay_failed"

LEMMA FrameStep ==
  ASSUME StreamInv, NEW c \in 1..Len(conn), NEW o, o = Obj(c),
         NEW f \in Frames, f.id = sess[o].last + 1, f.run = c, FrameDue(c, f),
         NEW q, FrameSent(q, conn[c], f), FrameReady(q, f),
         conn' = [conn EXCEPT ![c] = q],
         log' = [log EXCEPT ![o] = Append(log[o], f)],
         sess' \in [Objs -> SessRow], sess'[o].last = f.id, Logged(sess'[o], Append(log[o], f)),
         \A x \in Objs : x # o => sess'[x] = sess[x],
         InMemory => Remembered' = Remembered,
         UNCHANGED <<store, exists, title, client, restarts>>
  PROVE  StreamInv'
  <1>0. SUFFICES ASSUME NEW L, L = log[o], NEW l, l = Len(L), NEW w, w = conn[c].wire
                 PROVE  StreamInv'
    OBVIOUS
  <1> USE DEF FrameSent, FrameReady, FrameDue
  <1> DEFINE n == Len(conn)
             K == Append(L, f)
  <1>1. /\ RowsTyped /\ Counted /\ Books /\ Links /\ Opened /\ Unused /\ Holds /\ Recalls
        /\ Ordered /\ Alone /\ Unbroken /\ Finals
    BY DEF StreamInv
  <1>2. conn \in Seq(ConnRow) /\ n \in Nat /\ client.last \in Nat /\ c \in Conns
        /\ sess \in [Objs -> SessRow] /\ log \in [Objs -> Seq(Frames)]
    <2>1. client.last \in Nat
      BY <1>1 DEF RowsTyped, ClientRow
    <2>2. conn \in Seq(ConnRow) /\ sess \in [Objs -> SessRow] /\ log \in [Objs -> Seq(Frames)]
      BY <1>1 DEF RowsTyped
    <2>3. c \in Conns
      BY <1>1, Numbers
    <2> QED BY <2>1, <2>2, <2>3
  <1>3. o \in Objs /\ L \in Seq(Frames) /\ l \in Nat /\ sess[o].last = l /\ f.id = l + 1
        /\ \A i \in 1..l : L[i].id = i /\ L[i].run \in 1..n
    <2>1. o \in Objs
      BY <1>0, <1>2 DEF Obj, Objs
    <2>2. L \in Seq(Frames) /\ l \in Nat
      BY <1>0, <1>2, <2>1
    <2>3. Logged(sess[o], L) /\ \A i \in 1..l : L[i].run \in 1..n
      BY <1>0, <1>1, <2>1 DEF Books
    <2> QED BY <1>0, <2>1, <2>2, <2>3 DEF Logged
  <1>4. K \in Seq(Frames) /\ Len(K) = l + 1 /\ K[l + 1] = f /\ \A i \in 1..l : K[i] = L[i]
    BY <1>0, <1>3, AppendProperties
  <1>5. log' \in [Objs -> Seq(Frames)] /\ log'[o] = K /\ \A x \in Objs : x # o => log'[x] = log[x]
    BY <1>0, <1>2, <1>3, <1>4
  <1>6. \A i \in 1..l + 1 : i = l + 1 \/ i \in 1..l
    BY <1>3
  <1>7. l + 1 \in 1..l + 1 /\ \A i \in 1..l : i \in 1..l + 1 /\ i # l + 1 /\ i < l + 1
    BY <1>3
  <1>8. sess'[o].last = l + 1 /\ Logged(sess'[o], K) /\ \A x \in Objs : x # o => sess'[x] = sess[x]
    BY <1>0, <1>3
  <1>9. /\ conn' \in Seq(ConnRow) /\ Len(conn') = n /\ conn'[c] = q
        /\ \A d \in 1..n : d # c => conn'[d] = conn[d]
    BY <1>2
  <1>10. InMemory' = InMemory /\ store' = store /\ client' = client
         /\ \A d : (Reading(d)' <=> Reading(d)) /\ Obj(d)' = Obj(d)
    BY DEF InMemory, Reading, Obj
  <1>11. conn[c].phase # "over" /\ w \in Seq(Frames) /\ Len(w) \in Nat /\ (~conn[c].link => w = <<>>)
         /\ (conn[c].phase = "opened" => w = <<>>) /\ (conn[c].link => Reading(c))
    <2>1. conn[c] \in ConnRow /\ LinkOK(c, conn[c])
      BY <1>1, <1>2 DEF Links
    <2>2. w \in Seq(Frames)
      BY <1>0, <2>1 DEF ConnRow
    <2>3. conn[c].phase # "over"
      OBVIOUS
    <2> QED BY <1>0, <2>1, <2>2, <2>3 DEF LinkOK
  <1>12. /\ q.link => q.wire = Append(w, f)
         /\ ~q.link => q.wire = <<>>
         /\ q.link = conn[c].link /\ q.msg = conn[c].msg /\ q.after = conn[c].after
    BY <1>0
  <1>13. Append(w, f) \in Seq(Frames) /\ Len(Append(w, f)) = Len(w) + 1 /\ Append(w, f)[Len(w) + 1] = f
         /\ \A i \in 1..Len(w) : Append(w, f)[i] = w[i]
    BY <1>11, AppendProperties
  <1>14. \A d \in 1..n : /\ conn'[d].msg = conn[d].msg /\ conn'[d].after = conn[d].after
                         /\ conn'[d].phase = "opened" => conn[d].phase = "opened" /\ d # c
                         /\ conn[d].phase = "over" => conn'[d].phase = "over"
                         /\ d # c => conn'[d] = conn[d]
    BY <1>9, <1>11, <1>12
  <1>15. InMemory => o = 0 /\ L = log[0] /\ log'[0] = K /\ sess[0].last = l /\ sess'[0].last = l + 1
         /\ conn[c].phase = "live" /\ Remembered' = Remembered
    BY <1>0, <1>3, <1>5, <1>8 DEF Obj, InMemory
  <1>16. \A i \in 1..Len(w) + 1 : i = Len(w) + 1 \/ i \in 1..Len(w)
    BY <1>11
  <1> HIDE DEF K
  <1>20. RowsTyped'
    BY <1>1, <1>5, <1>9, <1>10 DEF RowsTyped
  <1>21. Counted'
    BY <1>1, <1>9, <1>10 DEF Counted
  <1>22. Books'
    <2> SUFFICES ASSUME NEW x \in Objs
                 PROVE  /\ Logged(sess'[x], log'[x])
                        /\ \A i \in 1..Len(log'[x]) : log'[x][i].run \in 1..n
      BY <1>9 DEF Books
    <2>1. CASE x = o
      <3>1. \A i \in 1..l + 1 : K[i].run \in 1..n
        <4> SUFFICES ASSUME NEW i \in 1..l + 1 PROVE K[i].run \in 1..n
          OBVIOUS
        <4>1. CASE i = l + 1
          BY <1>4, <4>1
        <4>2. CASE i \in 1..l
          BY <1>3, <1>4, <4>2
        <4> QED BY <1>6, <4>1, <4>2
      <3>2. log'[x] = K /\ Len(K) = l + 1 /\ Logged(sess'[x], K)
        BY <1>4, <1>5, <1>8, <2>1
      <3> HIDE DEF n
      <3> QED BY <3>1, <3>2
    <2>2. CASE x # o
      BY <1>1, <1>5, <1>8, <2>2 DEF Books
    <2> QED BY <2>1, <2>2
  <1>23. Links'
    <2> SUFFICES ASSUME NEW d \in 1..n PROVE LinkOK(d, conn[d])'
      BY <1>9 DEF Links
    <2>0. LinkOK(d, conn[d])
      BY <1>1 DEF Links
    <2>1. CASE d = c
      <3>1. q.link => Reading(c)
        BY <1>11, <1>12
      <3>2. InMemory => q.msg \in Remembered'
        BY <1>12, <1>15, <2>0, <2>1 DEF LinkOK
      <3>3. q.phase # "opened"
        OBVIOUS
      <3> QED BY <1>9, <1>10, <1>12, <2>1, <3>1, <3>2, <3>3 DEF LinkOK
    <2>2. CASE d # c
      BY <1>9, <1>10, <1>15, <2>0, <2>2 DEF LinkOK
    <2> QED BY <2>1, <2>2
  <1>24. Opened'
    <2> SUFFICES ASSUME NEW d \in 1..n, conn'[d].phase = "opened" PROVE OpenedOK(d, conn[d])'
      BY <1>9 DEF Opened
    <2>1. conn'[d] = conn[d] /\ OpenedOK(d, conn[d]) /\ conn[d] \in ConnRow
      BY <1>1, <1>2, <1>14 DEF Opened
    <2>2. conn[d].after \in Nat
      BY <2>1 DEF ConnRow
    <2>3. InMemory => conn[d].after <= sess'[0].last
      BY <1>3, <1>15, <2>1, <2>2 DEF OpenedOK
    <2> QED BY <1>9, <1>10, <2>1, <2>3 DEF OpenedOK
  <1>25. Unused'
    <2> SUFFICES ASSUME ~InMemory, NEW x \in Conns, x \in 1..n => conn'[x].phase = "opened"
                 PROVE  sess'[x] = FreshSession
      BY <1>9, <1>10 DEF Unused
    <2>1. x # c /\ (x \in 1..n => conn[x].phase = "opened")
      BY <1>14
    <2>2. x # o /\ x \in Objs
      BY <1>0, <2>1 DEF Obj, InMemory, Objs
    <2> QED BY <1>1, <1>8, <2>1, <2>2 DEF Unused
  <1>26. Holds'
    <2> HIDE DEF FrameSent, FrameReady, FrameDue
    <2>1. n # 0 => conn'[n].msg = conn[n].msg
      BY <1>2, <1>14
    <2>2. client.phase = "read" => client.conn = n /\ n # 0 /\ conn[n].msg = client.msg
      BY <1>1 DEF Holds
    <2>3. client'.phase = "read" => client'.conn = Len(conn') /\ Len(conn') # 0 /\ conn'[Len(conn')].msg = client'.msg
      BY <1>9, <1>10, <2>1, <2>2
    <2> QED BY <1>1, <1>10, <2>3 DEF Holds
  <1>27. Recalls'
    <2> SUFFICES ASSUME InMemory PROVE Recalls'
      BY <1>10 DEF Recalls
    <2>1. ASSUME NEW d \in 1..n, Reading(d), conn'[d].wire # <<>> PROVE client.msg \in Remembered
      <3>1. CASE d = c
        <4>1. conn[c].msg = client.msg
          BY <1>1, <2>1, <3>1 DEF Holds, Reading
        <4>2. conn[c].msg \in Remembered
          BY <1>1, <1>15 DEF Links, LinkOK
        <4> QED BY <4>1, <4>2
      <3>2. CASE d # c
        BY <1>1, <1>9, <2>1, <3>2 DEF Recalls
      <3> QED BY <3>1, <3>2
    <2> QED BY <1>1, <1>9, <1>10, <1>15, <2>1 DEF Recalls
  <1>28. Alone'
    BY <1>1, <1>9, <1>11, <1>14 DEF Alone
  <1>29. Ordered'
    <2> SUFFICES ASSUME InMemory PROVE Ordered'
      BY <1>10 DEF Ordered
    <2>0. log'[0] = K /\ log[0] = L
      BY <1>15
    <2>1. ASSUME NEW u, Genuine(u) PROVE \A i \in 1..Len(u) : u[i].id \in 1..l + 1 /\ K[u[i].id] = u[i] /\ u[i].id < l + 1
      <3>1. \A i \in 1..Len(u) : u[i].id \in 1..l /\ L[u[i].id] = u[i]
        BY <1>0, <2>0, <2>1 DEF Genuine
      <3> QED BY <1>4, <1>7, <3>1
    <2>2. Genuine(client.seen)'
      <3>1. Genuine(client.seen)
        BY <1>1 DEF Ordered
      <3> QED BY <1>4, <1>10, <2>0, <2>1, <3>1 DEF Genuine
    <2>3. Ascending(client.seen)' /\ \A i \in 1..Len(client'.seen) : client'.seen[i].id <= client'.last
      BY <1>1, <1>10 DEF Ordered, Ascending
    <2>4. ASSUME NEW d \in 1..n, Reading(d)
          PROVE  /\ Genuine(conn[d].wire)' /\ Ascending(conn[d].wire)'
                 /\ \A i \in 1..Len(conn'[d].wire) : conn'[d].wire[i].id > client'.last
      <3>0. /\ Genuine(conn[d].wire) /\ Ascending(conn[d].wire)
            /\ \A i \in 1..Len(conn[d].wire) : conn[d].wire[i].id > client.last
        BY <1>1, <2>4 DEF Ordered
      <3>1. CASE d # c
        <4>1. conn'[d].wire = conn[d].wire
          BY <1>9, <3>1
        <4>2. Genuine(conn[d].wire)'
          <5>1. \A i \in 1..Len(conn[d].wire) :
                  conn[d].wire[i].id \in 1..l + 1 /\ K[conn[d].wire[i].id] = conn[d].wire[i]
            BY <2>1, <3>0
          <5> DEFINE u == conn[d].wire
                     x == conn'[d].wire
          <5>2. x = u /\ \A i \in 1..Len(u) : u[i].id \in 1..l + 1 /\ K[u[i].id] = u[i]
            BY <4>1, <5>1
          <5> HIDE DEF u, x
          <5>3. \A i \in 1..Len(x) : x[i].id \in 1..l + 1 /\ K[x[i].id] = x[i]
            BY <5>2
          <5>4. \A i \in 1..Len(x) : x[i].id \in 1..Len(log'[0]) /\ log'[0][x[i].id] = x[i]
            BY <1>4, <2>0, <5>3
          <5> QED BY <5>4 DEF Genuine, x
        <4> QED BY <1>10, <3>0, <4>1, <4>2 DEF Ascending
      <3>2. CASE d = c /\ ~q.link
        <4>1. conn'[d].wire = <<>>
          BY <1>9, <1>12, <3>2
        <4> QED BY <4>1 DEF Genuine, Ascending
      <3>3. CASE d = c /\ q.link
        <4> DEFINE v == Append(w, f)
        <4>1. conn'[d].wire = v /\ conn[d].wire = w
          BY <1>0, <1>9, <1>12, <3>3
        <4>2. Len(v) = Len(w) + 1 /\ v[Len(w) + 1] = f /\ \A i \in 1..Len(w) : v[i] = w[i]
          BY <1>13
        <4> HIDE DEF v
        <4>3. \A i \in 1..Len(w) : w[i].id \in 1..l + 1 /\ K[w[i].id] = w[i] /\ w[i].id < l + 1
          BY <2>1, <3>0, <4>1
        <4>4. ASSUME NEW i \in 1..Len(w) + 1 PROVE v[i].id \in 1..l + 1 /\ K[v[i].id] = v[i]
          <5>1. CASE i = Len(w) + 1
            <6>1. v[i] = f /\ f.id = l + 1 /\ K[l + 1] = f
              BY <1>3, <1>4, <4>2, <5>1
            <6> QED BY <1>7, <6>1
          <5>2. CASE i \in 1..Len(w)
            BY <4>2, <4>3, <5>2
          <5> QED BY <1>16, <5>1, <5>2
        <4>5. Genuine(conn[d].wire)'
          BY <1>4, <2>0, <4>1, <4>2, <4>4 DEF Genuine
        <4>6. ASSUME NEW i \in 1..Len(w) + 1, NEW j \in 1..Len(w) + 1, i < j PROVE v[i].id < v[j].id
          <5>1. i \in 1..Len(w)
            BY <1>11, <4>6
          <5>2. CASE j = Len(w) + 1
            BY <1>3, <4>2, <4>3, <5>1, <5>2
          <5>3. CASE j \in 1..Len(w)
            BY <3>0, <4>1, <4>2, <4>6, <5>1, <5>3 DEF Ascending
          <5> QED BY <1>16, <5>2, <5>3
        <4>7. Ascending(conn[d].wire)'
          BY <4>1, <4>2, <4>6 DEF Ascending
        <4>8. client.last < l + 1
          <5>1. client.last <= l
            BY <1>15, LastGiven
          <5> QED BY <1>2, <1>3, <5>1
        <4>9. ASSUME NEW i \in 1..Len(w) + 1 PROVE v[i].id > client.last
          <5>1. CASE i = Len(w) + 1
            BY <1>2, <1>3, <4>2, <4>8, <5>1
          <5>2. CASE i \in 1..Len(w)
            BY <3>0, <4>1, <4>2, <5>2
          <5> QED BY <1>16, <5>1, <5>2
        <4>10. \A i \in 1..Len(conn'[d].wire) : conn'[d].wire[i].id > client'.last
          BY <1>10, <4>1, <4>2, <4>9
        <4> QED BY <4>5, <4>7, <4>10
      <3> QED BY <3>1, <3>2, <3>3
    <2> QED BY <1>9, <1>10, <2>2, <2>3, <2>4 DEF Ordered
  <1>30. Unbroken'
    <2> SUFFICES ASSUME PromptNotice, NothingDropped' PROVE Unbroken'
      BY DEF Unbroken
    <2>0. NothingDropped
      <3> SUFFICES ASSUME NEW x \in Objs PROVE sess[x].last <= BufferCap
        BY <1>2 DEF NothingDropped
      <3>1. sess'[x].last <= BufferCap
        BY DEF NothingDropped
      <3>2. CASE x = o
        <4>1. l + 1 <= BufferCap
          BY <1>8, <3>1, <3>2
        <4>2. l <= BufferCap
          BY <1>3, <4>1, ChatStreamAssumption
        <4> QED BY <1>3, <3>2, <4>2
      <3>3. CASE x # o
        BY <1>8, <3>1, <3>3
      <3> QED BY <3>2, <3>3
    <2>1. Joined(client.seen)'
      BY <1>1, <1>10, <2>0 DEF Unbroken, Joined, Joins
    <2>2. c = n
      BY <1>1, <1>11 DEF Alone
    <2>3. ASSUME NEW d \in 1..n, Reading(d) PROVE WireJoined(conn[d], sess[Obj(d)].last)'
      <3>1. d = c
        BY <1>1, <2>2, <2>3 DEF Holds, Reading
      <3>2. WireJoined(conn[c], l)
        BY <1>0, <1>1, <1>3, <2>0, <2>3, <3>1 DEF Unbroken
      <3>3. conn'[d] = q /\ sess'[Obj(d)'].last = l + 1
        BY <1>0, <1>8, <1>9, <1>10, <3>1
      <3>4. CASE ~q.link
        <4>1. q.wire = <<>>
          BY <1>12, <3>4
        <4> QED BY <3>3, <3>4, <4>1 DEF WireJoined, Joined
      <3>5. CASE q.link
        <4> DEFINE v == Append(w, f)
        <4>1. q.wire = v /\ Len(v) = Len(w) + 1 /\ v[Len(w) + 1] = f /\ \A i \in 1..Len(w) : v[i] = w[i]
          BY <1>12, <1>13, <3>5
        <4>2. v # <<>>
          <5> SUFFICES ASSUME v = <<>> PROVE FALSE
            OBVIOUS
          <5>1. Len(v) = 0
            OBVIOUS
          <5>2. Len(v) = Len(w) + 1 /\ Len(w) \in Nat
            BY <1>11, <4>1
          <5> QED BY <5>1, <5>2
        <4> HIDE DEF v
        <4>3. w # <<>> => Joins(w[Len(w)].id, f)
          <5> SUFFICES ASSUME w # <<>> PROVE w[Len(w)].id = l
            BY <1>3 DEF Joins
          <5> QED BY <1>0, <1>11, <1>12, <3>2, <3>5 DEF WireJoined
        <4>4. Joined(v)
          <5> SUFFICES ASSUME NEW i \in 2..Len(w) + 1 PROVE Joins(v[i - 1].id, v[i])
            BY <4>1 DEF Joined
          <5>1. CASE i = Len(w) + 1
            <6>1. i - 1 = Len(w) /\ Len(w) \in 1..Len(w) /\ w # <<>>
              BY <1>11, <5>1
            <6> QED BY <4>1, <4>3, <5>1, <6>1
          <5>2. CASE i # Len(w) + 1
            <6>1. i \in 2..Len(w) /\ i - 1 \in 1..Len(w) /\ i \in 1..Len(w)
              BY <1>11, <5>2
            <6> QED BY <1>0, <3>2, <4>1, <6>1 DEF WireJoined, Joined
          <5> QED BY <5>1, <5>2
        <4>5. client.last # 0 => Joins(client.last, v[1])
          <5> SUFFICES ASSUME client.last # 0 PROVE Joins(client.last, v[1])
            OBVIOUS
          <5>1. CASE w # <<>>
            <6>1. 1 \in 1..Len(w)
              BY <1>11, <5>1
            <6> QED BY <1>0, <3>2, <4>1, <5>1, <6>1 DEF WireJoined
          <5>2. CASE w = <<>>
            <6>1. v[1] = f
              BY <4>1, <5>2
            <6>2. conn[c].phase = "live" => client.last = l
              BY <1>0, <1>12, <3>2, <3>5, <5>2 DEF WireJoined
            <6> QED BY <1>3, <6>1, <6>2 DEF Joins
          <5> QED BY <5>1, <5>2
        <4>6. v[Len(v)].id = l + 1
          BY <1>3, <4>1
        <4> QED BY <1>10, <3>3, <4>1, <4>2, <4>4, <4>5, <4>6 DEF WireJoined, Joined, Joins
      <3> QED BY <3>4, <3>5
    <2> QED BY <1>9, <1>10, <2>1, <2>3 DEF Unbroken
  <1>31. Finals'
    <2> SUFFICES ASSUME PromptNotice, InMemory
                 PROVE  (RunsFollow /\ FirstFrames /\ UnseenFinal /\ FinalReplayed /\ NotRerun)'
      BY <1>10 DEF Finals
    <2>0. RunsFollow /\ FirstFrames /\ UnseenFinal /\ FinalReplayed /\ NotRerun
      BY <1>1 DEF Finals
    <2>1. c = n /\ conn[c].phase = "live" /\ log'[0] = K /\ log[0] = L /\ Len(log'[0]) = l + 1
      BY <1>1, <1>4, <1>15 DEF Alone
    <2>2. /\ \A p \in 1..l : K[p] = L[p] /\ L[p].run \in 1..n /\ L[p].run <= c
          /\ K[l + 1] = f /\ f.run = c
      <3>1. \A p \in 1..l : L[p].run \in Nat /\ L[p].run <= n
        <4> SUFFICES ASSUME NEW p \in 1..l PROVE L[p].run \in Nat /\ L[p].run <= n
          OBVIOUS
        <4>1. L[p].run \in 1..n /\ n \in Nat
          BY <1>2, <1>3
        <4> HIDE DEF n
        <4> QED BY <4>1
      <3> QED BY <1>3, <1>4, <2>1, <3>1
    <2>3. \A p \in 1..l : L[p].kind = "final" => conn[L[p].run].phase = "over" /\ L[p].run < c
      <3> SUFFICES ASSUME NEW p \in 1..l, L[p].kind = "final"
                   PROVE  conn[L[p].run].phase = "over" /\ L[p].run < c
        OBVIOUS
      <3>1. conn[L[p].run].phase = "over"
        BY <1>0, <2>0, <2>1 DEF RunsFollow
      <3>2. L[p].run # c /\ L[p].run \in Nat /\ L[p].run <= c /\ c \in Nat
        BY <1>2, <1>11, <2>2, <3>1
      <3> QED BY <3>1, <3>2
    <2>4. RunsFollow'
      <3>1. ASSUME NEW p \in 1..l + 1, NEW k \in 1..l + 1, p < k
            PROVE  K[p].run <= K[k].run /\ (K[p].kind = "final" => K[p].run < K[k].run)
        <4>1. p \in 1..l
          BY <1>3, <3>1
        <4>2. CASE k = l + 1
          BY <2>2, <2>3, <4>1, <4>2
        <4>3. CASE k \in 1..l
          <5>1. L[p].run <= L[k].run /\ (L[p].kind = "final" => L[p].run < L[k].run)
            BY <1>0, <2>0, <2>1, <3>1, <4>1, <4>3 DEF RunsFollow
          <5> QED BY <2>2, <4>1, <4>3, <5>1
        <4> QED BY <1>6, <4>2, <4>3
      <3>2. ASSUME NEW p \in 1..l + 1, K[p].kind = "final" PROVE conn'[K[p].run].phase = "over"
        <4>1. CASE p = l + 1
          <5>1. K[p] = f /\ f.kind = "final"
            BY <2>2, <3>2, <4>1
          <5> QED BY <1>9, <5>1
        <4>2. CASE p \in 1..l
          <5>1. L[p].kind = "final" /\ K[p] = L[p] /\ L[p].run \in 1..n
            BY <2>2, <3>2, <4>2
          <5>2. conn[L[p].run].phase = "over"
            BY <2>3, <4>2, <5>1
          <5> QED BY <1>14, <5>1, <5>2
        <4> QED BY <1>6, <4>1, <4>2
      <3> QED BY <2>1, <3>1, <3>2 DEF RunsFollow
    <2>5. FirstFrames'
      <3> SUFFICES ASSUME NEW d \in 1..n, Reading(d), client.last = 0, NEW i \in 1..Len(conn'[d].wire)
                   PROVE  conn'[d].wire[i].run = d
        BY <1>9, <1>10 DEF FirstFrames
      <3>1. d = c
        BY <1>1, <2>1 DEF Holds, Reading
      <3>2. conn'[d].wire = Append(w, f)
        <4>1. conn'[d].wire = q.wire
          BY <1>9, <3>1
        <4>2. q.wire # <<>>
          <5> SUFFICES ASSUME q.wire = <<>> PROVE FALSE
            OBVIOUS
          <5>1. Len(conn'[d].wire) = 0
            BY <4>1
          <5> QED BY <5>1
        <4> QED BY <1>12, <4>1, <4>2
      <3>3. \A j \in 1..Len(w) : w[j].run = c
        BY <1>0, <2>0, <3>1 DEF FirstFrames
      <3>4. i \in 1..Len(w) + 1
        BY <1>13, <3>2
      <3>5. CASE i = Len(w) + 1
        BY <1>13, <3>1, <3>2, <3>5
      <3>6. CASE i \in 1..Len(w)
        <4>1. Append(w, f)[i] = w[i] /\ w[i].run = c
          BY <1>13, <3>3, <3>6
        <4> QED BY <3>1, <3>2, <4>1
      <3> QED BY <1>16, <3>4, <3>5, <3>6
    <2>7. UnseenFinal'
      <3> SUFFICES ASSUME client.last # 0, NEW p \in 1..l + 1, p > client.last, FinalOf(p, client.msg)'
                   PROVE  p = l + 1 /\ \A e \in 1..n : conn'[e].phase # "live"
        BY <1>9, <1>10, <2>1 DEF UnseenFinal
      <3>1. p = l + 1
        <4> SUFFICES ASSUME p \in 1..l PROVE FALSE
          BY <1>6
        <4>1. FinalOf(p, client.msg)
          <5>1. log'[0][p] = log[0][p] /\ log[0][p].run \in 1..n
            BY <2>1, <2>2
          <5>2. log'[0][p].kind = "final" /\ conn'[log'[0][p].run].msg = client.msg
            BY <1>10 DEF FinalOf
          <5>3. conn'[log[0][p].run].msg = conn[log[0][p].run].msg
            BY <1>14, <5>1
          <5> QED BY <5>1, <5>2, <5>3 DEF FinalOf
        <4>2. conn[c].phase # "live"
          BY <1>0, <2>0, <2>1, <4>1 DEF UnseenFinal
        <4> QED BY <2>1, <4>2
      <3>2. f.kind = "final"
        BY <2>1, <2>2, <3>1 DEF FinalOf
      <3>3. conn'[c].phase = "over"
        BY <1>9, <3>2
      <3>4. ASSUME NEW e \in 1..n PROVE conn'[e].phase # "live"
        <4>1. CASE e = c
          BY <3>3, <4>1
        <4>2. CASE e # c
          BY <1>1, <1>9, <2>1, <4>2 DEF Alone
        <4> QED BY <4>1, <4>2
      <3> QED BY <3>1, <3>4
    <2>8. FinalReplayed'
      <3>1. \A d \in 1..n : conn'[d].phase # "opened"
        BY <1>1, <1>14, <2>1 DEF Alone
      <3> QED BY <1>9, <3>1 DEF FinalReplayed
    <2>9. NotRerun'
      <3> SUFFICES ASSUME NEW d \in 1..n, conn'[d].after # 0, conn'[d].ran,
                          NEW p \in 1..l + 1, p > conn'[d].after, K[p].run < d, FinalOf(p, conn[d].msg)'
                   PROVE  FALSE
        BY <1>9, <2>1 DEF NotRerun
      <3>1. p \in 1..l
        <4> SUFFICES ASSUME p = l + 1 PROVE FALSE
          BY <1>6
        <4>1. c < d
          BY <2>2
        <4> QED BY <1>2, <2>1, <4>1
      <3>2. log'[0][p] = L[p] /\ L[p].run \in 1..n /\ L[p].run < d
        BY <2>1, <2>2, <3>1
      <3>3. FinalOf(p, conn[d].msg)
        BY <1>14, <2>1, <3>2 DEF FinalOf
      <3>4. conn[d].ran /\ conn[d].after = conn'[d].after
        <4>1. conn[c].ran
          BY <1>1, <2>1 DEF Links, LinkOK
        <4> QED BY <1>9, <1>14, <4>1
      <3> QED BY <1>0, <2>0, <2>1, <3>1, <3>2, <3>3, <3>4 DEF NotRerun
    <2> QED BY <2>4, <2>5, <2>7, <2>8, <2>9
  <1> QED BY <1>20, <1>21, <1>22, <1>23, <1>24, <1>25, <1>26, <1>27, <1>28, <1>29, <1>30, <1>31 DEF StreamInv

-----------------------------------------------------------------------------
(* Every action is one of these steps.                                     *)

LEMMA ServedRow ==
  ASSUME StreamInv, NEW c \in 1..Len(conn)
  PROVE  /\ conn[c] \in ConnRow /\ c \in Conns /\ Obj(c) \in Objs /\ sess[Obj(c)] \in SessRow
         /\ log[Obj(c)] \in Seq(Frames) /\ Logged(sess[Obj(c)], log[Obj(c)])
         /\ LinkOK(c, conn[c]) /\ conn[c].msg \in Messages /\ conn[c].wire \in Seq(Frames)
  <1>1. RowsTyped /\ Counted /\ Books /\ Links
    BY DEF StreamInv
  <1>2. conn[c] \in ConnRow
    BY <1>1 DEF RowsTyped
  <1>3. c \in Conns
    BY <1>1, Numbers
  <1>4. Obj(c) \in Objs
    BY <1>3 DEF Obj, Objs
  <1>5. sess[Obj(c)] \in SessRow /\ log[Obj(c)] \in Seq(Frames)
    BY <1>1, <1>4 DEF RowsTyped
  <1> QED BY <1>1, <1>2, <1>3, <1>4, <1>5 DEF Books, Links, ConnRow

LEMMA ReaderStep ==
  ASSUME StreamInv, NEW c \in 1..Len(conn), CleanClose(c) \/ SeesCut(c)
  PROVE  StreamInv'
  <1>1. /\ client.phase = "read" /\ client.conn = c /\ client' = StreamOver
        /\ ~conn[c].link \/ conn[c].phase = "over"
        /\ UNCHANGED <<store, sess, exists, title, conn, log, restarts>>
    BY DEF CleanClose, SeesCut, Reading
  <1> QED BY <1>1, OverStep

LEMMA FetchStep == ASSUME StreamInv, FetchFails \/ Refused \/ Retry \/ Abort PROVE StreamInv'
  <1>1. CASE FetchFails
    BY <1>1, OverStep DEF FetchFails
  <1>2. CASE Refused
    BY <1>2, PhaseStep DEF Refused
  <1>3. CASE Retry
    BY <1>3, PhaseStep DEF Retry
  <1>4. CASE Abort
    <2>1. CASE client.phase = "read"
      BY <1>4, <2>1, PhaseStep DEF Abort
    <2>2. CASE client.phase # "read"
      BY <1>4, <2>2, PhaseStep DEF Abort
    <2> QED BY <2>1, <2>2
  <1> QED BY <1>1, <1>2, <1>3, <1>4

LEMMA CutStep ==
  ASSUME StreamInv, NEW c \in 1..Len(conn), Cut(c) \/ Notice(c)
  PROVE  StreamInv'
  <1>1. conn[c] \in ConnRow /\ LinkOK(c, conn[c]) /\ conn \in Seq(ConnRow)
    BY ServedRow DEF StreamInv, RowsTyped
  <1>2. CASE Cut(c)
    <2> DEFINE r == [conn[c] EXCEPT !.link = FALSE, !.wire = <<>>]
    <2>1. r \in ConnRow /\ Fainter(conn[c], r)
      BY <1>1, ConnCut
    <2>2. conn' = [conn EXCEPT ![c] = r] /\ UNCHANGED <<store, sess, exists, title, client, log, restarts>>
      BY <1>1, <1>2 DEF Cut
    <2> HIDE DEF r
    <2> QED BY <2>1, <2>2, FaintStep
  <1>3. CASE Notice(c)
    <2> DEFINE r == [conn[c] EXCEPT !.phase = "over"]
    <2>1. r \in ConnRow /\ Fainter(conn[c], r)
      BY <1>1, <1>3, ConnCut DEF Notice, LinkOK
    <2>2. conn' = [conn EXCEPT ![c] = r] /\ UNCHANGED <<store, sess, exists, title, client, log, restarts>>
      BY <1>1, <1>3 DEF Notice
    <2> HIDE DEF r
    <2> QED BY <2>1, <2>2, FaintStep
  <1> QED BY <1>2, <1>3

(* Recording a message adds it to the history and touches nothing else.    *)
LEMMA RecordedRow ==
  ASSUME NEW s \in SessRow, NEW m \in Messages
  PROVE  /\ Recorded(s, m) \in SessRow
         /\ Recorded(s, m).last = s.last /\ Recorded(s, m).buf = s.buf
         /\ Range(s.hist) \cup {m} \subseteq Range(Recorded(s, m).hist)
  <1> DEFINE h == Append(s.hist, m)
  <1>1. s.hist \in Seq(Messages) /\ Len(s.hist) \in Nat
    BY DEF SessRow
  <1>2. h \in Seq(Messages) /\ Len(h) = Len(s.hist) + 1 /\ h[Len(s.hist) + 1] = m
        /\ \A i \in 1..Len(s.hist) : h[i] = s.hist[i]
    BY <1>1, AppendProperties
  <1>3. Recorded(s, m) = [s EXCEPT !.hist = h]
    BY DEF Recorded
  <1> HIDE DEF h
  <1>4. Recorded(s, m) \in SessRow /\ Recorded(s, m).last = s.last /\ Recorded(s, m).buf = s.buf
        /\ Recorded(s, m).hist = h
    BY <1>2, <1>3 DEF SessRow
  <1>5. DOMAIN h = 1..Len(s.hist) + 1 /\ DOMAIN s.hist = 1..Len(s.hist)
    BY <1>1, <1>2
  <1>6. \A x \in Range(s.hist) \cup {m} : x \in Range(h)
    BY <1>1, <1>2, <1>5 DEF Range
  <1> QED BY <1>4, <1>6

(* The row of a request that replays: on a link, what was replayed.        *)
ClosedRow(r, fs) == [OnWire(r, fs) EXCEPT !.phase = "over"]
Waiting(r) == r.wire = <<>> /\ r.sent = 0 /\ ~r.ran
LiveRow(r, fs) == [OnWire(r, fs) EXCEPT !.phase = "live", !.ran = TRUE]

ReplaySent(q, r, fs) ==
    /\ q \in ConnRow /\ q.msg = r.msg /\ q.after = r.after /\ q.valid = r.valid /\ q.link = r.link
    /\ q.sent = 0 /\ q.phase \in {"live", "over"} /\ (q.ran <=> q.phase = "live")
    /\ q.wire = IF r.link THEN fs ELSE <<>>

LEMMA ReplayRow ==
  ASSUME NEW r \in ConnRow, NEW fs \in Seq(Frames), Waiting(r), NEW q,
         \/ q = ClosedRow(r, fs)
         \/ q = LiveRow(r, fs)
  PROVE  /\ ReplaySent(q, r, fs)
         /\ q = ClosedRow(r, fs) => q.phase = "over"
         /\ q = LiveRow(r, fs) => q.phase = "live"
  <1> USE DEF Waiting, ReplaySent
  <1> DEFINE e == <<>>
             w == IF r.link THEN fs ELSE e
             u == [r EXCEPT !.wire = w]
  <1>1. w \in Seq(Frames) /\ e \in Seq(Frames)
    OBVIOUS
  <1>2. r.wire \o fs = fs
    OBVIOUS
  <1>3. OnWire(r, fs) = u
    BY <1>2 DEF OnWire
  <1>4. w = IF r.link THEN fs ELSE <<>>
    OBVIOUS
  <1> HIDE DEF e, w
  <1>5. u \in ConnRow /\ u.wire = w /\ u.msg = r.msg /\ u.after = r.after /\ u.valid = r.valid
        /\ u.link = r.link /\ u.sent = r.sent /\ u.ran = r.ran
    BY <1>1 DEF ConnRow
  <1> HIDE DEF u
  <1>6. ASSUME q = [u EXCEPT !.phase = "over"]
        PROVE  /\ q \in ConnRow /\ q.msg = u.msg /\ q.after = u.after /\ q.valid = u.valid /\ q.link = u.link
               /\ q.sent = u.sent /\ q.phase = "over" /\ q.ran = u.ran /\ q.wire = u.wire
    BY <1>5, <1>6 DEF ConnRow
  <1>7. ASSUME q = [u EXCEPT !.phase = "live", !.ran = TRUE]
        PROVE  /\ q \in ConnRow /\ q.msg = u.msg /\ q.after = u.after /\ q.valid = u.valid /\ q.link = u.link
               /\ q.sent = u.sent /\ q.phase = "live" /\ q.ran = TRUE /\ q.wire = u.wire
    BY <1>5, <1>7 DEF ConnRow
  <1>8. CASE q = [u EXCEPT !.phase = "over"]
    BY <1>3, <1>4, <1>5, <1>6, <1>7, <1>8 DEF ClosedRow, LiveRow
  <1>9. CASE q = [u EXCEPT !.phase = "live", !.ran = TRUE]
    BY <1>3, <1>4, <1>5, <1>6, <1>7, <1>9 DEF ClosedRow, LiveRow
  <1> QED BY <1>3, <1>8, <1>9 DEF ClosedRow, LiveRow

(* What a request is given to replay, and that only the in-memory session  *)
(* is ever asked for it.                                                   *)
LEMMA ReplayFrames ==
  ASSUME StreamInv, NEW c \in 1..Len(conn), conn[c].phase = "opened",
         ReplayRequested(c) => conn[c].valid
  PROVE  (IF ReplayRequested(c) THEN Replayed(c) ELSE <<>>) \in Seq(Frames)
  <1>1. CASE ReplayRequested(c)
    <2>1. OpenedOK(c, conn[c]) /\ RowsTyped /\ Books /\ conn[c].after \in Nat
      BY ServedRow DEF StreamInv, Opened, ConnRow
    <2>2. InMemory /\ conn[c].after <= sess[0].last
      BY <1>1, <2>1 DEF OpenedOK, ReplayRequested
    <2>3. EndAbove(Replayed(c), log[0], conn[c].after)
      BY <2>1, <2>2, ReplayTail
    <2>4. /\ log[0] \in Seq(Frames) /\ sess[0].last = Len(log[0])
          /\ \A i \in 1..Len(log[0]) : log[0][i].id = i
      BY <2>1, LogZero
    <2>5. Replayed(c) \in Seq(Frames)
      BY <2>1, <2>2, <2>3, <2>4, EndFacts
    <2> QED BY <1>1, <2>5
  <1>2. CASE ~ReplayRequested(c)
    BY <1>2
  <1> QED BY <1>1, <1>2

LEMMA ReplayAllStep ==
  ASSUME StreamInv, NEW c \in 1..Len(conn), ReplayAll(c)
  PROVE  StreamInv'
  <1> SUFFICES ASSUME NEW fs, fs = IF ReplayRequested(c) THEN Replayed(c) ELSE <<>>,
                      NEW q, q = ClosedRow(conn[c], fs)
               PROVE  StreamInv'
    OBVIOUS
  <1>1. /\ conn[c].phase = "opened" /\ ReplayRequested(c) /\ conn[c].valid /\ fs = Replayed(c)
        /\ UNCHANGED <<store, sess, exists, title, client, log, restarts>>
    BY DEF ReplayAll
  <1>2. fs \in Seq(Frames)
    BY <1>1, ReplayFrames
  <1>3. conn[c] \in ConnRow /\ LinkOK(c, conn[c]) /\ RowsTyped
    BY ServedRow DEF StreamInv
  <1>4. Waiting(conn[c])
    BY <1>1, <1>3 DEF LinkOK, Waiting
  <1>5. conn' = [conn EXCEPT ![c] = q]
    BY <1>1, <1>3 DEF ReplayAll, RowsTyped, ClosedRow
  <1>6. /\ q \in ConnRow /\ q.msg = conn[c].msg /\ q.after = conn[c].after /\ q.valid = conn[c].valid
        /\ q.link = conn[c].link /\ q.sent = 0 /\ q.phase \in {"live", "over"}
        /\ (q.ran <=> q.phase = "live") /\ q.wire = IF conn[c].link THEN fs ELSE <<>>
        /\ q.phase = "over"
    <2>1. ReplaySent(q, conn[c], fs) /\ q.phase = "over"
      BY <1>2, <1>3, <1>4, ReplayRow
    <2> QED BY <2>1 DEF ReplaySent
  <1>7. ReplayRequested(c) /\ q.phase = "live" => ~ReplayFinished(c)
    BY <1>6
  <1>8. sess' \in [Objs -> SessRow] /\ sess' = sess /\ Remembered' = Remembered
    BY <1>1, <1>3 DEF RowsTyped, Remembered
  <1>9. /\ \A o \in Objs : /\ sess'[o].last = sess[o].last /\ sess'[o].buf = sess[o].buf
                           /\ o # Obj(c) => sess'[o] = sess[o]
        /\ Remembered \subseteq Remembered' /\ ~q.ran
    BY <1>6, <1>7, <1>8
  <1> QED BY <1>1, <1>5, <1>6, <1>7, <1>8, <1>9, ReplayStep

\* What a replaying request does to the session objects: a message may be added
\* to the history of its own, nothing else changes.
HistoryOnly(o, q) ==
    /\ sess' \in [Objs -> SessRow]
    /\ \A x \in Objs : /\ sess'[x].last = sess[x].last /\ sess'[x].buf = sess[x].buf
                       /\ x # o => sess'[x] = sess[x]
    /\ Remembered \subseteq Remembered' /\ (q.ran /\ InMemory => q.msg \in Remembered')

LEMMA ReplayedStep ==
  ASSUME StreamInv, NEW c \in 1..Len(conn), conn[c].phase = "opened",
         ReplayRequested(c) => conn[c].valid /\ ~ReplayFinished(c),
         NEW fs, fs = IF ReplayRequested(c) THEN Replayed(c) ELSE <<>>,
         NEW q, ReplaySent(q, conn[c], fs),
         conn' = [conn EXCEPT ![c] = q], HistoryOnly(Obj(c), q),
         UNCHANGED <<store, exists, title, client, log, restarts>>
  PROVE  StreamInv'
  <1>1. /\ q \in ConnRow /\ q.msg = conn[c].msg /\ q.after = conn[c].after /\ q.valid = conn[c].valid
        /\ q.link = conn[c].link /\ q.sent = 0 /\ q.phase \in {"live", "over"}
        /\ (q.ran <=> q.phase = "live") /\ q.wire = IF conn[c].link THEN fs ELSE <<>>
    BY DEF ReplaySent
  <1>2. /\ sess' \in [Objs -> SessRow]
        /\ \A o \in Objs : /\ sess'[o].last = sess[o].last /\ sess'[o].buf = sess[o].buf
                           /\ o # Obj(c) => sess'[o] = sess[o]
        /\ Remembered \subseteq Remembered' /\ (q.ran /\ InMemory => q.msg \in Remembered')
    BY DEF HistoryOnly
  <1> QED BY <1>1, <1>2, ReplayStep

LEMMA ReplayThenRunStep ==
  ASSUME StreamInv, NEW c \in 1..Len(conn), ReplayThenRun(c)
  PROVE  StreamInv'
  <1> SUFFICES ASSUME NEW fs, fs = IF ReplayRequested(c) THEN Replayed(c) ELSE <<>>,
                      NEW q, q = LiveRow(conn[c], fs),
                      NEW o, o = Obj(c), NEW z, z = Recorded(sess[o], conn[c].msg)
               PROVE  StreamInv'
    OBVIOUS
  <1>1. /\ conn[c].phase = "opened" /\ (ReplayRequested(c) => conn[c].valid /\ ~ReplayFinished(c))
        /\ UNCHANGED <<store, exists, title, client, log, restarts>>
    BY DEF ReplayThenRun
  <1>2. fs \in Seq(Frames)
    BY <1>1, ReplayFrames
  <1>3. /\ conn[c] \in ConnRow /\ LinkOK(c, conn[c]) /\ RowsTyped /\ o \in Objs
        /\ sess[o] \in SessRow /\ conn[c].msg \in Messages
    BY ServedRow DEF StreamInv
  <1>4. Waiting(conn[c])
    BY <1>1, <1>3 DEF LinkOK, Waiting
  <1>5. conn' = [conn EXCEPT ![c] = q]
    BY <1>1, <1>3 DEF ReplayThenRun, RowsTyped, LiveRow
  <1>6. sess' = [sess EXCEPT ![o] = z]
    BY <1>3 DEF ReplayThenRun, RowsTyped
  <1>7. ReplaySent(q, conn[c], fs)
    BY <1>2, <1>3, <1>4, ReplayRow
  <1>8. /\ z \in SessRow /\ z.last = sess[o].last /\ z.buf = sess[o].buf
        /\ Range(sess[o].hist) \cup {conn[c].msg} \subseteq Range(z.hist)
    BY <1>3, RecordedRow
  <1>9. /\ sess' \in [Objs -> SessRow] /\ sess'[o] = z
        /\ \A x \in Objs : x # o => sess'[x] = sess[x]
    BY <1>3, <1>6, <1>8 DEF RowsTyped
  <1>10. \A x \in Objs : /\ sess'[x].last = sess[x].last /\ sess'[x].buf = sess[x].buf
                         /\ x # Obj(c) => sess'[x] = sess[x]
    BY <1>8, <1>9
  <1>11. 0 \in Objs /\ (InMemory => o = 0)
    BY DEF Objs, Obj, InMemory
  <1>12. Remembered \subseteq Remembered' /\ (InMemory => q.msg \in Remembered')
    <2>1. CASE o = 0
      <3>1. Remembered' = Range(z.hist) /\ Remembered = Range(sess[o].hist)
        BY <1>9, <2>1 DEF Remembered
      <3>2. q.msg = conn[c].msg
        BY <1>7 DEF ReplaySent
      <3> QED BY <1>8, <3>1, <3>2
    <2>2. CASE o # 0
      BY <1>9, <1>11, <2>2 DEF Remembered
    <2> QED BY <2>1, <2>2
  <1>13. HistoryOnly(Obj(c), q)
    BY <1>9, <1>10, <1>12 DEF HistoryOnly
  <1> QED BY <1>1, <1>5, <1>7, <1>13, ReplayedStep

(* The row of a request that sends a frame.                                *)
StartedRow(r, f) == LiveRow(r, <<f>>)
SentRow(r, f, ph) == [OnWire(r, <<f>>) EXCEPT !.sent = r.sent + 1, !.phase = ph]

LEMMA WireRow ==
  ASSUME NEW r \in ConnRow, NEW f \in Frames, NEW u, u = OnWire(r, <<f>>)
  PROVE  /\ u \in ConnRow /\ u.msg = r.msg /\ u.after = r.after /\ u.link = r.link /\ u.sent = r.sent
         /\ u.ran = r.ran /\ u.wire = IF r.link THEN Append(r.wire, f) ELSE <<>>
  <1> DEFINE e == <<>>
             w == IF r.link THEN Append(r.wire, f) ELSE e
  <1>0. r.wire \in Seq(Frames)
    BY DEF ConnRow
  <1>1. w \in Seq(Frames) /\ e \in Seq(Frames)
    BY <1>0
  <1>2. r.wire \o <<f>> = Append(r.wire, f)
    BY <1>0
  <1>3. u = [r EXCEPT !.wire = w]
    BY <1>2 DEF OnWire
  <1>4. w = IF r.link THEN Append(r.wire, f) ELSE <<>>
    OBVIOUS
  <1> HIDE DEF e, w
  <1>5. u \in ConnRow /\ u.wire = w /\ u.msg = r.msg /\ u.after = r.after
        /\ u.link = r.link /\ u.sent = r.sent /\ u.ran = r.ran
    BY <1>1, <1>3 DEF ConnRow
  <1> QED BY <1>4, <1>5

LEMMA StartedFrame ==
  ASSUME NEW r \in ConnRow, NEW f \in Frames, r.sent = 0, f.kind # "final"
  PROVE  FrameSent(StartedRow(r, f), r, f) /\ FrameReady(StartedRow(r, f), f)
  <1> SUFFICES ASSUME NEW q, q = StartedRow(r, f), NEW u, u = OnWire(r, <<f>>)
               PROVE  FrameSent(q, r, f) /\ FrameReady(q, f)
    OBVIOUS
  <1>1. /\ u \in ConnRow /\ u.msg = r.msg /\ u.after = r.after /\ u.link = r.link /\ u.sent = r.sent
        /\ u.wire = IF r.link THEN Append(r.wire, f) ELSE <<>>
    BY WireRow
  <1>2. q = [u EXCEPT !.phase = "live", !.ran = TRUE]
    BY DEF StartedRow, LiveRow
  <1>3. q \in ConnRow
    BY <1>1, <1>2 DEF ConnRow
  <1>4. /\ q.msg = u.msg /\ q.after = u.after /\ q.link = u.link /\ q.wire = u.wire /\ q.phase = "live"
        /\ q.sent = u.sent /\ q.ran = TRUE
    BY <1>1, <1>2 DEF ConnRow
  <1>5. FrameReady(q, f)
    BY <1>1, <1>4, ChatStreamAssumption DEF FrameReady
  <1> QED BY <1>1, <1>3, <1>4, <1>5 DEF FrameSent

LEMMA SentFrame ==
  ASSUME NEW r \in ConnRow, NEW f \in Frames, NEW ph \in {"live", "over"}, r.ran,
         r.sent <= MaxEvents, ph = "live" => r.sent < MaxEvents, f.kind = "final" => ph = "over"
  PROVE  FrameSent(SentRow(r, f, ph), r, f) /\ FrameReady(SentRow(r, f, ph), f)
  <1> SUFFICES ASSUME NEW q, q = SentRow(r, f, ph), NEW u, u = OnWire(r, <<f>>),
                      NEW n, n = r.sent + 1
               PROVE  FrameSent(q, r, f) /\ FrameReady(q, f)
    OBVIOUS
  <1>1. /\ u \in ConnRow /\ u.msg = r.msg /\ u.after = r.after /\ u.link = r.link /\ u.sent = r.sent
        /\ u.ran = r.ran /\ u.wire = IF r.link THEN Append(r.wire, f) ELSE <<>>
    BY WireRow
  <1>2. n = r.sent + 1 /\ r.sent \in Nat /\ MaxEvents \in Nat /\ n \in 0..MaxEvents + 1
    BY <1>1, ChatStreamAssumption DEF ConnRow
  <1>3. q = [u EXCEPT !.sent = n, !.phase = ph]
    BY DEF SentRow
  <1>4. q \in ConnRow
    BY <1>1, <1>2, <1>3 DEF ConnRow
  <1>5. /\ q.msg = u.msg /\ q.after = u.after /\ q.link = u.link /\ q.wire = u.wire /\ q.phase = ph
        /\ q.ran = u.ran /\ q.sent = n
    BY <1>1, <1>3 DEF ConnRow
  <1>6. FrameReady(q, f)
    BY <1>1, <1>2, <1>5 DEF FrameReady
  <1> QED BY <1>1, <1>4, <1>5, <1>6 DEF FrameSent

LEMMA ReplayFailsStep ==
  ASSUME StreamInv, NEW c \in 1..Len(conn), ReplayFails(c)
  PROVE  StreamInv'
  <1> SUFFICES ASSUME NEW o, o = Obj(c), NEW s, s = sess[o],
                      NEW f, f = Numbered(s, c, "replay_failed"),
                      NEW q, q = StartedRow(conn[c], f),
                      NEW b, b = Buffered(s, f), NEW z, z = Recorded(b, conn[c].msg)
               PROVE  StreamInv'
    OBVIOUS
  <1>1. /\ conn[c].phase = "opened" /\ ReplayRequested(c) /\ ~conn[c].valid
        /\ UNCHANGED <<store, exists, title, client, restarts>>
    BY DEF ReplayFails
  <1>2. /\ conn[c] \in ConnRow /\ LinkOK(c, conn[c]) /\ RowsTyped /\ o \in Objs /\ c \in Conns
        /\ s \in SessRow /\ conn[c].msg \in Messages /\ log[o] \in Seq(Frames) /\ Logged(s, log[o])
    BY ServedRow DEF StreamInv
  <1>3. f \in Frames /\ f.id = s.last + 1 /\ f.run = c /\ f.kind = "replay_failed"
    BY <1>2, NumberedFrame DEF FrameKinds
  <1>4. ~InMemory
    BY <1>1 DEF StreamInv, Opened, OpenedOK, ReplayRequested
  <1>5. /\ sess' = [sess EXCEPT ![o] = z] /\ log' = [log EXCEPT ![o] = Append(log[o], f)]
        /\ conn' = [conn EXCEPT ![c] = q]
    BY <1>2 DEF ReplayFails, RowsTyped, LiveRow, StartedRow
  <1>6. FrameSent(q, conn[c], f) /\ FrameReady(q, f)
    <2>1. conn[c].sent = 0 /\ f.kind # "final"
      BY <1>1, <1>2, <1>3 DEF LinkOK
    <2> QED BY <1>2, <1>3, <2>1, StartedFrame
  <1>7. b \in SessRow /\ b.last = f.id /\ Logged(b, Append(log[o], f))
    BY <1>2, <1>3, BufferedRow
  <1>8. z \in SessRow /\ z.last = b.last /\ z.buf = b.buf
    BY <1>2, <1>7, RecordedRow
  <1>9. Logged(z, Append(log[o], f))
    BY <1>7, <1>8, LoggedSame
  <1>10. /\ sess' \in [Objs -> SessRow] /\ sess'[o] = z
         /\ \A x \in Objs : x # o => sess'[x] = sess[x]
    BY <1>2, <1>5, <1>8 DEF RowsTyped
  <1>11. /\ f.id = sess[o].last + 1 /\ sess'[o].last = f.id /\ Logged(sess'[o], Append(log[o], f))
         /\ FrameDue(c, f)
    BY <1>1, <1>3, <1>4, <1>7, <1>8, <1>9, <1>10 DEF FrameDue
  <1> QED BY <1>1, <1>3, <1>4, <1>5, <1>6, <1>10, <1>11, FrameStep

LEMMA EmitStep ==
  ASSUME StreamInv, NEW c \in 1..Len(conn), NEW kind \in {"event", "final", "error"}, Emit(c, kind)
  PROVE  StreamInv'
  <1> SUFFICES ASSUME NEW o, o = Obj(c), NEW s, s = sess[o], NEW f, f = Numbered(s, c, kind),
                      NEW ph, ph = IF kind = "event" THEN "live" ELSE "over",
                      NEW q, q = SentRow(conn[c], f, ph), NEW z, z = Buffered(s, f)
               PROVE  StreamInv'
    OBVIOUS
  <1>1. /\ conn[c].phase = "live" /\ (kind = "event" => conn[c].sent < MaxEvents)
        /\ UNCHANGED <<store, exists, title, client, restarts>>
    BY DEF Emit
  <1>2. /\ conn[c] \in ConnRow /\ LinkOK(c, conn[c]) /\ RowsTyped /\ o \in Objs /\ c \in Conns
        /\ s \in SessRow /\ log[o] \in Seq(Frames) /\ Logged(s, log[o])
    BY ServedRow DEF StreamInv
  <1>3. f \in Frames /\ f.id = s.last + 1 /\ f.run = c /\ f.kind = kind
    BY <1>2, NumberedFrame DEF FrameKinds
  <1>4. sess' = [sess EXCEPT ![o] = z] /\ log' = [log EXCEPT ![o] = Append(log[o], f)]
    BY <1>2 DEF Emit, RowsTyped
  <1>5. conn' = [conn EXCEPT ![c] = q]
    <2>1. conn' = [conn EXCEPT ![c] = [OnWire(conn[c], <<f>>) EXCEPT !.sent = conn[c].sent + 1, !.phase = ph]]
      BY DEF Emit
    <2> QED BY <2>1 DEF SentRow
  <1>6. FrameSent(q, conn[c], f) /\ FrameReady(q, f)
    <2>1. conn[c].ran /\ conn[c].sent <= MaxEvents
      BY <1>1, <1>2 DEF LinkOK
    <2>2. ph \in {"live", "over"} /\ (f.kind = "final" => ph = "over") /\ (ph = "live" => conn[c].sent < MaxEvents)
      BY <1>1, <1>3
    <2> QED BY <1>2, <1>3, <2>1, <2>2, SentFrame
  <1>7. z \in SessRow /\ z.last = f.id /\ z.hist = s.hist /\ Logged(z, Append(log[o], f))
    BY <1>2, <1>3, BufferedRow
  <1>8. /\ sess' \in [Objs -> SessRow] /\ sess'[o] = z
        /\ \A x \in Objs : x # o => sess'[x] = sess[x]
    BY <1>2, <1>4, <1>7 DEF RowsTyped
  <1>9. InMemory => Remembered' = Remembered
    <2>1. InMemory => o = 0
      BY DEF InMemory, Obj
    <2> QED BY <1>7, <1>8, <2>1 DEF Remembered
  <1>10. /\ f.id = sess[o].last + 1 /\ sess'[o].last = f.id /\ Logged(sess'[o], Append(log[o], f))
         /\ FrameDue(c, f)
    BY <1>1, <1>3, <1>7, <1>8 DEF FrameDue
  <1> QED BY <1>1, <1>3, <1>4, <1>5, <1>6, <1>8, <1>9, <1>10, FrameStep

-----------------------------------------------------------------------------
(* The invariant holds, and with it the two promises.                      *)

LEMMA StreamSteps == StreamInv /\ [StreamNext]_streamVars => StreamInv'
  <1> SUFFICES ASSUME StreamInv, [StreamNext]_streamVars PROVE StreamInv'
    OBVIOUS
  <1>0. DOMAIN conn = 1..Len(conn)
    BY DEF StreamInv, RowsTyped
  <1>1. CASE UNCHANGED streamVars
    <2>1. Quiet
      BY <1>1, AllSame DEF streamVars, StreamInv, RowsTyped, Quiet, Leaves
    <2>2. Counted'
      BY <1>1 DEF streamVars, StreamInv, Counted
    <2> QED BY <2>1, <2>2, QuietKeeps
  <1>2. CASE Send
    BY <1>2, SendStep
  <1>3. CASE FetchFails \/ Refused \/ Retry \/ Abort
    BY <1>3, FetchStep
  <1>4. CASE OpenStream
    BY <1>4, OpenStep
  <1>5. CASE RestartApi
    BY <1>5, RestartStep
  <1>6. ASSUME NEW c \in 1..Len(conn), ClientStep(c) PROVE StreamInv'
    <2>1. CASE Receive(c)
      BY <2>1, ReceiveStep
    <2>2. CASE CleanClose(c) \/ SeesCut(c)
      BY <2>2, ReaderStep
    <2> QED BY <1>6, <2>1, <2>2 DEF ClientStep
  <1>7. ASSUME NEW c \in 1..Len(conn), Serve(c) PROVE StreamInv'
    <2>1. CASE ReplayAll(c)
      BY <2>1, ReplayAllStep
    <2>2. CASE ReplayThenRun(c)
      BY <2>2, ReplayThenRunStep
    <2>3. CASE ReplayFails(c)
      BY <2>3, ReplayFailsStep
    <2>4. ASSUME NEW kind \in {"event", "final", "error"}, Emit(c, kind) PROVE StreamInv'
      BY <2>4, EmitStep
    <2>5. CASE Notice(c)
      BY <2>5, CutStep
    <2> QED BY <1>7, <2>1, <2>2, <2>3, <2>4, <2>5 DEF Serve
  <1>8. ASSUME NEW c \in 1..Len(conn), Cut(c) PROVE StreamInv'
    BY <1>8, CutStep
  <1> QED BY <1>0, <1>1, <1>2, <1>3, <1>4, <1>5, <1>6, <1>7, <1>8 DEF StreamNext

(* The ids a client of the in-memory store sees strictly increase over all *)
(* its reconnects and each frame is the one send_message gave that id;     *)
(* with either store, as long as _append_to_buffer has dropped nothing and *)
(* a cut request is noticed before its client is back, every gap between   *)
(* the ids is announced by a replay_failed frame.                          *)
THEOREM FramesAlwaysDelivered == StreamSpec => []FramesDelivered
  <1>1. StreamInv => FramesDelivered
    BY InvDelivered
  <1> QED BY <1>1, StreamStarts, StreamSteps, PTL DEF StreamSpec

(* With the in-memory store, a turn that runs has every answered message   *)
(* in the history run_turn was given, and, where cut requests are noticed  *)
(* in time, event_source never runs a message again for a client whose     *)
(* unseen frames hold its final.                                           *)
THEOREM MemoryAlwaysKeeps == StreamSpec => []MemoryKeeps
  <1>1. StreamInv => MemoryKeeps
    BY InvKeeps
  <1> QED BY <1>1, StreamStarts, StreamSteps, PTL DEF StreamSpec
=============================================================================
