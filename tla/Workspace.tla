----------------------------- MODULE Workspace ------------------------------
(***************************************************************************)
(* The records an agency works on: customer enquiries with their status    *)
(* lifecycle and their promotion to a chat session (enquiries.py), the     *)
(* chat sessions with their titles and messages (chat.py, stores_pg.py),   *)
(* and the audit log (AuditLog).  Requests of several callers interleave   *)
(* between the statements they send to the database.                       *)
(***************************************************************************)
EXTENDS AuditLog

CONSTANTS
    Callers,            \* requests in progress
    Drafts,             \* bodies of POST /enquiries: [depart, ret, pax, status, session]
    Patches,            \* bodies of PATCH /enquiries/{id}: partial rows
    EnquiryFilters,     \* filters of GET /enquiries
    Titles

Statuses == {"new", "quoted", "booked", "cancelled"}
Terminal == {"booked", "cancelled"}     \* _TERMINAL_STATUSES
Open == {"new", "quoted"}               \* _OPEN_STATUSES
Columns == {"depart", "ret", "pax", "status", "session"}
NullStatus == "null"
Null == 0           \* a date, a session or a pax_count of null
NoTitle == "none"

ASSUME WorkspaceAssumption ==
    /\ Drafts \subseteq [depart: Nat, ret: Nat, pax: Nat, status: Statuses, session: Nat]
    /\ \A p \in Patches :
         /\ DOMAIN p \subseteq Columns
         /\ \A col \in DOMAIN p :
              p[col] \in (IF col = "status" THEN Statuses \cup {NullStatus} ELSE Nat)
    /\ EnquiryFilters \subseteq [status: Statuses \cup {"all"}, depart_from: Nat,
                                 depart_to: Nat, from: Nat, to: Nat]
    /\ NoTitle \notin Titles

VARIABLES
    enquiry,    \* table enquiries, in the order of creation
    session,    \* table sessions, in the order of creation
    messages,   \* table messages: the sequences of a session's rows, as inserted
    call,
    \* history
    raced,      \* enquiries written by a request that had read an older row
    relinked,   \* enquiries whose session_id a PATCH wrote
    minted      \* the sessions that promotions of an enquiry created

recordVars == <<enquiry, session, messages, call, raced, relinked, minted>>
vars == <<budget, auditVars, recordVars>>

NoEnquiry == [tenant |-> CHOOSE t \in Tenants : TRUE, created |-> 0, depart |-> Null,
              ret |-> Null, pax |-> 1, status |-> "new", session |-> Null,
              given |-> Null]     \* history: the session_id it was created with
IdleCall == [at |-> "idle", tenant |-> CHOOSE t \in Tenants : TRUE, id |-> 0,
             patch |-> <<>>, loaded |-> NoEnquiry, title |-> NoTitle, next |-> 0]

Init ==
    /\ AuditInit
    /\ enquiry = <<>> /\ session = <<>> /\ messages = <<>>
    /\ call = [c \in Callers |-> IdleCall]
    /\ raced = {} /\ relinked = {} /\ minted = <<>>

At(c, stage) == call[c].at = stage
Begin(c, kind, r) == At(c, "idle") /\ Spend(kind) /\ call' = [call EXCEPT ![c] = r]
Answer(c) == call' = [call EXCEPT ![c] = IdleCall]

-----------------------------------------------------------------------------
(* Enquiries.                                                              *)

ValidDateRange(depart, ret) == depart # Null /\ ret # Null => ret >= depart
ValidPax(pax) == pax >= 1
\* A terminal enquiry is not opened again; booked to cancelled is a correction.
ValidTransition(old, new) == old \in Terminal => new \notin Open

\* The session_id of the body is stored as it is; nobody looks whether there
\* is such a session.
CreateEnquiry(t, d) ==
    /\ Spend("enquiry")
    /\ ValidDateRange(d.depart, d.ret) /\ ValidPax(d.pax)
    /\ enquiry' = Append(enquiry, [tenant |-> t, created |-> now, depart |-> d.depart,
                                   ret |-> d.ret, pax |-> d.pax, status |-> d.status,
                                   session |-> d.session, given |-> d.session])
    /\ minted' = Append(minted, {})
    /\ UNCHANGED <<auditVars, session, messages, call, raced, relinked>>

\* _load_owned_enquiry: a row of another tenant is as good as none.
Owned(t, e) == enquiry[e].tenant = t

LoadEnquiry(c, t, e, p) ==
    /\ Owned(t, e)
    /\ Begin(c, "patch", [IdleCall EXCEPT !.at = "patch", !.tenant = t, !.id = e,
                                          !.patch = p, !.loaded = enquiry[e]])
    /\ UNCHANGED <<auditVars, enquiry, session, messages, raced, relinked, minted>>

\* The value a column will have, as far as this request knows.
Final(r, col) == IF col \in DOMAIN r.patch THEN r.patch[col] ELSE r.loaded[col]

ValidPatch(r) ==
    /\ ValidDateRange(Final(r, "depart"), Final(r, "ret"))
    /\ ValidPax(Final(r, "pax"))
    /\ "status" \in DOMAIN r.patch =>
         r.patch.status # NullStatus /\ ValidTransition(r.loaded.status, r.patch.status)

\* The UPDATE names the columns whose value differs from the loaded one.
Changed(r) == {col \in DOMAIN r.patch : r.patch[col] # r.loaded[col]}

PatchEnquiry(c) ==
    LET r == call[c] IN
    /\ At(c, "patch") /\ ValidPatch(r)
    /\ enquiry' = [enquiry EXCEPT ![r.id] =
                     [col \in DOMAIN @ |-> IF col \in Changed(r) THEN r.patch[col] ELSE @[col]]]
    /\ raced' = raced \cup (IF enquiry[r.id] # r.loaded THEN {r.id} ELSE {})
    /\ relinked' = relinked \cup (IF "session" \in Changed(r) THEN {r.id} ELSE {})
    /\ Answer(c)
    /\ UNCHANGED <<auditVars, budget, session, messages, minted>>

RefusePatch(c) ==
    /\ At(c, "patch") /\ ~ValidPatch(call[c])
    /\ Answer(c)
    /\ UNCHANGED <<auditVars, budget, enquiry, session, messages, raced, relinked, minted>>

(* Mutant of LoadPromotion: an enquiry with a session is promoted again.   *)
LoadPromotionAgain(c, t, e) ==
    /\ Owned(t, e)
    /\ Begin(c, "promote", [IdleCall EXCEPT !.at = "promote", !.tenant = t, !.id = e,
                                            !.loaded = enquiry[e]])
    /\ UNCHANGED <<auditVars, enquiry, session, messages, raced, relinked, minted>>

\* promote_to_session: an enquiry that has a session keeps it.
LoadPromotion(c, t, e) ==
    /\ Owned(t, e)
    /\ Begin(c, "promote",
             IF enquiry[e].session # Null THEN IdleCall
             ELSE [IdleCall EXCEPT !.at = "promote", !.tenant = t, !.id = e,
                                   !.loaded = enquiry[e]])
    /\ UNCHANGED <<auditVars, enquiry, session, messages, raced, relinked, minted>>

NewSession(t) == [tenant |-> t, title |-> NoTitle, there |-> TRUE]

\* The session and the link are committed together.
Promote(c) ==
    LET r == call[c]  s == Len(session) + 1 IN
    /\ At(c, "promote")
    /\ session' = Append(session, NewSession(r.tenant))
    /\ messages' = Append(messages, <<>>)
    /\ enquiry' = [enquiry EXCEPT ![r.id].session = s]
    /\ minted' = [minted EXCEPT ![r.id] = @ \cup {s}]
    /\ raced' = raced \cup (IF enquiry[r.id] # r.loaded THEN {r.id} ELSE {})
    /\ Answer(c)
    /\ UNCHANGED <<auditVars, budget, relinked>>

\* The connection is lost before the commit: neither is written.
PromoteFails(c) ==
    /\ At(c, "promote") /\ Spend("fault")
    /\ Answer(c)
    /\ UNCHANGED <<auditVars, enquiry, session, messages, raced, relinked, minted>>

DepartsWithin(x, f) ==
    /\ f.depart_from # NoDate => x.depart # Null /\ x.depart >= f.depart_from
    /\ f.depart_to # NoDate => x.depart # Null /\ x.depart <= f.depart_to

ValidRanges(f) ==
    /\ f.depart_from = NoDate \/ f.depart_to = NoDate \/ f.depart_from <= f.depart_to
    /\ f.from = NoDate \/ f.to = NoDate \/ f.from <= f.to

\* The WHERE of list_enquiries and of its count.
Filtered(t, f) ==
    {e \in DOMAIN enquiry :
        /\ enquiry[e].tenant = t
        /\ f.status = "all" \/ enquiry[e].status = f.status
        /\ DepartsWithin(enquiry[e], f)
        /\ f.from # NoDate => enquiry[e].created >= StartOf(f.from)
        /\ f.to # NoDate => enquiry[e].created <= EndOf(f.to)}

\* list_enquiries: the total, and the pages it may give for an offset.
ListEnquiries(t, f, offset) ==
    LET found == Filtered(t, f)
    IN  [total |-> Cardinality(found),
         items |-> Pages(found, [e \in found |-> enquiry[e].created], offset, PageSize)]

-----------------------------------------------------------------------------
(* Chat sessions and their messages.                                       *)

\* create_session and PostgresSessionStore.put of a session with a new id.
CreateSession(t) ==
    /\ Spend("session")
    /\ session' = Append(session, NewSession(t))
    /\ messages' = Append(messages, <<>>)
    /\ UNCHANGED <<auditVars, enquiry, call, raced, relinked, minted>>

\* The ownership checks of send_message, rename_session and delete_session.
Mine(t, s) == session[s].there /\ session[s].tenant = t

\* send_message with text: get never loads the title, so a session without
\* messages gets one derived from the text.
SendMessage(c, t, s, title) ==
    /\ Mine(t, s)
    /\ Begin(c, "title",
             IF messages[s] # <<>> THEN IdleCall
             ELSE [IdleCall EXCEPT !.at = "title", !.tenant = t, !.id = s, !.title = title])
    /\ UNCHANGED <<auditVars, enquiry, session, messages, raced, relinked, minted>>

(* Mutant of PersistTitle: without WHERE title IS NULL.                    *)
PersistTitleAlways(c) ==
    LET r == call[c] IN
    /\ At(c, "title")
    /\ session' = IF session[r.id].there
                  THEN [session EXCEPT ![r.id].title = r.title] ELSE session
    /\ Answer(c)
    /\ UNCHANGED <<auditVars, budget, enquiry, messages, raced, relinked, minted>>

\* _persist_session_title: UPDATE ... WHERE title IS NULL; a failure is swallowed.
PersistTitle(c) ==
    LET r == call[c] IN
    /\ At(c, "title")
    /\ session' = IF session[r.id].there /\ session[r.id].title = NoTitle
                  THEN [session EXCEPT ![r.id].title = r.title] ELSE session
    /\ Answer(c)
    /\ UNCHANGED <<auditVars, budget, enquiry, messages, raced, relinked, minted>>

\* rename_session and delete_session read the owner first.
Own(c, t, s, what, title) ==
    /\ Mine(t, s)
    /\ Begin(c, "title", [IdleCall EXCEPT !.at = what, !.tenant = t, !.id = s,
                                          !.title = title])
    /\ UNCHANGED <<auditVars, enquiry, session, messages, raced, relinked, minted>>

RenameSession(c) ==
    LET r == call[c] IN
    /\ At(c, "rename")
    /\ session' = IF session[r.id].there THEN [session EXCEPT ![r.id].title = r.title]
                  ELSE session
    /\ Answer(c)
    /\ UNCHANGED <<auditVars, budget, enquiry, messages, raced, relinked, minted>>

\* The messages, the approvals and the session, in one transaction.
DeleteSession(c) ==
    LET r == call[c] IN
    /\ At(c, "delete")
    /\ session' = [session EXCEPT ![r.id] = [NewSession(@.tenant) EXCEPT !.there = FALSE]]
    /\ messages' = [messages EXCEPT ![r.id] = <<>>]
    /\ Answer(c)
    /\ UNCHANGED <<auditVars, budget, enquiry, raced, relinked, minted>>

\* append_message: the highest sequence is read, then the next one inserted.
AppendRead(c, s) ==
    /\ Begin(c, "append", [IdleCall EXCEPT !.at = "append", !.id = s,
                                           !.tenant = session[s].tenant,
                                           !.next = IF messages[s] = <<>> THEN 0
                                                    ELSE Last(messages[s]) + 1])
    /\ UNCHANGED <<auditVars, enquiry, session, messages, raced, relinked, minted>>

\* The foreign key, and the unique (session_id, sequence).
Accepts(s, n) == session[s].there /\ \A i \in DOMAIN messages[s] : messages[s][i] # n

AppendMessage(c) ==
    LET r == call[c] IN
    /\ At(c, "append") /\ Accepts(r.id, r.next)
    /\ messages' = [messages EXCEPT ![r.id] = Append(@, r.next)]
    /\ Answer(c)
    /\ UNCHANGED <<auditVars, budget, enquiry, session, raced, relinked, minted>>

\* An IntegrityError, which nothing catches.
AppendFails(c) ==
    /\ At(c, "append") /\ ~Accepts(call[c].id, call[c].next)
    /\ Answer(c)
    /\ UNCHANGED <<auditVars, budget, enquiry, session, messages, raced, relinked, minted>>

-----------------------------------------------------------------------------
CallSteps(c) ==
    \/ PatchEnquiry(c) \/ RefusePatch(c) \/ Promote(c) \/ PersistTitle(c)
    \/ RenameSession(c) \/ DeleteSession(c) \/ AppendMessage(c) \/ AppendFails(c)

RecordNext ==
    \/ \E t \in Tenants, d \in Drafts : CreateEnquiry(t, d)
    \/ \E t \in Tenants : CreateSession(t)
    \/ \E c \in Callers :
         \/ CallSteps(c) \/ PromoteFails(c)
         \/ \E t \in Tenants, e \in DOMAIN enquiry :
              \/ \E p \in Patches : LoadEnquiry(c, t, e, p)
              \/ LoadPromotion(c, t, e)
         \/ \E s \in DOMAIN session :
              \/ AppendRead(c, s)
              \/ \E t \in Tenants, title \in Titles :
                   \/ SendMessage(c, t, s, title)
                   \/ Own(c, t, s, "rename", title)
                   \/ Own(c, t, s, "delete", NoTitle)

Next == (AuditNext /\ UNCHANGED recordVars) \/ RecordNext

Spec == Init /\ [][Next]_vars /\ \A c \in Callers : WF_vars(CallSteps(c))

-----------------------------------------------------------------------------
(* Properties.                                                             *)

EnquiryRow == [tenant: Tenants, created: Nat, depart: Nat, ret: Nat, pax: Nat \ {0},
               status: Statuses, session: Nat, given: Nat]
SessionRow == [tenant: Tenants, title: Titles \cup {NoTitle}, there: BOOLEAN]

TypeOK ==
    /\ enquiry \in Seq(EnquiryRow)
    /\ session \in Seq(SessionRow)
    /\ messages \in Seq(Seq(Nat)) /\ Len(messages) = Len(session)
    /\ \A c \in Callers :
         /\ call[c].at \in {"idle", "patch", "promote", "title", "rename", "delete", "append"}
         /\ call[c].loaded \in EnquiryRow
         /\ call[c].tenant \in Tenants /\ call[c].title \in Titles \cup {NoTitle}
    /\ raced \subseteq DOMAIN enquiry /\ relinked \subseteq DOMAIN enquiry
    /\ Len(minted) = Len(enquiry)

(* No enquiry has its customer return before leaving, however dates are     *)
(* patched one at a time, unless two requests overlapped (patch_enquiry     *)
(* validates the row it loaded, not the one it writes).                     *)
DatesOrdered ==
    \A e \in DOMAIN enquiry \ raced : ValidDateRange(enquiry[e].depart, enquiry[e].ret)

(* A booked or cancelled enquiry is never opened again, by any sequence of  *)
(* requests on it that do not overlap (_validate_status_transition).        *)
TerminalKept ==
    [][\A e \in DOMAIN enquiry :
         enquiry[e].status \in Terminal /\ e \notin raced' =>
             enquiry'[e].status \notin Open]_vars

\* The link of an enquiry's row x, given the sessions its promotions created.
LinkedOnce(x, mine) ==
    IF x.given # Null THEN x.session = x.given /\ mine = {}
    ELSE mine = (IF x.session = Null THEN {} ELSE {x.session})

(* However often an enquiry is promoted, and whatever is retried after a    *)
(* lost connection, one session is created for it, owned by its tenant, and *)
(* none for an enquiry that was created with a session, which keeps that    *)
(* one; unless promotions overlap or a PATCH changes the link               *)
(* (promote_to_session, create_enquiry).                                    *)
PromotedOnce ==
    \A e \in DOMAIN enquiry :
        /\ \A s \in minted[e] : session[s].tenant = enquiry[e].tenant
        /\ e \notin raced \cup relinked => LinkedOnce(enquiry[e], minted[e])

\* What a caller means by its filter: dates are whole days, and an enquiry
\* without a date is in no range.
Among(d, a, b) == (a # NoDate \/ b # NoDate) => d # Null /\ a <= d /\ (b # NoDate => d <= b)
AskedFor(t, f) ==
    {e \in DOMAIN enquiry :
        LET x == enquiry[e] IN
        /\ x.tenant = t /\ f.status \in {"all", x.status}
        /\ Among(x.depart, f.depart_from, f.depart_to)
        /\ f.from <= x.created \div 2
        /\ f.to = NoDate \/ x.created \div 2 <= f.to}

(* The list of enquiries is what its filter says and never another          *)
(* tenant's (list_enquiries): the total counts them, a page has nothing     *)
(* else, and an enquiry that alone has its created_at is on the page its    *)
(* age says, whatever the database does with the others.                    *)
ListedAsMeant ==
    \A t \in Tenants, f \in {g \in EnquiryFilters : ValidRanges(g)} :
        LET asked == AskedFor(t, f)
            Newer(e) == {d \in asked \ {e} : enquiry[d].created >= enquiry[e].created}
            Alone(e) == \A d \in Newer(e) : enquiry[d].created # enquiry[e].created
        IN  \A offset \in 0..Cardinality(asked) :
              LET l == ListEnquiries(t, f, offset) IN
              /\ l.total = Cardinality(asked) /\ l.items # {}
              /\ \A page \in l.items :
                   /\ page \subseteq asked /\ Cardinality(page) <= PageSize
                   /\ \A e \in asked : Alone(e) =>
                        (e \in page <=> Cardinality(Newer(e)) \in offset..(offset + PageSize - 1))

\* A request for tenant t is answered by this step.
AnswersFor(t) ==
    \E c \in Callers : ~At(c, "idle") /\ At(c, "idle")' /\ call[c].tenant = t

(* A request changes rows of its own tenant only, although the statements   *)
(* that write name the row by its id alone and the owner was read earlier   *)
(* (patch_enquiry, promote_to_session, rename_session, delete_session).     *)
OwnRecordsOnly ==
    [][/\ \A e \in DOMAIN enquiry : enquiry'[e] # enquiry[e] => AnswersFor(enquiry[e].tenant)
       /\ \A s \in DOMAIN session :
            <<session'[s], messages'[s]>> # <<session[s], messages[s]>>
                => AnswersFor(session[s].tenant)]_vars

(* A title, once a session has one, is only changed by a rename: the title  *)
(* derived from a message never overwrites it, however late it is persisted *)
(* (_persist_session_title).                                                *)
TitleKept ==
    [][\A s \in DOMAIN session :
         /\ session[s].title # NoTitle /\ session'[s].there
         /\ session'[s].title # session[s].title
         => \E c \in Callers : At(c, "rename") /\ call[c].id = s
                               /\ call[c].title = session'[s].title]_vars

(* The messages of a session are numbered 0, 1, 2... without a gap or a     *)
(* repetition, however appends and deletions interleave, and none outlives  *)
(* its session (append_message, delete_session).                            *)
MessagesDense ==
    \A s \in DOMAIN session :
        /\ \A i \in DOMAIN messages[s] : messages[s][i] = i - 1
        /\ ~session[s].there => messages[s] = <<>>

(* Enquiries, sessions and messages are well formed and agree with each    *)
(* other through every overlap of the requests that change them.           *)
RecordsSound == TypeOK /\ DatesOrdered /\ PromotedOnce /\ MessagesDense

(* What is read back is what was recorded: the log can neither be flooded  *)
(* nor lose rows to a reader, and the list of enquiries is what it says.   *)
ListingsTrue == LogSound /\ ListedAsMeant

(* What a step may never do: open a closed enquiry, touch another tenant's *)
(* rows, or replace a title that was not asked to change.                  *)
RecordsKept == TerminalKept /\ OwnRecordsOnly /\ TitleKept

(* What the docstrings say, and overlapping requests refute: "retries /     *)
(* duplicate clicks never mint extra sessions" (promote_to_session), and    *)
(* "constraint forces a retry on the rare collision" (append_message).      *)
DuplicateClicksMintOne ==
    \A e \in DOMAIN enquiry : e \notin relinked => Cardinality(minted[e]) <= 1

(* session_id is "set once the enquiry is promoted" (enquiry.py:116): it is *)
(* also set by whoever creates or patches the enquiry.                      *)
LinkMeansPromoted ==
    \A e \in DOMAIN enquiry : enquiry[e].session # Null => enquiry[e].session \in minted[e]

AppendsLand ==
    [][\A c \in Callers :
         At(c, "append") /\ ~At(c, "append")' /\ session[call[c].id].there =>
             Len(messages'[call[c].id]) > Len(messages[call[c].id])]_vars
=============================================================================
