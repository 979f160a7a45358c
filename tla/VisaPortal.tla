---------------------------- MODULE VisaPortal ----------------------------
(***************************************************************************)
(* A browser worker at work (browser_runner: worker.py with its pool, the  *)
(* handlers vfs_in.py and generic.py, steps.py, artifacts.py) and the      *)
(* drivers that wait for it (drivers/vfs, client.py, cli.py).  A handler   *)
(* is a script of steps on a page; each step succeeds, or fails before or  *)
(* after it had its effect on the portal.  The queue's own failures and    *)
(* several workers are the subject of BrowserRunner.                       *)
(*                                                                         *)
(* The portal is external: it keeps the forms, documents and appointments  *)
(* it was given, other applicants take slots, and a file's status moves.   *)
(***************************************************************************)
EXTENDS BrowserPool, Sequences, SequencesExt

CONSTANTS
    Calls,         \* jobs, one submit each
    Worker,        \* the acquirer that is the worker
    RetryLimit,    \* settings.retry_limit
    KeyOf,         \* namespace |-> its key in the pool, for the one tenant
    Scenarios      \* what a behaviour is about: the pool alone, or jobs

ASSUME VisaAssumption ==
    /\ RetryLimit \in Nat
    /\ Worker \in Acquirers
    /\ KeyOf \in [{"vfs", "generic"} -> Keys]
    /\ \A sc \in Scenarios : DOMAIN sc.request = Calls

VARIABLES
    scenario,   \* the requests, what the portal shows and what may go wrong
    call,       \* the submit call and the JobResult of each job
    queue,      \* the pending list
    hand,       \* the job in the worker's hands: its place in the script, its page
    portal,     \* what the portal holds
    log,        \* values that appear in the log
    sink        \* artifacts

workVars == <<scenario, call, queue, hand, portal, log, sink>>
allVars == <<vars, workVars>>

Request(c) == scenario.request[c]
NoCall == "none"
NewCall == [client |-> "idle", attempts |-> 0, expired |-> FALSE, result |-> "none",
            output |-> <<>>, uris |-> {}, answer |-> "none", since |-> 0]
Blank == [url |-> "blank", filled |-> {}, listed |-> <<>>]
Free == [job |-> NoCall, pc |-> 1, page |-> Blank, output |-> <<>>, error |-> "none",
         captured |-> FALSE, uris |-> {}]

PortalInit ==
    /\ Init
    /\ scenario \in Scenarios
    /\ call = [c \in Calls |-> NewCall]
    /\ queue = <<>>
    /\ hand = Free
    /\ portal = [open |-> scenario.slots, status |-> 1, forms |-> <<>>, documents |-> <<>>,
                 booked |-> <<>>, taken |-> {}]
    /\ log = {} /\ sink = {}

\* One failure or surprise of this kind, while the scenario has one left.
Spend(k) == scenario[k] > 0 /\ scenario' = [scenario EXCEPT ![k] = @ - 1]

-----------------------------------------------------------------------------
(* The steps of steps.py and the scripts of the handlers.                  *)

Do(step, on) == [step |-> step, on |-> on, mask |-> FALSE]
Fill(field, mask) == [step |-> "fill", on |-> field, mask |-> mask]

Login ==
    <<Do("credentials", "vfs"), Do("goto", "login"),
      Fill("email", FALSE), Fill("password", TRUE), Do("click", "login")>>

ChecklistPrepare == Login \o <<Do("goto", "checklist"), Do("rows", "checklist")>>

FillForm(q) ==
    Login \o <<Do("goto", "form")>>
    \o [i \in DOMAIN q.fields |-> Fill(q.fields[i].name, q.fields[i].mask)]
    \o <<Do("click", "submit"), Do("text", "reference")>>

UploadDocument == <<Do("input", "local_path")>> \o Login \o <<Do("upload", "document")>>

(* Mutant of BookAppointment: the chosen slot is not confirmed.            *)
BookUnconfirmed ==
    <<Do("input", "window_start")>> \o Login
    \o <<Do("goto", "appointment"), Do("slots", "appointment"), Do("pick", "appointment"),
         Do("click", "slot")>>

BookAppointment ==
    <<Do("input", "window_start")>> \o Login
    \o <<Do("goto", "appointment"), Do("slots", "appointment"), Do("pick", "appointment"),
         Do("click", "slot"), Do("click", "confirm")>>

ReadStatus ==
    <<Do("input", "application_ref")>> \o Login \o <<Do("goto", "status"), Do("text", "status")>>

Screenshot == <<Do("input", "url"), Do("goto", "url"), Do("screenshot", "page")>>
GotoAndExtract == <<Do("input", "url"), Do("input", "selector"), Do("goto", "url"), Do("text", "page")>>

\* get_handler.
Script(q) ==
    CASE q.kind = "vfs.checklist_prepare" -> ChecklistPrepare
      [] q.kind = "vfs.fill_form" -> FillForm(q)
      [] q.kind = "vfs.upload_document" -> UploadDocument
      [] q.kind = "vfs.book_appointment" -> BookAppointment
      [] q.kind = "vfs.read_status" -> ReadStatus
      [] q.kind = "generic.screenshot" -> Screenshot
      [] q.kind = "generic.goto_and_extract" -> GotoAndExtract

Namespace(q) ==
    IF q.kind \in {"generic.screenshot", "generic.goto_and_extract"} THEN "generic" ELSE "vfs"

-----------------------------------------------------------------------------
(* What a step does to the page, the portal, the log and the output.       *)

\* Slots are listed with their times, 0 for one without a readable time.
InWindow(q, t) == t >= q.start /\ (q.end # 0 => t <= q.end)
Earlier(chosen, t) == IF t # 0 /\ (chosen = 0 \/ t < chosen) THEN t ELSE chosen

\* The earliest slot inside the window, or else the earliest of all.
ChooseSlot(q, slots) ==
    LET inside == FoldLeft(LAMBDA ch, t : IF InWindow(q, t) THEN Earlier(ch, t) ELSE ch, 0, slots)
    IN  IF inside # 0 THEN inside ELSE FoldLeft(Earlier, 0, slots)

\* A row without a "required" text, or with any but "false", is required.
Checklist(rows) ==
    [i \in DOMAIN rows |-> [label |-> rows[i].label, required |-> rows[i].required # "false"]]

Approving == {"approved", "issued", "granted"}
Rejecting == {"rejected", "refused"}

\* The portal's texts mapped to VisaStatus; an unknown text means in_process.
StatusOf(text) ==
    CASE text \in Approving -> "approved"
      [] text \in Rejecting -> "rejected"
      [] text \in {"submitted", "application submitted"} -> "application_submitted"
      [] text \in {"draft", "appointment booked", "biometrics done", "withdrawn"} -> text
      [] OTHER -> "in_process"

\* goto gives a fresh document; fields and listings belong to the document.
PageAfter(s, p) ==
    CASE s.step = "goto" -> [Blank EXCEPT !.url = s.on]
      [] s.step = "fill" -> [p EXCEPT !.filled = @ \cup {s.on}]
      [] s.step = "slots" -> [p EXCEPT !.listed = portal.open]
      [] OTHER -> p

\* Only clicks and uploads change the portal.  A confirmed slot that someone
\* else has taken meanwhile is refused by the portal, which no step looks at.
PortalAfter(s, h) ==
    CASE s.step = "click" /\ s.on = "submit" ->
            [portal EXCEPT !.forms = Append(@, [by |-> h.job, fields |-> h.page.filled])]
      [] s.step = "upload" -> [portal EXCEPT !.documents = Append(@, h.job)]
      [] s.step = "click" /\ s.on = "confirm" /\ h.output[1] \notin portal.taken ->
            [portal EXCEPT !.booked = Append(@, [by |-> h.job, slot |-> h.output[1],
                                                 listed |-> h.page.listed]),
                           !.open = SelectSeq(@, LAMBDA t : t # h.output[1])]
      [] OTHER -> portal

OutputAfter(s, h) ==
    CASE s.step = "rows" -> Checklist(scenario.rows)
      [] s.step = "pick" -> <<ChooseSlot(Request(h.job), h.page.listed)>>
      [] s.step = "text" /\ s.on = "status" -> <<StatusOf(scenario.texts[portal.status])>>
      [] OTHER -> h.output

\* step.started of fill carries the value unless it is masked.
LogAfter(s, c) == IF s.step = "fill" /\ ~s.mask THEN log \cup {<<c, s.on>>} ELSE log

\* artifacts.put under <tenant>/<job>/<label>.
Artifact(c, label) == <<c, label>>

SinkAfter(s, c) == IF s.step = "screenshot" THEN sink \cup {Artifact(c, <<"page", "png">>)} ELSE sink

\* What a handler finds wrong by itself.
Trouble(s, h) ==
    CASE s.step = "credentials" /\ ~scenario.credentials -> "RuntimeError"
      [] s.step = "input" /\ s.on \notin Request(h.job).inputs ->
            IF s.on = "window_start" THEN "ValueError" ELSE "KeyError"
      [] s.step = "pick" /\ ChooseSlot(Request(h.job), h.page.listed) = 0 -> "NoAppointment"
      [] OTHER -> "none"

\* What Playwright or the job's timeout raises.  The text of an error names the
\* selector or URL, which on the login page is what map_vfs_error looks for.
Raised(s) ==
    {"TimeoutError", "Error"} \cup (IF s.on \in {"login", "password"} THEN {"LoginError"} ELSE {})

-----------------------------------------------------------------------------
(* The jobs VFSDriver's methods and the command line build.                *)

Job(kind, via, inputs) ==
    [kind |-> kind, via |-> via, inputs |-> inputs, start |-> 0, end |-> 0, fields |-> <<>>]

PrepareChecklistJob == Job("vfs.checklist_prepare", "driver", {})
FillFormJob(fields) == [Job("vfs.fill_form", "driver", {}) EXCEPT !.fields = fields]
\* No local_path, which the handler requires.
UploadDocumentJob == Job("vfs.upload_document", "driver", {})
\* A preferred window always has a start; an end of 0 is none.
BookAppointmentJob(start, end) ==
    [Job("vfs.book_appointment", "driver", {"window_start"}) EXCEPT !.start = start, !.end = end]
ReadStatusJob == Job("vfs.read_status", "driver", {"application_ref"})
\* voyagent-browser-runner submit: any kind with any inputs, for development.
CliJob(kind, inputs) == Job(kind, "cli", inputs)

-----------------------------------------------------------------------------
(* BrowserRunnerClient.submit and what the driver makes of its result.     *)

Submit(c) ==
    /\ ~scenario.pool /\ call[c].client = "idle"
    /\ call' = [call EXCEPT ![c].client = "waiting", ![c].since = portal.status]
    /\ queue' = Append(queue, c)
    /\ UNCHANGED <<vars, scenario, hand, portal, log, sink>>

\* timeout_s is over: the job's deadline and, a moment later, the wait.
Expire(c) ==
    /\ call[c].client = "waiting" /\ ~call[c].expired /\ Spend("late")
    /\ call' = [call EXCEPT ![c].expired = TRUE]
    /\ UNCHANGED <<vars, queue, hand, portal, log, sink>>

\* map_vfs_error; the command line prints the result as it is.
DriverError(error) ==
    CASE error \in {"client_timeout", "deadline_exceeded", "TimeoutError"} -> "UpstreamTimeoutError"
      [] error = "LoginError" -> "AuthenticationError"
      [] error = "NoAppointment" -> "ConflictError"
      [] error = "ValueError" -> "ValidationFailedError"
      [] OTHER -> "PermanentError"

Answer(c, result) ==
    IF result = "succeeded" THEN "ok"
    ELSE IF Request(c).via = "driver" THEN DriverError(result) ELSE "failed"

WaitForResult(c) ==
    /\ call[c].client = "waiting"
    /\ \/ /\ call[c].result # "none"
          /\ call' = [call EXCEPT ![c].client = "returned", ![c].answer = Answer(c, call[c].result)]
       \/ /\ call[c].result = "none" /\ call[c].expired
          /\ call' = [call EXCEPT ![c].client = "returned", ![c].answer = Answer(c, "client_timeout")]
    /\ UNCHANGED <<vars, scenario, queue, hand, portal, log, sink>>

-----------------------------------------------------------------------------
(* Worker.process_one, over the pool.                                      *)

PutResult(c, result, output, uris) ==
    call' = [call EXCEPT ![c].result = result, ![c].output = output, ![c].uris = uris]

\* The next job: past its deadline, or to the pool for a page.
Pick ==
    /\ ~scenario.pool /\ At(Worker, "idle") /\ queue # <<>>
    /\ LET c == Head(queue) IN
       \/ /\ call[c].expired
          /\ PutResult(c, "deadline_exceeded", <<>>, {})
          /\ UNCHANGED <<vars, hand>>
       \/ /\ ~call[c].expired
          /\ Acquire(Worker, KeyOf[Namespace(Request(c))])
          /\ hand' = [Free EXCEPT !.job = c]
          /\ UNCHANGED call
    /\ queue' = Tail(queue)
    /\ UNCHANGED <<scenario, portal, log, sink>>

\* acquire on the way to its page; a lone worker never finds the pool full.
PoolStep ==
    /\ ~scenario.pool
    /\ \/ EvictStale(Worker) \/ PopStale(Worker) \/ CloseEnds(Worker, TRUE)
       \/ Found(Worker) \/ Create(Worker) \/ Created(Worker)
    /\ UNCHANGED workVars

CloseFails ==
    /\ ~scenario.pool /\ CloseEnds(Worker, FALSE) /\ Spend("broken")
    /\ UNCHANGED <<call, queue, hand, portal, log, sink>>

NoContext ==
    /\ ~scenario.pool /\ CreateFails(Worker) /\ Spend("broken")
    /\ UNCHANGED <<call, queue, hand, portal, log, sink>>

(* Mutant of HandleFailure: a permanent failure is not stored.             *)
FailUntold(c, error, uris) ==
    IF error = "TimeoutError" /\ call[c].attempts < RetryLimit
    THEN /\ call' = [call EXCEPT ![c].attempts = @ + 1]
         /\ queue' = Append(queue, c)
    ELSE UNCHANGED <<call, queue>>

\* _handle_failure: what looks transient goes back to the list.
HandleFailure(c, error, uris) ==
    IF error = "TimeoutError" /\ call[c].attempts < RetryLimit
    THEN /\ call' = [call EXCEPT ![c].attempts = @ + 1]
         /\ queue' = Append(queue, c)
    ELSE PutResult(c, error, <<>>, uris) /\ UNCHANGED queue

NoPage(error) ==
    /\ ~scenario.pool /\ GiveUp(Worker)
    /\ HandleFailure(hand.job, error, {})
    /\ hand' = Free
    /\ UNCHANGED <<scenario, portal, log, sink>>

OnPage == ~scenario.pool /\ At(Worker, "using")
Steps == Script(Request(hand.job))
Working == OnPage /\ hand.error = "none" /\ hand.pc <= Len(Steps)

StepEnds ==
    LET s == Steps[hand.pc] IN
    /\ Working /\ Trouble(s, hand) = "none"
    /\ hand' = [hand EXCEPT !.pc = @ + 1, !.page = PageAfter(s, @), !.output = OutputAfter(s, hand)]
    /\ portal' = PortalAfter(s, hand)
    /\ log' = LogAfter(s, hand.job)
    /\ sink' = SinkAfter(s, hand.job)
    /\ UNCHANGED <<vars, scenario, call, queue>>

HandlerRaises ==
    LET s == Steps[hand.pc] IN
    /\ Working /\ Trouble(s, hand) # "none"
    /\ hand' = [hand EXCEPT !.error = Trouble(s, hand)]
    /\ UNCHANGED <<vars, scenario, call, queue, portal, log, sink>>

\* A step fails or runs into the job's timeout, its effect done or not.
StepFails(effect) ==
    LET s == Steps[hand.pc] IN
    /\ Working /\ Trouble(s, hand) = "none" /\ Spend("broken")
    /\ \E error \in Raised(s) : hand' = [hand EXCEPT !.error = error]
    /\ portal' = IF effect THEN PortalAfter(s, hand) ELSE portal
    /\ log' = LogAfter(s, hand.job)
    /\ UNCHANGED <<vars, call, queue, sink>>

\* capture_failure: a screenshot and the HTML, each if it works.
CaptureFailure ==
    LET files == {Artifact(hand.job, <<hand.error, ext>>) : ext \in {"png", "html"}} IN
    /\ OnPage /\ hand.error # "none" /\ ~hand.captured
    /\ \E kept \in SUBSET files :
          /\ IF kept = files THEN UNCHANGED scenario ELSE Spend("broken")
          /\ sink' = sink \cup kept
          /\ hand' = [hand EXCEPT !.captured = TRUE, !.uris = kept]
    /\ UNCHANGED <<vars, call, queue, portal, log>>

\* The page is closed, the context released, and the job settled or retried.
LeavePage ==
    /\ OnPage /\ (hand.captured \/ (hand.error = "none" /\ hand.pc > Len(Steps)))
    /\ Release(Worker)
    /\ IF hand.error = "none"
       THEN PutResult(hand.job, "succeeded", hand.output, {}) /\ UNCHANGED queue
       ELSE HandleFailure(hand.job, hand.error, hand.uris)
    /\ hand' = Free
    /\ UNCHANGED <<scenario, portal, log, sink>>

-----------------------------------------------------------------------------
(* The world outside.                                                      *)

\* Another applicant takes a slot.
TakeSlot(t) ==
    /\ t \in ToSet(portal.open) \ {0} /\ Spend("rivals")
    /\ portal' = [portal EXCEPT !.taken = @ \cup {t},
                                !.open = SelectSeq(@, LAMBDA u : u # t)]
    /\ UNCHANGED <<vars, call, queue, hand, log, sink>>

\* The file moves on to its next status.
StatusMoves ==
    /\ ~scenario.pool /\ portal.status < Len(scenario.texts)
    /\ portal' = [portal EXCEPT !.status = @ + 1]
    /\ UNCHANGED <<vars, scenario, call, queue, hand, log, sink>>

TimePasses == ~scenario.pool /\ scenario.ticks /\ Tick /\ UNCHANGED workVars

PoolAlone == scenario.pool /\ Next /\ UNCHANGED workVars

-----------------------------------------------------------------------------
WorkerStep ==
    \/ Pick \/ PoolStep \/ CloseFails \/ NoContext \/ StepEnds \/ HandlerRaises \/ CaptureFailure \/ LeavePage
    \/ \E error \in {"TimeoutError", "Error"} : NoPage(error)
    \/ \E effect \in BOOLEAN : StepFails(effect)

PortalNext ==
    \/ WorkerStep \/ StatusMoves \/ TimePasses \/ PoolAlone
    \/ \E c \in Calls : Submit(c) \/ Expire(c) \/ WaitForResult(c)
    \/ \E t \in ToSet(portal.open) : TakeSlot(t)

\* A worker that can go on does, and so does a client whose answer is there.
PortalSpec ==
    /\ PortalInit /\ [][PortalNext]_allVars
    /\ WF_allVars(WorkerStep)
    /\ \A c \in Calls : WF_allVars(WaitForResult(c))

-----------------------------------------------------------------------------
(* Properties.                                                             *)

Ok(c, kind) == call[c].answer = "ok" /\ Request(c).kind = kind
Results == {"none", "succeeded", "deadline_exceeded", "RuntimeError", "ValueError", "KeyError",
            "NoAppointment", "TimeoutError", "Error", "LoginError"}

(* Every variable holds a value of its type; in particular no job is tried *)
(* more often than the limit allows (worker.py _handle_failure).           *)
VisaTypeOK ==
    /\ \A c \in Calls :
        /\ call[c].client \in {"idle", "waiting", "returned"}
        /\ call[c].attempts \in 0..RetryLimit
        /\ call[c].expired \in BOOLEAN /\ call[c].result \in Results
    /\ queue \in Seq(Calls)
    /\ hand.job \in Calls \cup {NoCall} /\ hand.pc \in Nat /\ hand.error \in Results
    /\ portal.status \in 1..Len(scenario.texts)

(* A form the portal receives has all the fields of its call and no other: *)
(* neither an attempt that failed half way nor another job leaves traces   *)
(* in the form that is sent (vfs_in.py handle_vfs_fill_form).              *)
FormsWhole ==
    \A i \in DOMAIN portal.forms :
        LET form == portal.forms[i]
        IN  form.fields = {f.name : f \in ToSet(Request(form.by).fields)}

(* What a driver is told has happened: a form that was filled is at the    *)
(* portal, a document is attached, an appointment is booked at the time    *)
(* that is returned, unless another applicant was faster.                  *)
AnswersEarned ==
    \A c \in Calls :
        /\ Ok(c, "vfs.fill_form") => \E i \in DOMAIN portal.forms : portal.forms[i].by = c
        /\ Ok(c, "vfs.upload_document") => c \in ToSet(portal.documents)
        /\ Ok(c, "vfs.book_appointment") =>
              \/ call[c].output[1] \in portal.taken
              \/ \E b \in ToSet(portal.booked) : b.by = c /\ b.slot = call[c].output[1]

(* The same without the exception: handle_vfs_book_appointment does not    *)
(* look at the portal's reaction to the confirmation.                      *)
AppointmentReal ==
    \A c \in Calls : Ok(c, "vfs.book_appointment") =>
        \E b \in ToSet(portal.booked) : b.by = c /\ b.slot = call[c].output[1]

(* "Pick the earliest slot inside preferred_window" (vfs_in.py:240): no    *)
(* listed slot inside the window is earlier than the one booked, and a     *)
(* slot outside is booked only if none inside was listed.                  *)
BestSlot ==
    \A b \in ToSet(portal.booked) :
        LET q == Request(b.by)
            listed == ToSet(b.listed) \ {0}
            inside == {t \in listed : InWindow(q, t)}
        IN  /\ b.slot \in listed
            /\ b.slot = Min(IF inside # {} THEN inside ELSE listed)

(* A decision that read_status reports was on the portal at some time      *)
(* between the question and the answer, retries included.                  *)
DecisionsTrue ==
    \A c \in Calls : Ok(c, "vfs.read_status") =>
        LET shown == {scenario.texts[i] : i \in call[c].since..portal.status}
        IN  /\ call[c].output[1] = "approved" => shown \cap Approving # {}
            /\ call[c].output[1] = "rejected" => shown \cap Rejecting # {}

(* "masks values marked as secret" (steps.py:7): neither the password nor  *)
(* a masked field is ever in the log, failures and retries included.       *)
SecretsMasked ==
    \A c \in Calls :
        /\ <<c, "password">> \notin log
        /\ \A f \in ToSet(Request(c).fields) : f.mask => <<c, f.name>> \notin log

(* "the worker captures a screenshot + HTML snapshot before writing the    *)
(* failed JobResult" (worker.py:10): the artifacts a result names are in   *)
(* the sink and show this job with this error.                             *)
FailuresShown ==
    \A c \in Calls :
        \A u \in call[c].uris : u \in sink /\ u[1] = c /\ u[2][1] = call[c].result

(* What the runner does at the portal and what it answers are whole and    *)
(* true: forms, bookings, choices of a slot, decisions and failures, and   *)
(* nothing secret is told on the way (vfs_in.py, steps.py, worker.py).     *)
PortalFaithful == VisaTypeOK /\ FormsWhole /\ AnswersEarned /\ BestSlot /\ DecisionsTrue
                  /\ FailuresShown /\ SecretsMasked

(* Every call is answered: the job is settled, or the wait ends.           *)
CallsReturn == \A c \in Calls : call[c].client = "waiting" ~> call[c].client = "returned"

(* "`book_appointment` is explicitly non-idempotent ... We do not retry it *)
(* transparently" (drivers/vfs/driver.py:73): one call, one appointment.   *)
BookedOnce ==
    \A i, j \in DOMAIN portal.booked : portal.booked[i].by = portal.booked[j].by => i = j
=============================================================================
