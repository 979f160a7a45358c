---------------------------- MODULE MCVisaPortal ----------------------------
(* Three callers of the pool alone, or one worker and two jobs.            *)
EXTENDS VisaPortal

CONSTANTS a1, a2, a3, k1, k2, c1, c2

MCAcquirers == {a1, a2, a3}
MCKeys == {k1, k2}
MCKeyOf == [n \in {"vfs", "generic"} |-> IF n = "vfs" THEN k1 ELSE k2]
MCCalls == {c1, c2}

Form == FillFormJob(<<[name |-> "name", mask |-> FALSE], [name |-> "passport", mask |-> TRUE]>>)
Book == BookAppointmentJob(2, 3)
Status == ReadStatusJob
List == PrepareChecklistJob
Upload == UploadDocumentJob
UploadFile == CliJob("vfs.upload_document", {"local_path"})
Shot == CliJob("generic.screenshot", {"url"})
Text == CliJob("generic.goto_and_extract", {"url", "selector"})
BookAnytime == CliJob("vfs.book_appointment", {})

Pair(a, b) == [c \in MCCalls |-> IF c = c1 THEN a ELSE b]
Quiet(jobs) ==
    [pool |-> FALSE, credentials |-> TRUE, request |-> jobs, slots |-> <<2, 0, 3, 1>>,
     texts |-> <<"submitted">>, rows |-> <<[label |-> "passport", required |-> ""],
                                           [label |-> "photo", required |-> "false"]>>,
     broken |-> 0, late |-> 0, rivals |-> 0, ticks |-> FALSE]

MCScenarios ==
    {[Quiet(Pair(List, List)) EXCEPT !.pool = TRUE]} \cup
    {[Quiet(Pair(Form, Book)) EXCEPT !.broken = 2],
     [Quiet(Pair(UploadFile, Form)) EXCEPT !.broken = 1, !.late = 1],
     [Quiet(Pair(UploadFile, Book)) EXCEPT !.broken = 1, !.late = 1]} \cup
    {[Quiet(Pair(Book, Book)) EXCEPT !.broken = 1, !.rivals = 1, !.slots = s] :
        s \in {<<2, 0, 3, 1>>, <<1, 5, 4>>}} \cup
    {[Quiet(Pair(Status, Status)) EXCEPT !.broken = 1, !.late = 1,
                                         !.texts = <<"submitted", "under review", "refused">>]} \cup
    {[Quiet(Pair(Shot, Text)) EXCEPT !.broken = 1, !.ticks = TRUE],
     [Quiet(Pair(List, Upload)) EXCEPT !.ticks = TRUE],
     [Quiet(Pair(BookAnytime, List)) EXCEPT !.credentials = FALSE]}
=============================================================================
