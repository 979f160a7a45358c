---------------------------- MODULE MCWorkspace -----------------------------
(* Instance of Workspace for TLC.                                          *)
EXTENDS Workspace

MCDrafts == {[depart |-> 1, ret |-> 0, pax |-> 1, status |-> "new", session |-> 0],
             [depart |-> 2, ret |-> 2, pax |-> 1, status |-> "booked", session |-> 0],
             [depart |-> 2, ret |-> 1, pax |-> 1, status |-> "new", session |-> 0],
             \* a session nobody has
             [depart |-> 1, ret |-> 0, pax |-> 1, status |-> "new", session |-> 9]}
MCPatches == {("depart" :> 2), ("ret" :> 1), ("ret" :> 0), ("pax" :> 0),
              ("status" :> "quoted"), ("status" :> "booked"), ("status" :> "null"),
              ("session" :> 0)}
AllDays == [status |-> "all", depart_from |-> 0, depart_to |-> 0, from |-> 0, to |-> 0]
MCEnquiryFilters == {AllDays, [AllDays EXCEPT !.status = "new"],
                     [AllDays EXCEPT !.depart_from = 2], [AllDays EXCEPT !.depart_to = 1],
                     [AllDays EXCEPT !.depart_from = 2, !.depart_to = 1],
                     [AllDays EXCEPT !.from = 1, !.to = 1]}
MCFilters == {[kinds |-> {}, from |-> 0, to |-> 0], [kinds |-> {"tool"}, from |-> 0, to |-> 1]}

\* What a behaviour is about.
Calm == [k \in Kinds |-> 0]
MCBudgets == {
    [Calm EXCEPT !["reject"] = 4, !["tick"] = 3, !["fault"] = 1],
    [Calm EXCEPT !["reject"] = 3, !["tick"] = 1, !["fault"] = 1, !["restart"] = 1,
                 !["bundle"] = 1],
    [Calm EXCEPT !["audit"] = 3, !["read"] = 1],
    [Calm EXCEPT !["enquiry"] = 1, !["patch"] = 4],
    [Calm EXCEPT !["enquiry"] = 2, !["tick"] = 3],
    [Calm EXCEPT !["enquiry"] = 1, !["patch"] = 2, !["promote"] = 3, !["fault"] = 1],
    [Calm EXCEPT !["session"] = 1, !["title"] = 3, !["append"] = 2],
    [Calm EXCEPT !["session"] = 1, !["title"] = 2, !["append"] = 3]}
=============================================================================
