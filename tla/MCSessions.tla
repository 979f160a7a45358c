----------------------------- MODULE MCSessions -----------------------------
(* Instance of Sessions for TLC: every library and every disturbance, and  *)
(* a reset form that is submitted twice against a single caller.           *)
EXTENDS Sessions

CONSTANTS c1, c2, r1, r2

MCSetups == {<<"web", {c1, c2, r1}>>, <<"web", {c1, r1, r2}>>, <<"mobile", {c1, c2, "break"}>>,
             <<"desktop", {c1, c2, "break"}>>, <<"desktop", {c1, c2, "signout"}>>}
WebOnly == {<<"web", {c1, c2}>>}
=============================================================================
