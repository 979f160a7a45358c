--------------------------- MODULE MCBrowserRunner ---------------------------
(* Two jobs, the second of a kind nobody handles, and two workers.          *)
EXTENDS BrowserRunner

CONSTANTS j1, j2, w1, w2

MCJobs == {j1, j2}
MCUnhandled == {j2}
MCWorkers == {w1, w2}
=============================================================================
