----------------------------- MODULE MCBrowser -----------------------------
(* One session of any mode, with two requests at work and the expiry task. *)
EXTENDS BrowserSession

CONSTANTS r1, r2, e
=============================================================================
