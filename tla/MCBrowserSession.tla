---------------------------- MODULE MCBrowserSession ----------------------------
(* Small instances of BrowserSession for TLC; the constants are in the .cfg file. *)
EXTENDS BrowserSession

=============================================================================
