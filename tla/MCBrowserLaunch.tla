--------------------------- MODULE MCBrowserLaunch ---------------------------
(* A small instance of BrowserLaunch for TLC. *)
EXTENDS BrowserLaunch, TLC

CONSTANTS r1, r2

MCOutcomes == {"android_action_verified", "android_action_failed"}

\* Two flows meet in the dialog and in a restart, so the second is there to be
\* offered, approved, queued and asked about; the tools route, the expiry, the
\* cancellation and the phone are left to the first.
TwoFlows ==
  Init
  /\ [][/\ Next
        /\ resumer'[r2] = "none" /\ stage'[r2] # "handed"
        /\ r2 \notin expired' \cup withdrawn']_vars
  /\ Fairness
=============================================================================
