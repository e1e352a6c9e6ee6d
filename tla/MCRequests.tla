----------------------------- MODULE MCRequests -----------------------------
(* Each cast gives some of the outside actors enough turns to meet.        *)
EXTENDS Page, TLC

CONSTANTS a, b

Cast(macos, argument, names, launches, requests, edits, faults, clicked, updated) ==
  [macos |-> macos, argument |-> argument, names |-> names, launches |-> launches,
   requests |-> requests, edits |-> edits, faults |-> faults, clicks |-> clicked,
   updates |-> updated]
MCCasts ==
  {Cast(FALSE, a, 0, 1, 3, 1, 0, 0, 0), Cast(FALSE, None, 0, 0, 3, 2, 1, 0, 0),
   Cast(TRUE, None, 3, 0, 1, 0, 0, 0, 0), Cast(TRUE, a, 2, 0, 1, 1, 0, 0, 0),
   Cast(FALSE, a, 0, 0, 1, 0, 0, 1, 0), Cast(FALSE, b, 0, 0, 0, 0, 0, 3, 0),
   Cast(FALSE, None, 0, 0, 0, 0, 0, 0, 3)}
=============================================================================
