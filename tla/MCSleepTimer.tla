---------------------------- MODULE MCSleepTimer ----------------------------
(* Three sleepers, an element for each, and a clock long enough for every   *)
(* order of their deadlines.                                                *)
EXTENDS SleepTimer
=============================================================================
