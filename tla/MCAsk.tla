-------------------------------- MODULE MCAsk --------------------------------
(***************************************************************************)
(* Small instances of Ask.                                                 *)
(***************************************************************************)
EXTENDS Ask

\* As many calls as may be executed in a round, and more.
MCCallCounts == {MAX_CALLS_PER_ROUND, MAX_CALLS_PER_ROUND + 1}
==============================================================================
