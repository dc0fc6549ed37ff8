----------------------------- MODULE WriteBehind -----------------------------
(***************************************************************************)
(* What the session promises to a user who waits for one operation before  *)
(* the next: a store whose contents are edited in memory and persisted     *)
(* behind the edits, one whole version after the other.  A crash loses the *)
(* versions still waiting.  What comes back of each key is the persisted   *)
(* value or nothing; a key is never half old, half new.                    *)
(***************************************************************************)
EXTENDS Sequences

CONSTANTS Keys, Values, Empty

VARIABLES
  live,      \* what the user sees
  backlog,   \* versions waiting to be persisted, oldest first
  durable    \* the version that would survive

vars == <<live, backlog, durable>>

Init ==
  /\ live = [k \in Keys |-> Empty]
  /\ backlog = <<>>
  /\ durable = [k \in Keys |-> Empty]

Edit ==
  /\ live' \in [Keys -> Values]
  /\ backlog' = Append(backlog, live')
  /\ UNCHANGED durable

Persist ==
  /\ backlog # <<>>
  /\ durable' = Head(backlog)
  /\ backlog' = Tail(backlog)
  /\ UNCHANGED live

Crash ==
  /\ \E kept \in SUBSET Keys :
       live' = [k \in Keys |-> IF k \in kept THEN durable[k] ELSE Empty]
  /\ backlog' = <<>>
  /\ UNCHANGED durable

Next == Edit \/ Persist \/ Crash

Spec == Init /\ [][Next]_vars
==============================================================================
