---------------------------- MODULE DurableStore ----------------------------
(* What anybody who edits through a store is promised: the edits of one run   *)
(* of the process are numbered; one that was acknowledged is on disk, unless  *)
(* a write failed since; what is on disk never goes back; and a crash takes   *)
(* the process back to what is on disk.                                       *)
EXTENDS Naturals

VARIABLES
  current,  \* the last edit made
  durable,  \* the last edit on disk
  acked,    \* the last edit acknowledged
  lost      \* a write failed and none has succeeded since

vars == <<current, durable, acked, lost>>

Init ==
  /\ current = 0 /\ durable = 0 /\ acked = 0
  /\ lost = FALSE

Edit ==
  /\ current' = current + 1
  /\ UNCHANGED <<durable, acked, lost>>

\* A save returns: what it wrote is on disk, or its write failed, or another
\* has written it; and it is acknowledged.
Return ==
  /\ \/ durable' \in durable..current /\ lost' = FALSE
     \/ durable' = durable /\ lost' \in {lost, TRUE}
  /\ acked' \in acked..current
  /\ lost' \/ acked' <= durable'
  /\ UNCHANGED current

Crash ==
  /\ current' = durable
  /\ acked' = IF acked <= durable THEN acked ELSE durable
  /\ lost' = FALSE
  /\ UNCHANGED durable

Next == Edit \/ Return \/ Crash

Spec == Init /\ [][Next]_vars
=============================================================================
