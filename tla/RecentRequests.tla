--------------------------- MODULE RecentRequests ---------------------------
(***************************************************************************)
(* What the request log of the panel promises: the last Cap requests that  *)
(* were logged since it was reset, each under a number of its own.         *)
(***************************************************************************)
EXTENDS Naturals

CONSTANT Cap       \* capacity of the log

VARIABLES
  count,           \* requests logged since the program started
  kept             \* the numbers of those the log still shows

recentVars == <<count, kept>>

Init == count = 0 /\ kept = {}

\* A request is logged under the next number; the log shows the last Cap.
Log ==
  /\ count' = count + 1
  /\ kept' = {i \in kept \cup {count + 1} : i + Cap > count + 1}

Clear == kept' = {} /\ UNCHANGED count

Next == Log \/ Clear

Spec == Init /\ [][Next]_recentVars
=============================================================================
