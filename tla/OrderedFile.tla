---------------------------- MODULE OrderedFile ----------------------------
(***************************************************************************)
(* What BackgroundFile promises to the one thread that uses it: a file     *)
(* whose operations take effect in the order of the calls, although        *)
(* accepted writes may reach the file later.  Operations are numbered in   *)
(* the order of their calls.                                               *)
(*                                                                         *)
(* `log' is the sequence of operations the underlying FILE was given, each *)
(* with its outcome: what the FILE took of an accepted write, or that the  *)
(* result was returned to the caller.  `pending' holds the accepted writes *)
(* it was not given yet, `issued' is the number of operations so far.      *)
(* Nothing leaves `pending' but through `log'.                             *)
(***************************************************************************)
EXTENDS Integers, Sequences

VARIABLES issued, pending, log

vars == <<issued, pending, log>>

Init ==
  /\ issued = 0
  /\ pending = {}
  /\ log = <<>>

\* fwrite() returns the full count although nothing is on disk yet.
Accept ==
  /\ issued' = issued + 1
  /\ pending' = pending \union {issued + 1}
  /\ UNCHANGED log

IsOldest(n) == n \in pending /\ \A m \in pending : n <= m

\* Only the oldest accepted write may be given to the file, which takes what it
\* can of it; the caller has been told already that all of it was written.
Perform(n) ==
  /\ IsOldest(n)
  /\ \E amount \in {"all", "some", "none"} : log' = Append(log, [op |-> n, outcome |-> amount])
  /\ pending' = pending \ {n}
  /\ UNCHANGED issued

\* Every other operation is performed at once, and finds nothing pending.
Direct ==
  /\ pending = {}
  /\ issued' = issued + 1
  /\ log' = Append(log, [op |-> issued + 1, outcome |-> "returned"])
  /\ UNCHANGED pending

Next ==
  \/ Accept
  \/ \E n \in pending : Perform(n)
  \/ Direct

Spec == Init /\ [][Next]_vars
=============================================================================
