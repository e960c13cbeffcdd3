---------------------------- MODULE BoundedFIFO ----------------------------
(***************************************************************************)
(* What LockFreeBuffer promises: a queue of at most `limit' items.  The    *)
(* producer prepares items ahead of the queue and commits them, the        *)
(* consumer looks at the queued items and takes them.                      *)
(***************************************************************************)
EXTENDS Integers, Sequences

CONSTANTS Values, Capacities

VARIABLES
  queue,    \* committed and not taken yet
  staged,   \* written ahead and not committed yet
  limit,
  seen      \* the item the consumer looked at last

vars == <<queue, staged, limit, seen>>

Init ==
  /\ queue = <<>>
  /\ staged = <<>>
  /\ limit \in Capacities
  /\ seen \in Values

\* Write-ahead: also over an item staged before.
Stage(offset, v) ==
  /\ offset <= Len(staged)
  /\ Len(queue) + offset < limit
  /\ staged' = IF offset = Len(staged) THEN Append(staged, v)
                                       ELSE [staged EXCEPT ![offset + 1] = v]
  /\ UNCHANGED <<queue, limit, seen>>

\* Commits n items: the staged ones first; an item committed without having
\* been written has any value.
Commit(n) ==
  /\ n <= limit - Len(queue)
  /\ \E items \in [1 .. n -> Values] :
       /\ \A i \in 1 .. n : i <= Len(staged) => items[i] = staged[i]
       /\ queue' = queue \o items
  /\ staged' = SubSeq(staged, n + 1, Len(staged))
  /\ UNCHANGED <<limit, seen>>

Look(offset) ==
  /\ offset < Len(queue)
  /\ seen' = queue[offset + 1]
  /\ UNCHANGED <<queue, staged, limit>>

Take(n) ==
  /\ n <= Len(queue)
  /\ queue' = SubSeq(queue, n + 1, Len(queue))
  /\ UNCHANGED <<staged, limit, seen>>

Resize(l) ==
  /\ limit' = l
  /\ queue' = <<>>
  /\ staged' = <<>>
  /\ UNCHANGED seen

Next ==
  \/ \E offset \in 0 .. limit, v \in Values : Stage(offset, v)
  \/ \E n \in 1 .. limit : Commit(n)
  \/ \E offset \in 0 .. limit : Look(offset)
  \/ \E n \in 1 .. limit : Take(n)
  \/ \E l \in Capacities : Resize(l)

Spec == Init /\ [][Next]_vars
=============================================================================
