------------------------ MODULE PerformanceMonitor ------------------------
(***************************************************************************)
(* PerformanceMonitor (PerformanceMonitor.cpp): PERFMON(id) markers time a *)
(* scope.  Their constructor calls Start(id), their destructor Stop(id);   *)
(* each id has a ring of `ntimings' timings, sums over the ring, totals    *)
(* and extremes.  Both calls return at once unless measuring is on, which  *)
(* any thread may switch at any time, and which they read before they take *)
(* the lock.                                                               *)
(*                                                                         *)
(* Left out: log files, the report, utilization (the ratio of values kept  *)
(* here) and `stop', which is only logged.                                 *)
(***************************************************************************)
EXTENDS Integers, Sequences, SequencesExt, FiniteSetsExt

CONSTANTS Threads, Ids,
          ntimings,   \* length of a ring (avglen)
          MaxDepth,   \* bound on nested scopes of a thread
          MaxScopes,  \* bound on the scopes opened
          MaxTicks    \* bound on the clock

ASSUME RingAssumption == ntimings \in Nat \ {0, 1}
ASSUME BoundAssumption == MaxDepth \in Nat /\ MaxScopes \in Nat /\ MaxTicks \in Nat \ {0}

VARIABLES
  measure,
  ticks, t0,  \* the clock, and its value at the first GetCurrent() (0: none)
  timings,    \* id -> TIMING_DATA, of the ids seen
  scopes,     \* thread -> open markers, outermost first
  calling,    \* thread -> the call past its test of `measure', "none" if none
  opened,     \* scopes opened so far
  lasted,     \* id -> what its measured scopes took, one after the other
  disturbed   \* ids with overlapping scopes, or measuring switched in a scope

history == <<opened, lasted, disturbed>>
vars == <<measure, ticks, t0, timings, scopes, calling, history>>

Slots == 0 .. ntimings - 1
Time == 0 .. MaxTicks
NoTiming == [start |-> 0, elapsed |-> 0, taken |-> 0]
NoTally == [sum |-> 0, total |-> 0, max |-> 0, min |-> 0]

Timing == [start : Time, elapsed : Time, taken : Time]
Tally == [sum : Nat, total : Nat, max : Time, min : Time]
TimingData ==
  [ring : [Slots -> Timing], index : Slots, wrapped : BOOLEAN, elapsed : Tally, taken : Tally]

TypeOK ==
  /\ measure \in BOOLEAN
  /\ ticks \in 1 .. MaxTicks /\ t0 \in Time
  /\ DOMAIN timings \subseteq Ids
  /\ \A id \in DOMAIN timings : timings[id] \in TimingData
  /\ scopes \in [Threads -> Seq([id : Ids, since : Time])]
  /\ calling \in [Threads -> {"none", "Start", "Stop"}]
  /\ \A th \in Threads : calling[th] # "none" => scopes[th] # <<>>
  /\ opened \in 0 .. MaxScopes
  /\ lasted \in [Ids -> Seq(Time)] /\ disturbed \subseteq Ids

Init ==
  /\ measure = FALSE
  /\ ticks = 1 /\ t0 = 0
  /\ timings = [id \in {} |-> NoTiming]
  /\ scopes = [th \in Threads |-> <<>>]
  /\ calling = [th \in Threads |-> "none"]
  /\ opened = 0 /\ lasted = [id \in Ids |-> <<>>] /\ disturbed = {}

-----------------------------------------------------------------------------
(* The data of an id.                                                      *)

NewData ==
  [ring |-> [s \in Slots |-> NoTiming], index |-> 0, wrapped |-> FALSE, elapsed |-> NoTally, taken |-> NoTally]

\* GetCurrent(): the first call sets the origin.
Origin == IF t0 = 0 THEN ticks ELSE t0
Current == ticks - Origin

Previous(data) == data.ring[(data.index + ntimings - 1) % ntimings]
FirstRound(data) == ~data.wrapped /\ data.index = 0

\* Mutation: the minimum starts at the zero of memset().
LowestFromZero(data, min, value) == Min({min, value})

Lowest(data, min, value) == IF FirstRound(data) THEN value ELSE Min({min, value})

\* A value in place of an old one of the ring.
Tallied(data, tally, old, value) ==
  [sum |-> tally.sum - old + value, total |-> tally.total + value,
   max |-> Max({tally.max, value}), min |-> Lowest(data, tally.min, value)]

Started(data, t) ==
  LET slot == data.ring[data.index]
      elapsed == t - Previous(data).start
  IN  [ring |-> [data.ring EXCEPT ![data.index] = [start |-> t, elapsed |-> elapsed, taken |-> slot.taken]],
       index |-> data.index, wrapped |-> data.wrapped,
       elapsed |-> Tallied(data, data.elapsed, slot.elapsed, elapsed), taken |-> data.taken]

\* Mutation: the value that falls out of the ring stays in the sum.
StoppedKeepsOld(data, t) ==
  LET slot == data.ring[data.index]
      taken == t - slot.start
      atEnd == data.index + 1 = ntimings
  IN  [ring |-> [data.ring EXCEPT ![data.index] = [start |-> slot.start, elapsed |-> slot.elapsed, taken |-> taken]],
       index |-> IF atEnd THEN 0 ELSE data.index + 1, wrapped |-> data.wrapped \/ atEnd,
       elapsed |-> data.elapsed, taken |-> Tallied(data, data.taken, 0, taken)]

\* The next timing is the one after, after the last the first.
Stopped(data, t) ==
  LET slot == data.ring[data.index]
      taken == t - slot.start
      atEnd == data.index + 1 = ntimings
  IN  [ring |-> [data.ring EXCEPT ![data.index] = [start |-> slot.start, elapsed |-> slot.elapsed, taken |-> taken]],
       index |-> IF atEnd THEN 0 ELSE data.index + 1, wrapped |-> data.wrapped \/ atEnd,
       elapsed |-> data.elapsed, taken |-> Tallied(data, data.taken, slot.taken, taken)]

-----------------------------------------------------------------------------
(* The threads.                                                            *)

OpenIds == {id \in Ids : \E th \in Threads : \E i \in DOMAIN scopes[th] : scopes[th][i].id = id}

\* The constructor of a marker: Start(id) up to its test of `measure'.
Open(th, id) ==
  /\ calling[th] = "none"
  /\ Len(scopes[th]) < MaxDepth /\ opened < MaxScopes
  /\ opened' = opened + 1
  /\ scopes' = [scopes EXCEPT ![th] = Append(@, [id |-> id, since |-> 0])]
  /\ calling' = [calling EXCEPT ![th] = IF measure THEN "Start" ELSE "none"]
  /\ disturbed' = IF id \in OpenIds THEN disturbed \union {id} ELSE disturbed
  /\ UNCHANGED <<measure, ticks, t0, timings, lasted>>

\* The rest of Start(id), under the lock.
Start(th) ==
  /\ calling[th] = "Start"
  /\ LET id == Last(scopes[th]).id
         data == IF id \in DOMAIN timings THEN timings[id] ELSE NewData
     IN  /\ timings' = [i \in DOMAIN timings \union {id} |->
                          IF i = id THEN Started(data, Current) ELSE timings[i]]
         /\ scopes' = [scopes EXCEPT ![th][Len(scopes[th])] = [id |-> id, since |-> Current]]
  /\ t0' = Origin
  /\ calling' = [calling EXCEPT ![th] = "none"]
  /\ UNCHANGED <<measure, ticks, history>>

\* The destructor of the innermost marker: Stop(id) up to its test of
\* `measure'.
Close(th) ==
  /\ calling[th] = "none" /\ scopes[th] # <<>>
  /\ IF measure THEN /\ calling' = [calling EXCEPT ![th] = "Stop"]
                     /\ UNCHANGED scopes
                ELSE /\ scopes' = [scopes EXCEPT ![th] = Front(@)]
                     /\ UNCHANGED calling
  /\ UNCHANGED <<measure, ticks, t0, timings, history>>

\* The rest of Stop(id), under the lock; an unknown id is reported.
Stop(th) ==
  /\ calling[th] = "Stop"
  /\ LET scope == Last(scopes[th])
     IN  IF scope.id \in DOMAIN timings
           THEN /\ timings' = [timings EXCEPT ![scope.id] = Stopped(@, Current)]
                /\ lasted' = [lasted EXCEPT ![scope.id] = Append(@, Current - scope.since)]
                /\ t0' = Origin
           ELSE UNCHANGED <<timings, lasted, t0>>
  /\ scopes' = [scopes EXCEPT ![th] = Front(@)]
  /\ calling' = [calling EXCEPT ![th] = "none"]
  /\ UNCHANGED <<measure, ticks, opened, disturbed>>

\* StartMeasuring() and StopMeasuring(): no lock.
SwitchMeasuring ==
  /\ measure' = ~measure
  /\ disturbed' = disturbed \union OpenIds
  /\ UNCHANGED <<ticks, t0, timings, scopes, calling, opened, lasted>>

Tick ==
  /\ ticks < MaxTicks
  /\ ticks' = ticks + 1
  /\ UNCHANGED <<measure, t0, timings, scopes, calling, history>>

Next ==
  \/ \E th \in Threads, id \in Ids : Open(th, id)
  \/ \E th \in Threads : Start(th) \/ Close(th) \/ Stop(th)
  \/ SwitchMeasuring
  \/ Tick

Spec == Init /\ [][Next]_vars

-----------------------------------------------------------------------------
(* Safety.                                                                 *)

Total(seq) ==
  LET sum[n \in 0 .. Len(seq)] == IF n = 0 THEN 0 ELSE sum[n - 1] + seq[n]
  IN  sum[Len(seq)]

RingSum(data, field) == Total([s \in 1 .. ntimings |-> data.ring[s - 1][field]])

(* The running sums are the sums over the ring, however scopes of the same *)
(* id nest or overlap and whenever measuring is switched: each call takes  *)
(* out exactly what it overwrites (Start() and Stop()).                    *)
SumsMatchRing ==
  \A id \in DOMAIN timings :
    /\ timings[id].elapsed.sum = RingSum(timings[id], "elapsed")
    /\ timings[id].taken.sum = RingSum(timings[id], "taken")

(* If the scopes of an id never overlapped and measuring was not switched  *)
(* inside one, the totals and extremes are those of the scopes, one by     *)
(* one, across every wrap of the ring, and the elapsed times add up to the *)
(* time of the last Start().  Otherwise they are not: the ring has one     *)
(* index for all scopes of the id.                                         *)
UndisturbedIsExact ==
  \A id \in DOMAIN timings \ disturbed :
    LET data == timings[id]
        times == ToSet(lasted[id])
        latest == IF id \in OpenIds THEN data.ring[data.index] ELSE Previous(data)
    IN  /\ data.taken.total = Total(lasted[id])
        /\ times # {} => data.taken.max = Max(times) /\ data.taken.min = Min(times)
        /\ (\A th \in Threads : calling[th] = "none") /\ measure =>
              data.elapsed.total = latest.start

=============================================================================
