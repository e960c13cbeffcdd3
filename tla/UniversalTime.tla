--------------------------- MODULE UniversalTime ---------------------------
(***************************************************************************)
(* UniversalTime (UniversalTime.h): a clock time_offset + 1e9 *            *)
(* time_numerator / time_denominator in 64-bit nanoseconds, cached in      *)
(* time_current, and the list of receivers that UpdateTime() calls one     *)
(* after the other.  A receiver may change that list while it is called.   *)
(*                                                                         *)
(* `exact' is the offset as the operations define it, in nanoseconds       *)
(* without a bound: it never takes over what the clock has computed.       *)
(*                                                                         *)
(* The widths are scaled down: Modulus stands for 2^64 and NsPerSecond for *)
(* 1e9.                                                                    *)
(***************************************************************************)
EXTENDS Integers, Sequences, SequencesExt

CONSTANTS Modulus, NsPerSecond,
          Denominators,
          Numerators,     \* the arguments of Set() and Add()
          MaxNumerator,   \* bound on time_numerator
          Receivers

ASSUME WidthAssumption == Modulus \in Nat \ {0} /\ NsPerSecond \in Nat \ {0}
ASSUME ArgumentAssumption ==
  /\ Denominators \subseteq Nat \ {0} /\ 1 \in Denominators
  /\ Numerators \subseteq Nat
  /\ MaxNumerator \in Nat

VARIABLES
  time_current, time_offset, time_numerator, time_denominator,
  updatelist,
  next,     \* index of the receiver UpdateTime() calls next, 0 outside it
  due,      \* receivers on the list since the update began, and not called yet
  missed,   \* receivers that were due when the last update ended
  slid,     \* receivers that slid into the place of one that is being called
  exact,
  stale,    \* Reset() has been called, and no update since
  astray    \* a change of rate has saved a cached time that was not the time

clock == <<time_current, time_offset, time_numerator, time_denominator>>
notices == <<updatelist, next, due, missed, slid>>
truth == <<exact, stale, astray>>
clockVars == <<clock, notices, truth>>

TimeWidth == 0 .. Modulus - 1

ClockTypeOK ==
  /\ time_current \in TimeWidth /\ time_offset \in TimeWidth
  /\ time_numerator \in 0 .. MaxNumerator
  /\ time_denominator \in Denominators
  /\ updatelist \in Seq(Receivers)
  /\ next \in 0 .. Len(updatelist)
  /\ due \subseteq Receivers /\ missed \subseteq Receivers /\ slid \subseteq Receivers
  /\ exact \in Nat
  /\ stale \in BOOLEAN /\ astray \in BOOLEAN

\* UniversalTime(), at the rate of one.  UniversalTime(den) makes the state that
\* SetDenominator(den) leads to from here.
ClockInit ==
  /\ time_current = 0 /\ time_offset = 0 /\ time_numerator = 0
  /\ time_denominator = 1
  /\ updatelist = <<>>
  /\ next = 0 /\ due = {} /\ missed = {} /\ slid = {}
  /\ exact = 0 /\ stale = FALSE /\ astray = FALSE

-----------------------------------------------------------------------------
(* UpdateTime().                                                           *)

\* Mutation: divides before it multiplies.
CalcEarlyDivision(num, den) == (NsPerSecond * (num \div den)) % Modulus

\* The product wraps before it is divided.
Calc(num, den) == ((NsPerSecond * num) % Modulus) \div den

ProductFits(num) == NsPerSecond * num < Modulus

ExactTime(off, num, den) == off + (NsPerSecond * num) \div den

\* Bound: the exact time stays below 2^64 nanoseconds.
InRange(num, den) ==
  /\ num <= MaxNumerator
  /\ ExactTime(exact', num, den) < Modulus

\* The new time, and the start of the calls.
UpdateTime(off, num, den) ==
  /\ InRange(num, den)
  /\ time_offset' = off /\ time_numerator' = num /\ time_denominator' = den
  /\ time_current' = (off + Calc(num, den)) % Modulus
  /\ stale' = FALSE
  /\ next' = IF updatelist = <<>> THEN 0 ELSE 1
  /\ due' = ToSet(updatelist) /\ missed' = {} /\ slid' = {}
  /\ UNCHANGED updatelist

Added(list, r) == IF Contains(list, r) THEN list ELSE Append(list, r)

\* Mutation: the last receiver is moved into the place that becomes free.
WithoutReceiverSwapped(list, r) ==
  IF Contains(list, r) THEN Front([list EXCEPT ![SelectInSeq(list, LAMBDA x : x = r)] = Last(list)]) ELSE list

WithoutReceiver(list, r) == RemoveFirst(list, r)

\* TimebaseUpdated() of the receiver at `next' leaves the list alone, adds a
\* receiver, or removes one: any one, itself included.
Callback ==
  \/ UNCHANGED updatelist
  \/ \E r \in Receivers : updatelist' = Added(updatelist, r) \/ updatelist' = WithoutReceiver(updatelist, r)

\* The loop goes on by the index, whoever has taken the place of the receiver
\* that was called.
Slides == IF next <= Len(updatelist') THEN {updatelist'[next]} \ {updatelist[next]} ELSE {}

\* Mutation: the last receiver is not called.
NotifyStopsEarly ==
  /\ next # 0
  /\ Callback
  /\ slid' = slid \union Slides
  /\ LET left == (due \ {updatelist[next]}) \intersect ToSet(updatelist')
     IN  IF next + 1 < Len(updatelist')
           THEN next' = next + 1 /\ due' = left /\ UNCHANGED missed
           ELSE next' = 0 /\ due' = {} /\ missed' = left
  /\ UNCHANGED <<clock, truth>>

\* One round of the loop; its bound is the size the list has by then.
Notify ==
  /\ next # 0
  /\ Callback
  /\ slid' = slid \union Slides
  /\ LET left == (due \ {updatelist[next]}) \intersect ToSet(updatelist')
     IN  IF next < Len(updatelist')
           THEN next' = next + 1 /\ due' = left /\ UNCHANGED missed
           ELSE next' = 0 /\ due' = {} /\ missed' = left
  /\ UNCHANGED <<clock, truth>>

-----------------------------------------------------------------------------
(* Operations.  None is called from inside TimebaseUpdated().              *)

AddUpdateReceiver(r) ==
  /\ next = 0
  /\ updatelist' = Added(updatelist, r)
  /\ UNCHANGED <<clock, next, due, missed, slid, truth>>

RemoveUpdateReceiver(r) ==
  /\ next = 0
  /\ updatelist' = WithoutReceiver(updatelist, r)
  /\ UNCHANGED <<clock, next, due, missed, slid, truth>>

\* Set(num) and operator = (num).
Set(num) ==
  /\ next = 0
  /\ UNCHANGED <<exact, astray>>
  /\ UpdateTime(time_offset, num, time_denominator)

\* Add(inc) and operator += (inc).
Add(inc) ==
  /\ next = 0
  /\ UNCHANGED <<exact, astray>>
  /\ UpdateTime(time_offset, time_numerator + inc, time_denominator)

\* AddNanoSeconds(ns), and operator += (obj) with ns = obj.GetTime().
AddNanoSeconds(ns) ==
  /\ next = 0
  /\ exact' = exact + ns
  /\ UNCHANGED astray
  /\ UpdateTime((time_offset + ns) % Modulus, time_numerator, time_denominator)

\* What can put the cached time wrong.
Doubtful == stale \/ astray \/ ~ProductFits(time_numerator)

\* Mutation: keeps the numerator.
SetDenominatorKeepsNumerator(den) ==
  /\ next = 0
  /\ den # time_denominator
  /\ exact' = ExactTime(exact, time_numerator, time_denominator)
  /\ astray' = Doubtful
  /\ UpdateTime(time_current, time_numerator, den)

\* Mutation: saves the offset in place of the time.
SetDenominatorKeepsOffset(den) ==
  /\ next = 0
  /\ den # time_denominator
  /\ exact' = ExactTime(exact, time_numerator, time_denominator)
  /\ astray' = Doubtful
  /\ UpdateTime(time_offset, 0, den)

\* The offset becomes the cached time, right or wrong; by the definition of the
\* clock it should become the time reached.
SetDenominator(den) ==
  /\ next = 0
  /\ den # time_denominator
  /\ exact' = ExactTime(exact, time_numerator, time_denominator)
  /\ astray' = Doubtful
  /\ UpdateTime(time_current, 0, den)

\* Reset() does not call UpdateTime().
Reset ==
  /\ next = 0
  /\ time_offset' = 0 /\ time_numerator' = 0
  /\ exact' = 0 /\ stale' = TRUE /\ astray' = FALSE
  /\ UNCHANGED <<time_current, time_denominator, notices>>

\* operator = (obj) of an object that has counted num at rate den.  It does not
\* call UpdateTime() either: the time changes and no receiver is told.
CopyOf(num, den) ==
  /\ next = 0
  /\ exact' = 0 /\ stale' = FALSE /\ astray' = FALSE
  /\ InRange(num, den)
  /\ time_offset' = 0 /\ time_numerator' = num /\ time_denominator' = den
  /\ time_current' = Calc(num, den)
  /\ UNCHANGED notices

ReceiverCalls == \E r \in Receivers : AddUpdateReceiver(r) \/ RemoveUpdateReceiver(r)

ClockNext ==
  \/ Notify
  \/ ReceiverCalls
  \/ \E num \in Numerators : Set(num) \/ Add(num) \/ AddNanoSeconds(num)
  \/ \E den \in Denominators : SetDenominator(den)
  \/ Reset
  \/ \E num \in Numerators, den \in Denominators : CopyOf(num, den)

ClockSpec == ClockInit /\ [][ClockNext]_clockVars

-----------------------------------------------------------------------------
(* Safety.                                                                 *)

(* The cached time is the one that the counts, offsets and rates since the *)
(* last reset or assignment amount to, but for the three ways in which the *)
(* code leaves the definition: between Reset() and the next update, while  *)
(* the product with the numerator wraps, and once a rate change has saved  *)
(* the time in one of these states as the offset.                          *)
CachedTimeIsExact ==
  ~Doubtful => time_current = ExactTime(exact, time_numerator, time_denominator)

(* A change of rate goes on from the time reached: the clock does not jump.*)
RateChangeKeepsTime ==
  [][\A den \in Denominators : SetDenominator(den) => time_current' = time_current]_clockVars

(* Every receiver that is on the list when an update begins, and stays on  *)
(* it, is told, whatever receivers the others add and remove during the    *)
(* calls, except one that slides into a place already called when a        *)
(* receiver at or before it is removed.                                    *)
OnlySlidAreMissed == missed \subseteq slid

-----------------------------------------------------------------------------
(* What the comments say.                                                  *)

(* "time(ns) = offset(ns) + 1e9 * numerator / denominator [...] the object *)
(* can handle more that 500 years worth of time" (UniversalTime.h:32-34),  *)
(* "Reset time to zero" (:100).                                            *)
DocumentedTime == time_current = ExactTime(exact, time_numerator, time_denominator)

(* The same without the states that Reset() leads to: what is left are the *)
(* products that wrap, long before 500 years.                              *)
LongTimesAreExact == ~stale /\ ~astray => DocumentedTime

(* "Interface class for notifcation of timebase updates [...] Timebase had *)
(* changed" (UniversalTime.h:12,18): every receiver on the list is told of *)
(* every update ...                                                        *)
NobodyMissed == missed = {}

(* ... and every change of the time is one.                                *)
ChangesAreTold == [][time_current' # time_current /\ updatelist # <<>> => next' # 0]_clockVars

=============================================================================
