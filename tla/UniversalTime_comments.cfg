CONSTANTS
  Modulus = 64
  NsPerSecond = 4
  Denominators = {1, 3}
  Numerators = {1, 7}
  MaxNumerator = 20
  Receivers = {r1, r2, r3}
SPECIFICATION ClockSpec
\* The first that fails ends the check: each has to be tried alone.
INVARIANT LongTimesAreExact
INVARIANT NobodyMissed
PROPERTY ChangesAreTold
