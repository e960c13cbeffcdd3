CONSTANTS
  Modulus = 64
  NsPerSecond = 4
  Denominators = {1, 3}
  Numerators = {1, 7}
  MaxNumerator = 20
  Receivers = {r1, r2, r3}
SPECIFICATION ClockSpec
INVARIANT DocumentedTime
