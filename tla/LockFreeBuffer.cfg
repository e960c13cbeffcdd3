CONSTANTS
  Values = {a, b}
  Blank = a
  Capacities <- MCCapacities
SPECIFICATION Spec
INVARIANTS SlotsDisjoint NoOvertaking
PROPERTY ImplementsFIFO
