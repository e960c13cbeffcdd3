CONSTANT MaxOps = 4
SPECIFICATION Spec
INVARIANT ReadsSeeQueuedWrites
