SPECIFICATION Spec
CONSTANTS
  num_banks = 3
  num_collector_units = 2
  MaxWrites = 1
INVARIANTS
  MaximalMatching
  BoundedWait
