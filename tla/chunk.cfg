\* Chunks of every kind one after the other, with stops, faults and failing calls.
SPECIFICATION Spec
CONSTANTS
  Chunks <- Handed
  Profiles <- Known
  Contacts <- Felt
  Window = 2
  None = None
INVARIANTS TypeOK GuardGivenBack GripOrder ClosesAccounted
PROPERTIES StopHoldsArm
