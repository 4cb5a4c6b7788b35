\* Three profiles, targets on both sides of every workspace.
SPECIFICATION Spec
CONSTANTS
  Targets <- Reach
  Profiles <- Shipped
INVARIANT SpeedBounded
PROPERTIES StepsBounded AccelBounded BoxKept JointLimitsKept
