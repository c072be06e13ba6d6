\* Limits small enough for messages on both sides of them.
SPECIFICATION Spec
CONSTANTS
  Inputs <- SomeInputs
  MaxReply = 11
  MaxLine = 9
  MaxReplies = 2
INVARIANTS MovesItsMessage FailsForCause HoldsABoundedPart
