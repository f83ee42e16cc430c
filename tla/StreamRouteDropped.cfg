\* send of a stream route after drop.
SPECIFICATION Spec
CONSTANTS
  Kinds = {"stream"}
  Buffer = 1
  MaxLoad = 2
PROPERTY TrueOnlyWhenSendable
CHECK_DEADLOCK FALSE
