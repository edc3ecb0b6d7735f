CONSTANTS
  leaf = leaf
  inner = inner
  huge = huge
  Functions <- MCFunctions
  Size <- MCSize
  NumArgs <- MCNumArgs
  Length <- MCLength
  Values = {0, 1}
  Zero = 0
  STACK_SIZE = 4
  STACK_RESERVE_SIZE = 3
  MaxRuns = 2
SPECIFICATION Spec
INVARIANTS FramesNest
PROPERTIES ImplementsCalls
\* A script that has ended, or memory that was overwritten.
CHECK_DEADLOCK FALSE
