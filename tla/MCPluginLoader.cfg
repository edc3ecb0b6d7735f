\* Two plugins, one written twice and one once after they were found.
CONSTANTS
  NumPlugins = 2
  MaxWrites <- MCWrites
SPECIFICATION FairSpec
INVARIANTS UpdateIsPursued
PROPERTIES CallsInOrder FileIsLoaded
\* The loader that was stopped has stopped.
CHECK_DEADLOCK FALSE
