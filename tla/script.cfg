SPECIFICATION Spec
CONSTANTS
  Clients <- MCClients
  Steps = 2
  Chunks = 2
INVARIANTS
  TypeOK
  QuietUnlessLost
  OutputOfOwnScript
  TestsRunWhatArrived
PROPERTIES
  NoOlderModel
  ScriptsGotOver
\* The dialogue ends, in the tests by exit(0) too.
CHECK_DEADLOCK FALSE
