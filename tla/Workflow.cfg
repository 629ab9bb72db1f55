\* Four commands, one more than it takes to compose and run what was generated;
\* two admitted cases of the provider at most.
CONSTANTS
  Components <- TheComponents
  Operations <- TheOperations_Ping
  MaxCases = 2
  MaxSteps = 2
  MaxCommands = 4
  Replies <- TheReplies
  Adaptations <- TheAdaptations
  Packs <- ThePacks
SPECIFICATION Spec
INVARIANTS
  SuccessIsRunnable
  LineageWithoutOverwrite
  AnswersAreKept
PROPERTIES
  OutputsPreserved
\* No command is started after the last.
CHECK_DEADLOCK FALSE
