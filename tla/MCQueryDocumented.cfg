SPECIFICATION Spec
CONSTANTS
  BatchSize = 2
  Databases <- AllDatabases
  Queries <- Disputed
INVARIANT AnswerCorrect
