SPECIFICATION Spec
CONSTANTS
  BatchSize = 2
  Databases <- AllDatabases
  Queries <- MostQueries
INVARIANTS TypeOK AnswerCorrect NoPullAfterEnd
PROPERTIES QueryEnds
