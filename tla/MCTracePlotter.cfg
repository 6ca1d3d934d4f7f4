SPECIFICATION Spec
CONSTANTS
  NoTags = NoTags
  NoNumber = NoNumber
  Settings <- MCSettings
  Thread = {t1, t2}
  Micro = 2
  Nil = Nil
INVARIANTS
  OneRootPerSpan
  SystemLatency
  ChartsComplete
  ErrorsShown
  EachRootOnce
  SavedIsWhole
PROPERTY
  SecondParseAgrees
