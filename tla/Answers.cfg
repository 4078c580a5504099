CONSTANTS
  Corpora <- ImportCorpora
  Rounds = 2
  Texts <- AnswerTexts
  MAX_CITATIONS = 2
SPECIFICATION Spec
INVARIANTS
  TraceAddsUp
  BudgetsAreKept
  GraphIsTheImports
  RanksFollowImports
  SelectionReproduces
  CitationsAreTheTexts
  CallsAreUnderstood
