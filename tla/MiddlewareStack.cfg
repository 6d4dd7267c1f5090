\* Families of stacks of at most three layers.
SPECIFICATION Spec
CONSTANTS
  Exchanges <- MCExchanges
  Answers <- MCAnswers
INVARIANTS
  RequestIdIsCarried
  SecretsStayMarked
  GatesDecide
  PanicIsContained
  BodyWithinLimit
  PathIsNormal
