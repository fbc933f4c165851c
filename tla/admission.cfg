SPECIFICATION AdmissionSpec
CONSTANTS
  Bundles <- EditedBundles
  Cards <- SubmittedCards
  Keys = {"k"}
  Conns = {c1, c2, c3}
  None = None
  MaxDeploys = 1
SYMMETRY Symmetry
INVARIANTS
  DataStaysInItsProviders
  KeyHasOneTask
  AnswersNameTheTask
  HumansDecide
