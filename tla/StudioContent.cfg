\* Two editors over small projects, two publications, one visitor.
SPECIFICATION MCSpec
CONSTANTS
  None = None
  Gone = Gone
  a1 = a1
  a2 = a2
  Items = {1, 2, 3}
  BlockIds = {b1, b2}
  Bodies <- MCBodies
  Children <- MCChildren
  Positions = {1, 2}
  Assets = {a1, a2}
  Texts = {"", "a", "b", "x"}
  Contacts = {"address", "web"}
  MaxVersion = 2
  MaxRevision = 2
  Editors = {e1, e2}
  Resolvable = {a1}
SYMMETRY Symmetric
INVARIANTS
  TypeOK
  CurrentVersionIsCurrentContent
  WarningMeansDeleted
  HomeLeadsWithNews
  ProgressMatchesMilestones
  KnowledgeFollowsQuestions
  AnswersComeFromWhatWasShown
PROPERTIES
  NothingOverwrittenUnseen
