SPECIFICATION Spec
CONSTANTS
  TL = TL
  PM = PM
  Messages = {"tl1", "pm1"}
  Home <- MCHome
  Main = Main
  Feat = Feat
  Files = {"doc"}
  CommitAllowed = {"doc"}
  Publishable = {"doc"}
  Tracked = {}
  Objectionable = {}
  MaxCommits = 2
  MaxTokens = 1
  None = None
CHECK_DEADLOCK FALSE
PROPERTIES CommitsKept PushesInspectedHead EditsKept
