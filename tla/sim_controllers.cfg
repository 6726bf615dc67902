SPECIFICATION FairSpec
CONSTANTS
  Scenarios <- MCScenarios
  Arms = {"panda_1", "panda_2"}
  Poses = {"home", "away"}
  Home = "home"
  Goals = {"g1", "g2"}
  Usable = {"g1", "g2"}
  Oriented = {"g1"}
  Period = 2
  FinalTime = 2
  MaxLoans = 3
INVARIANTS TypeOK PointersAreGood PursuesOnlyNew
PROPERTIES MotionsAreWhole MessagesKeepStill Broadcasts
