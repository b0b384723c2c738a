SPECIFICATION Spec
CONSTANTS
  Units <- MCUnits
  Scopes <- MCScopes
  PageMessages = 2
  BatchMessages = 10
  Formats = {"wiki", "python"}
  TextBounds = {2, 3}
  MessageBounds = {3}
  WikiPages <- MCPages
  Contents <- MCContents
  FirstWikis <- MCFirstWikis
  MaxLineCitations = 2
  MaxCompleted = 1
  Nothing = Nothing
INVARIANTS
  NothingSkipped
  OnlyKeptCited
  LatestKeptCited
PROPERTIES
  ReviewsJudged
  ReviewsStand
