SPECIFICATION PartsSpec
CONSTANTS
  MaxLength = 6
  NumTools = 2
  Width = 3
  MaxPieces = 2
  People = {"owner", "guest"}
  Questions = {"question"}
  Replies = {"answer"}
  PauseWait = 1
  RemoteStop = 2
  MaxClock = 12
INVARIANTS
  FilterIsExact
  StreamAndListAgree
  DocumentsOnce
  ListedStepsWereStreamed
  TokensReturn
  OnlyLineBreaksDiffer
  OnlyTokensTakeLonger
  NoStopGivenUp
  FeedbackIsOwn
CHECK_DEADLOCK FALSE
