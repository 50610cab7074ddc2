CONSTANTS
  Tabs = {t1, t2}
  Users = {u1, u2}
  NoUser = nobody
  Views = {home, chat}
  Home = home
  LoginView = login
  MaxTokens = 3
  Files = {"a", "b", "c"}
  Looks = {"a", "b"}
  LookOf <- MCLookOf
  MaxTasks = 2
  MaxPicked = 2
  Steps = 1
  MaxSockets = 3
  MaxClients = 3
  MaxTexts = 1
  MaxPicks = 2
  MaxChunks = 2
  Cards <- MCCards
  Numbers <- MCNumbers
  MaxRequests = 2
  Buttons = {ping, status}
  NoBody = {status}
  SetMock = setMock
  MaxCalls = 3
  Totals = {100, 180, 300, 359, 360, 401, 1000}
  Pointers <- MCPointers
  MaxOpened = 3
SPECIFICATION FairSpec
INVARIANTS TypeOK WhoIsShown InSync StoredIsLive OwnOutcome Cancellable
  StatusesAreTrue SeenOnce UploadStalls OneAtATime AnswerIsOwn
  PanesFit NothingLeaks
PROPERTIES SlipsAreSeen Settles ButtonsComeBack
\* Every part stops at its bounds, and a part may have nothing left to do.
CHECK_DEADLOCK FALSE
