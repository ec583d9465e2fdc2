SPECIFICATION WorkspaceSpec
CONSTANTS
  Blocks = {b1, b2}
  Items = {i1, i2}
  Editors = {x1, x2}
  MaxBlocks = 1
  MaxItems = 2
  Rows = {p1, p2, p3}
  Raters = {x1, x2}
  MaxRows = 2
  Pair = {x1, x2}
  MaxNews = 1
  Tabs = {x1, x2}
  Last = 2
  Users = {x1, x2}
  MaxSessions = 2
  People = {p1, p2, p3}
  Projects = {j1}
  Requests = {x1, x2}
  Clients = {x1, x2}
  MaxKeys = 2
  Expiring = {1}
  Cap = 1
  Visits = {x1, x2}
  Subjects = {p1}
  Emails = {i1, i2}
  MaxAccounts = 3
  MaxStarts = 2
  Pages = {x1, x2}
  Labels = {i1}
  MaxLeases = 2
  MaxSockets = 2
  MaxWaiting = 2
  Slots = {x1, x2}
  MaxIds = 2
  MaxOrders = 2
  MaxWire = 2
  Callers = {x1, x2}
  MaxVersion = 2
  CatchUp = 2
  Ttl = 2
  MaxTime = 4
  Senders = {x1, x2}
  MaxPictures = 3
  MaxNames = 1
  MaxChanges = 2
  Bells = {x1, x2}
  MaxNotes = 2
  MaxFetches = 2
  Phrases = {p1, p2, p3}
  Searchable = {p1, p2}
  NoPhrase = none
  MaxSearches = 2
  Colleagues = {p1, p2}
  MaxCalls = 2
  Days = {1, 2}
  MaxEvents = 1
  Margin = 5
  Retry = 1
  CallTime = 1
  TokenTtl = 9
  TokenLimit = 12
  LeaseTtl = 9
  LeaseLimit = 9
  MaxInstant = 12
  MaxGrants = 2
  MaxLeased = 3
  Desks = {p1, p2}
  Owning = p1
  Titles = {i1, i2}
  MaxEdits = 2
  MaxRumors = 1
CONSTRAINTS FewEvents FewNews FewMessages FewNotes FewSessions FewTokens FewAccounts FewIds FewRows FewCalls FewPatches
SYMMETRY Interchangeable
INVARIANTS
  StatusFollowsItems
  CompletionAnnounced
  FriendshipShown
  ReadWasShown
  ConnectionFollowsSession
  SignedOutStaysOut
  OneOwner
  TokensCapped
  IdentitiesOwned
  EditorHoldsLease
  ListFollowsItems
  DisownedBriefly
  AccountShown
  BellShowsRows
  SuggestionsAnswerField
  EventsSound
  AssigneesKnow
  NeverPastExpiry
  CardsFollowProject
PROPERTIES
  WrittenWithAuthority
  RevokedStopsWorking
  EditsKeepOthers
CHECK_DEADLOCK FALSE
