SPECIFICATION ControlPlaneSpec
CONSTANTS
  c1 = c1
  c2 = c2
  u1 = u1
  u2 = u2
  k1 = k1
  k2 = k2
  t1 = t1
  t2 = t2
  a1 = a1
  r1 = r1
  r2 = r2
  Owner = Owner
  NoUser = NoUser
  Nobody = NoUser
  Calls <- TwoRequests
  Users <- TwoUsers
  Offers <- SomeOffers
  Founders <- SomeFounders
  Visibilities = {"specific", "members", "owner_only"}
  Tokens = {t1, t2}
  Legacy = {t1}
  MaxSends = 2
  MaxRows = 2
  MaxCalls = 3
  Machines <- TwoRequests
  MaxAttempts = 2
  LockTime = 1
  TokenTime = 2
  Windows = {0, 1}
  MaxCredentials = 2
  MaxClock = 2
  MaxRequests = 3
  Reviews <- TwoRequests
  Persons <- Three
  Plans <- SomePlans
  Scopes <- SomeScopes
  MaxChanges = 2
  MaxAsked = 4
  Drafts <- TwoRequests
  Keys <- TwoKeys
  Places <- SomePlaces
  Likes <- SomeLikes
  Values <- SomeValues
  Priorities = {0}
  MaxRules = 1
  MaxEdits = 3
  Editors <- TwoRequests
  NoEditor = NoEditor
  Agents = {a1}
  Secrets = {"old", "new"}
  MaxDataKeys = 2
  MaxStored = 2
  ProviderSecret <- SplitSecret
  Marker <- Redaction
  Bytes = {0, 1, 2}
  MaxBytes = 8
  MaxChunk = 4
  Administrators <- TwoRequests
  AccessRoles <- TwoRoles
  RoleLists <- SomeLists
  Paths <- SomePaths
  Subjects = {"user"}
  Environments = {"env"}
  Unset = Unset
  MaxUpdates = 3
SYMMETRY Symmetry
CHECK_DEADLOCK FALSE
INVARIANTS
  ControlPlaneTypeOK
  GrantsFromOwner
  SharesOfMembers
  RevokedStaysOut
  AppliedIfApproved
  StepsAreCounted
  ReadsResolve
  FoldersHold
  ProxySecretIsCurrent
  RedactedHoweverCut
  DecisionsFollowUpdates
PROPERTIES
  JoinsWithinInviter
  LeaversLockedOut
  LockHolds
