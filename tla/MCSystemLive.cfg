CONSTANTS
  Parts = {"sync", "keys", "owner", "archive", "xchain"}
  Stream = {s1}
  MaxEvents = 2
  MaxStarts = 1
  MaxSession = 2
  SyncBounds <- SyncLiveBounds
  d1 = d1
  d2 = d2
  d3 = d3
  k1 = k1
  k2 = k2
  Device = {d1, d2, d3}
  SessionId = {k1, k2}
  KeyBounds <- KeyLiveBounds
  Message = {m1}
  ChatBounds <- MCChatBounds
  Instance = {i1, i2}
  OwnerBounds <- OwnerLiveBounds
  l1 = l1
  l2 = l2
  r1 = r1
  r2 = r2
  r3 = r3
  Homed <- MCHomed
  Here = "here"
  SubBounds <- MCSubBounds
  RangeLimit = 1
  Width = 64
  Member = {n1}
  Url = {u1, u2}
  SettingBlock = {1, 2, 3}
  SettingValue = {v1, v2}
  ChainBounds <- MCChainBounds
  s1 = s1
  s2 = s2
  Archived = {s1, s2}
  Worker = {w1, w2}
  ReadSize = 2
  ArchiveBounds <- ArchiveLiveBounds
  Replica = {"n1", "n2", "n3", "n4"}
  AddCall = {"call1", "call2"}
  ReplicationBounds <- MCReplicationBounds
  Peer = {"n1", "n2", "n3", "n4"}
  Forward = {"f1", "f2"}
  PeerBounds <- MCPeerBounds
  Lookup = {"q1", "q2"}
  PositiveTTL = 2
  NegativeTTL = 1
  ManagerTTL = 2
  CallTime = 1
  CacheBounds <- MCCacheBounds
  Person = {p1, p2}
  Me = p1
  Name = {x, y}
  NoName = NoName
  MemberBounds <- MCMemberBounds
  Joined = {s1, s2}
  Priority <- MCPriority
  LoadLimit = 2
  LoadBounds <- MCLoadBounds
  Role = {"role1", "role2"}
  Verifier = {"v1", "v2", "v3", "v4"}
  Sample = 3
  JoinBounds <- JoinLiveBounds
SPECIFICATION LiveSpec
PROPERTIES
  Delivered
  EventuallyDecrypted
  DisplacedExits
  ArchivedInTheEnd
  JoinAnswered
CHECK_DEADLOCK FALSE
