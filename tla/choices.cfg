SPECIFICATION Spec
CONSTANTS
  Tag <- MCTag
  Prefix <- MCPrefix
  Reads <- MCReads
  Listing <- MCListing
  Noise <- MCNoise
  Filters <- MCFilters
  NoFilter = NoFilter
  Pushes = 2
  Box = {"a", "b"}
  Service <- MCService
  NoService = "none"
  ImageOf <- MCImageOf
  Labelled = {"a"}
  Orders <- MCOrders
  Library <- MCLibrary
  Length <- MCLength
  Drydock = {"drydock"}
  Names = {"n", "m"}
  Slot = {s1, s2}
  Svc = {"a", "b", "c"}
  FileOf <- MCFileOf
  Files <- MCFiles
  Releases <- MCReleases
  Within <- MCWithin
  Garbled = "garbled"
  Alert <- MCAlert
  TypeOf <- MCTypeOf
  NameOf <- MCNameOf
  Masked = {"smtp_up"}
  AtAgent = {"agent_up"}
  Own <- MCOwn
  Group <- MCGroup
  Provider <- MCProvider
  Unset = Unset
  Cargo = {"c", "d"}
  OnAgent = {"d"}
  Lists <- MCLists
  Tile = {"k", "l"}
  HostOf <- MCHostOf
  MaxTasks = 2
  Size = 3
  Level = {10, 30}
  Part = {"x", "y"}
  MaxLogged = 5
  Card = {card}
  Request = {1, 2}
  MaxChange = 4
  RegistryName = {"hub", "quay", "custom"}
  Serves <- MCServes
  AuthOf <- MCAuthOf
  RegistryOrders <- MCRegistryOrders
  Domain = {"docker.io", "quay.io", "other"}
  NoDomain = "none"
  Tags = {1, 2, 3}
  PageSize = 1
  MediaOf <- MCMediaOf
  Shapes <- MCShapes
  Hosts <- MCHosts
  NoVariant = "none"
  NoTag = NoTag
  MaxChanges = 2
  Name = {"a"}
  TextValue <- MCTextValue
  Literal <- MCLiteral
  Method = {".charAt"}
INVARIANTS UpdateSettles DisplayIsDeclared    BufferKeepsLatest CardsAreLatest LookupIsTrue RendersAsMeant
SYMMETRY SlotSymmetry
CHECK_DEADLOCK FALSE
