SPECIFICATION Spec
CONSTANTS
  Channels = {"a", "b"}
  Mappings = {"m1", "m2"}
  Clients = {"x"}
  Keys = {"k1", "k2"}
  NoKey = "no key"
  ProtocolNames = {"chat"}
  NoForce = "no force"
  Absent = absent
  Keep = keep
  InitialChannels <- TwoChannels
  InitialMappings <- TwoMappings
  ChannelBodies <- Bodies
  NewMappings <- NewRows
  MaxCalls = 4
  MappingBodies <- MapBodies
  Handlers = {h1}
  StorageMayFail = FALSE
INVARIANT ClearedKeyExcluded
