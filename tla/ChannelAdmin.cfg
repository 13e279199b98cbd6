SPECIFICATION Spec
CONSTANTS
  Channels = {"a", "b"}
  Mappings = {"m1", "m2"}
  Clients = {"x"}
  Keys = {"k1", "k2"}
  NoKey = "no key"
  ProtocolNames = {"chat"}
  NoForce = "no force"
  Absent = absent
  Keep = keep
  InitialChannels <- TwoChannels
  InitialMappings <- TwoMappings
  ChannelBodies <- OneBody
  NewMappings <- NewRows
  MaxCalls = 3
  MappingBodies <- MapBodies
  Handlers = {h1, h2}
  StorageMayFail = TRUE
INVARIANTS TypeOK UntouchedChannelServed SnapshotCurrent NewKeyTakesEffect
