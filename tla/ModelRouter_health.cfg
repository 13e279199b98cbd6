SPECIFICATION HFairSpec
CONSTANTS
  ChannelIds = {"a", "b"}
  ChannelNames = {"a", "b"}
  NoName = "no name"
  Keys = {"k"}
  NoKey = "no key"
  Mappings = {"m1", "m2"}
  Models = {"m"}
  NoModel = "no model"
  Requests = {r1, r2}
  Catalogs <- MeteredCatalogs
  TokenCounts = {0}
  UpstreamStatuses = {"ok", "client_error", "rate_limited", "server_error"}
  ClientFormats = {"openai_chat"}
  UsageCap = 1
  AdminWrites = {"health"}
  MaxEdits = 1
  MaxMonth = 0
  RateLimitCooldown = 1
  BaseCooldown = 1
INVARIANT TypeOK
PROPERTIES FailingChannelRests ChannelRecovers
