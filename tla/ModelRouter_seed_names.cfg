SPECIFICATION HSpec
CONSTANTS
  ChannelIds = {"a"}
  ChannelNames = {"Name A"}
  NoName = "no name"
  Keys = {"k"}
  NoKey = "no key"
  Mappings = {"m1", "m2"}
  Models = {"m"}
  NoModel = "no model"
  Requests = {r1}
  Catalogs <- SeedCatalogs
  TokenCounts = {0}
  UpstreamStatuses = {"ok", "client_error", "unauthorized", "rate_limited", "server_error"}
  ClientFormats = {"openai_chat"}
  UsageCap = 1
  AdminWrites = {}
  MaxEdits = 0
  MaxMonth = 0
  RateLimitCooldown = 1
  BaseCooldown = 1
PROPERTY FailingChannelRests
