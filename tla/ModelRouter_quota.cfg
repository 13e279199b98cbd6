SPECIFICATION HSpec
CONSTANTS
  ChannelIds = {"a", "b"}
  ChannelNames = {"a", "b"}
  NoName = "no name"
  Keys = {"k"}
  NoKey = "no key"
  Mappings = {"m1", "m2"}
  Models = {"m"}
  NoModel = "no model"
  Requests = {r1, r2}
  Catalogs <- QuotaCatalogs
  TokenCounts = {1}
  UpstreamStatuses = {"ok", "rate_limited"}
  ClientFormats = {"openai_chat"}
  UsageCap = 3
  AdminWrites = {"snapshot", "key"}
  MaxEdits = 1
  MaxMonth = 1
  RateLimitCooldown = 1
  BaseCooldown = 1
SYMMETRY Symmetry
INVARIANTS QuotaCountsThisMonth QuotaOvershoot
PROPERTY SteadyCandidateWins
