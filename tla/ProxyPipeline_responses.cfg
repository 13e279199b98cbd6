SPECIFICATION Spec
CONSTANTS
  Models = {"g", "m"}
  BuiltIn = {"g"}
  AliasNames = {"g"}
  Targets = {"m"}
  MaxId = 1
  Clients = {"openai_chat"}
  Routes <- ResponsesOnly
  Reports <- AllReports
INVARIANTS UpstreamFormat
