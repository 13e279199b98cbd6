SPECIFICATION Spec
CONSTANTS
  Models = {"g", "m"}
  BuiltIn = {"g"}
  AliasNames = {"g", "x"}
  Targets = {"m"}
  MaxId = 2
  Clients = {"anthropic_messages", "openai_chat", "openai_responses"}
  Routes <- AnyChannel
  Reports <- AllReports
INVARIANTS RequestFits AnswerFits UsageBilled FailureRecorded DeletedStaysDeleted MapIsTable
PROPERTIES DeletesWhatWasPicked
