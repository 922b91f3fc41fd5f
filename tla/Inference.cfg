CONSTANTS
  MaxFailures = 2
  Cooldown = 2
  Settings <- MCSettings
  Clients = {"ollama", "openai_compat", "llama_cpp"}
  Workers = {w1, w2}
  NoWorker = NoWorker
SPECIFICATION InferenceFairSpec
INVARIANTS
  SourceNamesDecider
  CallHasOneOwner
  ModelsBounded
PROPERTIES
  PrimaryRestsAfterFailures
  DecisionIsMade
  PrimaryIsRetried
