SPECIFICATION Spec
CONSTANTS
  NoKey = NoKey
  NoModel = NoModel
  MaxVersion = 2
  AgentNames = {"a", "s"}
  TeamNames = {"s"}
  WorkflowNames = {"w"}
  KnowledgeNames = {"k"}
  Ghost = "nobody"
  MaxBuilds = 2
  MaxIds = 2
INVARIANTS
  TypeOK
  ModelsAsSpecified
  ToolsFollowConfig
  NoPartialOS
  ServesScoped
CHECK_DEADLOCK FALSE
