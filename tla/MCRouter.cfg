SPECIFICATION LiveSpec
CONSTANTS
  loki = loki
  es = es
  Outputs = {loki, es}
  Configured = {loki, es}
  Removable = {es}
  Kind <- MCKind
  Batches <- MCBatches
  Retries = 2
  MaxFailures = 3
  Cooldown = 1
  InitialBackoff = 2
  MaxBackoff = 1
  NoOutput = NoOutput
  HighCardinality = {"request_id"}
  ContextKeys = {"context_before"}
  JobLabel <- MCJobLabel
INVARIANTS
  TypeOK
  NilMeansDelivered
  DuplicatesNeedFailures
PROPERTIES
  OpensOnlyOnStreak
  RouteEnds
  RecoveredOutputIsUsed
