SPECIFICATION PipelineSpec
CONSTANTS
  Uses <- SafeUses
  Names <- SomeNames
  Unavailable <- NoSysctl
  NumHosts = 2
  MaxRequests = 2
INVARIANTS
  TypeOK
  VerdictIsOfThisData
  AnswerIsOfThisRequest
  NoIssueMeansMeasured
