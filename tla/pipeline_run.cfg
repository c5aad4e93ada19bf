SPECIFICATION Spec
CONSTANTS
  SourceRate = 3
  TargetRate = 2
  MaxSamples = 4
  Chunks = {1, 3}
  MaxChunks = 3
  MaxRetries = 2
  MaxImages = 1
  Texts <- MCTexts
  ShortTexts <- MCShortTexts
INVARIANTS
  TypeOK
  ReportedIsRecorded
  DriftBounded
  AnalysedIsWhatWasReported
  RepairQuotesLatest
  RequestsAccounted
  VerdictIsReadRight
PROPERTIES
  PipelineEnds
\* The user need not record, and a run that is over stays over.
CHECK_DEADLOCK FALSE
