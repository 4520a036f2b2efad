CONSTANTS
  MaxCalls = 4
  PARALLEL_BOUND = 2
  ToolOutcomes = {"ok"}
SPECIFICATION FairSpec
INVARIANTS AnsweredOnce EffectOrder AuthorizedWhereItRuns
PROPERTIES ContractSpec BatchEnds
