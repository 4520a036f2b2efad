CONSTANTS
  Paths = {"p", "q"}
  Sub <- SmallSub
  RuleChoice <- SmallRules
  MaxSubs = 2
  MaxRules = 1
  MaxGrants = 1
SPECIFICATION Spec
INVARIANT DeniedToolNeverAsked
