CONSTANTS
  Paths = {"p", "q"}
  Sub <- SmallSub
  RuleChoice <- SmallRules
  MaxSubs = 2
  MaxRules = 2
  MaxGrants = 1
SPECIFICATION Spec
INVARIANTS EveryPartAllowed BatchAllowedInOneMode
PROPERTIES GrantsScoped
