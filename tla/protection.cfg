SPECIFICATION FairSpec
CONSTANTS
  Submitted <- MCSubmitted
  Policies <- MCPolicies
  Prices <- MCPrices
INVARIANTS TypeOK SizedToTheLimit StopLossIsBounded ProtectedUpToTheUnseen
PROPERTY UncoveredIsReported
