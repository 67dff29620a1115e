SPECIFICATION Spec
CONSTANTS
  Values <- MCValues
  Depth <- MCDepth
  Tags <- MCTags
  Characters <- MCCharacters
  Controls <- MCControls
  Hex <- MCHex
  Decimal <- MCDecimal
  KeysOf <- MCKeysOf
CHECK_DEADLOCK FALSE
INVARIANTS
  EncodedApart
  DomainsApart
  EncodesCanonically
