SPECIFICATION StoreSpec
CONSTANTS
  Malformed = Malformed
  Null = Null
  n1 = n1
  n2 = n2
  a = a
  b = b
  c = c
  Callers <- MCCallers
  ActorOf <- MCActorOf
  NonceOf <- MCNonceOf
  MaxCalls = 1
  StrLen <- MCStrLen
  Offered <- MCOffered
  Config <- MCConfig
  ActorIds <- MCActorIds
  Nonces <- MCNonces
  InvoiceIds <- MCInvoiceIds
  ThreadIds <- MCThreadIds
  CustomerIds <- MCCustomerIds
  Bodies <- MCBodies
  ClaimedLabels <- MCLabels
  Recipients <- MCRecipients
  ChannelIds <- MCChannels
CHECK_DEADLOCK FALSE
INVARIANTS
  StoreTypeOK
  OneWinner
  ExecutionAgrees
  NonceOnce
PROPERTIES
  ConflictIsHonest
  Serialised
