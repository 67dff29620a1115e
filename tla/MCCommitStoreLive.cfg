SPECIFICATION FairStoreSpec
CONSTANTS
  Malformed = Malformed
  Null = Null
  n1 = n1
  n2 = n2
  a = a
  b = b
  c = c
  Callers <- TwoCallers
  ActorOf <- TwoActorOf
  NonceOf <- TwoNonceOf
  MaxCalls = 2
  StrLen <- MCStrLen
  Offered <- MCOffered
  Config <- MCConfig
  ActorIds <- MCActorIds
  Nonces <- MCNonces
  InvoiceIds <- MCInvoiceIds
  ThreadIds <- MCThreadIds
  CustomerIds <- MCCustomerIds
  Bodies <- MCBodies
  ClaimedLabels <- MCLabels
  Recipients <- MCRecipients
  ChannelIds <- MCChannels
CHECK_DEADLOCK FALSE
INVARIANT NonceOnce
PROPERTIES
  EveryCallReturns
  RetriesSettle
