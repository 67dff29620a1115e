SPECIFICATION Spec
CONSTANTS
  Malformed = Malformed
  Null = Null
  n1 = n1
  n2 = n2
  n3 = n3
  n4 = n4
  n5 = n5
  n6 = n6
  StrLen <- MCStrLen
  Offered <- MCOffered
  Config <- MCConfig
  ActorIds <- MCActorIds
  Nonces <- FiveNonces
  InvoiceIds <- MCInvoiceIds
  ThreadIds <- MCThreadIds
  CustomerIds <- MCCustomerIds
  Bodies <- LongBodies
  ClaimedLabels <- MCLabels
  Recipients <- MCRecipients
  ChannelIds <- MCChannels
CHECK_DEADLOCK FALSE
INVARIANTS
  TypeOK
  ContentAddressed
  NoLeak
  CustomerIsolation
  NonceAccounting
  LedgerIntact
  EffectsAudited
PROPERTY ImplementsAuthority
