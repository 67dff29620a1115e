SPECIFICATION Spec
CONSTANTS
  Malformed = Malformed
  Null = Null
  n1 = n1
  n2 = n2
  n3 = n3
  n4 = n4
  n5 = n5
  n6 = n6
  StrLen <- MCStrLen
  Offered <- MCOffered
  Config <- MCConfig
  ActorIds <- MCActorIds
  Nonces <- LongNonces
  InvoiceIds <- LongInvoiceIds
  ThreadIds <- LongThreadIds
  CustomerIds <- LongCustomerIds
  Bodies <- LongBodies
  ClaimedLabels <- LongLabels
  Recipients <- LongRecipients
  ChannelIds <- LongChannels
CHECK_DEADLOCK FALSE
INVARIANT MailedOnce
