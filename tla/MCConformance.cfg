SPECIFICATION Spec
CONSTANTS
  Malformed = Malformed
  Null = Null
  n1 = n1
  n2 = n2
  n3 = n3
  n4 = n4
  short = short
  StrLen <- PortStrLen
  TextLen <- PortStrLen
  Offered <- PortOffered
  Config <- PortBusiness
  ActorIds <- MCActorIds
  Nonces <- PortNonces
  InvoiceIds <- PortInvoiceIds
  ThreadIds <- PortThreadIds
  CustomerIds <- PortCustomerIds
  Bodies <- PortBodies
  ClaimedLabels <- ClaimedPortLabels
  Recipients <- PortRecipients
  ChannelIds <- PortChannels
CHECK_DEADLOCK FALSE
INVARIANTS
  HashesAgree
  DecisionsAgree
  ExecutionsAgree
