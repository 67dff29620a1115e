SPECIFICATION Spec
CONSTANTS
  Malformed = Malformed
  Null = Null
  n1 = n1
  n2 = n2
  n3 = n3
  StrLen <- Bytes
  TextLen <- Bytes
  CodePoints <- Points
  Utf16Units <- Units
  Offered <- LengthOffered
  Config <- LengthBusiness
  ActorIds <- MCActorIds
  Nonces <- LengthNonces
  InvoiceIds = {"inv_1"}
  ThreadIds = {"thread_1"}
  CustomerIds = {"cust_1"}
  Bodies <- LengthBodies
  ClaimedLabels <- LengthLabels
  Recipients = {"billing@1"}
  ChannelIds = {"team_1"}
CHECK_DEADLOCK FALSE
INVARIANT PortsDecideAlike
