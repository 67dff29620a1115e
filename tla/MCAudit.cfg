SPECIFICATION AuditSpec
CONSTANTS
  Malformed = Malformed
  Null = Null
  n1 = n1
  n2 = n2
  n3 = n3
  MaxArchive = 3
  StrLen <- MCStrLen
  Offered <- AuditOffered
  Config <- MCConfig
  ActorIds = {"drafter"}
  Nonces <- AuditNonces
  InvoiceIds = {"inv_1", "inv_2"}
  ThreadIds = {"thread_1"}
  CustomerIds = {"cust_1"}
  Bodies = {}
  ClaimedLabels <- AuditLabels
  Recipients = {"billing@1"}
  ChannelIds = {"team_1"}
CHECK_DEADLOCK FALSE
INVARIANTS
  AcceptedIffSegment
  ReceiptTellsHistory
  WholeBetweenEnds
