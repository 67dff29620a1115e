SPECIFICATION HostSpec
CONSTANTS
  Malformed = Malformed
  Null = Null
  n1 = n1
  n2 = n2
  n3 = n3
  w1 = w1
  w2 = w2
  StrLen <- MCStrLen
  TextLen <- MCStrLen
  Offered <- HostOffered
  Config <- HostBusiness
  Workers <- HostWorkers
  ActorIds <- HostActorIds
  Nonces <- HostNonces
  InvoiceIds = {"inv_1"}
  ThreadIds = {"thread_1"}
  CustomerIds = {"cust_1"}
  Bodies = {"dear customer"}
  ClaimedLabels <- HostLabels
  Recipients = {"billing@1"}
  ChannelIds = {}
CONSTRAINT OneForgery
SYMMETRY HostSymmetry
CHECK_DEADLOCK FALSE
INVARIANTS
  OneReceiptPerCertificate
  RefusedOnlyAsStale
PROPERTY ImplementsEngine
