SPECIFICATION Spec
CONSTANTS
  Malformed = Malformed
  Null = Null
  n1 = n1
  n2 = n2
  n3 = n3
  StrLen <- MCStrLen
  Offered <- MCOffered
  Config <- First
  Configs <- MCConfigs
  ActorIds <- TwoActors
  Nonces <- MCNonces
  InvoiceIds <- OneInvoice
  ThreadIds <- OneThread
  CustomerIds <- OneCustomer
  Bodies <- OneBody
  ClaimedLabels <- OneLabel
  Recipients <- TwoRecipients
  ChannelIds <- NoChannel
CHECK_DEADLOCK FALSE
INVARIANTS
  CertificateSpentOnce
  NoStaleRuling
  RuledInForce
PROPERTY AlteredNeverExecutes
