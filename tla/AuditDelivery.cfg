\* Three publishers and a reader, every interleaving of their atomic operations.
SPECIFICATION AuditFairSpec
CONSTANTS
  Publishers = {p1, p2, p3}
  Readers = {r1}
  MaxTickets = 4
  MaxReads = 1
INVARIANTS
  LatestDeliveryDecides
  DegradedReportHonest
PROPERTIES
  TicketsSettle
CHECK_DEADLOCK FALSE
