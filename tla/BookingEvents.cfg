SPECIFICATION FairSpec
CONSTANTS
  Orders = {o1, o2, o3}
  Lifespan = lifespan
  None = None
  PoolSize = 2
  MaxFailures = 2
INVARIANTS TypeOK ProducerTracked ConfirmsCommitted OffsetNotAhead ConnectionsHeld
PROPERTIES EveryOrderAnswered EventsDelivered KafkaFailsNoOrder NoticesSpec
