SPECIFICATION Spec
CONSTANTS
  Channels = {c1}
  Sites = {1}
  Addresses = {pub, priv}
  Blocked = {priv}
  AllowHttp = FALSE
  MAX_ATTEMPTS = 2
  BATCH_SIZE = 1
  MaxDeliveries = 2
  MaxSubs = 2
  MaxEdits = 1
  MaxEvents = 2
CHECK_DEADLOCK FALSE
INVARIANTS DeliveredOnce RetriesAreBounded OnlyAllowedAddresses
PROPERTIES DeliveriesSettle
