\* One producer that may be killed anywhere and started again once.
SPECIFICATION FairSpec
CONSTANTS
  MaxPayload = 2
  MaxAttempts = 4
  MaxWrites = 2
  MaxRestarts = 1
INVARIANTS TypeOK NoTornSnapshot
PROPERTIES SlotSpec NewestIsMerged
CHECK_DEADLOCK FALSE
