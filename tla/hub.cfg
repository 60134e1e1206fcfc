SPECIFICATION FairSpec
CONSTANTS
 d1 = d1
 c1 = c1
 c2 = c2
 c3 = c3
 NoConn = NoConn
 Devices = {d1}
 Conns = {c1, c2, c3}
 DongleOf <- MCReconnects
INVARIANTS EntryIsNewest SupersededIsClosing
CHECK_DEADLOCK FALSE
PROPERTIES SupersededCloses ClosedDrains
