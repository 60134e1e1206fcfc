SPECIFICATION RpcFairSpec
CONSTANTS
 d1 = d1
 c1 = c1
 k1 = k1
 k2 = k2
 NoConn = NoConn
 Devices = {d1}
 Conns = {c1}
 DongleOf <- MCDongleOf
 Callers = {k1, k2}
 SendCap = 1
 MaxCalls = 2
 MaxAnswers = 2
INVARIANTS AnswerIsOwn PendingExact
CHECK_DEADLOCK FALSE
PROPERTIES ReaderNotHeldUp CallReturns
