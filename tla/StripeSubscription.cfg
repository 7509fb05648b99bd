SPECIFICATION FairSpec
CONSTANTS
  Routes = {r1}
  None = None
  MaxVersion = 2
  MaxTime = 2
  MaxInvoices = 1
  MaxRefunds = 1
  MaxFailures = 1
  MaxCrashes = 1
INVARIANTS LocalFollowsStripe RefundEndsBilling
PROPERTIES RefundIsFinal RefundsEnd
CHECK_DEADLOCK FALSE
