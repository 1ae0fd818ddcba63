SPECIFICATION Spec
CONSTANTS
  Clients = {c1, c2}
  Requests <- MonthRequests
  KeyRequired = TRUE
  AskedSizes <- None
  DefaultPageSize = 2
  MaxPageSize = 3
  Width = 4
  MonthLength = 2
  MaxClock = 4
  MaxTenant = 3
  MaxEvents = 3
INVARIANT InvoiceReconciles
