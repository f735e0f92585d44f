SPECIFICATION WorkerSpec
CONSTANTS
  short1 = short1
  short2 = short2
  overdue = overdue
  item = item
  account = account
  stock = stock
  receivables = receivables
  Modules = {stock}
  Workers = {w1, w2}
  Events = {1, 2}
  Limit = 1
  Rows = {short1, short2}
  KeyOf <- MCKeyOf
  ModuleOf <- MCModuleOf
  MaxInterruptions = 1
INVARIANTS
  NotificationsAreFew
PROPERTIES
  OutboxIsKept
  SituationsAreNotified
CHECK_DEADLOCK FALSE
