SPECIFICATION Spec
CONSTANTS
  a1 = a1
  a2 = a2
  buy = buy
  sell = sell
  d1 = d1
  Accounts = {a1, a2}
  Orders = {buy, sell}
  Ticket <- MCTicket
  Ticks <- MCTicks
  Capital = 250
  Charge = 3
  Deployments = {d1}
  Owner <- MCOwner
  Clients = {1, 2}
  MaxSubmissions = 2
INVARIANTS
  TypeOK
  BooksBalance
  FilledOnce
  StopClears
  CancelHolds
