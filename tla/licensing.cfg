SPECIFICATION Spec
CONSTANTS
  order = order
  m1 = m1 m2 = m2 m3 = m3 m4 = m4
  r1 = r1 r2 = r2 d1 = d1 d2 = d2
  NoKey = NoKey NoMachine = NoMachine
  Orders <- MCOrders
  Machines <- MCMachines
  Requests <- MCRequests
  Deliveries <- MCDeliveries
  MaxFaults = 1
SYMMETRY Alike
INVARIANTS ToldValidIsActivated LimitWhenAlone OverdraftBounded EmailedKeyIsStored
