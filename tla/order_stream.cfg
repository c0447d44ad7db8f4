CONSTANTS
    o1 = o1
    Orders = {o1}
    Quantity = 3
SPECIFICATION Spec
INVARIANTS TypeOK NoDuplicateFills TradedConverges
CHECK_DEADLOCK FALSE
