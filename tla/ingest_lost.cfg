CONSTANTS
    l1 = l1
    l2 = l2
    b1 = b1
    b2 = b2
    m = m
    t1 = t1
    t2 = t2
    x = x
    y = y
    Requests = {l1, l2, b1, b2}
    Macs = {m}
    Times = {t1, t2}
    Values = {x, y}
    Invalid = Invalid
    Committed = Committed
    NoRow = NoRow
    MaxResends = 1
    Job <- MCJob
SPECIFICATION Spec
INVARIANT CreatedIsStored
