\* The RP2040 with two cores: the interrupt takes the lock like a task does.
\* Three slots: a loop of insert or remove copies at least one element.
CONSTANTS
    Capacity = 3
    Value = {d0, a}
    Default = d0
    t1 = t1
    t2 = t2
    isr = isr
    NoOne = NoOne
    Task = {t1, t2}
    Isr = {isr}
    CoreOf <- TwoCores
    IsrTakesLock = TRUE
SPECIFICATION Spec
INVARIANTS
    TypeOK
    Exclusive
    NothingLost
PROPERTY
    ImplementsAtomicBuffer
