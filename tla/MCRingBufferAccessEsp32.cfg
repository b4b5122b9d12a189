\* The dual-core ESP32: the interrupt masks the interrupts of its own core and
\* takes no lock.
CONSTANTS
    Capacity = 2
    Value = {d0, a}
    Default = d0
    t1 = t1
    t2 = t2
    isr = isr
    NoOne = NoOne
    Task = {t1, t2}
    Isr = {isr}
    CoreOf <- TwoCores
    IsrTakesLock = FALSE
SPECIFICATION Spec
INVARIANT
    NothingLost
