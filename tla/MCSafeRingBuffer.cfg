\* Four slots: both halves of insert and remove shift more than nothing, and
\* every head position wraps some window.
CONSTANTS
    Capacity = 4
    Value = {t0, a}
    Default = t0
SPECIFICATION Spec
INVARIANTS
    TypeOK
    UnusedSlotsReset
PROPERTY
    ImplementsDeque
