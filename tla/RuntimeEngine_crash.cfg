\* Two calls of the command at a time, each of which may be killed anywhere.
SPECIFICATION Spec
SYMMETRY Symmetry
CONSTANTS
    Process = {p1, p2}
    MaxKills = 2
    NoProcess = NoProcess
    DispatchId = {d1, d2}
    MessageId = {m1}
INVARIANTS TypeOK AcknowledgedKept OneOutcome
PROPERTIES ReplyIsVisible RefinesAtomic
\* Every request may be settled and every message delivered, or a file torn.
CHECK_DEADLOCK FALSE
