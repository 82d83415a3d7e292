SPECIFICATION Spec
CONSTANTS
    a = a
    b = b
    c = c
    d = d
    e = e
    f = f
    k = k
    NoCall = NoCall
    Calls = {a, b, c, d, e, f}
    Keys = {k}
    Kind <- CallKind
    Key <- CallKey
    SeqOf <- CallSeq
    MaxBarriers = 1
CHECK_DEADLOCK FALSE
CONSTRAINT FewAtOnce
INVARIANTS TypeOK CancelOrder SupersededByNewer NothingLeaks NoStrandedWaiter
PROPERTIES AnswersAreCurrent
