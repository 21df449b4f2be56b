SPECIFICATION Spec
CONSTANTS
    a = a
    b = b
    Convs <- MCConvs
    MaxMessages <- MCMaxMessages
    w1 = w1
    w2 = w2
    Wakes <- MCWakes
    MaxCards <- MCMaxCards
    Recorders = 2
    None = None
    Answers <- MCAnswers
INVARIANTS
    TypeOK
    OnlyJudgedIsRead
    RecordedIsRead
    Accounted
CHECK_DEADLOCK FALSE
