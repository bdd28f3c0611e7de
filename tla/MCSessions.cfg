CONSTANTS
    s1 = s1
    s2 = s2
    acc1 = acc1
    acc2 = acc2
    id1 = id1
    id2 = id2
    id3 = id3
    Ids = {id1, id2, id3}
    Requests = {req1, req2}
    req1 = req1
    req2 = req2
    Objects = {s1, s2}
    Accounts = {acc1, acc2}
    MaxSessions = 2
    t1 = t1
    t2 = t2
    head = head
    tail1 = tail1
    tail2 = tail2
    MaxInteractions = 1
    Window = 1
    Heads = {head}
    Tails = {tail1, tail2}
    Tasks = {t1, t2}
    None = None
SYMMETRY Symmetric
VIEW WithoutGarbage
SPECIFICATION Spec
INVARIANTS NothingSurvivesTheGate GrantIsCurrent TurnStaysCurrent
