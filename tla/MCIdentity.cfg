CONSTANTS
    c1 = c1
    c2 = c2
    p1 = p1
    a1 = a1
    a2 = a2
    a3 = a3
    ling = ling
    yan = yan
    Clients = {c1, c2}
    Platforms = {p1}
    Accounts = {a1, a2, a3}
    Persons = {ling, yan}
    Unset = Unset
SYMMETRY Symmetric
SPECIFICATION IdentitySpec
INVARIANTS BindingIsPersisted OptOutRevokes
