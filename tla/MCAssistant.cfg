CONSTANTS
    Ingesters = {i1, i2}
    Sources = {s1}
    Contents = {cA, cB}
    Readers = {olga, ann}
    olga = olga
    NoDocument = NoDocument
    Owner <- MCOwner
    Askers = {ann}
    Threads = {t1, t2}
    Questions = {q1}
    Lexical <- MCFound
    Semantic <- MCFound
    Nobody = Nobody
    NoQuestion = NoQuestion
    RateLimit = 1
    TokenBudget = 1
    Cost = 1
SPECIFICATION Spec
INVARIANTS TypeOK VersionsInOrder CitationsWereReadable SpendingIsBounded
PROPERTY ImplementsHistory
CONSTRAINT TwoAtOnce
SYMMETRY Symmetry
