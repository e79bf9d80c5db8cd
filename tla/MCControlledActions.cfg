CONSTANTS
    Requests = {r1, r2, r3}
    Operators = {olga, ana}
    Auditors = {ana, iris}
    Nobody = Nobody
    Actions = {a1, a2, a3}
    NoAction = NoAction
    Limit = 1
SPECIFICATION Spec
INVARIANTS TypeOK AuditTellsAll FourEyes ExcessIsBounded
PROPERTIES DecisionsStand ImplementsTrail
SYMMETRY Symmetry
