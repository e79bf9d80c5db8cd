CONSTANTS
    Ingesters = {i1}
    Sources = {s1}
    Contents = {cA, cB}
    Readers = {olga}
    olga = olga
    NoDocument = NoDocument
    Owner <- MCOwner
INIT KnowledgeInit
NEXT KnowledgeNext
PROPERTY EditIsShown
