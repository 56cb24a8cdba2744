SPECIFICATION Spec
CONSTANTS
    Ks = {2, 3, 4, 5}
    Totals = {0, 1, 2, 3, 4, 5, 6, 7, 8, 9, 10, 11, 12, 13}
INVARIANTS
    ResultIsValid
    FewestRounds
