SPECIFICATION Spec
CONSTANTS
    Franchises = {f1, f2}
    Seasons = {s1, s2}
    Episodes = {e1}
    Labels = {l1, l2}
    Requests = {r1}
    Top = Top
    Absent = Absent
SYMMETRY Interchangeable
INVARIANTS ServesWhole RefersToExisting AnswersExplained
PROPERTIES ImplementsCatalogue
