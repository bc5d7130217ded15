SPECIFICATION MCSpec
CONSTANTS
    Importer = {p1}
    Slot = {"A", "B"}
    Zip = {"a1", "a2", "b", "bad"}
    SlotOf <- MCSlotOf
    Malformed = {"bad"}
    Insufficient = {}
    Batches <- MCAloneBatches
    MaxElsewhere = 1
    Preparer = {q1, q2}
    Model = {"m1", "m2"}
    Order <- MCOrder
    Rivals = {1, 2}
INVARIANTS
    OneResultPerAssignment
    PreparedResumes
PROPERTIES
    ImportReturns
    PreparationRecovers
