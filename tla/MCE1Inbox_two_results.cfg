SPECIFICATION Spec
CONSTANTS
    Importer = {p1, p2}
    Slot = {"A"}
    Zip = {"a1", "a2"}
    SlotOf <- MCOneLaneSlotOf
    Malformed = {}
    Insufficient = {}
    Batches <- OneByOne
    MaxElsewhere = 0
INVARIANT OneResultPerAssignment
