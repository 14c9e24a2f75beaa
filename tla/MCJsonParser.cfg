\* Two arrays and three objects inside each other, arrays of up to two elements.
CONSTANTS
    MaxArrayNesting = 2
    MaxId = 7
    MaxIndex = 2
SPECIFICATION Spec
INVARIANTS TypeOK IdIsNesting IndexIsPlace EndsWithNesting IndexInBounds
