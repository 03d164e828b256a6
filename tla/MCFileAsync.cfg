\* A buffer of one block of two bytes, a file of up to four bytes.
SPECIFICATION Spec
CONSTANTS
    Values = {0, 1}
    MaxPos = 4
    BlockSize = 2
    Capacity = 2
INVARIANTS TypeOK WrittenInOrder FileIsComplete QueueWithinCapacity
PROPERTIES CallsReturn
