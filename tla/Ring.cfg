\* A ring of four bytes: transfers of every length from none to one more than
\* fits, so that exact fits, wraps, partial, empty and refused calls happen.
CONSTANTS
    TotalNumBytes = 4
    Bytes = {0, 1}
    Zero = 0
    MaxLen = 5
SPECIFICATION Spec
INVARIANTS TypeOK PointersAgree AssertionsHold
PROPERTY ImplementsFifo
