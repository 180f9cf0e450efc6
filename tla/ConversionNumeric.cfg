SPECIFICATION FlowSpec
CONSTANTS
    Width = 4
    MaxDigits = 28
    Digits <- MCDigits
    Ticks <- MCTicks
    Second = 10000000
    Epoch = 300000000
    FloatDigits = 15
    HeaderBytes = 19
    CountBytes = 2
    LengthBytes = 4
    Layouts <- MCLayouts
    Packets = {1, 7, 1000}
    BatchRows = 2
    RowsPerInsert = 1
    Flows <- MCNumbers
INVARIANT
    NumbersArrive
CHECK_DEADLOCK FALSE
