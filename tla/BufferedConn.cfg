SPECIFICATION BufferSpec
CONSTANTS
    MaxBytes = 4
    MaxRead = 2
    MaxChunk = 3
    Cap = 2
    NoChunk = NoChunk
INVARIANTS BufferIsSound
PROPERTIES ImplementsStream ReadAndFillEnd
CHECK_DEADLOCK FALSE
