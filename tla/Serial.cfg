\* One writing thread, the reader, both handlers, and the port closed and opened.
SPECIFICATION SerialFairSpec
CONSTANTS
    Writers = {0}
    WriterPrio <- MCWriterPrio
    Lengths = {0, 1, 3}
    RingSize = 4
    NoChar = NoChar
    FifoLimit = 2
    Threshold = 3
    NulChars = {}
    Prompt = TRUE
    MaxSent = 6
    MaxArrived = 4

    
PROPERTIES
    AllIsSent
    LastCharIsRead
