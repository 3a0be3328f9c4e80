CONSTANTS
    Len = 7
    Image <- MC_Image
    MemSize = 8
    BankSize = 4
    LoadChunk = 2
    Val = {0, 1, 2}
    Blank = 0
    MaxFaults = 2
    InitFailPoints = {"reset", "setters"}

SPECIFICATION Spec

INVARIANT TypeOK
INVARIANT LoadedImageIntact

 
