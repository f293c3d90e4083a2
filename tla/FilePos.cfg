SPECIFICATION Spec
CONSTANTS
    SecSize = 3
    Offset = 6
    FileSize = 8
    ImageSize = 30
    Whences = {"SET", "END"}
    EndOffsets <- ToTheEnd
    ReadsWithin = TRUE
    KindsMatch = TRUE
INVARIANTS StaysInFile
PROPERTIES VirtualSpec
