CONSTANTS
    s1 = s1
    s2 = s2
    s3 = s3
    None = None
    Names = {s1, s2, s3}
    Inputs <- ThirdReadsFirst
    Stored <- ShortList
    MaxEdits = 4
    MaxFault = 1
SPECIFICATION Spec
INVARIANTS
    TypeOK
    OrderIsBest
    LinesSayAll
    
PROPERTIES
    StaysFinishing
CHECK_DEADLOCK FALSE
