CONSTANTS
    Nil = Nil
    Panic = Panic
    KeySize <- MCKeySize
    Names <- MCNames
    Ids <- MCIds
    Props <- MCProps
    Subjects <- MCSubjects
    KsuidStrs <- MCKsuidStrs
    Strs <- MCStrs

SPECIFICATION Spec

INVARIANT StateKeyRoundTrip
