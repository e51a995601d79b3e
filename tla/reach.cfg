SPECIFICATION MCSpec
CONSTANTS
    a = a  NoSn = NoSn  a1 = a1  a2 = a2  n1 = n1  n2 = n2  Fail = Fail  Off = Off
INVARIANTS
    NoMissedChange
PROPERTIES
    Registers 
