SPECIFICATION MCSpec
CONSTANTS
    m1 = m1  m2 = m2  i1 = i1  i2 = i2  i3 = i3  i4 = i4  Off = Off
INVARIANTS
    ConnectionsConsistent 
PROPERTIES
    FoundByKey  
