SPECIFICATION MCSpec
CONSTANTS
    m1 = m1  m2 = m2  m3 = m3  Everyone = Everyone  s1 = s1  s2 = s2  s3 = s3  NoSn = NoSn
    c1 = c1  c2 = c2  c3 = c3  Off = Off
VIEW MCView
INVARIANTS
    ExactlyOnce 
PROPERTIES
      AssociationsInOrder
