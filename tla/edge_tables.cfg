SPECIFICATION MCSpec
CONSTANTS
    s1 = s1  s2 = s2  m1 = m1  m2 = m2  SnSock = SnSock  Localhost = Localhost  NoSock = NoSock
    e1 = e1  e2 = e2  e3 = e3  h1 = h1  h2 = h2  h3 = h3  h4 = h4  Everyone = Everyone  Group = Group
    Off = Off
    i1 = i1  i2 = i2  i3 = i3  own = own  Broadcast = Broadcast  NoIp = NoIp
CONSTRAINT FewPackets
SYMMETRY Symmetric
VIEW MCView
INVARIANTS
    PeersConsistent BroughtThere WaitsInTime
PROPERTIES
    StampsOrdered SentToLatest
