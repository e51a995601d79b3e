SPECIFICATION MCSpec
CONSTANTS
    m1 = m1  s1 = s1  s2 = s2  SnSock = SnSock  Localhost = Localhost  NoSock = NoSock
    e1 = e1  e2 = e2  h1 = h1  h2 = h2  h4 = h4  Everyone = Everyone  Group = Group
    a1 = a1  a2 = a2  Off = Off
PROPERTIES
    StaleForgotten Settles 
