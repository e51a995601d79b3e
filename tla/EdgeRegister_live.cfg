CONSTANTS
    Supernode = {a, b}
    NoMac = none
    Lists <- AnyList
    Ups <- AnyUp
    Attempts = 2
    Measures = 2
    MaxInFlight = 1
SPECIFICATION LiveSpec
PROPERTIES
     RegistersWithLive
