SPECIFICATION MCSpec
CONSTANTS
    c1 = c1  c2 = c2  m1 = m1  m2 = m2  filterer = filterer  Off = Off
VIEW MCView
INVARIANTS
    DecodedRight RuleRead  OptionsKept
PROPERTIES
      ComesThrough
