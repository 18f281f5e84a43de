SPECIFICATION CalmFairSpec
CONSTANTS NumBytes = 5
          Pack = 2
          Cap = 4
          BoxSize = 2
INVARIANTS TypeOK BytesKept Listening WholeLine
PROPERTY EveryLineRead
CHECK_DEADLOCK FALSE
