SPECIFICATION Spec
CONSTANTS NumBytes = 5
          Pack = 2
          Cap = 4
          BoxSize = 2
INVARIANT OneRead
CHECK_DEADLOCK FALSE
