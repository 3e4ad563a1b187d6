SPECIFICATION Live
CONSTANTS
  Control = {a}
  Input = {i}
  Actives = {{a}, {i}}
  Cap = 2
  MaxSeq = 5
  MaxInputs = 3
  MaxEpoch = 2
CHECK_DEADLOCK FALSE
INVARIANTS ShowsNewest
PROPERTIES NoInputGap 
