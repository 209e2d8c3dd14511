SPECIFICATION Spec
CONSTANTS
  Server = {s1, s2}
  Client = {a, b}
INVARIANTS TypeOK InheritsOnlyFromOthers EndsWithProgram
 
CHECK_DEADLOCK FALSE
