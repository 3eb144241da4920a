CONSTANTS
  c1 = c1
  c2 = c2
  c3 = c3
  Chan <- MCChan
  InitialSize = 1
  MaxSize = 4
SYMMETRY Symmetry
SPECIFICATION Spec
INVARIANTS IndexAgrees CtlNeverFails
