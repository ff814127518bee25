SPECIFICATION Spec
CONSTANTS
  NumThreads = 3
  MaxPolled = 1
  NbAttack = 1
  CounterMod = 2
INVARIANTS
  TypeOK
  NoUseAfterDelete
  PrintedIsComplete
PROPERTY QuitEndsProgram
