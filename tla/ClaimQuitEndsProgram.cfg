SPECIFICATION Spec
CONSTANTS
  NbLcores = 3
  NbRings = 2
  RingRoom = 3
  Numbers <- MCNumbers
  ThreadsMod = 65536
  Absent = Absent
  Text = Text
PROPERTIES
  QuitEndsProgram
