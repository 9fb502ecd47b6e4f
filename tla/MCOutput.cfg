SPECIFICATION Spec
CONSTANTS
  helper = helper
  Main = Main
  Nobody = Nobody
  N = 2
  Spawned <- OneHelper
  MaxRounds = 2
  MaxNotes = 1
INVARIANTS
  NotesUnbroken
  RoundsStayApart
  WorkersGrouped
  BodySetOff
CHECK_DEADLOCK FALSE
