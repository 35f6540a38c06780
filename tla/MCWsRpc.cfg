SPECIFICATION Spec
CONSTANTS
  Requests = {r1, r2, r3}
  Others = {o1}
  Firers = {f1, f2}
  MaxEvents = 2
  None = None
SYMMETRY Symmetry
INVARIANTS AnsweredOnce EventsExact
PROPERTY NoEventAfterUnsubscribe
CHECK_DEADLOCK FALSE
