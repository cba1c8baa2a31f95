\* Two calls, with fairness.
SPECIFICATION Spec
CONSTANTS
  Calls = {c1, c2}
  Processes = {p1, p2}
  Bodies <- MCBodies
  MaxContentionAttempts = 2
  None = None
PROPERTIES
  EveryCallAnswered
