\* Two locals, one of them the argument; four blocks.
SPECIFICATION Spec
CONSTANTS
  Locals = {"x", "y"}
  Args <- MCArgs
  Bodies <- MCBodies
  MaxIterations = 40
INVARIANTS WaitingOrSettled ExactWithoutUnwinding
CHECK_DEADLOCK FALSE
