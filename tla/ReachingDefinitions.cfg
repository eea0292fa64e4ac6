\* Two locals, one of them the argument.
SPECIFICATION Spec
CONSTANTS
  Locals = {"x", "y"}
  Args <- MCArgs
  Bodies <- MCBodies
INVARIANT ReachingDefinitionsExact
CHECK_DEADLOCK FALSE
