\* Bodies of four blocks with nested structs, and with an enum and a box.
SPECIFICATION Spec
CONSTANTS
  Locals = {"a", "n", "e", "b"}
  TypeOfLocal <- MCTypeOfLocal
  TypeOfElem <- MCTypeOfElem
  FieldsOfStruct <- MCFieldsOfStruct
  Downcasts = {"as V"}
  Bodies <- MCBodies
  Args = {"a", "e"}
  Leaves <- MCLeaves
INVARIANTS FixedPoint OnlyInitialisedIsClaimed AllInitialisedIsClaimed
CHECK_DEADLOCK FALSE
