\* Moves of structs and enums, and mutable references, around a branch.
SPECIFICATION Spec
CONSTANTS
  LocalType <- MCLocalType
  FieldType <- MCFieldType
  StructFields <- MCStructFields
  Variants <- MCVariants
  Temp = "t"
  MutableRefs = {"m"}
  Procedures <- OwnedProcedures
INVARIANTS NoTranslationError EveryStatementVerifies InitialisedIsAvailable MovableIsObtainable JoinIsSymmetric
CHECK_DEADLOCK FALSE
