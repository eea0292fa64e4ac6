\* Shared references to one or to several fields of a struct.
SPECIFICATION Spec
CONSTANTS
  LocalType <- MCLocalType
  FieldType <- MCFieldType
  StructFields <- MCStructFields
  Variants <- MCVariants
  Temp = "t"
  MutableRefs = {"m"}
  Procedures <- SharedProcedures
INVARIANTS UnderApproximation WriteRestored
CHECK_DEADLOCK FALSE
