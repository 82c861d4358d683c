SPECIFICATION Spec

CONSTANT
  MaxArgs = 3

INVARIANTS
  TypeOK
  ValuesAreCurrent

PROPERTIES
  RequiredChecked

CHECK_DEADLOCK FALSE
