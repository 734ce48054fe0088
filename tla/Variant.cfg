SPECIFICATION Spec
CONSTANTS
  Labs <- MCLabs
  Pool <- MCPool
  PasswordPool <- MCPasswords
  OriginalNames <- MCOriginalNames
  Tree <- MCTree
INVARIANTS HandedIsWhole SourceRenamed Anonymous
CHECK_DEADLOCK FALSE
