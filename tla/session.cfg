SPECIFICATION Spec
CONSTANTS
  DeviceNames = {"first", "second"}
  FirstName = "first"
  MaxLogins = 2
  MaxRotations = 2
  MaxNodes = 6
  MaxChanges = 3
INVARIANTS
  StoredSessionLives
  
  FoldersNested
