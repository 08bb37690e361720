SPECIFICATION Spec
CONSTANTS
  DeviceNames = {"first", "second"}
  FirstName = "first"
  MaxLogins = 1
  MaxRotations = 1
  MaxNodes = 6
  MaxChanges = 2
INVARIANT FoldersOfDevice
