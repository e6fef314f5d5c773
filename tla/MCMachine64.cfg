SPECIFICATION Spec
CONSTANTS
  MaxInput = 3
  MaxDisk = 3
  MaxSend = 2
PROPERTIES InputIsRead OutputIsPrinted
