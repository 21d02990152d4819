SPECIFICATION Spec
CONSTANTS
  LockEntries = 4
  StackEntries = 3
  FreeMapEntries = 3
  Addresses <- HeapAddresses
  MaxKeys = 7
INVARIANTS TypeOK   BlocksFindable LocksSuffice
CHECK_DEADLOCK FALSE
