CONSTANTS
  MaxSerial = 255
  MaxBitmap = 100
  MaxFile = 200
  Length <- MCLength
  Keys = {ca, k}
  CAs = {ca}
  Wild = wild
  KeyIds = {i}
  None = none
  Requests <- MCRequests
  MaxLines = 3
  ca = ca
  k = k
  wild = wild
  i = i
  none = none
SPECIFICATION Spec
INVARIANTS Canonical CheckExact LoadsBack
CHECK_DEADLOCK FALSE
