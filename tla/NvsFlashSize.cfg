SPECIFICATION Spec
CONSTANTS
  Bytes = {FF, aa}
  FF = FF
  TORN = TORN
  PageSize = 2
  NvsSize = 3
  Quad = 2
INVARIANT StaysInArea
