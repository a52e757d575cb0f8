SPECIFICATION Spec
CONSTANTS
  Columns = {phone, pin}
  Texts = {empty, digits, a, b}
  Empty = empty
  Decodable = {empty, digits}
  Savers = {r1}
PROPERTIES UnchangedStaysSealed
CHECK_DEADLOCK FALSE
