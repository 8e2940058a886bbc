CONSTANTS
  Section = {none, default, sect}
  NoName = none
  Default = default
  o1 = o1
  upper = upper
  rem = rem
  open = open
  p1 = p1
  Option = {o1, upper, rem, open}
  RemLike = {rem}
  Open = {open}
  Lower <- LowerCase
  Plain = {p1}
  Empty = Empty
  Remark = Remark
  Assign = Assign
  Trailed = Trailed
  Bracket = Bracket
  Masked = Masked
  Closed = {Bracket}
  Other = o1
  Within = sect
  Null = Null
  Values <- SomeValues
  Files <- SomeFiles
  MaxEntries = 2
  MaxPieces = 2
SPECIFICATION Spec
INVARIANTS RoundTrip LookupsAgree
