SPECIFICATION FairSpec
CONSTANTS
  Readers = {p1, p2}
  Nobody = Nobody
  Letters = {a, b}
  CR = CR
  Newline = Newline
  INPUT_BUF = 3
  UINT = 6
  MaxRead = 2
PROPERTIES IsLineInput LineRead
