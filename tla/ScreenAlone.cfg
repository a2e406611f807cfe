CONSTANTS
  Width = 3
  Height = 2
  Char <- MCChar
  Blank = " "
  NewLine = "nl"
  Strings <- MCNoLines
  LineMax = 3
  Banner <- MCBanner
  Notices <- MCNotices
  VgaTag <- MCVgaTag
SPECIFICATION SSpec
INVARIANTS
  TypeOK
  CursorShown
  LineShown
PROPERTIES
  BackspaceErases
  ImplementsGrid
