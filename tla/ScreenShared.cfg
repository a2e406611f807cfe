CONSTANTS
  Width = 3
  Height = 2
  Char <- MCChar
  Blank = " "
  NewLine = "nl"
  Strings <- MCSerialLines
  LineMax = 3
  Banner <- MCBanner
  Notices <- MCNoLines
  VgaTag <- MCVgaTag
SPECIFICATION SSpec
PROPERTY BackspaceErases
