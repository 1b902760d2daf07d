\* One input of at most two tokens is enough for a comment that ends with its file.
CONSTANTS
  MaxFiles = 1
  MaxTokens = 2
  FirstAlloc = 1
  WarnedSize = 3
  Integral = {i1}
  Fractional = {x}
SPECIFICATION FairSpec
PROPERTIES FitterEnds
