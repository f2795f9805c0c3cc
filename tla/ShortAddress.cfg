SPECIFICATION Spec
CONSTANTS
  off = off
  on = on
  one = one
  two = two
  ChipPages = 2
  BootPorts = {1}
  Serial = {1}
  NetPorts = {9}
  PortValues <- TwoValues
  Chars <- TwoChars
  Addresses <- Typed
  Names <- OneName
  Default <- Fresh
PROPERTY AddressTakesEffect
