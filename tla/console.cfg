SPECIFICATION Spec
CONSTANTS
  Modulus = 16
  Kilo = 2
  WordSize = 2
  Byte = 2
  DefaultLength = 1
  MAXARGS = 3
  HIST_MAX = 3
  RamSize = 24
  Table <- MCTable
  Sizes = {2, 22}
  Words <- MCWords
  EscWords <- MCEscWords
  Lines <- MCLines
  MaxTyped <- MCMaxTyped
  MaxLines <- MCMaxLines
INVARIANTS ScreenShowsLine RepeatSafe
PROPERTIES  DisplayContinues InterruptHarmless
