SPECIFICATION SessionsSpec
CONSTANTS
  e = e
  f = f
  a = a
  b = b
  Process = {e, f}
  Lane <- Two
  Nobody = nobody
  Allowance <- MCAllowance
  Terminal = {a, b}
  MaxSessions = 2
  MaxExchanges = 2
  MaxTools = 1
  Budget = 1
  Byte = {A, B, NL, NUL}
  NL = NL
  NUL = NUL
  MaxFile = 4
  MaxLiteral = 3
  MaxPrefix = 2
  MaxMatches = 2
  MaxOutput = 5
CHECK_DEADLOCK FALSE
SYMMETRY Alike
INVARIANTS TeamKept NoneStuck ConversationTrue ScanExact
PROPERTIES EndIsFinal
