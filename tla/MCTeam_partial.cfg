CONSTANTS e = e f = f
Process = {e, f}
Lane <- Two
Nobody = nobody
Allowance <- MCAllowance
SPECIFICATION TeamSpec
INVARIANT PartialNeverMerged
CHECK_DEADLOCK FALSE
