------------------------------- MODULE MCTeam -------------------------------
EXTENDS Team
CONSTANTS e, f
MCAllowance == [command |-> 3, stop |-> 1, other |-> 1]
Two == {1, 2}
=============================================================================
