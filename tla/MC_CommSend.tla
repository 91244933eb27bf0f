------------------------------ MODULE MC_CommSend ------------------------------
EXTENDS CommSend

CONSTANTS m1, m2

MC_Msgs == {m1, m2}

================================================================================
