------------------------------ MODULE MC_Framing ------------------------------
EXTENDS Framing

MC_PayloadLens == {1, 5}
MC_BigPayload == {9995}

================================================================================
