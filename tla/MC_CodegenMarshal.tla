------------------------- MODULE MC_CodegenMarshal -------------------------
EXTENDS CodegenMarshal

(* Plain types of 1, 4 and 8 bytes and a pointer (8 bytes). *)
MC_PlainTypes ==
    {[kind |-> "plain", sz |-> 1, serial |-> 0, inner |-> ""],
     [kind |-> "plain", sz |-> 4, serial |-> 0, inner |-> ""],
     [kind |-> "pointer", sz |-> 8, serial |-> 0, inner |-> ""]}

(* MRef<Flow> and SRef<Flow> objects of 16 bytes whose serial form is 16 or *)
(* 24 bytes, and an MRef<> with no class between the brackets.              *)
MC_RefTypes ==
    {[kind |-> k, sz |-> 16, serial |-> s, inner |-> "Flow"] :
        k \in {"MRef", "SRef"}, s \in {16, 24}}
    \cup {[kind |-> "MRef", sz |-> 16, serial |-> 16, inner |-> ""]}

MC_AllTypes == MC_PlainTypes \cup MC_RefTypes
=============================================================================
