--------------------------- MODULE CodegenMarshal ---------------------------
(***************************************************************************)
(* Argument marshalling of the generated RPC code (codegen.py).            *)
(*                                                                         *)
(* get_method turns the arguments of one public method of a DObject class  *)
(* into CxxArgument records, one argument per step.  The stub              *)
(* (generate_stub_macro) then packs them into _args with a pointer that is *)
(* advanced after every argument but the last, and the skeleton            *)
(* (generate_skeleton_methods) unpacks them with a pointer advanced the    *)
(* same way.  The C++ text is abstracted to the statements it consists of: *)
(* "put" (write or read of n bytes at the pointer) and "adv" (advance the  *)
(* pointer by n bytes).  A type is abstracted to its kind and its sizes.   *)
(***************************************************************************)
EXTENDS Naturals, Sequences, SequencesExt

CONSTANTS
    Bases,      \* the DObject bases a class may derive from
    ArgTypes,   \* the declared argument types, as records (see TypeOK)
    MaxArgs     \* bound on the number of arguments of one method

VARIABLES
    base,       \* generate.base of the class the method belongs to
    args,       \* method.arguments built so far
    pc          \* "args" while get_method loops, "done" on return, "exit"

vars == <<base, args, pc>>

None == "None"

CxxArgumentSerialSize(t) ==
    [kind |-> t.kind, sz |-> t.sz, size |-> t.serial,
     s6_ref_type |-> IF t.kind \in {"MRef", "SRef"} THEN t.inner ELSE None]

(* The CxxArgument get_method builds for a declared argument: the size is   *)
(* sizeof the type, or the run-time serial size of an MRef/SRef, and        *)
(* s6_ref_type is the text between '<' and '>' of the type.                 *)
CxxArgument(t) ==
    [kind |-> t.kind,
     sz |-> t.sz,
     size |-> IF t.kind \in {"MRef", "SRef"} THEN t.serial ELSE t.sz,
     s6_ref_type |-> IF t.kind \in {"MRef", "SRef"} THEN t.inner ELSE None]

(* One statement of a SET_ARGUMENTS list. *)
Put(i, n) == [op |-> "put", arg |-> i, n |-> n]
Adv(n) == [op |-> "adv", arg |-> 0, n |-> n]

(* Advance after argument i, emitted only when i + 1 < len(arguments). *)
AdvanceAfter(as, i, n) == IF i < Len(as) THEN <<Adv(n)>> ELSE <<>>

StubArgumentsAdvFirst(as) ==
    FlattenSeq([i \in DOMAIN as |->
        IF as[i].s6_ref_type = None
        THEN AdvanceAfter(as, i, as[i].sz) \o <<Put(i, as[i].sz)>>
        ELSE AdvanceAfter(as, i, as[i].size) \o <<Put(i, as[i].size)>>])

(* generate_stub_macro: a plain argument is stored with reinterpret_cast    *)
(* and the pointer moves by sizeof(name); an MRef/SRef is memcpy'd from     *)
(* serialize() and the pointer moves by get_serial_size().                  *)
StubArguments(as) ==
    FlattenSeq([i \in DOMAIN as |->
        IF as[i].s6_ref_type = None
        THEN <<Put(i, as[i].sz)>> \o AdvanceAfter(as, i, as[i].sz)
        ELSE <<Put(i, as[i].size)>> \o AdvanceAfter(as, i, as[i].size)])

(* generate_skeleton_methods: the deserialize branches are taken when      *)
(* s6_ref_type is 'SRef' or 'MRef'; otherwise the argument is read with     *)
(* reinterpret_cast of its type and the pointer moves by sizeof(name).      *)
SkeletonArguments(as) ==
    FlattenSeq([i \in DOMAIN as |->
        IF as[i].s6_ref_type \in {"SRef", "MRef"}
        THEN <<Put(i, as[i].size)>> \o AdvanceAfter(as, i, as[i].size)
        ELSE <<Put(i, as[i].sz)>> \o AdvanceAfter(as, i, as[i].sz)])

(* ARGSIZE: ' + '.join of the argument sizes. *)
ArgSize(as) == FoldLeft(LAMBDA acc, a : acc + a.size, 0, as)

(* Executing a statement list from offset 0: for each argument the offset  *)
(* and width of its access.                                                *)
RECURSIVE Accesses(_, _)
Accesses(st, off) ==
    IF st = <<>> THEN <<>>
    ELSE IF Head(st).op = "put"
         THEN <<[at |-> off, n |-> Head(st).n]>> \o Accesses(Tail(st), off)
         ELSE Accesses(Tail(st), off + Head(st).n)

(* One iteration of the argument loop of get_method: a pointer argument    *)
(* of an MWObject method, or an MRef/SRef with nothing between '<' and     *)
(* '>', ends the generator (sys.exit(1)).                                  *)
AddArgument(t) ==
    /\ pc = "args"
    /\ Len(args) < MaxArgs
    /\ IF \/ t.kind = "pointer" /\ base # "SWObject"
          \/ t.kind \in {"MRef", "SRef"} /\ t.inner = ""
       THEN pc' = "exit" /\ UNCHANGED args
       ELSE args' = Append(args, CxxArgument(t)) /\ UNCHANGED pc
    /\ UNCHANGED base

(* get_method returns the method with the arguments collected. *)
Return ==
    /\ pc = "args"
    /\ pc' = "done"
    /\ UNCHANGED <<base, args>>

Init ==
    /\ base \in Bases
    /\ args = <<>>
    /\ pc = "args"

Next ==
    \/ \E t \in ArgTypes : AddArgument(t)
    \/ Return

Spec == Init /\ [][Next]_vars

-----------------------------------------------------------------------------
TypeOK ==
    /\ base \in Bases
    /\ pc \in {"args", "done", "exit"}
    /\ Len(args) <= MaxArgs
    /\ \A i \in DOMAIN args : args[i].size \in Nat \ {0}

(* Marshalling agreement.  Once the stub and the skeleton of a method are   *)
(* generated, the skeleton reads every argument at the offset and with the *)
(* width the stub wrote it, and the stub's writes tile the ARGSIZE bytes of *)
(* _args exactly: no gap, no overlap, nothing past the end.                *)
MarshalAgree ==
    pc = "done" =>
        LET w == Accesses(StubArguments(args), 0)
            r == Accesses(SkeletonArguments(args), 0)
        IN  /\ w = r
            /\ \A i \in DOMAIN w :
                  w[i].at = IF i = 1 THEN 0 ELSE w[i-1].at + w[i-1].n
            /\ (args # <<>> => w[Len(w)].at + w[Len(w)].n = ArgSize(args))
=============================================================================
