------------------------------- MODULE Codegen -------------------------------
(***************************************************************************)
(* The generate command of the RPC code generator (codegen.py).           *)
(*                                                                         *)
(* analyze_user_code runs generate on every header, in order: find_classes *)
(* walks the class declarations of the file, recording the DObject classes *)
(* and setting the function attribute generate.base for every class it     *)
(* meets; generate then records the classes in all_user_classes and writes *)
(* the stubs for generate.base.  search_globals then collects the SwMap /  *)
(* MwMap globals of the application sources, and generate_code validates   *)
(* them and writes adt_info.cpp.  A class declaration is abstracted to its *)
(* name and the base it derives from; the emitted text to the set of files *)
(* (stub, skeleton) written per class.                                     *)
(***************************************************************************)
EXTENDS Naturals, Sequences, SequencesExt

CONSTANTS
    Names,          \* class names
    Vars,           \* names of global map variables
    NumFiles,       \* number of headers processed
    ClassesPerFile, \* bound on the class declarations of one header
    MaxGlobals      \* bound on the map declarations of the applications

DObjectBases == {"SWObject", "MWObject"}
Kinds == DObjectBases \cup {"Key", "DObject", "plain"}
Decls == [name : Names, base : Kinds]
MapDecls == [var : Vars, cls : Names, map : {"SwMap", "MwMap"}]
Unset == "unset"    \* generate.base before find_class first assigns it
None == "None"

VARIABLES
    files,       \* the class declarations of each header, in order
    fi,          \* index of the header being processed
    pending,     \* declarations of that header find_class has not reached
    found,       \* classes find_class returned for that header
    base,        \* generate.base
    userClasses, \* all_user_classes: <<name, base>>, in order
    keyClasses,  \* all_key_classes
    stubs,       \* the files written, as <<class, "swstub"|"mwstub"|"skeleton">>
    gq,          \* map declarations search_globals has not reached
    globalMaps,  \* all_global_maps: var -> [cls, map]
    phase        \* "classes", "globals", "done" or "exit"

vars == <<files, fi, pending, found, base, userClasses, keyClasses, stubs,
          gq, globalMaps, phase>>

(* Headers whose class names are all distinct. *)
Headers ==
    {h \in [1..NumFiles -> BoundedSeq(Decls, ClassesPerFile)] :
        \A f, g \in 1..NumFiles : \A i \in DOMAIN h[f], j \in DOMAIN h[g] :
            <<f, i>> # <<g, j>> => h[f][i].name # h[g][j].name}

(* The files generate writes for classes found under a given base. *)
ArtifactsNoSkeleton(ns, b) ==
    {<<n, k>> : n \in ns, k \in CASE b = "SWObject" -> {"swstub"}
                                  [] b = "MWObject" -> {"mwstub"}
                                  [] OTHER -> {}}

Artifacts(ns, b) ==
    {<<n, k>> : n \in ns, k \in CASE b = "SWObject" -> {"swstub"}
                                  [] b = "MWObject" -> {"mwstub", "skeleton"}
                                  [] OTHER -> {}}

(* _find_from_all_user_classes: the base of the first entry for a class. *)
FindBase(c) ==
    LET hits == SelectSeq(userClasses, LAMBDA e : e[1] = c)
    IN IF hits = <<>> THEN None ELSE hits[1][2]

ValidGlobalMaps ==
    \A v \in DOMAIN globalMaps :
        LET b == FindBase(globalMaps[v].cls)
        IN /\ b # None
           /\ \/ b = "MWObject" /\ globalMaps[v].map = "MwMap"
              \/ b = "SWObject" /\ globalMaps[v].map = "SwMap"

FindClassKeyBase(d) ==
    /\ phase = "classes" /\ pending # <<>>
    /\ d = Head(pending)
    /\ IF d.base = "DObject"
       THEN phase' = "exit" /\ UNCHANGED <<base, found, keyClasses, pending>>
       ELSE /\ base' = IF d.base = "plain" THEN None ELSE d.base
            /\ found' = IF d.base \in DObjectBases THEN Append(found, d.name) ELSE found
            /\ keyClasses' = IF d.base = "Key" THEN Append(keyClasses, d.name) ELSE keyClasses
            /\ pending' = Tail(pending)
            /\ UNCHANGED phase
    /\ UNCHANGED <<files, fi, userClasses, stubs, gq, globalMaps>>

(* find_class on one class declaration, with get_dobj_base: a class        *)
(* deriving DObject directly ends the generator; a key class is appended to *)
(* all_key_classes; generate.base is set for every class, to None for the   *)
(* ones that are not SWObject or MWObject.                                  *)
FindClass(d) ==
    /\ phase = "classes" /\ pending # <<>>
    /\ d = Head(pending)
    /\ IF d.base = "DObject"
       THEN phase' = "exit" /\ UNCHANGED <<base, found, keyClasses, pending>>
       ELSE /\ base' = IF d.base \in DObjectBases THEN d.base ELSE None
            /\ found' = IF d.base \in DObjectBases THEN Append(found, d.name) ELSE found
            /\ keyClasses' = IF d.base = "Key" THEN Append(keyClasses, d.name) ELSE keyClasses
            /\ pending' = Tail(pending)
            /\ UNCHANGED phase
    /\ UNCHANGED <<files, fi, userClasses, stubs, gq, globalMaps>>

(* generate, after find_classes has walked the header: every class found   *)
(* is recorded with the current generate.base, and the stubs of that base  *)
(* are written.  generate.base is read before any class ever set it when   *)
(* the first header declares no class (AttributeError).                     *)
Generate ==
    /\ phase = "classes" /\ pending = <<>>
    /\ IF base = Unset
       THEN phase' = "exit" /\ UNCHANGED <<fi, pending, found, userClasses, stubs>>
       ELSE /\ userClasses' = userClasses \o [i \in DOMAIN found |-> <<found[i], base>>]
            /\ stubs' = stubs \cup Artifacts(ToSet(found), base)
            /\ found' = <<>>
            /\ fi' = fi + 1
            /\ IF fi < NumFiles
               THEN pending' = files[fi + 1] /\ UNCHANGED phase
               ELSE phase' = "globals" /\ UNCHANGED pending
    /\ UNCHANGED <<files, base, keyClasses, gq, globalMaps>>

(* search_globals on one SwMap/MwMap declaration: a second declaration of  *)
(* the same variable with a different entry ends the generator.            *)
SearchGlobal ==
    /\ phase = "globals" /\ gq # <<>>
    /\ LET g == Head(gq)
           e == [cls |-> g.cls, map |-> g.map]
       IN IF g.var \in DOMAIN globalMaps
          THEN IF globalMaps[g.var] # e
               THEN phase' = "exit" /\ UNCHANGED globalMaps
               ELSE UNCHANGED <<phase, globalMaps>>
          ELSE /\ globalMaps' = globalMaps @@ (g.var :> e)
               /\ UNCHANGED phase
    /\ gq' = Tail(gq)
    /\ UNCHANGED <<files, fi, pending, found, base, userClasses, keyClasses, stubs>>

(* generate_code: validate_global_maps, then adt_info.cpp is written. *)
GenerateCode ==
    /\ phase = "globals" /\ gq = <<>>
    /\ phase' = IF ValidGlobalMaps THEN "done" ELSE "exit"
    /\ UNCHANGED <<files, fi, pending, found, base, userClasses, keyClasses,
                   stubs, gq, globalMaps>>

Init ==
    /\ files \in Headers
    /\ fi = 1
    /\ pending = files[1]
    /\ found = <<>>
    /\ base = Unset
    /\ userClasses = <<>>
    /\ keyClasses = <<>>
    /\ stubs = {}
    /\ gq \in BoundedSeq(MapDecls, MaxGlobals)
    /\ globalMaps = <<>>
    /\ phase = "classes"

Next ==
    \/ \E d \in Decls : FindClass(d)
    \/ Generate
    \/ SearchGlobal
    \/ GenerateCode

Spec == Init /\ [][Next]_vars

-----------------------------------------------------------------------------
TypeOK ==
    /\ fi \in 1..NumFiles + 1
    /\ base \in DObjectBases \cup {Unset, None}
    /\ stubs \subseteq Names \X {"swstub", "mwstub", "skeleton"}
    /\ phase \in {"classes", "globals", "done", "exit"}

(* The declared base of a class, from the headers. *)
DeclaredBase(c) ==
    LET ds == {d \in UNION {ToSet(files[f]) : f \in 1..NumFiles} : d.name = c}
    IN IF ds = {} THEN None ELSE (CHOOSE d \in ds : TRUE).base

(* Every SWObject or MWObject class of a header generate has finished gets *)
(* exactly the stub (and, for MWObject, the skeleton) its own base calls   *)
(* for.  This is about generate.base, which find_class overwrites for each *)
(* class it meets and generate reads once per header.                      *)
StubsMatchBase ==
    \A f \in 1..fi - 1 : \A i \in DOMAIN files[f] :
        LET d == files[f][i]
            own == CASE d.base = "SWObject" -> {"swstub"}
                     [] d.base = "MWObject" -> {"mwstub", "skeleton"}
                     [] OTHER -> {}
        IN {a[2] : a \in {a \in stubs : a[1] = d.name}} = own

(* When generate_code accepts the application's maps, every SwMap holds a  *)
(* class declared SWObject and every MwMap a class declared MWObject.      *)
MapsConsistent ==
    phase = "done" =>
        \A v \in DOMAIN globalMaps :
            \/ DeclaredBase(globalMaps[v].cls) = "MWObject" /\ globalMaps[v].map = "MwMap"
            \/ DeclaredBase(globalMaps[v].cls) = "SWObject" /\ globalMaps[v].map = "SwMap"
=============================================================================
