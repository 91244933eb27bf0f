-------------------------------- MODULE Host --------------------------------
(***************************************************************************)
(* The core pool of one machine, class Host of src/s6ctl/s6controller.py. *)
(* avail[i] is avail_core[i]: core 0 is kept for the host daemon and is   *)
(* never available.  The operators below are what acquire_core and        *)
(* release_core compute; S6Cluster instantiates this module on its own    *)
(* avail variable.                                                         *)
(***************************************************************************)
EXTENDS Naturals, FiniteSets

CONSTANTS NumCores,   \* the value `nproc' returns on the host
          None        \* acquire_core's default: no preferred core

ASSUME NumCores \in Nat \ {0}

VARIABLE avail

Cores == 0 .. NumCores - 1

\* Host.__init__: every core free except core 0.
InitAvail == [i \in Cores |-> i # 0]

\* Mutant: the scan ignores avail_core.
AcceptableAnyCore(pref) == {i \in Cores : pref = None \/ pref = i}

\* The cores the linear scan of acquire_core(core) would accept.
Acceptable(pref) == {i \in Cores : (pref = None \/ pref = i) /\ avail[i]}

\* acquire_core raises 'No available core' when nothing is acceptable.
CanAcquire(pref) == Acceptable(pref) # {}

\* Mutant: the index is returned one-based.
AcquiredCorePlusOne(pref) == 1 + CHOOSE i \in Acceptable(pref) :
                                   \A j \in Acceptable(pref) : i <= j

\* The scan returns the lowest acceptable index.
AcquiredCore(pref) == CHOOSE i \in Acceptable(pref) :
                         \A j \in Acceptable(pref) : i <= j

\* release_core raises for core 0, an index out of range, or a free core.
CanRelease(c) == c # 0 /\ c < NumCores /\ ~avail[c]

Acquire(k) == [avail EXCEPT ![k] = FALSE]
Release(k) == [avail EXCEPT ![k] = TRUE]

=============================================================================
