--------------------------- MODULE WorkerLifecycle ---------------------------
(***************************************************************************)
(* What a worker record promises (NFInstance, spec sections 3 and 4.2):    *)
(* a record is created in ST_INIT, its state then only moves along the    *)
(* lifecycle edges, and records may be discarded.  S6Cluster is checked   *)
(* to implement this specification.                                        *)
(***************************************************************************)
CONSTANT Cids

VARIABLES inst,   \* the ids in the cluster view (nf_instances)
          state   \* state[c]: the lifecycle state of record c

ST_INIT == "ST_INIT"
ST_HELLO == "ST_HELLO"
ST_READY == "ST_READY"
ST_NORMAL == "ST_NORMAL"
ST_PREPARE_SCALING == "ST_PREPARE_SCALING"
ST_SCALING == "ST_SCALING"
ST_COMPLETED_SCALING == "ST_COMPLETED_SCALING"
ST_PREPARE_NORMAL == "ST_PREPARE_NORMAL"
ST_TEARDOWN == "ST_TEARDOWN"

States == {ST_INIT, ST_HELLO, ST_READY, ST_NORMAL, ST_PREPARE_SCALING,
           ST_SCALING, ST_COMPLETED_SCALING, ST_PREPARE_NORMAL, ST_TEARDOWN}

\* The legal transitions: the bring-up chain, the scaling loop back to
\* ST_NORMAL, and the terminal teardown.
Edges == {<<ST_INIT, ST_HELLO>>, <<ST_HELLO, ST_READY>>,
          <<ST_READY, ST_NORMAL>>, <<ST_NORMAL, ST_PREPARE_SCALING>>,
          <<ST_PREPARE_SCALING, ST_SCALING>>,
          <<ST_SCALING, ST_COMPLETED_SCALING>>,
          <<ST_COMPLETED_SCALING, ST_PREPARE_NORMAL>>,
          <<ST_PREPARE_NORMAL, ST_NORMAL>>, <<ST_NORMAL, ST_TEARDOWN>>}

Init == /\ inst = {}
        /\ state \in [Cids -> States]

Create(c) == /\ c \notin inst
             /\ inst' = inst \cup {c}
             /\ state' = [state EXCEPT ![c] = ST_INIT]

Move(c) == /\ c \in inst
           /\ \E s \in States : /\ <<state[c], s>> \in Edges
                                /\ state' = [state EXCEPT ![c] = s]
           /\ UNCHANGED inst

Discard == /\ \E gone \in SUBSET inst : gone # {} /\ inst' = inst \ gone
           /\ UNCHANGED state

Next == \/ \E c \in Cids : Create(c) \/ Move(c)
        \/ Discard

Spec == Init /\ [][Next]_<<inst, state>>

=============================================================================
