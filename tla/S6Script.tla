------------------------------- MODULE S6Script -------------------------------
(***************************************************************************)
(* The experiment scripts of s6ctl/scripts run against the control plane. *)
(*                                                                         *)
(* `run SCRIPT' (commands.run_script) loads a script and calls its         *)
(* run(s6ctl) on the CLI thread, which is the orchestrator thread: each    *)
(* call returns before the next is made, and an exception ends the         *)
(* script.  The reactor, the worker records and the worker processes are  *)
(* those of S6Cluster; the script takes the place of the interactive       *)
(* operator.  Calls that touch no state of the model (host daemons,        *)
(* set_application, keyspace rules, measurement, sleeps) are left out of   *)
(* the call lists.                                                          *)
(***************************************************************************)
EXTENDS S6Cluster

VARIABLES script, \* the call list of the script being run
          sp      \* index of its next call

svars == <<vars, script, sp>>

\* One call of a script, as a record of uniform shape.
Call(name) == [call |-> name, cid |-> None, host |-> None, core |-> None,
               cids |-> <<>>]
InitC(c, h, k) == [Call("init") EXCEPT !.cid = c, !.host = h, !.core = k]
Many(name, cs) == [Call(name) EXCEPT !.cids = cs]
KillC(c) == [Call("kill") EXCEPT !.cid = c]

\* scripts/static.py: two workers, the second a background worker (bg only
\* changes the counts of the init_rule payload), run, then kill_all.
StaticScript ==
    << InitC(0, "localhost", 1), InitC(16, "localhost", 3),
       Many("start", <<0, 16>>), Call("kill_all") >>

\* scripts/dynamic.py: start one worker, scale out by one twice, then scale
\* in and kill in reverse order.
DynamicScript ==
    << InitC(0, "localhost", 1), Many("start", <<0>>),
       InitC(1, "localhost", 2), Many("scale_out", <<1>>),
       InitC(2, "localhost", 3), Many("scale_out", <<2>>),
       Many("scale_in", <<2>>), KillC(2),
       Many("scale_in", <<1>>), KillC(1) >>

\* scripts/state_location/all-remote.py: core 1 is pinned on both hosts.
AllRemoteScript ==
    << InitC(0, "center", 1), InitC(1, "center", 2), InitC(16, "mcgee", 1),
       Many("start", <<0, 1, 16>>) >>

\* scripts/state_location/distributed-shared.py.
DistributedSharedScript ==
    << InitC(0, "center", 1), InitC(1, "mcgee", 1), Many("start", <<0, 1>>) >>

Scripts == {StaticScript, DynamicScript, AllRemoteScript,
            DistributedSharedScript}

ScriptInit ==
    /\ Init
    /\ script \in Scripts
    /\ sp = 1

\* S6Controller.init called by a script: acquire_core raising ends the
\* script; otherwise init goes on as for the interactive command.
ScriptInitCall(c, h, pref) ==
    /\ IF H(h)!CanAcquire(pref)
       THEN InitCall(c, h, pref)
       ELSE orc' = Raised /\ UNCHANGED <<inst, state, core, host, avail,
                                         wproc, toW>>

\* start / scale_out / scale_in: self.nf_instances[cid] of an unknown id
\* raises KeyError (start, scale_out) or the explicit check of scale_in
\* raises, before any message is sent.
ScriptBegin(op, tgt) ==
    IF ToSet(tgt) \subseteq inst THEN Begin(op, tgt) ELSE orc' = Raised

\* One call of run(s6ctl), made once the previous one has returned.
ScriptStep ==
    /\ ~Busy /\ ~orc.err /\ sp <= Len(script)
    /\ sp' = sp + 1
    /\ LET x == script[sp] IN
       \/ /\ x.call = "init"
          /\ ScriptInitCall(x.cid, x.host, x.core)
       \/ /\ x.call \in {"start", "scale_out", "scale_in"}
          /\ ScriptBegin(x.call, x.cids)
          /\ UNCHANGED <<inst, state, core, host, avail, wproc, toW>>
       \/ /\ x.call = "kill"
          /\ IF x.cid \in inst THEN KillCall(x.cid)
                               ELSE UNCHANGED <<inst, avail, wproc, toW>>
          /\ UNCHANGED <<state, core, host, orc>>
       \/ /\ x.call = "kill_all"
          /\ KillAllCall
          /\ UNCHANGED <<state, core, host, orc>>
    /\ UNCHANGED <<toC, bound, fd, alive, lockHeld, ops, bogus, used, script>>

ScriptNext ==
    \/ ScriptStep
    \/ /\ \/ Orchestrator
          \/ \E c \in Cids : Dispatch(c) \/ Hangup(c) \/ Worker(c)
       /\ UNCHANGED <<script, sp>>

\* The CLI thread goes on with the script once a call has returned.
ScriptSpec == ScriptInit /\ [][ScriptNext]_svars /\ Fairness
              /\ WF_svars(ScriptStep)

-----------------------------------------------------------------------------
(* What a script leaves behind, computed from its call list.               *)

\* Ids with a record at the end: init adds one, kill / kill_all remove.
Survivors(s) ==
    FoldLeft(LAMBDA acc, x :
                CASE x.call = "init" -> acc \cup {x.cid}
                  [] x.call = "kill" -> acc \ {x.cid}
                  [] x.call = "kill_all" -> {}
                  [] OTHER -> acc,
             {}, s)

\* Ids a start or scale_out brought into the cluster.
Joined(s) == UNION {ToSet(s[i].cids) : i \in {j \in DOMAIN s :
                                         s[j].call \in {"start", "scale_out"}}}

\* The last init call for id c.
Asked(s, c) == LET is == {i \in DOMAIN s : s[i].call = "init" /\ s[i].cid = c}
               IN s[CHOOSE i \in is : \A j \in is : j <= i]

ScriptDone == sp > Len(script) /\ ~Busy

-----------------------------------------------------------------------------
\* Every experiment script returns: each call, including the barrier
\* stages of start / scale_out / scale_in, comes back, under every order
\* of the reactor, the worker processes and the dict order of all_cids.
ScriptCompletes == <>ScriptDone

\* A script that returned raised nothing and left the hosts as it asked:
\* exactly the ids it did not kill have records, each on the host and core
\* its init named, running, and in the cluster if it was started; no
\* container of a killed id runs, and every other core is free again.
ScriptOutcome ==
    ScriptDone =>
       /\ ~orc.err
       /\ inst = Survivors(script)
       /\ \A c \in inst :
             /\ ConnOpen(c)
             /\ host[c] = Asked(script, c).host
             /\ core[c] = Asked(script, c).core
             /\ c \in Joined(script) => state[c] = ST_NORMAL
       /\ \A c \in Cids \ inst : wproc[c] = "none"
       /\ \A h \in Hosts, k \in Cores \ {0} :
             avail[h][k] <=> ~\E c \in inst : host[c] = h /\ core[c] = k

=============================================================================
