------------------------------- MODULE S6Cluster -------------------------------
(***************************************************************************)
(* The S6 control plane of src/s6ctl: the orchestrator thread              *)
(* (S6Controller), the reactor thread (CommThread), the worker records     *)
(* (NFInstance) with their monitor, the core pool of the host (Host) and   *)
(* the worker processes, which are not part of src/ and follow the         *)
(* message table of the spec.                                              *)
(*                                                                         *)
(* The byte transport of CommThread is abstracted here to one FIFO per     *)
(* direction and worker: toW[c] holds what send() queued for c and the    *)
(* worker has not yet handled, toC[c] what worker c sent and the reactor  *)
(* has not yet dispatched.  The lock, epoll mask and framing of that       *)
(* transport are modelled in their own modules.                            *)
(***************************************************************************)
EXTENDS Naturals, Sequences, FiniteSets, SequencesExt

CONSTANTS Cids,        \* worker ids an operator may use
          Hosts,       \* the hosts of hosts.txt
          NumCores,    \* cores of each host (`nproc')
          None,        \* "no preferred core" in `init CID HOST'
          Rogue,       \* workers that may send messages out of protocol
          MaxBogus,    \* bound on those out-of-protocol messages
          Timed,       \* TRUE: migration ends inside the SCALING_TIMEOUT sleep
          RemoteFaults,\* TRUE: `docker run' / `docker rm' over ssh may fail
          MaxOps,      \* bound on the operator commands issued
          Reuse,       \* TRUE: the operator may init an id used before
          Cleanup,     \* TRUE: the operator may issue `cleanup'
          PartialScaleOut,\* TRUE: scale-out may name some of the new ids
          Crashes,     \* TRUE: a worker process may die at any time
          SlowBoot,    \* TRUE: a new worker says hello only after init returns
          Restarts     \* TRUE: the controller process may exit and be restarted

ASSUME /\ Rogue \subseteq Cids
       /\ MaxBogus \in Nat /\ MaxOps \in Nat
       /\ Timed \in BOOLEAN /\ RemoteFaults \in BOOLEAN /\ Reuse \in BOOLEAN
       /\ Cleanup \in BOOLEAN /\ PartialScaleOut \in BOOLEAN
       /\ Crashes \in BOOLEAN /\ SlowBoot \in BOOLEAN
       /\ Restarts \in BOOLEAN

VARIABLES inst,     \* the keys of nf_instances
          state,    \* state[c]: NFInstance.state of record c
          core,     \* core[c]: NFInstance.core of record c
          host,     \* host[c]: NFInstance.host of record c
          avail,    \* avail[h]: Host.avail_core of host h
          wproc,    \* wproc[c]: the worker process of container s6_<app>_c
          toW,      \* toW[c]: controller-to-worker messages in transit
          toC,      \* toC[c]: worker-to-controller messages in transit
          bound,    \* bound[c]: CommThread.cid_to_fd[c], an fd number or None
          fd,       \* fd[c]: fd number of c's connection while registered
          alive,    \* the reactor thread is still running
          lockHeld, \* CommThread.lock was left acquired by a failed send
          orc,      \* the orchestrator thread: the command it is executing
          ops,      \* operator commands issued so far
          bogus,    \* out-of-protocol messages sent so far
          used      \* ids the operator has passed to init

vars == <<inst, state, core, host, avail, wproc, toW, toC, bound, fd, alive,
          lockHeld, orc, ops, bogus, used>>

H(h) == INSTANCE Host WITH avail <- avail[h]

\* range(num_cores) of a host; every host has NumCores cores.
Cores == 0 .. NumCores - 1
L == INSTANCE WorkerLifecycle

ST_INIT == L!ST_INIT
ST_HELLO == L!ST_HELLO
ST_READY == L!ST_READY
ST_NORMAL == L!ST_NORMAL
ST_PREPARE_SCALING == L!ST_PREPARE_SCALING
ST_SCALING == L!ST_SCALING
ST_COMPLETED_SCALING == L!ST_COMPLETED_SCALING
ST_PREPARE_NORMAL == L!ST_PREPARE_NORMAL

OutMsgs == {"init_rule", "all_ready", "prepare_scaling", "start_scaling",
            "prepare_quiescent", "quiescent"}
InMsgs == {"hello", "ready", "run", "prepared_scaling", "started_scaling",
           "completed_scaling", "prepared_normal", "being_normal",
           "teared_down"}

-----------------------------------------------------------------------------
(* Worker records: NFInstance.update and the CommThread._process_* table. *)

\* Mutant: _process_being_normal passes ST_READY as the target state.
HandlerBeingNormalReady ==
           [hello |-> <<ST_INIT, ST_HELLO>>,
            ready |-> <<ST_HELLO, ST_READY>>,
            run |-> <<ST_READY, ST_NORMAL>>,
            prepared_scaling |-> <<ST_NORMAL, ST_PREPARE_SCALING>>,
            started_scaling |-> <<ST_PREPARE_SCALING, ST_SCALING>>,
            completed_scaling |-> <<ST_SCALING, ST_COMPLETED_SCALING>>,
            prepared_normal |-> <<ST_COMPLETED_SCALING, ST_PREPARE_NORMAL>>,
            being_normal |-> <<ST_PREPARE_NORMAL, ST_READY>>]

\* The (from_st, to_st) each _process_<msg> handler passes to update.
Handler == [hello |-> <<ST_INIT, ST_HELLO>>,
            ready |-> <<ST_HELLO, ST_READY>>,
            run |-> <<ST_READY, ST_NORMAL>>,
            prepared_scaling |-> <<ST_NORMAL, ST_PREPARE_SCALING>>,
            started_scaling |-> <<ST_PREPARE_SCALING, ST_SCALING>>,
            completed_scaling |-> <<ST_SCALING, ST_COMPLETED_SCALING>>,
            prepared_normal |-> <<ST_COMPLETED_SCALING, ST_PREPARE_NORMAL>>,
            being_normal |-> <<ST_PREPARE_NORMAL, ST_NORMAL>>]

\* update(from_st, to_st) raises unless `from_st and not state == from_st'
\* is false; ST_INIT is 0, so a transition from ST_INIT is never checked.
UpdateRaises(c, from) == from # ST_INIT /\ state[c] # from

-----------------------------------------------------------------------------
(* The orchestrator's stage programs (S6Controller.start, scale_out,      *)
(* scale_in).  A step sends one message to, or waits for one state of,    *)
(* every id of the operation's list "tgt" or of the cluster snapshot      *)
(* "all", one id at a time.                                                *)

Wt(st, over) == [do |-> "wait", arg |-> st, over |-> over]
Sd(m, over) == [do |-> "send", arg |-> m, over |-> over]
Snapshot == [do |-> "snapshot", arg |-> "", over |-> "all"]
Sleep == [do |-> "sleep", arg |-> "", over |-> "all"]

BringUp == << Wt(ST_HELLO, "tgt"), Sd("init_rule", "tgt"),
              Wt(ST_READY, "tgt"), Sd("all_ready", "tgt"),
              Wt(ST_NORMAL, "tgt") >>

ScalingStages ==
    << Sd("prepare_scaling", "all"), Wt(ST_PREPARE_SCALING, "all"),
       Sd("start_scaling", "all"), Wt(ST_SCALING, "all"),
       Sleep, Wt(ST_COMPLETED_SCALING, "all"),
       Sd("prepare_quiescent", "all"), Wt(ST_PREPARE_NORMAL, "all"),
       Sd("quiescent", "all"), Wt(ST_NORMAL, "all") >>

\* Mutants: start waits for ST_READY after all_ready; scale_out drops the
\* ST_PREPARE_SCALING wait loop; scale_in drops the ST_COMPLETED_SCALING one.
StartProgWaitReady == SubSeq(BringUp, 1, 4) \o <<Wt(ST_READY, "tgt")>>
ScaleOutProgNoPrepareWait ==
    BringUp \o <<Snapshot>> \o <<ScalingStages[1]>>
            \o SubSeq(ScalingStages, 3, Len(ScalingStages))
ScaleInProgNoCompletedWait ==
    <<Snapshot>> \o SubSeq(ScalingStages, 1, 5)
                 \o SubSeq(ScalingStages, 7, Len(ScalingStages))

\* init after `docker run' returned: `self.nf_instances[cid] = instance'.
Insert == [do |-> "insert", arg |-> "", over |-> "tgt"]

\* Mutant: start sends init_rule without waiting for the hellos.
StartProgNoHelloWait == SubSeq(BringUp, 2, Len(BringUp))

StartProg == BringUp
ScaleOutProg == BringUp \o <<Snapshot>> \o ScalingStages
ScaleInProg == <<Snapshot>> \o ScalingStages

InitProg == <<Insert>>

Prog(op) == CASE op = "init" -> InitProg
              [] op = "start" -> StartProg
              [] op = "scale_out" -> ScaleOutProg
              [] op = "scale_in" -> ScaleInProg

\* err: the last start / scale command ended in an exception.
Idle == [op |-> "idle", pc |-> 1, i |-> 1, tgt |-> <<>>, all |-> <<>>,
         err |-> FALSE]
Raised == [Idle EXCEPT !.err = TRUE]

\* "quit": tear_down has run and the CLI has ended; nothing follows.
Busy == orc.op \notin {"idle", "quit"}

\* CommThread.running: the reactor loop goes on until stop() after quit.
Running == orc.op # "quit"
Step == Prog(orc.op)[orc.pc]
List == IF Step.over = "tgt" THEN orc.tgt ELSE orc.all
Cur == List[orc.i]

\* The orchestrator is past the SCALING_TIMEOUT sleep of its operation.
Slept == /\ orc.op \in {"scale_out", "scale_in"}
         /\ \E k \in 1 .. orc.pc - 1 : Prog(orc.op)[k] = Sleep

\* The fd numbers of worker connections (the listener's is apart); accept
\* returns the lowest number no open descriptor holds.
FdNums == 1 .. Cardinality(Cids)
LowestFreeFd == LET free == FdNums \ {fd[d] : d \in Cids}
                IN  CHOOSE n \in free : \A m \in free : n <= m

\* The worker's end of its connection is open: it has said hello.
ConnOpen(c) == wproc[c] \in {"up", "migrating"}

-----------------------------------------------------------------------------
Init == /\ inst = {}
        /\ state = [c \in Cids |-> ST_INIT]
        /\ core = [c \in Cids |-> 0]
        /\ host = [c \in Cids |-> None]
        /\ avail = [h \in Hosts |-> H(h)!InitAvail]
        /\ wproc = [c \in Cids |-> "none"]
        /\ toW = [c \in Cids |-> <<>>]
        /\ toC = [c \in Cids |-> <<>>]
        /\ bound = [c \in Cids |-> None]
        /\ fd = [c \in Cids |-> None]
        /\ alive = TRUE
        /\ lockHeld = FALSE
        /\ orc = Idle
        /\ ops = 0
        /\ bogus = 0
        /\ used = {}

-----------------------------------------------------------------------------
(* Operator commands.  Each runs on the orchestrator thread, one at a     *)
(* time; the operator issues start / scale-out / scale-in the way the     *)
(* scripts under s6ctl/scripts do, and after a command has raised does    *)
(* not issue another one of them.                                          *)

Command == orc.op = "idle" /\ ops < MaxOps /\ ops' = ops + 1

Cluster == Command /\ ~orc.err

\* Workers that have been brought into the cluster and run normally.
Started == {c \in inst : state[c] = ST_NORMAL}

\* NFInstance(...): a record in ST_INIT holding the core acquired on h; it
\* enters nf_instances only once start_container has returned (Insert).
NewRecord(c, h, k) ==
    /\ state' = [state EXCEPT ![c] = ST_INIT]
    /\ core' = [core EXCEPT ![c] = k]
    /\ host' = [host EXCEPT ![c] = h]

\* NFInstance.start_container: `docker run --name s6_<app>_<cid>' starts the
\* worker process, which will connect to the controller.
StartContainer(c) ==
    /\ wproc[c] = "none"
    /\ wproc' = [wproc EXCEPT ![c] = "boot"]
    /\ toW' = [toW EXCEPT ![c] = <<>>]

\* start_container returns False when `docker run' fails: on a remote fault,
\* or always while a container of the same name still exists on host h.
StartContainerFails(c, h) ==
    /\ RemoteFaults \/ (wproc[c] # "none" /\ host[c] = h)
    /\ UNCHANGED <<wproc, toW>>

\* S6Controller.init once acquire_core(core) has succeeded on host h: the
\* record is built and `docker run' starts its container, whose worker
\* may already run while init goes on to insert the record; on a failed
\* run the record is dropped and the core stays taken.
InitCall(c, h, pref) ==
    LET k == H(h)!AcquiredCore(pref) IN
    /\ avail' = [avail EXCEPT ![h] = H(h)!Acquire(k)]
    /\ \/ /\ StartContainer(c) /\ NewRecord(c, h, k)
          /\ orc' = [orc EXCEPT !.op = "init", !.tgt = <<c>>]
       \/ /\ StartContainerFails(c, h)
          /\ UNCHANGED <<state, core, host, orc>>
    /\ UNCHANGED inst

\* `init CID HOST [CORE]'.  acquire_core raising leaves everything as it
\* was.  A container of the same name on another host would be a second
\* process for one id, which the model does not represent.
InitCmd(c, h, pref) ==
    /\ Command
    /\ c \notin inst /\ (Reuse \/ c \notin used)
    /\ wproc[c] = "none" \/ host[c] = h
    /\ used' = used \cup {c}
    /\ H(h)!CanAcquire(pref)
    /\ InitCall(c, h, pref)
    /\ UNCHANGED <<toC, bound, fd, alive, lockHeld, bogus>>

\* start / scale_out / scale_in called with the id list tgt.
Begin(op, tgt) == orc' = [Idle EXCEPT !.op = op, !.tgt = tgt]

StartCmd ==
    /\ Cluster
    /\ Started = {} /\ inst # {}
    /\ \E tgt \in SetToSeqs(inst) : Begin("start", tgt)
    /\ UNCHANGED <<inst, state, core, host, avail, wproc, toW, toC, bound, fd,
                   alive, lockHeld, bogus, used>>

\* The ids named in a scale-out: every initialised id not yet started, or
\* with PartialScaleOut any of them, as `init 1; init 2; scale-out 1'.
OutIds == IF PartialScaleOut THEN SUBSET (inst \ Started) \ {{}}
          ELSE {inst \ Started}

ScaleOutCmd ==
    /\ Cluster
    /\ Started # {} /\ inst \ Started # {}
    /\ \E out \in OutIds : \E tgt \in SetToSeqs(out) : Begin("scale_out", tgt)
    /\ UNCHANGED <<inst, state, core, host, avail, wproc, toW, toC, bound, fd,
                   alive, lockHeld, bogus, used>>

\* scale_in checks that every leaving id is known before Stage 1.
ScaleInCmd ==
    /\ Cluster
    /\ inst = Started
    /\ \E leave \in SUBSET inst :
          /\ leave # {} /\ leave # inst
          /\ \E tgt \in SetToSeqs(leave) : Begin("scale_in", tgt)
    /\ UNCHANGED <<inst, state, core, host, avail, wproc, toW, toC, bound, fd,
                   alive, lockHeld, bogus, used>>

\* `docker rm -f' of the containers of gone; with RemoteFaults any of the
\* ssh commands may fail, and that container keeps running.
RemoveContainers(gone) ==
    \E failed \in (IF RemoteFaults THEN SUBSET gone ELSE {{}}) :
       /\ wproc' = [c \in Cids |->
                      IF c \in gone \ failed THEN "none" ELSE wproc[c]]
       /\ toW' = [c \in Cids |-> IF c \in gone \ failed THEN <<>> ELSE toW[c]]

\* Mutants: kill_container forgets release_core; it removes the container
\* without -f, which fails for a running container.
KillContainersKeepCore(gone) == UNCHANGED avail /\ RemoveContainers(gone)
KillContainersNoForce(gone) ==
    /\ avail' = [h \in Hosts |-> [k \in Cores |->
                   IF \E c \in gone : host[c] = h /\ core[c] = k
                   THEN TRUE ELSE avail[h][k]]]
    /\ UNCHANGED <<wproc, toW>>

\* kill_container: release the core, then `docker rm -f' the container,
\* which ends the worker process and closes its connection.
KillContainers(gone) ==
    /\ avail' = [h \in Hosts |-> [k \in Cores |->
                   IF \E c \in gone : host[c] = h /\ core[c] = k
                   THEN TRUE ELSE avail[h][k]]]
    /\ RemoveContainers(gone)

\* Mutant: kill forgets `del self.nf_instances[cid]'.
KillCallNoDel(c) ==
    /\ UNCHANGED inst
    /\ IF H(host[c])!CanRelease(core[c]) THEN KillContainers({c})
                                         ELSE UNCHANGED <<avail, wproc, toW>>

\* S6Controller.kill of a known id: the record is deleted, then
\* kill_container; release_core raising leaves the container running.
KillCall(c) ==
    /\ inst' = inst \ {c}
    /\ IF H(host[c])!CanRelease(core[c]) THEN KillContainers({c})
                                         ELSE UNCHANGED <<avail, wproc, toW>>

\* `kill CID': an unknown id is a diagnostic only.
KillCmd(c) ==
    /\ Command
    /\ c \in inst
    /\ KillCall(c)
    /\ UNCHANGED <<state, core, host, toC, bound, fd, alive, lockHeld, orc, bogus,
                   used>>

\* Mutant: kill_all deletes the records without killing the containers.
KillAllCallNoKill ==
    /\ inst' = {}
    /\ UNCHANGED <<avail, wproc, toW>>

\* S6Controller.kill_all: every record removed and its container killed.
\* Distinct records hold distinct cores (CoreExclusive), so no
\* release_core of the loop raises.  stop_host_daemon is not modelled.
KillAllCall ==
    /\ inst' = {}
    /\ KillContainers(inst)

KillAllCmd ==
    /\ Command
    /\ inst # {}
    /\ KillAllCall
    /\ UNCHANGED <<state, core, host, toC, bound, fd, alive, lockHeld, orc, bogus,
                   used>>

\* `quit': tear_down runs kill_all, stops the CommThread and joins it; the
\* CLI loop then ends on the EOFError quit raises.
QuitCmd ==
    /\ Command
    /\ KillAllCall
    /\ orc' = [Idle EXCEPT !.op = "quit"]
    /\ UNCHANGED <<state, core, host, toC, bound, fd, alive, lockHeld, bogus, used>>

\* S6Controller._cleanup_host on each host of hs: `docker rm -f $(docker
\* ps -a -q)' removes every container there, and with it every worker
\* process and connection; the records and their cores are left as they
\* are.  A failing remote command is swallowed.
CleanupHosts(hs) ==
    \E ok \in (IF RemoteFaults THEN SUBSET hs ELSE {hs}) :
       /\ wproc' = [c \in Cids |->
                      IF wproc[c] # "none" /\ host[c] \in ok THEN "none"
                      ELSE wproc[c]]
       /\ toW' = [c \in Cids |->
                    IF wproc[c] # "none" /\ host[c] \in ok THEN <<>>
                    ELSE toW[c]]

\* `cleanup HOST' (cleanup_host) and `cleanup' (every host).
CleanupCmd ==
    /\ Command /\ Cleanup
    /\ \E hs \in {Hosts} \cup {{h} : h \in Hosts} : CleanupHosts(hs)
    /\ UNCHANGED <<inst, state, core, host, avail, toC, bound, fd, alive,
                   lockHeld, orc, bogus, used>>

-----------------------------------------------------------------------------
(* The orchestrator thread executing a stage program.                     *)

\* CommThread.send(cid, msg): under the lock, cid_to_fd[cid] raises
\* KeyError for an id that never said hello, leaving the lock held; the
\* message goes to whatever connection holds the fd number cid_to_fd[cid]
\* now, and is lost if that connection is closed but not yet unregistered;
\* the epoll.modify after the release raises once no connection holds the
\* number or the reactor's epoll is closed.  Either exception ends the
\* command.
SendStep ==
    /\ Busy /\ ~lockHeld
    /\ Step.do = "send" /\ orc.i <= Len(List)
    /\ IF bound[Cur] = None
         THEN /\ lockHeld' = TRUE
              /\ orc' = Raised
              /\ UNCHANGED toW
         ELSE LET owners == {d \in Cids : fd[d] = bound[Cur]} IN
              /\ IF owners = {} \/ ~alive
                   THEN orc' = Raised /\ UNCHANGED toW
                   ELSE LET d == CHOOSE d \in owners : TRUE IN
                        /\ toW' = IF ConnOpen(d)
                                    THEN [toW EXCEPT ![d] = Append(@, Step.arg)]
                                    ELSE toW
                        /\ orc' = [orc EXCEPT !.i = @ + 1]
              /\ UNCHANGED lockHeld
    /\ UNCHANGED <<inst, state, core, host, avail, wproc, toC, bound, fd, alive, ops,
                   bogus, used>>

\* NFInstance.wait(st): returns once the record is found in state st.
WaitStep ==
    /\ Busy
    /\ Step.do = "wait" /\ orc.i <= Len(List)
    /\ state[Cur] = Step.arg
    /\ orc' = [orc EXCEPT !.i = @ + 1]
    /\ UNCHANGED <<inst, state, core, host, avail, wproc, toW, toC, bound, fd, alive,
                   lockHeld, ops, bogus, used>>

\* The end of init: the record enters nf_instances and init returns.
InsertStep ==
    /\ Busy /\ Step = Insert
    /\ inst' = inst \cup {Cur}
    /\ orc' = [orc EXCEPT !.op = "idle", !.tgt = <<>>]
    /\ UNCHANGED <<state, core, host, avail, wproc, toW, toC, bound, fd, alive,
                   lockHeld, ops, bogus, used>>

\* all_cids = self.nf_instances.keys(); time.sleep(SCALING_TIMEOUT).
SnapshotStep ==
    /\ Busy /\ Step = Snapshot
    /\ \E all \in SetToSeqs(inst) :
          orc' = [orc EXCEPT !.all = all, !.pc = @ + 1]
    /\ UNCHANGED <<inst, state, core, host, avail, wproc, toW, toC, bound, fd, alive,
                   lockHeld, ops, bogus, used>>

SleepStep ==
    /\ Busy /\ Step = Sleep
    /\ orc' = [orc EXCEPT !.pc = @ + 1]
    /\ UNCHANGED <<inst, state, core, host, avail, wproc, toW, toC, bound, fd, alive,
                   lockHeld, ops, bogus, used>>

\* A send or wait loop has gone through its list: the next step, or the
\* command returns after its last step.
NextStage ==
    /\ Busy
    /\ Step.do \in {"send", "wait"} /\ orc.i > Len(List)
    /\ orc' = IF orc.pc = Len(Prog(orc.op)) THEN Idle
              ELSE [orc EXCEPT !.pc = @ + 1, !.i = 1]
    /\ UNCHANGED <<inst, state, core, host, avail, wproc, toW, toC, bound, fd, alive,
                   lockHeld, ops, bogus, used>>

-----------------------------------------------------------------------------
(* The reactor thread: CommThread._poll reading one message of c's        *)
(* connection and _process_message dispatching it.  A KeyError (unknown   *)
(* id) is caught; any other exception leaves run() and ends the thread.   *)
Dispatch(c) ==
    /\ alive /\ Running /\ toC[c] # <<>>
    /\ toC' = [toC EXCEPT ![c] = Tail(@)]
    /\ LET m == Head(toC[c]) IN
       /\ bound' = IF m = "hello" THEN [bound EXCEPT ![c] = fd[c]] ELSE bound
       /\ IF c \notin inst
            THEN UNCHANGED <<state, alive>>
          ELSE IF m = "teared_down"
            THEN alive' = FALSE /\ UNCHANGED state
          ELSE IF UpdateRaises(c, Handler[m][1])
            THEN alive' = FALSE /\ UNCHANGED state
          ELSE /\ state' = [state EXCEPT ![c] = Handler[m][2]]
               /\ UNCHANGED alive
    /\ UNCHANGED <<inst, core, host, avail, wproc, toW, fd, lockHeld, orc, ops,
                   bogus, used>>

\* The reactor reads EOF of a connection whose worker is gone, after what
\* the worker had sent: _unregister closes it and frees its fd number but
\* leaves cid_to_fd as it is.
Hangup(c) ==
    /\ alive /\ Running /\ fd[c] # None /\ ~ConnOpen(c) /\ toC[c] = <<>>
    /\ fd' = [fd EXCEPT ![c] = None]
    /\ UNCHANGED <<inst, state, core, host, avail, wproc, toW, toC, bound, alive,
                   lockHeld, orc, ops, bogus, used>>

-----------------------------------------------------------------------------
(* Worker processes (not in src/): the replies of the spec's message      *)
(* table.  A worker connects and says hello by itself, answers each       *)
(* controller message in order, and after start_scaling migrates state    *)
(* out of band and then reports completed_scaling by itself.              *)

Reply == [init_rule |-> "ready", all_ready |-> "run",
          prepare_scaling |-> "prepared_scaling",
          start_scaling |-> "started_scaling",
          prepare_quiescent |-> "prepared_normal",
          quiescent |-> "being_normal"]

\* With SlowBoot, the worker connects only after `docker run' returned
\* over ssh and init inserted its record.
WorkerHello(c) ==
    /\ wproc[c] = "boot" /\ fd[c] = None
    /\ SlowBoot => c \in inst
    /\ wproc' = [wproc EXCEPT ![c] = "up"]
    /\ fd' = [fd EXCEPT ![c] = LowestFreeFd]
    /\ toC' = [toC EXCEPT ![c] = Append(@, "hello")]
    /\ UNCHANGED <<inst, state, core, host, avail, toW, bound, alive, lockHeld, orc,
                   ops, bogus, used>>

WorkerRecv(c) ==
    /\ ConnOpen(c) /\ toW[c] # <<>>
    /\ LET m == Head(toW[c]) IN
       /\ toW' = [toW EXCEPT ![c] = Tail(@)]
       /\ toC' = [toC EXCEPT ![c] = Append(@, Reply[m])]
       /\ wproc' = IF m = "start_scaling"
                     THEN [wproc EXCEPT ![c] = "migrating"] ELSE wproc
    /\ UNCHANGED <<inst, state, core, host, avail, bound, fd, alive, lockHeld, orc, ops,
                   bogus, used>>

\* With Timed, migration ends within the controller's fixed sleep.
WorkerComplete(c) ==
    /\ wproc[c] = "migrating"
    /\ Timed => Slept
    /\ wproc' = [wproc EXCEPT ![c] = "up"]
    /\ toC' = [toC EXCEPT ![c] = Append(@, "completed_scaling")]
    /\ UNCHANGED <<inst, state, core, host, avail, toW, bound, fd, alive, lockHeld, orc,
                   ops, bogus, used>>

\* A rogue worker sends any inbound message type at any time.
WorkerBogus(c) ==
    /\ c \in Rogue /\ ConnOpen(c) /\ bogus < MaxBogus
    /\ \E m \in InMsgs : toC' = [toC EXCEPT ![c] = Append(@, m)]
    /\ bogus' = bogus + 1
    /\ UNCHANGED <<inst, state, core, host, avail, wproc, toW, bound, fd, alive,
                   lockHeld, orc, ops, used>>

\* A worker process dies (the container exits): its connection closes and
\* what was queued for it is lost; its record stays as it was.
WorkerCrash(c) ==
    /\ Crashes /\ wproc[c] # "none"
    /\ wproc' = [wproc EXCEPT ![c] = "none"]
    /\ toW' = [toW EXCEPT ![c] = <<>>]
    /\ UNCHANGED <<inst, state, core, host, avail, toC, bound, fd, alive,
                   lockHeld, orc, ops, bogus, used>>

-----------------------------------------------------------------------------
(* The controller process exits without `quit' (so without kill_all) and  *)
(* is started again: S6Controller.__init__ re-reads the hosts with every  *)
(* core but 0 free, starts with no record and a new CommThread.  The     *)
(* containers keep running, their workers cut off from the controller.   *)
ControllerRestart ==
    /\ Restarts /\ ops < MaxOps /\ ops' = ops + 1
    /\ inst' = {}
    /\ avail' = [h \in Hosts |-> H(h)!InitAvail]
    /\ wproc' = [c \in Cids |-> IF wproc[c] = "none" THEN "none" ELSE "orphan"]
    /\ toW' = [c \in Cids |-> <<>>]
    /\ toC' = [c \in Cids |-> <<>>]
    /\ bound' = [c \in Cids |-> None]
    /\ fd' = [c \in Cids |-> None]
    /\ alive' = TRUE
    /\ lockHeld' = FALSE
    /\ orc' = Idle
    /\ UNCHANGED <<state, core, host, bogus, used>>

-----------------------------------------------------------------------------
Orchestrator == SendStep \/ WaitStep \/ SnapshotStep \/ SleepStep \/ NextStage
                \/ InsertStep

Operator == \/ \E c \in Cids, h \in Hosts, pref \in {None} \cup Cores :
                 InitCmd(c, h, pref)
            \/ StartCmd \/ ScaleOutCmd \/ ScaleInCmd
            \/ \E c \in Cids : KillCmd(c)
            \/ KillAllCmd \/ QuitCmd \/ CleanupCmd \/ ControllerRestart

Worker(c) == WorkerHello(c) \/ WorkerRecv(c) \/ WorkerComplete(c)
             \/ WorkerBogus(c) \/ WorkerCrash(c)

Next == \/ Operator
        \/ Orchestrator
        \/ \E c \in Cids : Dispatch(c) \/ Hangup(c) \/ Worker(c)

\* The reactor polls every second, the orchestrator thread and the worker
\* processes keep running; the operator need not issue anything.
Fairness == /\ WF_vars(Orchestrator)
            /\ \A c \in Cids : /\ WF_vars(Dispatch(c))
                               /\ WF_vars(Hangup(c))
                               /\ WF_vars(WorkerHello(c))
                               /\ WF_vars(WorkerRecv(c))
                               /\ WF_vars(WorkerComplete(c))

Spec == Init /\ [][Next]_vars /\ Fairness

-----------------------------------------------------------------------------
TypeOK ==
    /\ inst \subseteq Cids
    /\ state \in [Cids -> L!States]
    /\ core \in [Cids -> Cores]
    /\ host \in [Cids -> Hosts \cup {None}]
    /\ avail \in [Hosts -> [Cores -> BOOLEAN]]
    /\ wproc \in [Cids -> {"none", "boot", "up", "migrating", "orphan"}]
    /\ toW \in [Cids -> Seq(OutMsgs)]
    /\ toC \in [Cids -> Seq(InMsgs)]
    /\ bound \in [Cids -> FdNums \cup {None}]
    /\ fd \in [Cids -> FdNums \cup {None}]
    /\ alive \in BOOLEAN /\ lockHeld \in BOOLEAN
    /\ orc.op \in {"idle", "init", "start", "scale_out", "scale_in", "quit"}
    /\ orc.err \in BOOLEAN
    /\ ops \in 0 .. MaxOps /\ bogus \in 0 .. MaxBogus
    /\ used \subseteq Cids

-----------------------------------------------------------------------------
(* Properties.                                                             *)

\* The scaling loop of the lifecycle, in order.
ScalingCycle == <<ST_NORMAL, ST_PREPARE_SCALING, ST_SCALING,
                  ST_COMPLETED_SCALING, ST_PREPARE_NORMAL>>
InCycle(s) == s \in ToSet(ScalingCycle)
Phase(s) == CHOOSE k \in DOMAIN ScalingCycle : ScalingCycle[k] = s

\* Barrier lockstep (spec 4.3): the stage barriers of scale_out and
\* scale_in keep the workers of the scaling loop at most one step apart,
\* so no worker is, say, SCALING while another is still NORMAL, or back
\* to NORMAL while another is still migrating.
BarrierLockstep ==
    \A c, d \in inst :
       InCycle(state[c]) /\ InCycle(state[d]) =>
          (5 + Phase(state[c]) - Phase(state[d])) % 5 \in {0, 1, 4}

\* The reactor thread never dies: no message a worker sends makes
\* NFInstance.update raise out of CommThread._poll.
ReactorAlive == alive

\* Core allocation (Host.acquire_core / release_core, S6Controller.init and
\* kill): every record holds a core other than 0 that its host marks as
\* taken, and no two records hold the same core of the same host.
CoreExclusive ==
    \A c \in inst : /\ core[c] # 0
                    /\ ~avail[host[c]][core[c]]
                    /\ \A d \in inst \ {c} :
                          <<host[d], core[d]>> # <<host[c], core[c]>>

\* The NFInstance objects the controller holds: those of nf_instances and
\* the one a running init has built but not yet inserted.
Held == inst \cup (IF orc.op = "init" THEN ToSet(orc.tgt) ELSE {})

\* No core is lost: a core other than 0 that a host marks as taken is
\* held by some record on that host, so kill / kill_all can give it back.
NoCoreLeak ==
    \A h \in Hosts, k \in Cores \ {0} :
       ~avail[h][k] => \E c \in Held : host[c] = h /\ core[c] = k

\* Cores of running containers (spec 5: `kill' releases the worker's core
\* and container): no two containers that still run hold the same core of
\* one host, so a core handed out by acquire_core is free of any running
\* worker.  kill_container releases the core before `docker rm'.
RunningCoreExclusive ==
    \A c, d \in Cids :
       c # d /\ wproc[c] # "none" /\ wproc[d] # "none" =>
          <<host[c], core[c]>> # <<host[d], core[d]>>

\* Records are backed by live workers: a record that a worker message has
\* moved past ST_INIT belongs to a container whose worker is connected.
\* _process_hello binds cid_to_fd[cid] to whatever connection said hello
\* and nothing unbinds it, so a hello still buffered from a killed
\* container of the same id would advance a fresh record.
RecordsLive == \A c \in inst : state[c] # ST_INIT => ConnOpen(c)

\* No hello is lost: once worker c has connected, its record has left
\* ST_INIT or the hello is still on its way to the reactor.  A hello
\* dispatched while init has not yet inserted the record (it does so only
\* after `docker run' returned) meets the KeyError path of
\* _process_message and is dropped, and start then waits for ST_HELLO
\* forever.
HelloNotLost ==
    \A c \in inst : ConnOpen(c) =>
       state[c] # ST_INIT \/ \E i \in DOMAIN toC[c] : toC[c][i] = "hello"

\* CommThread.send addresses the fd number cid_to_fd[cid]; _unregister
\* frees that number without removing the entry, and accept hands it to the
\* next connection.  A message the orchestrator sends must still reach only
\* the worker it is sent to, never another worker holding a reused number.
SendsToOwner ==
    [][\A d \in Cids : Len(toW'[d]) > Len(toW[d]) => d = Cur]_vars

\* quit runs tear_down, whose kill_all removes the containers of the records
\* nf_instances holds then; a container whose record kill, a failed init or
\* a restart has already dropped is not among them.  Once the CLI has quit,
\* no worker container of the application is left running.
QuitStopsWorkers == orc.op = "quit" => \A c \in Cids : wproc[c] = "none"

\* send() is only called for ids whose worker has said hello (spec 4.1:
\* the orchestrator avoids the caller error by waiting for HELLO first),
\* so CommThread.lock is never left held by a KeyError in send().
LockFree == ~lockHeld

\* Every start / scale_out / scale_in the operator issues returns: each
\* NFInstance.wait of its stages is eventually satisfied.
OperationReturns == Busy ~> ~Busy

\* The records follow the lifecycle of WorkerLifecycle.
Lifecycle == L!Spec

=============================================================================
