------------------------------- MODULE CommSend -------------------------------
(***************************************************************************)
(* The write path of one worker connection in CommThread: send(), called  *)
(* by the orchestrator thread, and the EPOLLOUT branch of _poll, run by   *)
(* the reactor thread.  They share tosend[fd] under CommThread.lock and   *)
(* the epoll interest mask of fd, which each of them sets without a lock. *)
(*                                                                         *)
(* A frame ("%04d" length, payload, NUL) is abstracted to two tokens, its *)
(* header and the rest, so that a partial socket.send can end inside a    *)
(* frame.  The read path of the same fd is modelled in Framing.           *)
(***************************************************************************)
EXTENDS Naturals, Sequences

CONSTANTS Msgs,      \* the messages the orchestrator sends to this worker
          MaxMsgs,   \* bound on the calls of send()
          Lockstep   \* TRUE: a send waits for the reply to the previous one

ASSUME MaxMsgs \in Nat /\ Lockstep \in BOOLEAN

VARIABLES tosend,    \* CommThread.tosend[fd]
          wire,      \* what socket.send has handed to the worker, in order
          lock,      \* CommThread.lock: "free" or held by "S"ender / "R"eactor
          mask,      \* the epoll interest events of fd
          spc,       \* where the orchestrator thread is in send()
          smsg,      \* the message of the send() in progress
          rpc,       \* where the reactor thread is in _poll for fd
          hist       \* every message send() has queued, in order (history)

vars == <<tosend, wire, lock, mask, spc, smsg, rpc, hist>>

\* msg_wrap: the "%04d" length header and the payload with its NUL.
Frame(m) == << <<m, "len">>, <<m, "body">> >>

\* The messages the worker has received whole: one per body token.
Received(w) == LET bodies == SelectSeq(w, LAMBDA t : t[2] = "body")
               IN [i \in DOMAIN bodies |-> bodies[i][1]]

Init == /\ tosend = <<>>
        /\ wire = <<>>
        /\ lock = "free"
        /\ mask = {"IN"}
        /\ spc = "idle"
        /\ smsg = CHOOSE m \in Msgs : TRUE
        /\ rpc = "poll"
        /\ hist = <<>>

-----------------------------------------------------------------------------
(* send(cid, msg), on the orchestrator thread.                             *)

\* With Lockstep the orchestrator calls send() for this worker again only
\* after NFInstance.wait has seen the reply to the previous message, which
\* the reactor dispatches on a later pass of its loop than the write.
ReplyAwaited == Received(wire) = hist /\ tosend = <<>> /\ rpc = "poll"

\* self.lock.acquire(); fd = self.cid_to_fd[cid]
SendAcquire(m) ==
    /\ spc = "idle" /\ lock = "free"
    /\ Len(hist) < MaxMsgs
    /\ Lockstep => ReplyAwaited
    /\ lock' = "S" /\ spc' = "locked" /\ smsg' = m
    /\ UNCHANGED <<tosend, wire, mask, rpc, hist>>

\* Mutant: msg is queued without its length header.
SendAppendUnframed ==
    /\ spc = "locked"
    /\ tosend' = Append(tosend, smsg)
    /\ hist' = Append(hist, smsg)
    /\ lock' = "free" /\ spc' = "modify"
    /\ UNCHANGED <<wire, mask, smsg, rpc>>

\* self.tosend[fd] += msg_wrap; self.lock.release()
SendAppend ==
    /\ spc = "locked"
    /\ tosend' = tosend \o Frame(smsg)
    /\ hist' = Append(hist, smsg)
    /\ lock' = "free" /\ spc' = "modify"
    /\ UNCHANGED <<wire, mask, smsg, rpc>>

\* Mutant: send() returns without re-arming EPOLLOUT.
SendModifyNothing ==
    /\ spc = "modify"
    /\ spc' = "idle"
    /\ UNCHANGED <<tosend, wire, lock, mask, smsg, rpc, hist>>

\* self.epoll.modify(fd, EPOLLIN | EPOLLOUT), outside the lock.
SendModify ==
    /\ spc = "modify"
    /\ mask' = {"IN", "OUT"} /\ spc' = "idle"
    /\ UNCHANGED <<tosend, wire, lock, smsg, rpc, hist>>

-----------------------------------------------------------------------------
(* The EPOLLOUT branch of _poll, on the reactor thread.  The socket is    *)
(* writable whenever it is polled; a readable fd takes the EPOLLIN branch *)
(* instead, which Framing models.                                          *)

\* epoll.poll(1) reports EPOLLOUT for fd.
Poll ==
    /\ rpc = "poll" /\ "OUT" \in mask
    /\ rpc' = "out"
    /\ UNCHANGED <<tosend, wire, lock, mask, spc, smsg, hist>>

\* self.lock.acquire(); data = self.tosend[fd]
OutAcquire ==
    /\ rpc = "out" /\ lock = "free"
    /\ lock' = "R" /\ rpc' = "locked"
    /\ UNCHANGED <<tosend, wire, mask, spc, smsg, hist>>

\* if not data: print(...); continue -- with the lock still held.
NoData ==
    /\ rpc = "locked" /\ tosend = <<>>
    /\ rpc' = "poll"
    /\ UNCHANGED <<tosend, wire, lock, mask, spc, smsg, hist>>

\* Mutant: the tail of tosend is not dropped after a send.
OutSendNoTrim ==
    /\ rpc = "locked" /\ tosend # <<>>
    /\ \E sent \in 1 .. Len(tosend) :
          /\ wire' = wire \o SubSeq(tosend, 1, sent)
          /\ rpc' = IF sent = Len(tosend) THEN "modin" ELSE "poll"
    /\ lock' = "free"
    /\ UNCHANGED <<tosend, mask, spc, smsg, hist>>

\* Mutant: a send that may write nothing (sent = 0) is taken as progress.
OutSendZero ==
    /\ rpc = "locked" /\ tosend # <<>>
    /\ \E sent \in 0 .. Len(tosend) :
          /\ wire' = wire \o SubSeq(tosend, 1, sent)
          /\ tosend' = SubSeq(tosend, sent + 1, Len(tosend))
          /\ rpc' = IF sent = Len(tosend) THEN "modin" ELSE "poll"
    /\ lock' = "free"
    /\ UNCHANGED <<mask, spc, smsg, hist>>

\* Mutant: the lock is not released after the write.
OutSendKeepLock ==
    /\ rpc = "locked" /\ tosend # <<>>
    /\ \E sent \in 1 .. Len(tosend) :
          /\ wire' = wire \o SubSeq(tosend, 1, sent)
          /\ tosend' = SubSeq(tosend, sent + 1, Len(tosend))
          /\ rpc' = IF sent = Len(tosend) THEN "modin" ELSE "poll"
    /\ UNCHANGED <<lock, mask, spc, smsg, hist>>

\* sent = sock.send(data); self.tosend[fd] = self.tosend[fd][sent:];
\* self.lock.release(); and EPOLLOUT is dropped once all of data is sent.
OutSend ==
    /\ rpc = "locked" /\ tosend # <<>>
    /\ \E sent \in 1 .. Len(tosend) :
          /\ wire' = wire \o SubSeq(tosend, 1, sent)
          /\ tosend' = SubSeq(tosend, sent + 1, Len(tosend))
          /\ rpc' = IF sent = Len(tosend) THEN "modin" ELSE "poll"
    /\ lock' = "free"
    /\ UNCHANGED <<mask, spc, smsg, hist>>

\* if len(data) == sent: self.epoll.modify(fd, EPOLLIN)
ModIn ==
    /\ rpc = "modin"
    /\ mask' = {"IN"} /\ rpc' = "poll"
    /\ UNCHANGED <<tosend, wire, lock, spc, smsg, hist>>

-----------------------------------------------------------------------------
Sender == (\E m \in Msgs : SendAcquire(m)) \/ SendAppend \/ SendModify
Reactor == Poll \/ OutAcquire \/ NoData \/ OutSend \/ ModIn

Next == Sender \/ Reactor

\* The reactor loops in run() for as long as it lives, and a thread inside
\* send() runs on; the orchestrator need not call send() again.
Fairness == /\ WF_vars(Reactor)
            /\ WF_vars(SendAppend) /\ WF_vars(SendModify)

Spec == Init /\ [][Next]_vars /\ Fairness

-----------------------------------------------------------------------------
Tokens == {<<m, part>> : m \in Msgs, part \in {"len", "body"}}

TypeOK ==
    /\ tosend \in Seq(Tokens) /\ wire \in Seq(Tokens)
    /\ lock \in {"free", "S", "R"}
    /\ mask \in {{"IN"}, {"IN", "OUT"}}
    /\ spc \in {"idle", "locked", "modify"} /\ smsg \in Msgs
    /\ rpc \in {"poll", "out", "locked", "modin"}
    /\ hist \in Seq(Msgs) /\ Len(hist) <= MaxMsgs

\* CommThread.lock is held only by a thread inside its critical section:
\* by send() between acquire and release, by the EPOLLOUT branch between
\* acquire and the release after sock.send.  A holder that has left its
\* critical section blocks every later send() and EPOLLOUT for good.
NoLockLeak ==
    /\ lock = "S" <=> spc = "locked"
    /\ lock = "R" <=> rpc = "locked"

\* No lost wake-up: once send() has queued bytes and re-armed the mask,
\* EPOLLOUT stays armed until the reactor writes them -- the reactor's
\* modify(EPOLLIN) after draining must not disarm bytes queued after its
\* snapshot of tosend.
NoLostWakeup ==
    tosend # <<>> /\ spc = "idle" => "OUT" \in mask \/ rpc \in {"out", "locked"}

Ch == INSTANCE Channel WITH sent <- hist, recvd <- Received(wire)

\* The bytes socket.send writes are the frames send() queued, in order,
\* none lost or written twice: a prefix of the queued messages.
ChannelSafe == Ch!SafeSpec

\* Every message send() queued is eventually written to the worker.
Written == Ch!Spec

================================================================================
