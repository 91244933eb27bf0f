------------------------------- MODULE Framing --------------------------------
(***************************************************************************)
(* The framing of the control channel: CommThread.send wraps a message as *)
(* "%04d%s\x00" % (len(msg) + 5, msg), and the EPOLLIN branch of          *)
(* CommThread._poll reads a worker's connection with recv(1024) and cuts  *)
(* frames out of CommThread.received[fd].  Here one worker writes frames  *)
(* into its end of the connection and the reactor reads and dispatches.   *)
(*                                                                         *)
(* A byte is a record: a decimal digit of a length header ("d", with its  *)
(* value), a byte of a JSON payload ("p") or the terminating NUL ("z"),   *)
(* tagged with the frame it belongs to so that properties can tell which  *)
(* frame a byte came from.  json.loads succeeds exactly on the whole      *)
(* payload of one frame.                                                   *)
(***************************************************************************)
EXTENDS Naturals, Sequences, SequencesExt

CONSTANTS Width,       \* digits of the length field ("%04d": 4)
          PayloadLens, \* the lengths of the payloads a worker sends
          MaxFrames,   \* bound on the frames a worker sends
          MaxInFlight, \* frames a worker sends before the first is dispatched
          Splits       \* TRUE: a recv may end inside a frame

ASSUME Width \in Nat \ {0} /\ PayloadLens \subseteq Nat /\ Splits \in BOOLEAN

VARIABLES out,         \* bytes the worker has written and the reactor not read
          received,    \* CommThread.received[fd]
          dispatched,  \* the frames _process_message was called with, in order
          sentLens,    \* the payload length of every frame sent (history)
          alive,       \* the reactor thread is still running
          open,        \* fd is still registered with epoll
          closed       \* the worker has closed its end

vars == <<out, received, dispatched, sentLens, alive, open, closed>>

-----------------------------------------------------------------------------
(* Conversions.                                                            *)

Digit(v, f) == [t |-> "d", v |-> v, f |-> f]

RECURSIVE ToDigits(_)

\* Mutant: numbers below 100 are taken as one digit.
ToDigitsWide(v) == IF v < 100 THEN <<v>> ELSE ToDigits(v \div 10) \o <<v % 10>>

ToDigits(v) == IF v < 10 THEN <<v>> ELSE ToDigits(v \div 10) \o <<v % 10>>

\* "%0<Width>d" % v: the decimal digits of v, zero-padded to Width.
Pad(v, f) == LET ds == ToDigits(v)
             IN [k \in 1 .. Max({0, Width - Len(ds)}) |-> Digit(0, f)]
                \o [k \in DOMAIN ds |-> Digit(ds[k], f)]

\* The length field of msg_wrap: len(msg) + 5 for the 4-digit field.
LengthField(n, f) == Pad(n + Width + 1, f)

\* msg_wrap of the f-th frame, whose payload has n bytes.
Encode(f, n) == LengthField(n, f)
                \o [k \in 1 .. n |-> [t |-> "p", v |-> 0, f |-> f]]
                \o << [t |-> "z", v |-> 0, f |-> f] >>

\* int(s, 10): defined on a non-empty string of digits.
IsNum(s) == s # <<>> /\ \A k \in DOMAIN s : s[k].t = "d"
NumVal(s) == FoldLeft(LAMBDA acc, b : 10 * acc + b.v, 0, s)

\* s[a:b] in Python: negative bounds count from the end, both are clipped.
PySlice(s, a, b) ==
    LET Norm(i) == IF i < 0 THEN Max({0, Len(s) + i}) ELSE Min({i, Len(s)})
    IN SubSeq(s, Norm(a) + 1, Norm(b))

\* json.loads(s) succeeds: s is the whole payload of one frame.
IsPayload(s) == /\ s # <<>>
                /\ \A k \in DOMAIN s : s[k].t = "p" /\ s[k].f = s[1].f
                /\ Len(s) = sentLens[s[1].f]

\* msg_len = int(data[0:4], 10): the length field of the chunk just read.
Header(data) == PySlice(data, 0, Width)

\* Mutant: the frame is complete only once more than msg_len bytes are in.
HasFrameStrict(buf, msgLen) == msgLen < Len(buf)

\* if msg_len <= len(self.received[fd])
HasFrame(buf, msgLen) == msgLen <= Len(buf)

\* Mutant: the slice keeps the terminating NUL.
BodyWithNul(buf, msgLen) == PySlice(buf, Width, msgLen)

\* self.received[fd][4:msg_len - 1]  # Remove \00
Body(buf, msgLen) == PySlice(buf, Width, msgLen - 1)

\* Mutant: the dispatched frame is left in received.
RestKept(buf, msgLen) == buf

\* self.received[fd] = self.received[fd][msg_len:]
Rest(buf, msgLen) == PySlice(buf, msgLen, Len(buf))

-----------------------------------------------------------------------------
Init == /\ out = <<>>
        /\ received = <<>>
        /\ dispatched = <<>>
        /\ sentLens = <<>>
        /\ alive = TRUE
        /\ open = TRUE
        /\ closed = FALSE

\* The worker writes one frame to its socket.
Emit(n) ==
    /\ ~closed
    /\ Len(sentLens) < MaxFrames
    /\ Len(sentLens) - Len(dispatched) < MaxInFlight
    /\ out' = out \o Encode(Len(sentLens) + 1, n)
    /\ sentLens' = Append(sentLens, n)
    /\ UNCHANGED <<received, dispatched, alive, open, closed>>

\* The worker's container is removed: its end of the connection closes.
Close ==
    /\ ~closed
    /\ closed' = TRUE
    /\ UNCHANGED <<out, received, dispatched, sentLens, alive, open>>

\* How many bytes one recv(1024) returns: any number the stream holds, or
\* without Splits only a number that ends on a frame boundary.
ReadSizes == IF Splits THEN 1 .. Min({Len(out), 1024})
             ELSE {k \in 1 .. Len(out) : out[k].t = "z"}

\* The EPOLLIN branch of _poll with data: append to received, take the
\* length from the first Width bytes of the chunk just read, and if
\* received holds that many bytes, json.loads the payload, dispatch it
\* and drop the frame.  A ValueError of int() or json.loads leaves run()
\* and ends the reactor thread.
Recv ==
    /\ alive /\ open /\ out # <<>>
    /\ \E k \in ReadSizes :
          LET data == SubSeq(out, 1, k)
              buf == received \o data
              msgLen == NumVal(Header(data))
              body == Body(buf, msgLen)
          IN /\ out' = SubSeq(out, k + 1, Len(out))
             /\ IF ~IsNum(Header(data))
                   \/ (HasFrame(buf, msgLen) /\ ~IsPayload(body))
                  THEN /\ alive' = FALSE
                       /\ UNCHANGED <<received, dispatched>>
                ELSE IF HasFrame(buf, msgLen)
                  THEN /\ dispatched' = Append(dispatched, body[1].f)
                       /\ received' = Rest(buf, msgLen)
                       /\ UNCHANGED alive
                ELSE /\ received' = buf
                     /\ UNCHANGED <<dispatched, alive>>
    /\ UNCHANGED <<sentLens, open, closed>>

\* recv returns '' on the closed connection (or EPOLLHUP): _unregister.
Unregister ==
    /\ alive /\ open /\ out = <<>> /\ closed
    /\ open' = FALSE
    /\ UNCHANGED <<out, received, dispatched, sentLens, alive, closed>>

Next == \/ \E n \in PayloadLens : Emit(n)
        \/ Close \/ Recv \/ Unregister

\* The reactor polls for as long as it runs; the worker need not write.
Fairness == WF_vars(Recv) /\ WF_vars(Unregister)

Spec == Init /\ [][Next]_vars /\ Fairness

-----------------------------------------------------------------------------
Bytes == {[t |-> "d", v |-> d, f |-> f] : d \in 0 .. 9, f \in 1 .. MaxFrames}
         \cup {[t |-> k, v |-> 0, f |-> f] : k \in {"p", "z"},
                                              f \in 1 .. MaxFrames}

TypeOK ==
    /\ out \in Seq(Bytes) /\ received \in Seq(Bytes)
    /\ dispatched \in Seq(1 .. MaxFrames)
    /\ sentLens \in Seq(PayloadLens) /\ Len(sentLens) <= MaxFrames
    /\ alive \in BOOLEAN /\ open \in BOOLEAN /\ closed \in BOOLEAN

\* _process_message is called with the worker's frames in the order they
\* were sent, each once and none skipped: however recv splits or joins
\* the stream, the reactor never dispatches a stale or a foreign frame.
DispatchInOrder == dispatched = [i \in DOMAIN dispatched |-> i]

\* The reactor thread survives every way recv can cut the byte stream.
ReaderAlive == alive

\* Every frame the worker sends is eventually dispatched.
EveryFrameDispatched ==
    \A i \in 1 .. MaxFrames : Len(sentLens) >= i ~> Len(dispatched) >= i

\* The length field round-trips: the first Width bytes of the msg_wrap of
\* every frame sent parse back to that frame's length len(msg) + 5.
LengthFieldRoundTrip ==
    \A i \in DOMAIN sentLens :
       NumVal(Header(LengthField(sentLens[i], i)))
          = sentLens[i] + Width + 1

================================================================================
