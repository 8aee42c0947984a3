------------------------------ MODULE HomePipe ------------------------------
(***************************************************************************)
(* The home relay's pipe between a mux stream and the local server:        *)
(* pipe_stream and pump_stream over a HomeStream handle, one task per      *)
(* stream, composed with the driver that serves the handles.  A pipe is    *)
(* the whole life of its handle, so the handle's calls are the pipe's      *)
(* steps: a poll of the read half, a poll of the write half, shutdown,     *)
(* reset, and the drop at the end.                                         *)
(*                                                                         *)
(* The local server accepts what it is sent, and writes Reply bytes, in    *)
(* pieces of any size, before it closes.                                   *)
(***************************************************************************)
EXTENDS HomeDriver

CONSTANTS
    Reply,     \* bytes of a reply
    OneThread  \* handles and driver share one thread, so that no step of the
               \* driver falls inside a poll

PipeAssumption ==
    /\ Request \in Nat /\ Reply \in Nat
    /\ HalfCloses \in BOOLEAN /\ MayFail \in BOOLEAN /\ OneThread \in BOOLEAN

VARIABLES
    pipe,      \* where each pump_stream is
    readBuf,   \* HomeStream.read_buffer, its length
    left,      \* bytes of the socket buffer that write_all has yet to stage
    reply      \* bytes the server has yet to write

pipeVars == <<pipe, readBuf, left, reply>>
vars == <<acceptorVars, driverVars, pipeVars>>

Init ==
    /\ DriverInit
    /\ pipe = [s \in Ids |-> "none"]
    /\ readBuf = [s \in Ids |-> 0]
    /\ left = [s \in Ids |-> 0]
    /\ reply = [s \in Ids |-> Reply]

At(s, place)   == pipe[s] = place
GoTo(s, place) == pipe' = [pipe EXCEPT ![s] = place]

\* A poll by the pipe: it may queue commands and leaves the driver alone.
Poll(s, queued) ==
    /\ commands' = commands \o queued
    /\ UNCHANGED <<acceptorVars, status, signals, pending, ready, closing, rounds,
                   progress, turn, peer>>

Live(s) == status[s] = "LIVE"

\* The pipe returns and drops the handle, whose writer was not shut down: a
\* driver that has stopped hears nothing of it.
CancelOnDrop(s) == IF turn = "stopped" THEN <<>> ELSE <<Command("Reset", s, 0)>>

Return(s, queued) ==
    /\ GoTo(s, "done")
    /\ Poll(s, queued)
    /\ readBuf' = [readBuf EXCEPT ![s] = 0]
    /\ left' = [left EXCEPT ![s] = 0]
    /\ UNCHANGED <<staged, waker, reply>>

\* pipe_stream: connect to the local server, or reset the stream.
Connect(s) ==
    /\ At(s, "none") /\ status[s] # "none"
    /\ \/ /\ GoTo(s, "select")
          /\ Poll(s, <<>>)
          /\ UNCHANGED <<staged, waker, readBuf, left, reply>>
       \/ /\ MayFail
          /\ Return(s, CancelOnDrop(s))

-----------------------------------------------------------------------------
(* The tunnel half of the select: HomeStream::poll_read.                   *)

\* A signal is taken only when the buffer is empty.
TakeSignal(s) ==
    /\ At(s, "select") /\ Live(s) /\ readBuf[s] = 0
    /\ signals[s] # <<>> /\ Head(signals[s]).kind = "Data"
    /\ signals' = [signals EXCEPT ![s] = Tail(@)]
    /\ readBuf' = [readBuf EXCEPT ![s] = Head(signals[s]).n]
    /\ UNCHANGED <<acceptorVars, status, staged, waker, commands, pending, ready, closing,
                   rounds, progress, turn, peer, pipe, left, reply>>

\* Bytes are reported as consumed when they are read, and go to the server.
ReadTunnel(s) ==
    LET n == IF readBuf[s] <= Chunk THEN readBuf[s] ELSE Chunk IN
    /\ At(s, "select") /\ Live(s) /\ n > 0
    /\ \/ /\ Poll(s, <<Command("Consumed", s, n)>>)
          /\ readBuf' = [readBuf EXCEPT ![s] = @ - n]
          /\ UNCHANGED <<staged, waker, pipe, left, reply>>
       \/ /\ MayFail   \* the server's socket refuses them
          /\ Return(s, <<Command("Consumed", s, n)>> \o CancelOnDrop(s))

\* The end of the peer's direction ends the pipe, reply or no reply.
TunnelEof(s) ==
    /\ At(s, "select") /\ Live(s) /\ readBuf[s] = 0
    /\ signals[s] # <<>> /\ Head(signals[s]).kind = "ReadEof"
    /\ Return(s, CancelOnDrop(s))

TunnelError(s) ==
    /\ At(s, "select") /\ status[s] \in {"RESET", "GONE"}
    /\ Return(s, CancelOnDrop(s))

-----------------------------------------------------------------------------
(* The socket half: read from the server, write_all to the stream.         *)

ReadSocket(s) ==
    /\ At(s, "select")
    /\ \E n \in 1..reply[s] :
           /\ n <= Chunk
           /\ reply' = [reply EXCEPT ![s] = @ - n]
           /\ left' = [left EXCEPT ![s] = n]
    /\ GoTo(s, "writing")
    /\ Poll(s, <<>>)
    /\ UNCHANGED <<staged, waker, readBuf>>

\* The server has closed: shut the stream down.  On a stream that has ended
\* shutdown fails, and the drop cancels it instead.
SocketEof(s) ==
    /\ At(s, "select") /\ reply[s] = 0
    /\ Return(s, IF Live(s) THEN <<Command("Close", s, 0)>> ELSE CancelOnDrop(s))

SocketError(s) ==
    /\ MayFail /\ At(s, "select")
    /\ Return(s, CancelOnDrop(s))

\* Mutant: the stage takes one byte more than its bound.
AvailableOver(s) == (StageCap + 1) - staged[s]

Available(s) == StageCap - staged[s]

\* poll_write with room in the stage: reserve, and queue what fits.
Stage(s) ==
    LET n == IF left[s] <= Available(s) THEN left[s] ELSE Available(s) IN
    /\ At(s, "writing") /\ Live(s) /\ Available(s) > 0
    /\ staged' = [staged EXCEPT ![s] = @ + n]
    /\ left' = [left EXCEPT ![s] = @ - n]
    /\ IF left[s] = n THEN GoTo(s, "select") ELSE UNCHANGED pipe
    /\ Poll(s, <<Command("Write", s, n)>>)
    /\ UNCHANGED <<waker, readBuf, reply>>

\* reserve_staging finds the stage full; it stores the waker in a second step.
SeeFull(s) ==
    /\ At(s, "writing") /\ Live(s) /\ Available(s) = 0
    /\ IF OneThread THEN GoTo(s, "parked") /\ waker' = [waker EXCEPT ![s] = TRUE]
                    ELSE GoTo(s, "parking") /\ UNCHANGED waker
    /\ Poll(s, <<>>)
    /\ UNCHANGED <<staged, readBuf, left, reply>>

Park(s) ==
    /\ At(s, "parking")
    /\ GoTo(s, "parked")
    /\ waker' = [waker EXCEPT ![s] = TRUE]
    /\ Poll(s, <<>>)
    /\ UNCHANGED <<staged, readBuf, left, reply>>

\* The waker has been taken, so the task is polled again.
Wakened(s) ==
    /\ At(s, "parked") /\ ~waker[s]
    /\ GoTo(s, "writing")
    /\ Poll(s, <<>>)
    /\ UNCHANGED <<staged, waker, readBuf, left, reply>>

WriteError(s) ==
    /\ At(s, "writing") /\ ~Live(s)
    /\ Return(s, CancelOnDrop(s))

-----------------------------------------------------------------------------

PipeStep(s) ==
    \/ Connect(s) \/ TakeSignal(s) \/ ReadTunnel(s) \/ TunnelEof(s) \/ TunnelError(s)
    \/ ReadSocket(s) \/ SocketEof(s) \/ SocketError(s)
    \/ Stage(s) \/ SeeFull(s) \/ Park(s) \/ Wakened(s) \/ WriteError(s)

PeerFrames(s) ==
    {Frame(s, {"OPEN", "DATA"}, n) : n \in 0..Window}
    \cup {DataFrame(s, n) : n \in 1..Window}
    \cup {WindowFrame(s, n) : n \in 1..Window}
    \cup {CloseFrame(s), ResetFrame(s, "CANCEL")}

PeerSends == \E s \in Ids : \E f \in PeerFrames(s) : ReadFrame(f) /\ UNCHANGED pipeVars

DriverStep == (Take \/ Flush) /\ UNCHANGED pipeVars

CarrierEnds == Stop /\ UNCHANGED pipeVars

Next == PeerSends \/ DriverStep \/ CarrierEnds \/ (\E s \in Ids : PipeStep(s))

Spec == Init /\ [][Next]_vars

\* The runtime polls every task that can move, the server writes its reply,
\* and the peer reads it and grants the credit back.
GrantsBack(s) ==
    \E f \in PeerFrames(s) :
        f.flags = {"WINDOW"} /\ ReadFrame(f) /\ UNCHANGED pipeVars

FairSpec ==
    /\ Spec
    /\ WF_vars(DriverStep)
    /\ \A s \in Ids : SF_vars(GrantsBack(s)) /\ WF_vars(PipeStep(s))

-----------------------------------------------------------------------------

Bytes(op, s) ==
    FoldSeq(LAMBDA c, sum : sum + (IF c.op = op /\ c.sid = s THEN c.n ELSE 0), 0, commands)

Signalled(s) ==
    FoldSeq(LAMBDA g, sum : sum + g.n, 0, signals[s])

Queued(op, s) == \E i \in 1..Len(commands) : commands[i] = Command(op, s, 0)
IsReady(s)    == \E i \in 1..Len(ready) : ready[i] = s

\* Every variable keeps its type.
TypeOK ==
    /\ DOMAIN streams \subseteq Ids
    /\ \A s \in DOMAIN streams : streams[s] \in StreamState
    /\ status \in [Ids -> {"none", "LIVE", "RESET", "GONE"}]
    /\ staged \in [Ids -> 0..StageCap]
    /\ waker \in [Ids -> BOOLEAN]
    /\ pending \in [Ids -> 0..StageCap]
    /\ closing \subseteq Ids
    /\ turn \in {"select", "flush", "close", "stopped"}
    /\ pipe \in [Ids -> {"none", "select", "writing", "parking", "parked", "done"}]
    /\ readBuf \in [Ids -> 0..Window]
    /\ left \in [Ids -> 0..Chunk]
    /\ reply \in [Ids -> 0..Reply]

\* While the driver runs, the bytes charged to a stream's stage are exactly
\* those in its queued Write commands and in the driver's queue: none is
\* released twice or leaked by a reset, a cancel or a discard.
StageIsAccounted ==
    turn # "stopped" => \A s \in Ids : staged[s] = pending[s] + Bytes("Write", s)

\* A driver that waits for its next event with streams still ready has a
\* Wake queued for itself, so that no ready stream is left behind.
ReadyMeansWake ==
    (turn = "select" /\ ready # <<>>) => Queued("Wake", 0)

\* A ready stream whose handle is live has bytes or a shutdown to send, and
\* the acceptor still accepts them: the Closed arms of flush_ready are dead.
ReadyIsServable ==
    turn \in {"select", "flush"} =>
        \A s \in Ids : (IsReady(s) /\ Live(s)) =>
            /\ pending[s] > 0 \/ s \in closing
            /\ Known(s) /\ ~streams[s].localClosed

\* Bytes without credit wait outside ready, and only for credit: bytes the
\* driver holds for a live stream that is not ready exceed what its credit
\* covers, so a WINDOW is what they wait for.
HeldBytesLackCredit ==
    turn = "select" =>
        \A s \in Ids : (pending[s] > 0 /\ ~IsReady(s) /\ Live(s)) =>
            ~MaySend(s, NextChunk(s))

\* The bytes a handle has yet to report as consumed, or has reported in a
\* queued command, are the bytes the acceptor holds for it: no Consumed can
\* exceed them, which is what stops the driver.
ConsumedIsHeld ==
    turn # "stopped" => \A s \in DOMAIN streams :
        LET unread == IF At(s, "done") THEN 0 ELSE readBuf[s] + Signalled(s) IN
        /\ Bytes("Consumed", s) + unread <= streams[s].held
        /\ ~At(s, "done") => Bytes("Consumed", s) + unread = streams[s].held

\* The peer sees CLOSE only after every byte of the reply.
CloseEndsReply == \A s \in Ids : peer[s].saw = "closed" => peer[s].got = Reply

\* When a pipe has returned and its peer has ended the stream too, an idle
\* driver has given the stream's slot back, and keeps neither bytes nor a
\* pending CLOSE for it.  (After a peer's RESET it may keep both until the
\* carrier ends: only a Reset command or a flush of the stream drops them.)
SlotIsFreed ==
    (turn = "select" /\ commands = <<>>) =>
        \A s \in Ids : (At(s, "done") /\ Over(peer[s])) =>
            /\ ~Known(s)
            /\ peer[s].sent # "reset" => pending[s] = 0 /\ s \notin closing

\* A reply of any length reaches the peer whole, and then its CLOSE, however
\* much longer than the stage and the window it is: Live leads to ReplyArrived.
ReplyArrived(s) == peer[s].saw = "closed" /\ peer[s].got = Reply

\* session.md:229 asks that half-close keep its meaning when streams are
\* forwarded to a local server: a stream whose peer has only closed its own
\* direction is not reset by the home.
HalfCloseIsNotReset ==
    \A s \in Ids : peer[s].sent = "closed" => peer[s].saw # "reset"

\* framing.md:47 says of RESET that the stream is aborted: the pipe of a
\* stream that its peer reset returns.
ResetEndsPipe ==
    \A s \in Ids : (status[s] = "RESET") ~> At(s, "done")

\* config.rs:24 stages at most StageCap bytes before it holds a writer back:
\* a writer is not held back for good while its stage has room.
BackpressureEnds ==
    \A s \in Ids : (At(s, "parked") /\ Available(s) > 0) ~> ~At(s, "parked")
=============================================================================
