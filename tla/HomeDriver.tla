----------------------------- MODULE HomeDriver -----------------------------
(***************************************************************************)
(* spl-home's tokio side of a carrier: the driver task that owns the       *)
(* acceptor and the carrier, and the HomeStream handles that talk to it    *)
(* through a command queue, a signal queue per stream, and the atomics of  *)
(* StreamStatus.  One turn of the driver takes an inbound frame or a       *)
(* command and then flushes the ready streams, one round each; handles run *)
(* between any two awaits of the driver.                                   *)
(*                                                                         *)
(* Frames written to the carrier update what the peer has seen.  The peer  *)
(* is one that keeps to the protocol.                                      *)
(***************************************************************************)
EXTENDS MuxAcceptor, SequencesExt

CONSTANTS
    Ids,       \* stream ids the peer opens
    StageCap,  \* MAX_STAGED_WRITE_BYTES_PER_STREAM
    Request,   \* bound on the bytes of a request
    HalfCloses,\* the peer may close its direction before the reply is over
    MayFail    \* resets, carrier loss and local socket errors happen

\* The stage of a stream holds more than one chunk: 1 MiB against 64 KiB.
StageAssumption == StageCap \in Nat /\ StageCap > Chunk

VARIABLES
    status,    \* StreamStatus.state per id, "none" before the stream opens
    staged,    \* StreamStatus.staged_bytes
    waker,     \* a waker is stored in StreamStatus.write_waker
    signals,   \* the signal queue of each handle
    commands,  \* the driver's command queue
    pending,   \* bytes queued in the driver; 0 when the stream has no entry
    ready,     \* streams to flush
    closing,   \* streams whose writer was shut down
    rounds,    \* rounds left in this flush_ready
    progress,  \* made_progress
    turn,      \* "select", "flush", or "stopped"
    peer       \* what the peer of each stream has sent and seen

driverVars == <<status, staged, waker, signals, commands, pending, ready, closing,
                rounds, progress, turn, peer>>

\* A peer's view of a stream: whether it has opened, closed or reset it, the
\* request bytes it sent, its credit, the bytes it owes a WINDOW for, the
\* bytes it got, and how the home ended its direction.
FreshPeer == [sent |-> "none", bytes |-> 0, credit |-> Window, owes |-> 0, got |-> 0,
              saw |-> "open"]

Command(op, s, n) == [op |-> op, sid |-> s, n |-> n]
Signal(kind, n)   == [kind |-> kind, n |-> n]

DriverInit ==
    /\ AcceptorInit
    /\ status = [s \in Ids |-> "none"]
    /\ staged = [s \in Ids |-> 0]
    /\ waker = [s \in Ids |-> FALSE]
    /\ signals = [s \in Ids |-> <<>>]
    /\ commands = <<>>
    /\ pending = [s \in Ids |-> 0]
    /\ ready = <<>> /\ closing = {}
    /\ rounds = 0 /\ progress = FALSE
    /\ turn = "select"
    /\ peer = [s \in Ids |-> FreshPeer]

-----------------------------------------------------------------------------
(* deliver_output: frames to the carrier, then events to the handles.      *)

SeenBy(p, f) ==
    CASE f.flags = {"DATA"}   -> [p EXCEPT !.got = @ + f.len, !.owes = @ + f.len]
      [] f.flags = {"CLOSE"}  -> [p EXCEPT !.saw = "closed"]
      [] f.flags = {"RESET"}  -> [p EXCEPT !.saw = "reset"]
      [] f.flags = {"WINDOW"} -> [p EXCEPT !.credit = @ + f.credit]

StatusAfter(s, events) ==
    IF \E i \in 1..Len(events) : events[i].kind = "Reset" THEN "RESET"
    ELSE IF \E i \in 1..Len(events) : events[i].kind = "Opened" THEN "LIVE"
    ELSE status[s]

SignalOf(event) ==
    CASE event.kind = "Data"       -> Signal("Data", event.len)
      [] event.kind = "ReadClosed" -> Signal("ReadEof", 0)
      [] event.kind = "Reset"      -> Signal("Reset", 0)

SignalsOf(events) ==
    [i \in 1..Len(SelectSeq(events, LAMBDA e : e.kind # "Opened")) |->
        SignalOf(SelectSeq(events, LAMBDA e : e.kind # "Opened")[i])]

\* The peer's view of a stream, with the frame of this step if there is one.
Shown(p) == IF out'.frames = <<>> THEN p ELSE SeenBy(p, out'.frames[1])

DeliverEvents(s) ==
    /\ status' = [status EXCEPT ![s] = StatusAfter(s, out'.events)]
    /\ signals' = [signals EXCEPT ![s] = @ \o SignalsOf(out'.events)]

Deliver ==
    LET s == out'.sid IN
    /\ peer' = [peer EXCEPT ![s] = Shown(@)]
    /\ DeliverEvents(s)

NothingDelivered == UNCHANGED <<peer, status, signals>>

-----------------------------------------------------------------------------
(* StreamStatus.                                                           *)

\* release_staging: give the bytes back and wake the writer, if it has
\* stored its waker.
ReleaseStaging(s, n) ==
    /\ staged' = [staged EXCEPT ![s] = @ - n]
    /\ waker' = [waker EXCEPT ![s] = FALSE]

NothingReleased == UNCHANGED <<staged, waker>>

PushReady(s) == IF \E i \in 1..Len(ready) : ready[i] = s THEN ready ELSE Append(ready, s)

\* Mutant: the discarded bytes stay charged to the stage.
DiscardPendingLeaky(s) ==
    /\ pending' = [pending EXCEPT ![s] = 0]
    /\ closing' = closing \ {s}
    /\ NothingReleased

\* discard_pending_stream
DiscardPending(s) ==
    /\ pending' = [pending EXCEPT ![s] = 0]
    /\ closing' = closing \ {s}
    /\ IF pending[s] > 0 THEN ReleaseStaging(s, pending[s]) ELSE NothingReleased

-----------------------------------------------------------------------------
(* The driver's turn.                                                      *)

\* Every turn but the one that skips it goes on to flush what is ready now.
BeginFlush == turn' = "flush" /\ rounds' = Len(ready') /\ progress' = FALSE

\* Mutant: a WINDOW does not make its stream ready.
WritableNever(f) == FALSE

\* mark_writable_streams: a WINDOW that was accepted makes its stream ready
\* if bytes are waiting for it.
Writable(f) ==
    /\ f.flags = {"WINDOW"} /\ Known(f.sid) /\ ~f.bad /\ CreditFits(f.sid, f.credit)
    /\ pending[f.sid] > 0

MarkWritable(f) == ready' = IF Writable(f) THEN PushReady(f.sid) ELSE ready

\* The frames a peer that keeps to the protocol may send next.  It counts
\* the bytes of its request, spends no more than its credit, and stops once
\* the stream is over for it.
Over(p) == p.sent = "reset" \/ p.saw = "reset" \/ (p.sent = "closed" /\ p.saw = "closed")

PeerFrame(s, f) ==
    LET p == peer[s] IN
    /\ ~Over(p)
    /\ \/ /\ p.sent = "none" /\ (\A t \in Ids : t < s => peer[t].sent # "none")
          /\ \E n \in 0..(IF Request <= Window THEN Request ELSE Window) :
                 f = Frame(s, {"OPEN", "DATA"}, n)
       \/ /\ p.sent = "open"
          /\ \E n \in 1..p.credit : p.bytes + n <= Request /\ f = DataFrame(s, n)
       \/ /\ p.sent = "open" /\ f = CloseFrame(s)
          /\ HalfCloses \/ p.saw = "closed"
       \/ /\ p.sent \in {"open", "closed"} /\ f = ResetFrame(s, "CANCEL")
          /\ MayFail
       \/ /\ p.sent \in {"open", "closed"} /\ p.owes > 0 /\ f = WindowFrame(s, p.owes)

\* What the frame does to the peer's own account.
AfterSending(p, f) ==
    [p EXCEPT !.sent   = CASE "RESET" \in f.flags -> "reset"
                           [] "CLOSE" \in f.flags -> "closed"
                           [] "OPEN" \in f.flags  -> "open"
                           [] OTHER -> @,
              !.bytes  = @ + f.len,
              !.credit = @ - f.len,
              !.owes   = @ - f.credit]

\* An inbound frame.
ReadFrame(f) ==
    /\ turn = "select"
    /\ PeerFrame(f.sid, f)
    /\ HandleFrame(f)
    /\ peer' = [peer EXCEPT ![f.sid] = Shown(AfterSending(@, f))]
    /\ DeliverEvents(f.sid)
    /\ MarkWritable(f)
    /\ BeginFlush
    /\ UNCHANGED <<staged, waker, commands, pending, closing>>

NextCommand(op) == turn = "select" /\ commands # <<>> /\ Head(commands).op = op

TakeWrite ==
    LET c == Head(commands) IN
    /\ NextCommand("Write")
    /\ commands' = Tail(commands)
    /\ pending' = [pending EXCEPT ![c.sid] = @ + c.n]
    /\ ready' = PushReady(c.sid)
    /\ BeginFlush
    /\ NothingDelivered /\ NothingReleased
    /\ UNCHANGED <<acceptorVars, closing>>

\* A stream forgotten meanwhile makes consume fail with Closed, and then the
\* turn ends without a flush.
TakeConsumed ==
    LET c == Head(commands) IN
    /\ NextCommand("Consumed")
    /\ commands' = Tail(commands)
    /\ \/ /\ Known(c.sid)
          /\ Consume(c.sid, c.n) /\ Deliver
          /\ ready' = ready
          /\ BeginFlush
       \/ /\ ~Known(c.sid)
          /\ NothingDelivered
          /\ UNCHANGED <<acceptorVars, ready, turn, rounds, progress>>
    /\ NothingReleased
    /\ UNCHANGED <<pending, closing>>

TakeClose ==
    LET c == Head(commands) IN
    /\ NextCommand("Close")
    /\ commands' = Tail(commands)
    /\ closing' = closing \cup {c.sid}
    /\ ready' = PushReady(c.sid)
    /\ BeginFlush
    /\ NothingDelivered /\ NothingReleased
    /\ UNCHANGED <<acceptorVars, pending>>

\* Mutant: a cancelled stream stays ready.
TakeResetReady ==
    LET c == Head(commands) IN
    /\ NextCommand("Reset")
    /\ commands' = Tail(commands)
    /\ DiscardPending(c.sid)
    /\ ready' = ready
    /\ \/ Known(c.sid) /\ ResetStream(c.sid, "CANCEL") /\ Deliver
       \/ ~Known(c.sid) /\ NothingDelivered /\ UNCHANGED acceptorVars
    /\ BeginFlush

\* Cancel, from a dropped handle, and Reset, from HomeStream::reset.
TakeReset ==
    LET c == Head(commands) IN
    /\ NextCommand("Reset")
    /\ commands' = Tail(commands)
    /\ DiscardPending(c.sid)
    /\ ready' = SelectSeq(ready, LAMBDA t : t # c.sid)
    /\ \/ Known(c.sid) /\ ResetStream(c.sid, "CANCEL") /\ Deliver
       \/ ~Known(c.sid) /\ NothingDelivered /\ UNCHANGED acceptorVars
    /\ BeginFlush

TakeWake ==
    /\ NextCommand("Wake")
    /\ commands' = Tail(commands)
    /\ ready' = ready
    /\ BeginFlush
    /\ NothingDelivered /\ NothingReleased
    /\ UNCHANGED <<acceptorVars, pending, closing>>

\* The peer ends the carrier, a read or a write fails, or the owner closes
\* it: every handle learns that the carrier is gone.
Stop ==
    /\ MayFail /\ turn # "stopped"
    /\ turn' = "stopped"
    /\ FinishEof
    /\ status' = [s \in Ids |-> IF status[s] = "none" THEN "none" ELSE "GONE"]
    /\ signals' = [s \in Ids |-> IF status[s] = "none" THEN <<>>
                                 ELSE Append(signals[s], Signal("Gone", 0))]
    /\ commands' = <<>>
    /\ UNCHANGED <<staged, waker, pending, ready, closing, rounds, progress, peer>>

-----------------------------------------------------------------------------
(* flush_ready, one stream per step.  Its arms for a ready stream that has *)
(* nothing to send, or that the acceptor has forgotten while its handle is *)
(* live, are not here: ReadyIsServable shows that no state enters them.    *)

Rotate(requeue) == ready' = IF requeue THEN Append(Tail(ready), Head(ready)) ELSE Tail(ready)

\* The stream has no bytes left and its writer was shut down: its CLOSE.
CloseStream(s) ==
    /\ s \in closing
    /\ closing' = closing \ {s}
    /\ CloseWrite(s) /\ Deliver

NextChunk(s) == IF pending[s] <= Chunk THEN pending[s] ELSE Chunk

Flushing == turn = "flush" /\ rounds > 0 /\ ready # <<>>

\* The stream was reset: drop its bytes.
FlushDead ==
    LET s == Head(ready) IN
    /\ Flushing /\ rounds' = rounds - 1
    /\ status[s] # "LIVE"
    /\ DiscardPending(s)
    /\ Rotate(FALSE)
    /\ NothingDelivered
    /\ UNCHANGED <<acceptorVars, commands, progress, turn>>

\* Mutant: CLOSE does not wait for the queued bytes.
FlushEmptyEager ==
    LET s == Head(ready) IN
    /\ Flushing /\ rounds' = rounds - 1
    /\ status[s] = "LIVE"
    /\ CloseStream(s)
    /\ Rotate(FALSE)
    /\ NothingReleased
    /\ UNCHANGED <<commands, pending, progress, turn>>

FlushEmpty ==
    LET s == Head(ready) IN
    /\ Flushing /\ rounds' = rounds - 1
    /\ status[s] = "LIVE" /\ pending[s] = 0
    /\ CloseStream(s)
    /\ Rotate(FALSE)
    /\ NothingReleased
    /\ UNCHANGED <<commands, pending, progress, turn>>

\* A chunk the credit covers is sent.  The stream stays ready while it has
\* more; its CLOSE is a step of its own (FlushClose) when it has not.
FlushChunk ==
    LET s == Head(ready)
        n == NextChunk(s)
    IN
    /\ Flushing /\ rounds' = rounds - 1
    /\ status[s] = "LIVE" /\ pending[s] > 0
    /\ TrySendData(s, n) /\ Deliver
    /\ ReleaseStaging(s, n)
    /\ pending' = [pending EXCEPT ![s] = @ - n]
    /\ Rotate(pending[s] > n)
    /\ progress' = TRUE
    /\ turn' = IF pending[s] = n /\ s \in closing THEN "close" ELSE "flush"
    /\ UNCHANGED <<commands, closing>>

\* The stream whose last chunk has just been sent is the only one in closing
\* with nothing pending and outside ready.
FlushClose ==
    /\ turn = "close"
    /\ turn' = "flush"
    /\ \E s \in closing :
           /\ pending[s] = 0 /\ ~(\E i \in 1..Len(ready) : ready[i] = s)
           /\ CloseStream(s)
    /\ NothingReleased
    /\ UNCHANGED <<commands, pending, ready, rounds, progress>>

\* Without the credit the bytes go back, and the stream waits for a WINDOW.
FlushBlocked ==
    LET s == Head(ready) IN
    /\ Flushing /\ rounds' = rounds - 1
    /\ status[s] = "LIVE" /\ pending[s] > 0
    /\ Known(s) /\ ~streams[s].localClosed /\ ~MaySend(s, NextChunk(s))
    /\ Rotate(FALSE)
    /\ NothingDelivered /\ NothingReleased
    /\ UNCHANGED <<acceptorVars, commands, pending, closing, progress, turn>>

\* Mutant: the driver does not wake itself.
EndFlushAsleep ==
    /\ turn = "flush" /\ (rounds = 0 \/ ready = <<>>)
    /\ turn' = "select"
    /\ rounds' = 0 /\ progress' = FALSE
    /\ NothingDelivered /\ NothingReleased
    /\ UNCHANGED <<acceptorVars, commands, pending, ready, closing>>

\* After the rounds, a driver that made progress and has more to send wakes
\* itself.
EndFlush ==
    /\ turn = "flush" /\ (rounds = 0 \/ ready = <<>>)
    /\ turn' = "select"
    /\ rounds' = 0 /\ progress' = FALSE
    /\ commands' = IF progress /\ ready # <<>> THEN Append(commands, Command("Wake", 0, 0))
                   ELSE commands
    /\ NothingDelivered /\ NothingReleased
    /\ UNCHANGED <<acceptorVars, pending, ready, closing>>

Flush == FlushDead \/ FlushEmpty \/ FlushChunk \/ FlushClose \/ FlushBlocked \/ EndFlush

Take == TakeWrite \/ TakeConsumed \/ TakeClose \/ TakeReset \/ TakeWake
=============================================================================
