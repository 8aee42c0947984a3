---------------------------- MODULE BridgeDialer ----------------------------
(***************************************************************************)
(* The bridge's end of a journal's tunnel: the coordinator of              *)
(* frame_dialer.rs, the writer task it feeds, and the callers that open    *)
(* streams and read and write them through DialerStream.                   *)
(*                                                                         *)
(* The journal may send any frame at any time, may go away, and may stop   *)
(* taking bytes without going away (a host that sleeps keeps its socket    *)
(* open), which blocks the writer for good.  The reader task is folded     *)
(* into the coordinator's step: it hands over bytes in the order they      *)
(* came, and FrameDecoder keeps a partial frame for the next read.         *)
(***************************************************************************)
EXTENDS MuxFrames, FiniteSets, SequencesExt

CONSTANTS
    Callers,      \* tasks that open one stream each
    Writes,       \* lengths a caller writes, after the cut to Chunk
    Lengths,      \* payload lengths of the journal's DATA frames
    Credits,      \* credits of its WINDOW frames
    Kinds,        \* the flags of the frames it sends
    MayStall,     \* it may stop taking bytes
    MayFlush,     \* callers flush
    MayGiveUp     \* a caller may shut a stream down over its own blocked write

BridgeDialerAssumption ==
    /\ IsFiniteSet(Callers)
    /\ Writes \subseteq 1..Chunk /\ Lengths \subseteq Nat \ {0}
    /\ Credits \subseteq Nat
    /\ {MayStall, MayFlush, MayGiveUp} \subseteq BOOLEAN

VARIABLES
    nextId,      \* CoreFrameDialer.next
    streams,     \* Driver.streams
    coord,       \* run_connection: "running", "leaving" its loop, "stopped"
    state,       \* the ConnectionState watch
    retired,
    stalled,     \* the journal takes no more bytes
    commands,    \* the coordinator's command channel
    opens,       \* open_events: ids whose OPEN was flushed, or failed to be
    writerQ,     \* the writer's channel
    writer,      \* write_carrier: "running" or "stopped"
    inbound,     \* the inbound channel of every stream
    caller,      \* each caller and its DialerStream
    wire         \* history per id: flags queued so far, what the journal will still take,
                 \* whether every frame was allowed, and whether DATA came after CLOSE

vars == <<nextId, streams, coord, state, retired, stalled, commands, opens, writerQ,
          writer, inbound, caller, wire>>

Ids == {2 * i - 1 : i \in 1..Cardinality(Callers)}

\* A caller before it opens: no id, no call in progress, nothing read.
Idle == [at |-> "idle", id |-> 0, op |-> "none", closed |-> FALSE,
         blocked |-> FALSE, gaveUp |-> FALSE, buf |-> 0, end |-> "none"]

\* StreamState::new and StreamSendState::new
FreshStream(c) ==
    [caller |-> c, credit |-> Window, mayWrite |-> TRUE, window |-> FreshWindow(Window),
     unconsumed |-> 0, pending |-> <<>>, peerClosed |-> FALSE, localClosed |-> FALSE]

Init ==
    /\ nextId = 1 /\ streams = [s \in {} |-> FALSE]
    /\ coord = "running" /\ state = "Live" /\ retired = FALSE /\ stalled = FALSE
    /\ commands = <<>> /\ opens = {} /\ writerQ = <<>> /\ writer = "running"
    /\ inbound = [s \in Ids |-> <<>>]
    /\ caller = [c \in Callers |-> Idle]
    /\ wire = [s \in Ids |-> [flags |-> {}, room |-> Window, inOrder |-> TRUE, late |-> FALSE]]

Live(s)          == s \in DOMAIN streams
Without(s)       == Restrict(streams, DOMAIN streams \ {s})
With(s, st)      == [t \in DOMAIN streams \cup {s} |-> IF t = s THEN st ELSE streams[t]]
Holds(c, s)      == caller[c].id = s /\ caller[c].at \in {"opening", "abandoned", "held"}
Reads(s)         == \E c \in Callers : Holds(c, s)
\* An open that fails, for a caller that waits for it and for one that left.
NotOpened(at)    == IF at = "opening" THEN "failed" ELSE "dropped"
Event(kind, n)   == [kind |-> kind, n |-> n]
Command(op, c, n) == [op |-> op, c |-> c, id |-> caller[c].id, n |-> n]
FlushFor(op, c)  == [op |-> op, c |-> c]
AFrame           == FlushFor("frame", "nobody")

\* A frame is allowed after the flags queued before it for its id.  (DATA after CLOSE is
\* kept apart.)
Allowed(f, before) ==
    CASE f.flags = {"OPEN"} -> before = {}
      [] f.flags = {"CLOSE"} -> "OPEN" \in before /\ before \cap {"CLOSE", "RESET"} = {}
      [] OTHER -> "OPEN" \in before /\ "RESET" \notin before

\* What the frames handed to the writer add to the history.
Sent(h, f) ==
    [flags |-> h.flags \cup (f.flags \cap {"OPEN", "CLOSE", "RESET"}), room |-> h.room - f.len,
     inOrder |-> h.inOrder /\ Allowed(f, h.flags),
     late |-> h.late \/ ("DATA" \in f.flags /\ "CLOSE" \in h.flags)]
Recorded(history, frames) ==
    [s \in Ids |-> FoldLeft(LAMBDA h, f : IF f.sid = s THEN Sent(h, f) ELSE h, history[s], frames)]

\* queue_frame for each frame, and a flush behind them when a caller waits
\* for one: the channel takes them unless the writer task has ended, which
\* ends the coordinator.  Adjacent frames in the queue count as one.
QueueAfter(history, frames, flush) ==
    IF frames = <<>> /\ flush = <<>> THEN UNCHANGED <<coord, writerQ>> /\ wire' = history
    ELSE IF writer = "running"
    THEN /\ writerQ' = (IF frames = <<>> \/ (writerQ # <<>> /\ Last(writerQ) = AFrame)
                        THEN writerQ ELSE Append(writerQ, AFrame)) \o flush
         /\ wire' = Recorded(history, frames)
         /\ UNCHANGED coord
    ELSE coord' = "leaving" /\ UNCHANGED <<writerQ, wire>>
Queue(frames) == QueueAfter(wire, frames, <<>>)
QueueAndFlush(frames, op, c) == QueueAfter(wire, frames, <<FlushFor(op, c)>>)

\* Events for the reader of a stream, if it still has one.  What follows an
\* end is never read and is left out.
Ended(s) == \/ \E i \in 1..Len(inbound[s]) : inbound[s][i].kind # "Data"
            \/ \E c \in Callers : caller[c].id = s /\ caller[c].end # "none"
Told(s, events) == IF Reads(s) /\ ~Ended(s) THEN inbound[s] \o events ELSE inbound[s]
Tell(s, events) == inbound' = [inbound EXCEPT ![s] = Told(s, events)]

\* Dropping a StreamState drops the reply of each write it still holds.
Answered(s) ==
    [c \in Callers |->
        IF Live(s) /\ c = streams[s].caller /\ streams[s].pending # <<>>
        THEN [caller[c] EXCEPT !.op = IF @ = "write" THEN "failed" ELSE @,
                               !.blocked = FALSE]
        ELSE caller[c]]

\* reset_stream
ResetStream(s, reason) ==
    /\ streams' = Without(s) /\ caller' = Answered(s)
    /\ Tell(s, IF Live(s) THEN <<Event("Reset", 0)>> ELSE <<>>)
    /\ Queue(IF Live(s) THEN <<ResetFrame(s, reason)>> ELSE <<>>)

-----------------------------------------------------------------------------
(* The coordinator: one command.                                           *)

Takes(op) == /\ coord = "running" /\ commands # <<>> /\ Head(commands).op = op
             /\ commands' = Tail(commands)

\* Command::Open and Driver::open.  The stream is in the table as soon as
\* its OPEN is queued; the caller hears of it once the flush behind the OPEN
\* has come back.  The wrap of the id allocator is out of reach here.
TakeOpen ==
    LET c == Head(commands).c IN
    /\ Takes("open")
    /\ IF retired
       THEN /\ caller' = [caller EXCEPT ![c].at = NotOpened(@)]
            /\ UNCHANGED <<nextId, streams, coord, writerQ, wire>>
       ELSE /\ nextId' = nextId + 2
            /\ QueueAndFlush(<<Frame(nextId, {"OPEN"}, 0)>>, "open", c)
            /\ IF writer = "running"
               THEN /\ streams' = With(nextId, FreshStream(c))
                    /\ caller' = [caller EXCEPT ![c].id = nextId]
               ELSE /\ caller' = [caller EXCEPT ![c].at = NotOpened(@)]
                    /\ UNCHANGED streams
    /\ UNCHANGED <<state, retired, stalled, opens, writer, inbound>>

\* Mutant: a write goes out whatever credit is left.
TakeWriteUnpaid ==
    LET c == Head(commands).c s == Head(commands).id n == Head(commands).n IN
    /\ Takes("write")
    /\ caller' = [caller EXCEPT ![c].op = IF Live(s) THEN "none" ELSE "failed"]
    /\ Queue(IF Live(s) THEN <<DataFrame(s, n)>> ELSE <<>>)
    /\ UNCHANGED <<nextId, streams, state, retired, stalled, opens, writer, inbound>>

\* Driver::write.  A write larger than the credit waits whole.
TakeWrite ==
    LET c == Head(commands).c
        s == Head(commands).id
        n == Head(commands).n
        open == Live(s) /\ ~streams[s].localClosed
        paid == open /\ n <= streams[s].credit
    IN
    /\ Takes("write")
    /\ streams' = IF paid THEN [streams EXCEPT ![s].credit = @ - n,
                                               ![s].mayWrite = streams[s].credit # n]
                  ELSE IF open THEN [streams EXCEPT ![s].pending = Append(@, n)]
                  ELSE streams
    /\ caller' = [caller EXCEPT ![c].op = IF paid /\ writer = "running" THEN "none"
                                          ELSE IF open /\ ~paid THEN @ ELSE "failed",
                                ![c].blocked = open /\ ~paid]
    /\ Queue(IF paid THEN <<DataFrame(s, n)>> ELSE <<>>)
    /\ UNCHANGED <<nextId, state, retired, stalled, opens, writer, inbound>>

\* Driver::consume and StreamState::consume_received
TakeConsumed ==
    LET s == Head(commands).id n == Head(commands).n IN
    /\ Takes("consumed")
    /\ IF Live(s) /\ n > streams[s].unconsumed
       THEN ResetStream(s, "PROTOCOL_ERROR")
       ELSE /\ streams' = IF Live(s) THEN [streams EXCEPT ![s].unconsumed = @ - n,
                                                          ![s].window = ConsumeBytes(@, n)]
                          ELSE streams
            /\ Queue(IF Live(s) /\ GrantDue(streams[s].window, n)
                     THEN <<WindowFrame(s, Grant(streams[s].window, n))>> ELSE <<>>)
            /\ UNCHANGED <<inbound, caller>>
    /\ UNCHANGED <<nextId, state, retired, stalled, opens, writer>>

\* Command::Close and Driver::close.  Writes that still wait for credit stay
\* in the table; the caller's shutdown returns when the flush behind the
\* CLOSE has.  A CLOSE that cannot be queued is only reported to the caller.
TakeClose ==
    LET c == Head(commands).c
        s == Head(commands).id
        first == Live(s) /\ ~streams[s].localClosed
    IN
    /\ Takes("close")
    /\ IF first /\ writer # "running" THEN UNCHANGED <<coord, writerQ, wire>>
       ELSE QueueAndFlush(IF first THEN <<CloseFrame(s)>> ELSE <<>>, "close", c)
    /\ streams' = IF ~first THEN streams
                  ELSE IF streams[s].peerClosed /\ writer = "running" THEN Without(s)
                  ELSE [streams EXCEPT ![s].localClosed = TRUE]
    /\ caller' = IF writer # "running" THEN [caller EXCEPT ![c].op = "failed"]
                 ELSE IF first /\ streams[s].peerClosed THEN Answered(s) ELSE caller
    /\ UNCHANGED <<nextId, state, retired, stalled, opens, writer, inbound>>

TakeReset ==
    /\ Takes("reset")
    /\ ResetStream(Head(commands).id, "CANCEL")
    /\ UNCHANGED <<nextId, state, retired, stalled, opens, writer>>

TakeFlush ==
    /\ Takes("flush")
    /\ QueueAndFlush(<<>>, "flush", Head(commands).c)
    /\ caller' = IF writer = "running" THEN caller
                 ELSE [caller EXCEPT ![Head(commands).c].op = "failed"]
    /\ UNCHANGED <<nextId, streams, state, retired, stalled, opens, writer, inbound>>

TakeShutdown ==
    /\ Takes("shutdown")
    /\ coord' = "leaving"
    /\ UNCHANGED <<nextId, streams, state, retired, stalled, opens, writerQ, writer,
                   inbound, caller, wire>>

-----------------------------------------------------------------------------
(* The coordinator: one frame of the journal, Driver::receive.             *)

\* drain_pending_writes stops at the first write larger than the credit.
Drainable(pending, credit) ==
    Max({k \in 0..Len(pending) :
             FoldSeq(LAMBDA n, sum : n + sum, 0, SubSeq(pending, 1, k)) <= credit})

\* StreamSendState::grant, then drain_pending_writes
ReceiveWindow(f) ==
    LET s == f.sid
        credit == streams[s].credit + f.credit
        k == Drainable(streams[s].pending, credit)
        sent == SubSeq(streams[s].pending, 1, k)
        left == credit - FoldSeq(LAMBDA n, sum : n + sum, 0, sent)
    IN
    IF f.bad \/ (Live(s) /\ credit > MaxCredit)
    THEN ResetStream(s, IF f.bad THEN "PROTOCOL_ERROR" ELSE "FLOW_CONTROL_ERROR")
    ELSE IF ~Live(s) THEN UNCHANGED <<streams, inbound, caller, coord, writerQ, wire>>
    ELSE /\ streams' = [streams EXCEPT ![s].credit = left,
                                       ![s].mayWrite = k = 0 \/ left # 0,
                                       ![s].pending = SubSeq(@, k + 1, Len(@))]
         /\ QueueAfter([wire EXCEPT ![s].room = @ + f.credit],
                       [i \in 1..k |-> DataFrame(s, sent[i])], <<>>)
         /\ caller' = IF k = 0 THEN caller
                      ELSE [caller EXCEPT
                               ![streams[s].caller].op = IF @ # "write" THEN @
                                   ELSE IF writer = "running" THEN "none" ELSE "failed",
                               ![streams[s].caller].blocked = FALSE]
         /\ UNCHANGED inbound

\* A RESET of the journal is answered with nothing.
ReceiveReset(f) ==
    /\ streams' = Without(f.sid) /\ caller' = Answered(f.sid)
    /\ Tell(f.sid, IF Live(f.sid) THEN <<Event("Reset", 0)>> ELSE <<>>)
    /\ UNCHANGED <<coord, writerQ, wire>>

\* DATA, CLOSE, or both in one frame.
ReceiveData(f) ==
    LET s == f.sid
        data == "DATA" \in f.flags
        close == "CLOSE" \in f.flags
        st == streams[s]
    IN
    IF ~Live(s) THEN UNCHANGED <<streams, inbound, caller, coord, writerQ, wire>>
    ELSE IF data /\ (st.peerClosed \/ ~CanDebit(st.window, f.len))
    THEN ResetStream(s, "FLOW_CONTROL_ERROR")
    ELSE IF data /\ ~Reads(s) THEN ResetStream(s, "CANCEL")
    ELSE /\ Tell(s, (IF data THEN <<Event("Data", f.len)>> ELSE <<>>)
                    \o (IF close THEN <<Event("Closed", 0)>> ELSE <<>>))
         /\ IF close /\ st.localClosed
            THEN streams' = Without(s) /\ caller' = Answered(s)
            ELSE /\ streams' = [streams EXCEPT ![s].window = IF data THEN Debit(@, f.len) ELSE @,
                                               ![s].unconsumed = IF data THEN @ + f.len ELSE @,
                                               ![s].peerClosed = @ \/ close]
                 /\ UNCHANGED caller
         /\ UNCHANGED <<coord, writerQ, wire>>

\* Every kind of frame the decoder can return, for an id in use or not.
AnyFrame ==
    {Frame(s, flags, len) : s \in Ids, flags \in {{"DATA"}, {"DATA", "CLOSE"}}, len \in Lengths}
    \cup {Frame(s, flags, 0) : s \in Ids, flags \in {{"CLOSE"}, {"RESET"}, {"OPEN"}, {"PING", "DATA"}}}
    \cup {WindowFrame(s, credit) : s \in Ids, credit \in Credits}
    \cup {[WindowFrame(s, 0) EXCEPT !.bad = TRUE] : s \in Ids}

PeerFrames == {f \in AnyFrame : f.flags \in Kinds}

\* Driver::receive and read_bytes for one frame.
Receive(f) ==
    /\ coord = "running"
    /\ CASE ~FlagsValid(f.flags) \/ "OPEN" \in f.flags -> ResetStream(f.sid, "PROTOCOL_ERROR")
         [] f.flags = {"WINDOW"} -> ReceiveWindow(f)
         [] f.flags = {"RESET"}  -> ReceiveReset(f)
         [] OTHER                -> ReceiveData(f)
    /\ UNCHANGED <<nextId, state, retired, stalled, commands, opens, writer>>

\* A PING of the journal is answered on stream 0; it changes nothing else.
ReceivePing ==
    /\ coord = "running"
    /\ Queue(<<PongFrame>>)
    /\ UNCHANGED <<nextId, streams, state, retired, stalled, commands, opens, writer, inbound, caller>>

-----------------------------------------------------------------------------
(* The rest of run_connection, and the writer task.                        *)

\* The task spawned by an open, when the connection is gone before the
\* flush comes back.
OpenLost(c) ==
    /\ state = "Gone" /\ coord = "running"
    /\ caller[c].at \in {"opening", "abandoned"} /\ caller[c].id # 0
    /\ ~\E o \in opens : o.c = c
    /\ opens' = opens \cup {[c |-> c, flushed |-> FALSE]}
    /\ UNCHANGED <<nextId, streams, coord, state, retired, stalled, commands, writerQ, writer,
                   inbound, caller, wire>>

\* Mutant: a stream nobody waits for is kept.
OpenDoneKept(o) ==
    /\ coord = "running" /\ o \in opens /\ opens' = opens \ {o}
    /\ caller' = [caller EXCEPT ![o.c].at = IF @ = "abandoned" THEN "dropped" ELSE "held"]
    /\ UNCHANGED <<nextId, streams, coord, state, retired, stalled, commands, writerQ, writer,
                   inbound, wire>>

\* The completion of an open: the caller gets the stream, unless the flush
\* failed or the caller has stopped waiting, which resets it.
OpenDone(o) ==
    /\ coord = "running" /\ o \in opens /\ opens' = opens \ {o}
    /\ IF o.flushed /\ caller[o.c].at = "opening"
       THEN /\ caller' = [caller EXCEPT ![o.c].at = "held"]
            /\ UNCHANGED <<streams, inbound, coord, writerQ, wire>>
       ELSE /\ streams' = Without(caller[o.c].id)
            /\ caller' = [caller EXCEPT ![o.c].at = NotOpened(@)]
            /\ Queue(IF Live(caller[o.c].id) THEN <<ResetFrame(caller[o.c].id, "CANCEL")>> ELSE <<>>)
            /\ UNCHANGED inbound
    /\ UNCHANGED <<nextId, state, retired, stalled, commands, writer>>

\* The reader ended, or the writer reported the carrier gone.
Leave ==
    /\ coord = "running"
    /\ coord' = "leaving"
    /\ UNCHANGED <<nextId, streams, state, retired, stalled, commands, opens, writerQ, writer,
                   inbound, caller, wire>>
ReaderGone == Leave
SeesGone   == state = "Gone" /\ Leave

\* A call is with the writer once its flush is.
WithWriter(c) ==
    \E i \in 1..Len(writerQ) : writerQ[i] = FlushFor(caller[c].op, c)

\* Mutant: callers still opening are not told.
FinishForgetful ==
    /\ coord = "leaving" /\ coord' = "stopped" /\ state' = "Gone"
    /\ streams' = [s \in {} |-> FALSE] /\ commands' = <<>> /\ opens' = {}
    /\ inbound' = [s \in Ids |-> IF Live(s) THEN Told(s, <<Event("Gone", 0)>>) ELSE inbound[s]]
    /\ UNCHANGED <<nextId, retired, stalled, writerQ, writer, wire, caller>>

\* After the loop: Driver::finish ends every stream, the state is published,
\* and the channels go, with the replies of every call still in them.
Finish ==
    /\ coord = "leaving" /\ coord' = "stopped" /\ state' = "Gone"
    /\ streams' = [s \in {} |-> FALSE] /\ commands' = <<>> /\ opens' = {}
    /\ inbound' = [s \in Ids |-> IF Live(s) THEN Told(s, <<Event("Gone", 0)>>) ELSE inbound[s]]
    /\ caller' = [c \in Callers |->
                     [caller[c] EXCEPT
                         !.at = IF @ \in {"opening", "abandoned"} THEN NotOpened(@) ELSE @,
                         !.op = IF @ \in {"write", "flush", "close"} /\ ~WithWriter(c)
                                THEN "failed" ELSE @,
                         !.blocked = FALSE]]
    /\ UNCHANGED <<nextId, retired, stalled, writerQ, writer, wire>>

\* write_carrier: one frame written, or one flush answered.
WriterStep ==
    /\ writer = "running" /\ ~stalled /\ writerQ # <<>>
    /\ writerQ' = Tail(writerQ)
    /\ LET w == Head(writerQ) c == w.c IN
       IF w = AFrame THEN UNCHANGED <<opens, caller>>
       ELSE IF w.op = "open"
       THEN /\ opens' = IF caller[c].at \in {"opening", "abandoned"} /\ coord # "stopped"
                           /\ ~\E o \in opens : o.c = c
                        THEN opens \cup {[c |-> c, flushed |-> TRUE]} ELSE opens
            /\ UNCHANGED caller
       ELSE /\ caller' = [caller EXCEPT ![c].op = IF @ = w.op THEN "none" ELSE @,
                                        ![c].closed = @ \/ (w.op = "close" /\ caller[c].op = "close")]
            /\ UNCHANGED opens
    /\ UNCHANGED <<nextId, streams, coord, state, retired, stalled, commands, writer, inbound, wire>>

\* A write or a flush failed: the state is published and the queue dropped.
WriterFails ==
    /\ writer = "running" /\ writerQ # <<>>
    /\ writer' = "stopped" /\ state' = "Gone" /\ writerQ' = <<>>
    /\ caller' = [c \in Callers |-> [caller[c] EXCEPT !.op = IF WithWriter(c) THEN "failed" ELSE @]]
    /\ UNCHANGED <<nextId, streams, coord, retired, stalled, commands, opens, inbound, wire>>

\* The coordinator dropped its end of the channel, and the queue is empty.
WriterEnds ==
    /\ writer = "running" /\ coord = "stopped" /\ writerQ = <<>>
    /\ writer' = "stopped"
    /\ UNCHANGED <<nextId, streams, coord, state, retired, stalled, commands, opens, writerQ,
                   inbound, caller, wire>>

\* The journal's host sleeps: its socket stays open and takes no more bytes.
Stall ==
    /\ MayStall /\ ~stalled /\ stalled' = TRUE
    /\ UNCHANGED <<nextId, streams, coord, state, retired, commands, opens, writerQ, writer,
                   inbound, caller, wire>>

-----------------------------------------------------------------------------
(* The callers: FrameDialer::open_stream and the AsyncRead, AsyncWrite and  *)
(* Drop of DialerStream.  A command to a stopped coordinator fails at once. *)

coordVars == <<nextId, streams, coord, state, retired, stalled, opens, writerQ, writer, wire>>

Call(c, op, n) ==
    /\ IF coord = "stopped"
       THEN caller' = [caller EXCEPT ![c].op = "failed"] /\ UNCHANGED commands
       ELSE /\ commands' = Append(commands, Command(op, c, n))
            /\ caller' = [caller EXCEPT ![c].op = op]
    /\ UNCHANGED <<coordVars, inbound>>

Open(c) ==
    /\ caller[c].at = "idle"
    /\ IF coord = "stopped"
       THEN caller' = [caller EXCEPT ![c].at = "failed"] /\ UNCHANGED commands
       ELSE /\ commands' = Append(commands, Command("open", c, 0))
            /\ caller' = [caller EXCEPT ![c].at = "opening"]
    /\ UNCHANGED <<coordVars, inbound>>

\* OPEN_STREAM_TIMEOUT, or a caller cancelled while it opens.
Abandon(c) ==
    /\ caller[c].at = "opening"
    /\ caller' = [caller EXCEPT ![c].at = "abandoned"]
    /\ UNCHANGED <<coordVars, commands, inbound>>

\* Mutant: the bytes of a read are reported when they arrive, and again
\* when the buffer is emptied.
PollReadTwice(c) ==
    LET s == caller[c].id IN
    /\ caller[c].at = "held" /\ caller[c].end = "none" /\ inbound[s] # <<>>
    /\ inbound' = [inbound EXCEPT ![s] = Tail(@)]
    /\ caller' = [caller EXCEPT ![c].end = IF Head(inbound[s]).kind = "Data" THEN @
                                           ELSE Head(inbound[s]).kind]
    /\ commands' = IF coord = "stopped" \/ Head(inbound[s]).kind # "Data" THEN commands
                   ELSE commands \o <<Command("consumed", c, Head(inbound[s]).n),
                                      Command("consumed", c, 1)>>
    /\ UNCHANGED coordVars

\* poll_read: the next event fills the buffer or ends the stream; what is
\* taken from the buffer is reported as consumed.
PollRead(c) ==
    LET s == caller[c].id
        fresh == caller[c].buf = 0
        have == IF fresh THEN Head(inbound[s]).n ELSE caller[c].buf
    IN
    /\ caller[c].at = "held" /\ caller[c].end = "none"
    /\ fresh => inbound[s] # <<>>
    /\ inbound' = IF fresh THEN [inbound EXCEPT ![s] = Tail(@)] ELSE inbound
    /\ IF fresh /\ Head(inbound[s]).kind # "Data"
       THEN caller' = [caller EXCEPT ![c].end = Head(inbound[s]).kind] /\ UNCHANGED commands
       ELSE \E n \in 1..have :
               /\ caller' = [caller EXCEPT ![c].buf = have - n]
               /\ commands' = IF coord = "stopped" THEN commands
                              ELSE Append(commands, Command("consumed", c, n))
    /\ UNCHANGED coordVars

\* poll_write, once the credit watch says there is credit.
PollWrite(c) ==
    LET s == caller[c].id IN
    /\ caller[c].at = "held" /\ caller[c].op = "none" /\ ~caller[c].closed
    /\ Live(s) => streams[s].mayWrite
    /\ \E n \in Writes : Call(c, "write", n)

PollFlush(c) ==
    /\ MayFlush
    /\ caller[c].at = "held" /\ caller[c].op = "none"
    /\ Call(c, "flush", 0)

\* poll_shutdown.
PollShutdown(c) ==
    /\ caller[c].at = "held" /\ ~caller[c].closed /\ caller[c].op = "none"
    /\ Call(c, "close", 0)

\* A caller that has dropped its blocked write, as a timeout around it does, calls
\* poll_shutdown too.  (Within the bridge nobody does; the stream's interface allows it.)
GiveUp(c) ==
    /\ MayGiveUp
    /\ caller[c].at = "held" /\ ~caller[c].closed /\ caller[c].op = "write" /\ caller[c].blocked
    /\ commands' = IF coord = "stopped" THEN commands ELSE Append(commands, Command("close", c, 0))
    /\ caller' = [caller EXCEPT ![c].op = IF coord = "stopped" THEN "failed" ELSE "close",
                                ![c].blocked = FALSE, ![c].gaveUp = TRUE]
    /\ UNCHANGED <<coordVars, inbound>>

\* Drop resets the stream unless it was shut down.
DropStream(c) ==
    /\ caller[c].at = "held"
    /\ caller' = [caller EXCEPT ![c].at = "dropped", ![c].op = "none", ![c].buf = 0,
                                ![c].blocked = FALSE]
    /\ inbound' = [inbound EXCEPT ![caller[c].id] = <<>>]
    /\ commands' = IF coord = "stopped" \/ caller[c].closed THEN commands
                   ELSE Append(commands, Command("reset", c, 0))
    /\ UNCHANGED coordVars

\* The registry's calls: retire, and shutdown or signal_shutdown.
Retire ==
    /\ ~retired /\ retired' = TRUE
    /\ UNCHANGED <<nextId, streams, coord, state, stalled, commands, opens, writerQ, writer,
                   inbound, caller, wire>>

Shutdown ==
    /\ coord # "stopped" /\ ~\E i \in 1..Len(commands) : commands[i].op = "shutdown"
    /\ commands' = Append(commands, [op |-> "shutdown"])
    /\ UNCHANGED <<coordVars, inbound, caller>>

-----------------------------------------------------------------------------
TakeCommand == \/ TakeOpen \/ TakeWrite \/ TakeConsumed \/ TakeClose
               \/ TakeReset \/ TakeFlush \/ TakeShutdown
Calls(c)    == \/ Open(c) \/ Abandon(c) \/ PollRead(c) \/ PollWrite(c)
               \/ PollFlush(c) \/ PollShutdown(c) \/ GiveUp(c) \/ DropStream(c)

Next ==
    \/ TakeCommand
    \/ \E f \in PeerFrames : Receive(f)
    \/ ReceivePing
    \/ \E o \in opens : OpenDone(o)
    \/ \E c \in Callers : OpenLost(c) \/ Calls(c)
    \/ ReaderGone \/ SeesGone \/ Finish
    \/ WriterStep \/ WriterFails \/ WriterEnds
    \/ Stall \/ Retire \/ Shutdown

\* Each task takes its next step while it can; the journal and the callers
\* need not.
Fairness ==
    /\ WF_vars(TakeCommand) /\ WF_vars(\E o \in opens : OpenDone(o))
    /\ WF_vars(SeesGone) /\ WF_vars(Finish)
    /\ WF_vars(WriterStep) /\ WF_vars(WriterEnds)
    /\ \A c \in Callers : WF_vars(OpenLost(c))

Spec == Init /\ [][Next]_vars /\ Fairness

-----------------------------------------------------------------------------
(* Properties.                                                             *)

\* Whatever the journal sends and whenever callers come and go, a stream's
\* frames start with its OPEN, no second CLOSE follows its CLOSE, nothing
\* follows its RESET, and the DATA never exceeds what the journal granted.
\* DATA follows CLOSE only for a caller that shut the stream down over a write
\* of its own that was waiting for credit.
FramesInOrder ==
    \A s \in Ids :
        /\ wire[s].inOrder /\ wire[s].room >= 0
        /\ wire[s].late => \E c \in Callers : caller[c].id = s /\ caller[c].gaveUp

\* framing.md of CLOSE: "sender will write no more bytes on this stream".  Violated
\* when a caller gives a blocked write up: Driver::close queues CLOSE although the
\* write is still pending, and the next WINDOW sends it.
NothingAfterClose == \A s \in Ids : ~wire[s].late

\* The bytes of a stream that its caller has not reported as consumed.
OnTheWay(s) ==
    FoldSeq(LAMBDA e, sum : e.n + sum, 0, inbound[s])
    + FoldSeq(LAMBDA k, sum : sum + (IF k.op = "consumed" /\ k.id = s THEN k.n ELSE 0), 0, commands)
    + FoldSet(LAMBDA c, sum : sum + caller[c].buf, 0, {c \in Callers : caller[c].id = s})

\* Every byte a stream was debited for is granted back, waits for the grant
\* threshold, or is on its way through the reader, so reading never exceeds
\* what was received and no credit is lost while somebody reads.
ReceiveLedger ==
    \A s \in DOMAIN streams :
        /\ streams[s].window.credit + streams[s].window.unacked + streams[s].unconsumed = Window
        /\ Reads(s) => streams[s].unconsumed = OnTheWay(s)

\* A stream nobody will ever use is reset, so the journal can free it: one
\* whose opener stopped waiting, and one dropped before it was shut down.
\* Abandoned leads to IsReset.
Abandoned(c) == caller[c].at = "abandoned" \/ (caller[c].at = "dropped" /\ ~caller[c].closed)
IsReset(c) == (caller[c].at = "dropped" /\ ~Live(caller[c].id)) \/ stalled

\* A call that waits for the coordinator or the writer, not for credit.  Every one
\* returns unless the journal has stalled; an open returns even then, once the
\* connection is gone.
Waits(c) ==
    \/ caller[c].at = "opening"
    \/ caller[c].op \in {"flush", "close"}
    \/ caller[c].op = "write" /\ ~caller[c].blocked

Opening(c) == caller[c].at = "opening"

\* As the registry counts on it, the writer ends after the connection is gone.
WriterSelfTerminates == state = "Gone" ~> writer = "stopped"
=============================================================================
