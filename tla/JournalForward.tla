---------------------------- MODULE JournalForward ----------------------------
(***************************************************************************)
(* One local request forwarded to the journal (forward_upstream in         *)
(* spl-transport/src/journal_bridge.rs, with the body budget and StreamRx  *)
(* of journal_bridge_carrier.rs).  A single loop selects, in this order,   *)
(* among shutdown, the next response item and progress of the upload.      *)
(* Whichever completes drops the futures of the others, with whatever they *)
(* had already taken from a channel or from the socket.  The coordinator's *)
(* side of the stream is reduced to what it does to this request; its own  *)
(* rules are in CarrierDialer.                                             *)
(***************************************************************************)
EXTENDS Integers, Sequences, SequencesExt

CONSTANTS
    Bodies,       \* declared lengths of request bodies
    Lengths,      \* content-lengths a response may declare; Unknown if it has none
    MaxReply,     \* bound on the response body the journal sends
    Readers,      \* TRUE: a caller that goes on reading; FALSE: one that may stop
    BodyQueue,    \* BODY_QUEUE, in chunks of one byte
    Stage,        \* UPLOAD_BODY_STAGE_CAPACITY
    StreamQueue   \* STREAM_QUEUE

Unknown == -1

VARIABLES
    kind,      \* the request: streaming or buffered, HEAD or not, its body and how
               \* much of it came with the head, and whether its caller goes on reading
    upload,    \* LocalBodyUpload: sender present, bytes sent on, bytes taken from the
               \* socket, the advance future
    chan,      \* the body channel: positions of the bytes sent
    free,      \* BodyBudget permits not leased
    up,        \* the coordinator's StreamState, and what the journal has sent
    delivery,  \* the delivery queue of the StreamRx
    pend,      \* pending_delivery, waiting for room in the queue
    recv,      \* an item taken by recv, whose Consume command is not yet queued
    fwd,       \* ResponseForwarder, and the write to the caller it is waiting for
    seen,      \* what the local caller has received
    pc,        \* "loop", "writing", or "over" when handle_conn has returned
    flag,      \* the connection-shutdown flag
    lost       \* history: response items that a dropped recv had taken

vars == <<kind, upload, chan, free, up, delivery, pend, recv, fwd, seen, pc, flag, lost>>

Advance(at, byte) == [at |-> at, byte |-> byte]
NoAdvance == Advance("idle", 0)
NoItem == [is |-> "nothing", len |-> 0]
Item(is, len) == [is |-> is, len |-> len]

\* What the caller has after a write, and where the loop goes on from there.
Write(result, then) == [result |-> result, then |-> then]
Nothing == [head |-> "none", len |-> Unknown, bytes |-> 0]
NoWrite == Write(Nothing, "loop")

\* open_stream has returned; an empty body leaves no sender.
Init ==
    /\ \E mode \in {"streaming", "buffered"}, head \in BOOLEAN, n \in Bodies, reads \in Readers :
          \E prefix \in 0..n :
             /\ kind = [mode |-> mode, head |-> head, body |-> n, prefix |-> prefix,
                        reads |-> reads]
             /\ upload = [active |-> n > 0, read |-> 0, taken |-> prefix, future |-> NoAdvance]
    /\ chan = <<>>
    /\ free = Stage
    /\ up = [open |-> TRUE, got |-> 0, staged |-> 0, drained |-> 0, intact |-> TRUE,
             said |-> "nothing", len |-> 0, sent |-> 0]
    /\ delivery = <<>> /\ pend = <<>> /\ recv = NoItem
    /\ fwd = [head |-> "none", len |-> Unknown, received |-> 0, held |-> FALSE,
              write |-> NoWrite]
    /\ seen = Nothing
    /\ pc = "loop"
    /\ flag = FALSE
    /\ lost = {}

------------------------------------------------------------------------------
(* The coordinator and the journal.                                         *)

forwarder == <<kind, upload, recv, fwd, seen, pc, flag, lost>>

\* receive_body: the chunk is staged with its lease.
TakeChunk ==
    /\ up.open /\ chan # <<>>
    /\ chan' = Tail(chan)
    /\ up' = [up EXCEPT !.got = @ + 1, !.staged = @ + 1,
                        !.intact = @ /\ Head(chan) = up.got + 1]
    /\ UNCHANGED <<forwarder, free, delivery, pend>>

\* A body byte goes out: the writer drains it and its lease ends.
Drain ==
    /\ up.staged > 0
    /\ up' = [up EXCEPT !.staged = @ - 1, !.drained = @ + 1]
    /\ free' = free + 1
    /\ UNCHANGED <<forwarder, chan, delivery, pend>>

\* StreamState is dropped: the body channel and the budget are closed, and what was
\* queued or staged gives its leases back.
Gone(u) == [u EXCEPT !.open = FALSE, !.staged = 0]
CloseBody ==
    /\ chan' = <<>>
    /\ free' = free + Len(chan) + up.staged

\* The sender is gone before the declared length: reset_active_stream.
ShortBody ==
    /\ up.open /\ ~upload.active /\ chan = <<>> /\ up.got < kind.body
    /\ up' = Gone(up)
    /\ CloseBody
    /\ UNCHANGED <<forwarder, delivery, pend>>

DoneAlways == TRUE

\* WindowedUpload::is_done
Done == up.drained = kind.body

Room == pend = <<>> /\ Len(delivery) < StreamQueue

\* enqueue_pending_delivery: body bytes join a body that is already waiting.
Enqueued(item) ==
    IF item.is = "body" /\ pend # <<>> /\ Last(pend).is = "body"
    THEN [pend EXCEPT ![Len(pend)].len = @ + item.len]
    ELSE Append(pend, item)

Deliver(item) ==
    IF Room THEN delivery' = Append(delivery, item) /\ UNCHANGED pend
    ELSE pend' = Enqueued(item) /\ UNCHANGED delivery

\* A head that comes before the upload is done is final: the stream is reset.
JournalHead ==
    /\ up.open /\ up.said = "nothing"
    /\ \E len \in Lengths \cup {Unknown} :
          IF Done
          THEN /\ Deliver(Item("head", len))
               /\ up' = [up EXCEPT !.said = "head", !.len = len]
               /\ UNCHANGED <<chan, free>>
          ELSE /\ delivery' = Append(delivery, Item("early", len))
               /\ up' = Gone([up EXCEPT !.said = "early"])
               /\ CloseBody
               /\ UNCHANGED pend
    /\ UNCHANGED forwarder

JournalBody ==
    /\ up.open /\ up.said = "head" /\ up.sent < MaxReply
    /\ Deliver(Item("body", 1))
    /\ up' = [up EXCEPT !.sent = @ + 1]
    /\ UNCHANGED <<forwarder, chan, free>>

\* CLOSE or RESET from the journal; the stream is forgotten once this is queued.
JournalEnds(is) ==
    /\ up.open /\ up.said \in {"nothing", "head"}
    /\ Deliver(Item(is, 0))
    /\ IF Room THEN up' = Gone([up EXCEPT !.said = is]) /\ CloseBody
       ELSE up' = [up EXCEPT !.said = is] /\ UNCHANGED <<chan, free>>
    /\ UNCHANGED forwarder

\* flush_pending_deliveries, woken by the Consume command of a recv.
Flush ==
    /\ up.open /\ pend # <<>> /\ Len(delivery) < StreamQueue
    /\ delivery' = Append(delivery, Head(pend))
    /\ pend' = Tail(pend)
    /\ IF Head(pend).is \in {"close", "reset"} THEN up' = Gone(up) /\ CloseBody
       ELSE UNCHANGED <<up, chan, free>>
    /\ UNCHANGED forwarder

\* The carrier ends (fanout_eof, fanout_certificate_unknown): what is pending is
\* dropped, and Eof is queued if there is room.
CarrierEnds ==
    /\ up.open
    /\ up' = Gone(up)
    /\ CloseBody
    /\ delivery' = IF Len(delivery) < StreamQueue THEN Append(delivery, Item("eof", 0)) ELSE delivery
    /\ pend' = <<>>
    /\ UNCHANGED forwarder

coordinator == <<up, delivery, pend>>

------------------------------------------------------------------------------
(* The response forwarder.                                                  *)

\* The end of handle_conn; its StreamRx and BodyTx are dropped.
Return ==
    /\ pc' = "over"
    /\ upload' = [upload EXCEPT !.active = FALSE, !.future = NoAdvance]
    /\ recv' = NoItem

\* Every write to the caller is awaited under until_shutdown and has no deadline.
\* Nothing else of this request is polled until it completes.
Writes(next, result, then) ==
    /\ fwd' = [next EXCEPT !.write = Write(result, then)]
    /\ pc' = "writing"
    /\ UNCHANGED seen

Keep(next) == fwd' = next /\ UNCHANGED <<seen, pc>>

\* handle_conn returns with nothing more to write; shutting the socket down waits
\* for nobody.
Leave == pc' = "over" /\ UNCHANGED <<fwd, seen>>

Local == [head |-> "local", len |-> 0, bytes |-> 0]
Answer502 == Writes(fwd, Local, "over")

\* The length announced for a HEAD request.
HeadLen(len) == IF len = Unknown THEN 0 ELSE len

LengthAgreesAlways == TRUE

\* A buffered body must have the length its head declared.
LengthAgrees == kind.head \/ fwd.len = Unknown \/ fwd.len = fwd.received

\* ResponseForwarder::finish, after the journal closed the stream.
Finish ==
    IF kind.mode = "streaming"
    THEN CASE fwd.head = "deferred" ->
                Writes(fwd, [head |-> "journal", len |-> 0, bytes |-> 0], "over")
           [] fwd.head = "written" /\ fwd.held ->
                Writes(fwd, [seen EXCEPT !.bytes = @ + 1], "over")
           [] fwd.head = "written" /\ ~fwd.held -> Leave
           [] OTHER -> Answer502
    ELSE IF fwd.head = "none" \/ ~LengthAgrees THEN Answer502
    ELSE Writes(fwd,
                [head |-> "journal", len |-> IF kind.head THEN HeadLen(fwd.len) ELSE fwd.received,
                 bytes |-> IF kind.head THEN 0 ELSE fwd.received],
                "over")

\* ResponseForwarder::fail, after anything else ended it.
Fail == IF kind.mode = "streaming" /\ fwd.head = "written" THEN Leave ELSE Answer502

HandleHead(len) ==
    IF kind.mode = "buffered" THEN Keep([fwd EXCEPT !.head = "kept", !.len = len])
    ELSE IF ~kind.head /\ len = 0 THEN Keep([fwd EXCEPT !.head = "deferred", !.len = 0])
    ELSE Writes([fwd EXCEPT !.head = "written", !.len = IF kind.head THEN Unknown ELSE len],
                [head |-> "journal", bytes |-> 0,
                 len |-> IF kind.head THEN HeadLen(len) ELSE len],
                "loop")

HoldsNot(received) == FALSE

\* The last declared byte is kept back until the journal's clean end.
Holds(received) == fwd.len # Unknown /\ received = fwd.len

HandleBody(n) ==
    LET received == fwd.received + n
        writable == n - (IF Holds(received) THEN 1 ELSE 0)
        next     == [fwd EXCEPT !.received = received, !.held = Holds(received)]
    IN  CASE kind.mode = "buffered" -> Keep([fwd EXCEPT !.received = received])
          [] kind.mode = "streaming" /\ fwd.head = "deferred" -> Answer502
          [] kind.mode = "streaming" /\ fwd.head = "written" ->
                IF kind.head THEN Keep(fwd)
                ELSE IF fwd.len # Unknown /\ received > fwd.len THEN Leave
                ELSE IF writable = 0 THEN Keep(next)
                ELSE Writes(next, [seen EXCEPT !.bytes = @ + writable], "loop")

\* An early head: a success is not believed, any other status is passed on bare.
HandleEarly ==
    \E answer \in {Local, [head |-> "early", len |-> 0, bytes |-> 0]} :
        Writes(fwd, answer, "over")

\* What the loop does with an item, or with the end of the delivery queue.
Handle(item) ==
    CASE item.is = "head"  -> HandleHead(item.len)
      [] item.is = "body"  -> HandleBody(item.len)
      [] item.is = "early" -> HandleEarly
      [] item.is = "close" -> Finish
      [] OTHER             -> Fail

------------------------------------------------------------------------------
(* The select loop.                                                         *)

Reserved == IF upload.future.at = "idle" THEN 0 ELSE 1

\* The loop is left, now or after a last write.
Ends == pc' = "over" \/ (pc' = "writing" /\ fwd'.write.then = "over")

\* The advance future is dropped: its reservation is released, a byte it had read
\* from the socket and not sent is gone.  After the loop the upload is stopped.
DropAdvance ==
    /\ free' = free + Reserved
    /\ upload' = [upload EXCEPT !.future = NoAdvance, !.active = @ /\ ~Ends]

\* recv completes and its item is handled.
Upstream(item) ==
    /\ Handle(item)
    /\ DropAdvance
    /\ recv' = NoItem
    /\ UNCHANGED <<kind, chan, up, pend, flag, lost>>

\* recv takes an item.  Its Consume command goes at once if the command queue has
\* room; the items that end the stream for good send none.
Receive ==
    /\ pc = "loop" /\ ~flag /\ recv = NoItem /\ delivery # <<>>
    /\ delivery' = Tail(delivery)
    /\ \/ Upstream(Head(delivery))
       \/ /\ Head(delivery).is # "early"
          /\ recv' = Head(delivery)
          /\ UNCHANGED <<kind, upload, chan, free, up, pend, fwd, seen, pc, flag, lost>>

ConsumeQueued ==
    /\ pc = "loop" /\ ~flag /\ recv # NoItem
    /\ Upstream(recv)
    /\ UNCHANGED delivery

NoMoreItemsAgain ==
    /\ pc = "loop" /\ ~flag /\ recv = NoItem /\ delivery = <<>> /\ ~up.open
    /\ UNCHANGED <<fwd, seen, pc>>
    /\ DropAdvance
    /\ UNCHANGED <<kind, chan, coordinator, recv, flag, lost>>

\* Every sender of the delivery queue is gone and it is empty: recv returns None.
NoMoreItems ==
    /\ pc = "loop" /\ ~flag /\ recv = NoItem /\ delivery = <<>> /\ ~up.open
    /\ Fail
    /\ DropAdvance
    /\ UNCHANGED <<kind, chan, coordinator, recv, flag, lost>>

\* LocalBodyUpload::advance waits in turn for permits, for the socket unless the
\* prefix still has bytes, and for room in the body channel.  The loop keeps the recv
\* future while it waits.
Waiting(at, byte) == upload' = [upload EXCEPT !.future = Advance(at, byte)]

AdvanceWaits ==
    /\ pc = "loop" /\ ~flag /\ upload.active /\ up.open
    /\ \/ /\ upload.future.at = "idle" /\ free > 0
          /\ Waiting("reserved", 0) /\ free' = free - 1
       \/ /\ upload.future.at = "reserved" /\ upload.read < kind.prefix
          /\ Waiting("holding", upload.read + 1) /\ UNCHANGED free
       \/ /\ upload.future.at = "reserved" /\ upload.read >= kind.prefix
          /\ upload' = [upload EXCEPT !.taken = @ + 1,
                                      !.future = Advance("holding", upload.taken + 1)]
          /\ UNCHANGED free
    /\ UNCHANGED <<kind, chan, coordinator, recv, fwd, seen, pc, flag, lost>>

\* advance completes, and the recv future is dropped with the item it had taken.
AdvanceEnds(next) ==
    /\ upload' = next
    /\ lost' = IF recv = NoItem THEN lost ELSE lost \cup {recv}
    /\ recv' = NoItem

AdvanceSentUncounted ==
    /\ pc = "loop" /\ ~flag /\ up.open /\ upload.future.at = "holding" /\ Len(chan) < BodyQueue
    /\ chan' = Append(chan, upload.future.byte)
    /\ AdvanceEnds([upload EXCEPT !.future = NoAdvance])
    /\ UNCHANGED <<kind, free, coordinator, fwd, seen, pc, flag>>

AdvanceSent ==
    /\ pc = "loop" /\ ~flag /\ up.open /\ upload.future.at = "holding" /\ Len(chan) < BodyQueue
    /\ chan' = Append(chan, upload.future.byte)
    /\ AdvanceEnds([upload EXCEPT !.active = upload.read + 1 < kind.body,
                                  !.read = @ + 1, !.future = NoAdvance])
    /\ UNCHANGED <<kind, free, coordinator, fwd, seen, pc, flag>>

\* The body channel or the budget is closed: the upload stops, the loop goes on.
AdvancePipe ==
    /\ pc = "loop" /\ ~flag /\ upload.active /\ ~up.open
    /\ AdvanceEnds([upload EXCEPT !.active = FALSE, !.future = NoAdvance])
    /\ free' = free + Reserved
    /\ UNCHANGED <<kind, chan, coordinator, fwd, seen, pc, flag>>

\* The caller ended its body early: the stream is cancelled.  It gets a 400, or
\* nothing when its socket failed.
AdvanceShort ==
    /\ pc = "loop" /\ ~flag /\ upload.active /\ upload.future.at # "holding"
    /\ Writes(fwd, Local, "over") \/ Leave
    /\ upload' = [upload EXCEPT !.active = FALSE, !.future = NoAdvance]
    /\ recv' = NoItem
    /\ free' = free + Reserved
    /\ UNCHANGED <<kind, chan, coordinator, flag, lost>>

------------------------------------------------------------------------------
(* The write to the caller.                                                 *)

\* The caller has taken all of it.
Written ==
    /\ pc = "writing" /\ ~flag
    /\ seen' = fwd.write.result
    /\ pc' = fwd.write.then
    /\ fwd' = [fwd EXCEPT !.write = NoWrite]
    /\ UNCHANGED <<kind, upload, chan, free, coordinator, recv, flag, lost>>

\* The caller has some part of it: a part of a head is no head.
Cut ==
    LET w     == fwd.write.result
        whole == {[w EXCEPT !.bytes = k] :
                     k \in (IF seen.head = w.head THEN seen.bytes ELSE 0)..w.bytes}
    IN  seen' \in {seen} \cup whole

\* The write fails: the stream is cancelled, the caller has what it got.
CallerLeaves ==
    /\ pc = "writing" /\ ~flag
    /\ Cut
    /\ Return
    /\ UNCHANGED <<kind, chan, free, coordinator, fwd, flag, lost>>

Flag ==
    /\ ~flag
    /\ flag' = TRUE
    /\ UNCHANGED <<kind, upload, chan, free, coordinator, recv, fwd, seen, pc, lost>>

\* The loop's first branch, or until_shutdown, which gives the write up.
SeesFlag ==
    /\ flag
    /\ \/ pc = "loop" /\ UNCHANGED seen
       \/ pc = "writing" /\ Cut
    /\ Return
    /\ UNCHANGED <<kind, chan, free, coordinator, fwd, flag, lost>>

------------------------------------------------------------------------------
LoopStep == Receive \/ ConsumeQueued \/ NoMoreItems \/ SeesFlag

Next ==
    /\ pc # "over"
    /\ \/ LoopStep \/ AdvanceWaits \/ AdvanceSent \/ AdvancePipe \/ AdvanceShort
       \/ Written \/ CallerLeaves \/ Flag
       \/ TakeChunk \/ Drain \/ ShortBody \/ JournalHead \/ JournalBody \/ Flush
       \/ JournalEnds("close") \/ JournalEnds("reset") \/ CarrierEnds

\* The loop is polled while it can go on; the coordinator flushes what is pending;
\* a write completes or fails only for a caller that goes on reading.
CallerReads == kind.reads /\ (Written \/ CallerLeaves)

Spec == Init /\ [][Next]_vars /\ WF_vars(LoopStep)
             /\ WF_vars(CallerReads)
             /\ WF_vars(pc # "over" /\ Flush)

------------------------------------------------------------------------------
(* Properties.                                                              *)

\* A local caller that receives as many bytes as its response announced has the
\* journal's whole body: the journal closed the stream after exactly those bytes.
\* A stream that was reset, cut, short or overlong never looks complete.
CompleteMeansClean ==
    seen.head = "journal" /\ ~kind.head /\ seen.len # Unknown /\ seen.bytes = seen.len
        => up.said = "close" /\ up.sent = seen.bytes /\ up.len \in {Unknown, seen.bytes}

\* The select loop may drop a recv that has taken an item and waits to queue its
\* Consume command.  What is lost that way is only an end, before any head, which
\* the closed queue then repeats; never a part of the response.
ItemsKept ==
    lost # {} => fwd.head = "none" /\ \A item \in lost : item.is \in {"close", "reset", "eof"}

\* The journal is sent the caller's bytes in order with none missing, although the
\* loop may drop an upload step that has read from the socket; and every permit of
\* the body budget is free or leased to a byte that is still on its way.
UploadIntact ==
    /\ up.intact
    /\ pc # "over" => free + Reserved + Len(chan) + up.staged = Stage

\* A request that is told to shut down, or whose stream is over and whose caller goes
\* on reading, is finished: it leads to pc = "over".  A caller that has stopped reading
\* holds a request whose stream is over for as long as it likes.
MustEnd == flag \/ (~up.open /\ kind.reads)
==============================================================================
