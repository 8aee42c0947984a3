--------------------------- MODULE CarrierDialer ----------------------------
(***************************************************************************)
(* The dialer's end of a carrier: spl-core's CarrierDemux, the coordinator *)
(* task of spl-transport that owns it, the uploads it pumps, and the       *)
(* StreamRx handles of the application.                                    *)
(*                                                                         *)
(* A turn of the coordinator takes one event: a read of one or more        *)
(* frames, a command, request body, a cancel, or a drained packet.  It     *)
(* then retries the deliveries that found a queue full, and pumps the      *)
(* ready uploads while the writer has room for them.  The application      *)
(* runs between any two steps of a turn.                                   *)
(*                                                                         *)
(* A packet is on the carrier as soon as it is sent; inflight counts the   *)
(* packets whose Drained event the coordinator has not handled.            *)
(***************************************************************************)
EXTENDS MuxFrames, FiniteSets, SequencesExt

CONSTANTS
    Ids,             \* the ids FrameDialer allocates, up to a bound
    Bodies,          \* declared lengths of request bodies
    RequestHead,     \* length of a request head
    ReplyHead,       \* length of a response head
    StreamQueue,     \* STREAM_QUEUE
    WriterQueue,     \* WRITER_QUEUE
    ControlReserve,  \* CONTROL_RESERVE
    ReadMax,         \* bound on the frames of one read
    MayGarble,       \* a response may fail to parse
    MayCancel,       \* the application may drop a StreamRx or cut a body short
    MayStop          \* the carrier may be shut down or lost

DialerAssumption ==
    /\ Ids = {2 * i - 1 : i \in 1..Cardinality(Ids)}
    /\ Bodies \subseteq Nat
    /\ {RequestHead, ReplyHead, StreamQueue, ReadMax} \subseteq Nat \ {0}
    /\ {WriterQueue, ControlReserve} \subseteq Nat
    /\ ControlReserve < WriterQueue
    /\ {MayGarble, MayCancel, MayStop} \subseteq BOOLEAN

VARIABLES
    nextId,    \* FrameDialer.next
    demux,     \* CarrierDemux.streams: the window and head bytes of known ids
    active,    \* the coordinator's StreamState of each stream it serves
    ready,     \* ids of uploads to pump
    inflight,  \* CoordinatorWriter.inflight
    turn,      \* where the coordinator is in its turn
    fed,       \* the DemuxOutput of the current read
    delivery,  \* the delivery queue of each StreamRx
    app,       \* what the holder of each StreamRx has received
    consumes,  \* Consume commands not yet handled
    cancels,   \* ids in the cancel channel
    toHome,    \* frames on the carrier
    toDialer

dialerVars == <<nextId, demux, active, ready, inflight, turn, fed, delivery, app,
                consumes, cancels, toHome, toDialer>>

Item(kind, len) == [kind |-> kind, len |-> len]
Ends     == {"Close", "Reset", "Eof"}   \* StreamEnd
Terminal == Ends \cup {"EarlyFinal"}

NoOutputYet == [pongs |-> <<>>, emit |-> <<>>, grants |-> <<>>, events |-> <<>>]

At(phase) == [at |-> phase, left |-> 0, ids |-> {}]
Is(phase) == turn.at = phase

FreshUpload(declared) ==
    [declared |-> declared, fed |-> 0, sent |-> 0, credit |-> Window,
     closed |-> FALSE, queued |-> TRUE, pending |-> <<>>]

DialerInit ==
    /\ nextId = 1
    /\ demux = [s \in {} |-> FALSE]
    /\ active = [s \in {} |-> FALSE]
    /\ ready = <<>> /\ inflight = 0
    /\ turn = At("idle") /\ fed = NoOutputYet
    /\ delivery = [s \in Ids |-> <<>>]
    /\ app = [s \in Ids |-> [last |-> "none", dropped |-> FALSE]]
    /\ consumes = <<>> /\ cancels = {}
    /\ toHome = <<>> /\ toDialer = <<>>

Serves(s) == s \in DOMAIN active
Routes(s) == s \in DOMAIN demux
Forget(table, s)    == Restrict(table, DOMAIN table \ {s})
Learn(table, s, st) == [t \in DOMAIN table \cup {s} |-> IF t = s THEN st ELSE table[t]]

-----------------------------------------------------------------------------
(* The writer.                                                             *)

\* send_writer, once per frame.  A full writer queue fails the carrier, and
\* the frames before it have been sent.
Fits(frames) == inflight + Len(frames) <= WriterQueue
Write(frames, next) ==
    /\ toHome' = toHome \o (IF Fits(frames) THEN frames
                            ELSE SubSeq(frames, 1, WriterQueue - inflight))
    /\ inflight' = IF Fits(frames) THEN inflight + Len(frames) ELSE WriterQueue
    /\ turn' = IF Fits(frames) THEN next ELSE At("failing")

\* has_upload_room
UploadRoom == inflight < WriterQueue - ControlReserve

\* After its event, a turn retries the streams with a delivery waiting.
Settling(act) ==
    LET waiting == {s \in DOMAIN act : act[s].pending # <<>>} IN
    IF waiting = {} THEN At("pump") ELSE [At("flush") EXCEPT !.ids = waiting]

\* enqueue_ready
EnqueueReady(s) == ready' = IF active[s].queued THEN ready ELSE Append(ready, s)

\* Mutants: the demux keeps routing the stream; no RESET is sent.
ResetActiveRouted(s, first, next) ==
    /\ active' = Forget(active, s)
    /\ UNCHANGED demux
    /\ Write(IF Serves(s) THEN first \o <<ResetFrame(s, "CANCEL")>> ELSE first, next)
ResetActiveSilent(s, first, next) ==
    /\ active' = Forget(active, s)
    /\ demux' = IF Serves(s) THEN Forget(demux, s) ELSE demux
    /\ Write(first, next)

\* reset_active_stream: forget the stream in both tables and send RESET,
\* after the frames given first.
ResetActive(s, first, next) ==
    /\ active' = Forget(active, s)
    /\ IF Serves(s)
       THEN /\ demux' = Forget(demux, s)
            /\ Write(first \o <<ResetFrame(s, "CANCEL")>>, next)
       ELSE /\ UNCHANGED demux
            /\ Write(first, next)

-----------------------------------------------------------------------------
(* Delivery to the application.                                            *)

QueueFull(s) == Len(delivery[s]) >= StreamQueue

\* Mutant: coalesced body bytes lose their wire cost.
EnqueuePendingUncosted(pending, item) ==
    IF item.kind = "Body" /\ pending # <<>> /\ Last(pending).kind = "Body"
    THEN pending ELSE Append(pending, item)

\* enqueue_pending_delivery joins adjacent bodies.
EnqueuePending(pending, item) ==
    IF item.kind = "Body" /\ pending # <<>> /\ Last(pending).kind = "Body"
    THEN Append(Front(pending), Item("Body", Last(pending).len + item.len))
    ELSE Append(pending, item)

\* Mutants: an early head is delivered like any other; an item overtakes
\* those that wait.
IsEarlyNever(s, item) == FALSE
MustWaitIfFull(s)     == QueueFull(s) /\ ~app[s].dropped

IsEarly(s, item) == item.kind = "Head" /\ ~active[s].closed
MustWait(s)      == active[s].pending # <<>> \/ (QueueFull(s) /\ ~app[s].dropped)

\* deliver_stream_item: an early response head resets the stream; an item
\* for a full queue waits; an end that was queued removes the stream; a
\* dropped receiver resets it.  known is what the demux is left with.
DeliverItem(s, item, known, first, next) ==
    \/ /\ ~Serves(s)
       /\ UNCHANGED <<active, delivery>>
       /\ demux' = known /\ Write(first, next)
    \/ /\ Serves(s) /\ IsEarly(s, item)
       /\ delivery' = IF app[s].dropped \/ QueueFull(s) THEN delivery
                      ELSE [delivery EXCEPT ![s] = Append(@, Item("EarlyFinal", 0))]
       /\ ResetActive(s, first, next)
    \/ /\ Serves(s) /\ ~IsEarly(s, item) /\ MustWait(s)
       /\ active' = [active EXCEPT ![s].pending = EnqueuePending(@, item)]
       /\ UNCHANGED delivery
       /\ demux' = known /\ Write(first, next)
    \/ /\ Serves(s) /\ ~IsEarly(s, item) /\ ~MustWait(s) /\ app[s].dropped
       /\ UNCHANGED delivery
       /\ ResetActive(s, first, next)
    \/ /\ Serves(s) /\ ~IsEarly(s, item) /\ ~MustWait(s) /\ ~app[s].dropped
       /\ delivery' = [delivery EXCEPT ![s] = Append(@, item)]
       /\ active' = IF item.kind \in Ends THEN Forget(active, s) ELSE active
       /\ demux' = known /\ Write(first, next)

-----------------------------------------------------------------------------
(* A read: CarrierDemux::feed decodes every frame of it, then handle_read  *)
(* sends what the demux wants sent, applies the grants, and delivers the   *)
(* events.                                                                 *)

BeginRead ==
    /\ Is("idle") /\ toDialer # <<>>
    /\ turn' = [At("feed") EXCEPT !.left = ReadMax]
    /\ UNCHANGED <<nextId, demux, active, ready, inflight, fed, delivery, app, consumes,
                   cancels, toHome, toDialer>>

\* Mutant: a WINDOW produced earlier in the read is sent for a stream that
\* has ended since.
EndStreamLateWindow(s, frames, item) ==
    /\ demux' = Forget(demux, s)
    /\ fed' = [fed EXCEPT !.emit = @ \o frames, !.events = Append(@, <<s, item>>)]

\* A known stream ends: its WINDOW frames of this read are withdrawn.
EndStream(s, frames, item) ==
    /\ demux' = Forget(demux, s)
    /\ fed' = [fed EXCEPT
                  !.emit = SelectSeq(@, LAMBDA g : g.sid # s \/ g.flags # {"WINDOW"}) \o frames,
                  !.events = Append(@, <<s, item>>)]

\* reject_attributable
Reject(f) ==
    LET reset == <<ResetFrame(f.sid, "PROTOCOL_ERROR")>> IN
    \/ /\ Routes(f.sid)
       /\ EndStream(f.sid, reset, Item("Reset", 0))
    \/ /\ ~Routes(f.sid)
       /\ UNCHANGED demux
       /\ fed' = [fed EXCEPT !.emit = @ \o reset]

FeedControl(f) ==
    /\ f.sid = 0 /\ ~f.bad
    /\ UNCHANGED demux
    /\ \/ f.flags = {"PING"} /\ fed' = [fed EXCEPT !.pongs = Append(@, PongFrame)]
       \/ f.flags = {"PONG"} /\ UNCHANGED fed

\* Illegal flags, OPEN, or a control flag on a stream.
FeedInvalid(f) ==
    /\ f.sid # 0
    /\ ~FlagsValid(f.flags) \/ f.flags \cap (ControlFlags \cup {"OPEN"}) # {}
    /\ Reject(f)

PlainFrame(f) ==
    f.sid # 0 /\ FlagsValid(f.flags) /\ f.flags \cap (ControlFlags \cup {"OPEN"}) = {}

FeedUnknown(f) ==
    /\ PlainFrame(f) /\ ~Routes(f.sid)
    /\ \/ ("DATA" \in f.flags \/ f.flags = {"WINDOW"}) /\ Reject(f)
       \/ ~("DATA" \in f.flags \/ f.flags = {"WINDOW"}) /\ UNCHANGED <<demux, fed>>

\* The payload of a CLOSE is not looked at, nor is that of a RESET refused.
FeedReset(f) ==
    /\ PlainFrame(f) /\ Routes(f.sid) /\ f.flags = {"RESET"}
    /\ EndStream(f.sid, <<>>, Item("Reset", 0))

FeedClose(f) ==
    /\ PlainFrame(f) /\ Routes(f.sid) /\ f.flags = {"CLOSE"}
    /\ EndStream(f.sid, <<>>, Item("Close", 0))

FeedWindow(f) ==
    /\ PlainFrame(f) /\ Routes(f.sid) /\ f.flags = {"WINDOW"}
    /\ \/ f.bad /\ Reject(f)
       \/ /\ ~f.bad
          /\ fed' = [fed EXCEPT !.grants = Append(@, <<f.sid, f.credit>>)]
          /\ UNCHANGED demux

\* Mutant: the head is not remembered as complete.
HeadSeenNever(st, n) == st.head

HeadSeen(st, n) == st.head + n

\* DATA or DATA|CLOSE: the bytes of the response head are consumed at once,
\* body bytes when the application has drained them.
FeedData(f) ==
    LET s        == f.sid
        st       == demux[s]
        headLeft == ReplyHead - st.head
        head     == IF f.len < headLeft THEN f.len ELSE headLeft
        window   == Debit(st.window, f.len)
        grant    == IF GrantDue(window, head) THEN <<WindowFrame(s, Grant(window, head))>>
                    ELSE <<>>
        items    == (IF head > 0 /\ head = headLeft THEN <<<<s, Item("Head", 0)>>>> ELSE <<>>)
                    \o (IF f.len > head THEN <<<<s, Item("Body", f.len - head)>>>> ELSE <<>>)
    IN
    /\ PlainFrame(f) /\ Routes(s) /\ "DATA" \in f.flags
    /\ \/ /\ ~CanDebit(st.window, f.len)
          /\ EndStream(s, <<ResetFrame(s, "FLOW_CONTROL_ERROR")>>, Item("Reset", 0))
       \/ /\ CanDebit(st.window, f.len)
          /\ MayGarble /\ f.len > 0
          /\ EndStream(s, <<>>, Item("Reset", 0))
       \/ /\ CanDebit(st.window, f.len) /\ "CLOSE" \notin f.flags
          /\ demux' = [demux EXCEPT ![s] = [window |-> ConsumeBytes(window, head),
                                            head   |-> HeadSeen(st, head)]]
          /\ fed' = [fed EXCEPT !.emit = @ \o grant, !.events = @ \o items]
       \/ /\ CanDebit(st.window, f.len) /\ "CLOSE" \in f.flags
          /\ demux' = Forget(demux, s)
          /\ fed' = [fed EXCEPT
                        !.emit = SelectSeq(@, LAMBDA g : g.sid # s \/ g.flags # {"WINDOW"}),
                        !.events = @ \o items \o <<<<s, Item("Close", 0)>>>>]

FeedFrame ==
    LET f == Head(toDialer) IN
    /\ Is("feed") /\ turn.left > 0 /\ toDialer # <<>>
    /\ \/ FeedControl(f) \/ FeedInvalid(f) \/ FeedUnknown(f) \/ FeedReset(f)
       \/ FeedClose(f) \/ FeedData(f) \/ FeedWindow(f)
    /\ toDialer' = Tail(toDialer)
    /\ turn' = [turn EXCEPT !.left = @ - 1]
    /\ UNCHANGED <<nextId, active, ready, inflight, delivery, app, consumes, cancels, toHome>>

\* Anything else on stream zero fails the carrier; the output is dropped.
FeedFatal ==
    LET f == Head(toDialer) IN
    /\ Is("feed") /\ turn.left > 0 /\ toDialer # <<>>
    /\ f.sid = 0 /\ (f.bad \/ f.flags \notin {{"PING"}, {"PONG"}})
    /\ turn' = At("failing")
    /\ UNCHANGED <<nextId, demux, active, ready, inflight, fed, delivery, app, consumes,
                   cancels, toHome, toDialer>>

\* The read returned no more than these frames.
EndFeed ==
    /\ Is("feed") /\ turn.left < ReadMax
    /\ turn' = At("route")
    /\ UNCHANGED <<nextId, demux, active, ready, inflight, fed, delivery, app, consumes,
                   cancels, toHome, toDialer>>

RouteFrames ==
    /\ Is("route") /\ fed.pongs \o fed.emit # <<>>
    /\ Write(fed.pongs \o fed.emit, turn)
    /\ fed' = [fed EXCEPT !.pongs = <<>>, !.emit = <<>>]
    /\ UNCHANGED <<nextId, demux, active, ready, delivery, app, consumes, cancels, toDialer>>

\* WindowedUpload::grant, and a ready upload; too much credit resets the
\* stream.  A grant for a stream no longer served is dropped.
RouteGrant ==
    LET s      == fed.grants[1][1]
        credit == fed.grants[1][2]
        next   == active[s].credit + credit
        reset  == <<ResetFrame(s, "FLOW_CONTROL_ERROR")>>
    IN
    /\ Is("route") /\ fed.pongs \o fed.emit = <<>> /\ fed.grants # <<>>
    /\ fed' = [fed EXCEPT !.grants = Tail(@)]
    /\ UNCHANGED <<nextId, app, consumes, cancels, toDialer>>
    /\ \/ /\ ~Serves(s)
          /\ UNCHANGED <<demux, active, ready, inflight, delivery, toHome, turn>>
       \/ /\ Serves(s) /\ next <= MaxCredit
          /\ active' = [active EXCEPT ![s].credit = next, ![s].queued = TRUE]
          /\ EnqueueReady(s)
          /\ UNCHANGED <<demux, inflight, delivery, toHome, turn>>
       \/ /\ Serves(s) /\ next > MaxCredit /\ Fits(reset)
          /\ DeliverItem(s, Item("Reset", 0), Forget(demux, s), reset, turn)
          /\ UNCHANGED ready
       \/ /\ Serves(s) /\ next > MaxCredit /\ ~Fits(reset)
          /\ turn' = At("failing")
          /\ UNCHANGED <<demux, active, ready, inflight, delivery, toHome>>

RouteEvent ==
    /\ Is("route") /\ fed.pongs \o fed.emit \o fed.grants = <<>> /\ fed.events # <<>>
    /\ DeliverItem(fed.events[1][1], fed.events[1][2], demux, <<>>, turn)
    /\ fed' = [fed EXCEPT !.events = Tail(@)]
    /\ UNCHANGED <<nextId, ready, app, consumes, cancels, toDialer>>

EndRead ==
    /\ Is("route") /\ fed = NoOutputYet
    /\ turn' = Settling(active)
    /\ UNCHANGED <<nextId, demux, active, ready, inflight, fed, delivery, app, consumes,
                   cancels, toHome, toDialer>>

-----------------------------------------------------------------------------
(* The other events of the coordinator.                                    *)

\* Mutant: a new stream is pumped before those that wait.
QueueNewFirst(s) == <<s>> \o ready
QueueNew(s)      == Append(ready, s)

\* open_stream_on_carrier, followed by a pump of its own.
Open ==
    /\ Is("idle") /\ nextId \in Ids
    /\ \E declared \in Bodies : active' = Learn(active, nextId, FreshUpload(declared))
    /\ demux' = Learn(demux, nextId, [window |-> FreshWindow(Window), head |-> 0])
    /\ ready' = QueueNew(nextId)
    /\ nextId' = nextId + 2
    /\ turn' = At("open")
    /\ UNCHANGED <<inflight, fed, delivery, app, consumes, cancels, toHome, toDialer>>

\* The StreamRx is handed over, or its requester has gone meanwhile.
EndOpen ==
    LET s == nextId - 2 IN
    /\ Is("open") /\ (ready = <<>> \/ ~UploadRoom)
    /\ UNCHANGED <<nextId, ready, fed, delivery, consumes, toDialer>>
    /\ \/ /\ turn' = Settling(active)
          /\ UNCHANGED <<demux, active, inflight, app, cancels, toHome>>
       \/ /\ MayCancel
          /\ app' = [app EXCEPT ![s].dropped = TRUE]
          /\ cancels' = cancels \cup {s}
          /\ ResetActive(s, <<>>, Settling(Forget(active, s)))

\* CarrierDemux::consume: nothing is granted for a stream that is unknown.
TakeConsume ==
    LET s == consumes[1].sid
        n == consumes[1].bytes
        w == demux[s].window
    IN
    /\ Is("idle") /\ consumes # <<>>
    /\ consumes' = Tail(consumes)
    /\ UNCHANGED <<nextId, active, ready, fed, delivery, app, cancels, toDialer>>
    /\ \/ /\ Routes(s)
          /\ demux' = [demux EXCEPT ![s].window = ConsumeBytes(@, n)]
          /\ Write(IF GrantDue(w, n) THEN <<WindowFrame(s, Grant(w, n))>> ELSE <<>>,
                   Settling(active))
       \/ /\ ~Routes(s)
          /\ UNCHANGED <<demux, inflight, toHome>>
          /\ turn' = Settling(active)

\* receive_body for one id after another while ids are waiting.  A wake-up
\* without new bytes happens when an earlier one found them.
BodyArrives(s, n) ==
    /\ Is("idle") \/ Is("body")
    /\ Serves(s) /\ n <= active[s].declared - active[s].fed
    /\ active' = [active EXCEPT ![s].fed = @ + n, ![s].queued = TRUE]
    /\ EnqueueReady(s)
    /\ turn' = At("body")
    /\ UNCHANGED <<nextId, demux, inflight, fed, delivery, app, consumes, cancels, toHome,
                   toDialer>>

\* The sender is gone before the declared length.
BodyShort(s) ==
    /\ MayCancel
    /\ Is("idle") \/ Is("body")
    /\ Serves(s) /\ active[s].fed < active[s].declared
    /\ ResetActive(s, <<>>, At("body"))
    /\ UNCHANGED <<nextId, ready, fed, delivery, app, consumes, cancels, toDialer>>

EndBody ==
    /\ Is("body")
    /\ turn' = Settling(active)
    /\ UNCHANGED <<nextId, demux, active, ready, inflight, fed, delivery, app, consumes,
                   cancels, toHome, toDialer>>

TakeCancel(s) ==
    /\ Is("idle") /\ s \in cancels
    /\ cancels' = cancels \ {s}
    /\ ResetActive(s, <<>>, Settling(Forget(active, s)))
    /\ UNCHANGED <<nextId, ready, fed, delivery, app, consumes, toDialer>>

Drained ==
    /\ Is("idle") /\ inflight > 0
    /\ inflight' = inflight - 1
    /\ turn' = Settling(active)
    /\ UNCHANGED <<nextId, demux, active, ready, fed, delivery, app, consumes, cancels,
                   toHome, toDialer>>

\* Shutdown, the end of the carrier, or a lost keepalive.
Stop ==
    /\ MayStop /\ Is("idle")
    /\ turn' = At("failing")
    /\ UNCHANGED <<nextId, demux, active, ready, inflight, fed, delivery, app, consumes,
                   cancels, toHome, toDialer>>

\* fanout_eof, or fanout_certificate_unknown, which ends a stream for its
\* reader in the same way; the task ends and its channels with it.
Teardown ==
    /\ Is("failing")
    /\ delivery' = [s \in Ids |->
                       IF Serves(s) /\ ~QueueFull(s) /\ ~app[s].dropped
                       THEN Append(delivery[s], Item("Eof", 0)) ELSE delivery[s]]
    /\ demux' = [s \in {} |-> FALSE] /\ active' = [s \in {} |-> FALSE]
    /\ ready' = <<>> /\ inflight' = 0 /\ fed' = NoOutputYet
    /\ consumes' = <<>> /\ cancels' = {} /\ toDialer' = <<>>
    /\ turn' = At("stopped")
    /\ UNCHANGED <<nextId, app, toHome>>

-----------------------------------------------------------------------------
(* The end of a turn.                                                      *)

\* The part of a pending queue that can be delivered: nothing follows an end.
ThroughEnd(pending) ==
    LET ends == {i \in 1..Len(pending) : pending[i].kind \in Ends} IN
    IF ends = {} THEN pending ELSE SubSeq(pending, 1, Min(ends))

\* flush_pending_deliveries for one stream, in any order of streams.
Flush(s) ==
    LET room  == StreamQueue - Len(delivery[s])
        wants == ThroughEnd(active[s].pending)
        n     == IF Len(wants) < room THEN Len(wants) ELSE room
        rest  == [turn EXCEPT !.ids = @ \ {s},
                              !.at = IF turn.ids = {s} THEN "pump" ELSE "flush"]
    IN
    /\ Is("flush") /\ s \in turn.ids
    /\ UNCHANGED <<nextId, ready, fed, app, consumes, cancels, toDialer>>
    /\ \/ /\ app[s].dropped
          /\ UNCHANGED delivery
          /\ ResetActive(s, <<>>, rest)
       \/ /\ ~app[s].dropped
          /\ delivery' = [delivery EXCEPT ![s] = @ \o SubSeq(wants, 1, n)]
          /\ active' = IF n = Len(wants) /\ Last(wants).kind \in Ends
                       THEN Forget(active, s)
                       ELSE [active EXCEPT ![s].pending = SubSeq(@, n + 1, Len(@))]
          /\ turn' = rest
          /\ UNCHANGED <<demux, inflight, toHome>>

\* WindowedUpload: the head goes out before the body, and CLOSE once the
\* whole declared body has been sent.
Unsent(u)  == IF u.sent < RequestHead THEN RequestHead - u.sent ELSE RequestHead + u.fed - u.sent
Blocked(u) == ~u.closed /\ u.credit = 0 /\ Unsent(u) > 0
MayPoll(u) == IF Unsent(u) > 0 THEN u.credit > 0 ELSE ~u.closed /\ u.fed = u.declared

PollSize(u) == Min({Unsent(u), Chunk, u.credit})
Polled(u)   == IF Unsent(u) > 0
               THEN [u EXCEPT !.sent = @ + PollSize(u), !.credit = @ - PollSize(u)]
               ELSE [u EXCEPT !.closed = TRUE]
PollFrame(s, u) == IF Unsent(u) > 0
                   THEN Frame(s, IF u.sent = 0 THEN {"OPEN", "DATA"} ELSE {"DATA"}, PollSize(u))
                   ELSE CloseFrame(s)

Pumping == (Is("open") \/ Is("pump")) /\ ready # <<>> /\ UploadRoom

\* Mutant: an upload that has sent a frame is not queued again.
StaysReadyNever(u) == FALSE

StaysReady(u) == ~u.closed /\ ~Blocked(u)

\* pump_ready, one stream of it.
PumpStale ==
    /\ Pumping /\ ~Serves(Head(ready))
    /\ ready' = Tail(ready)
    /\ UNCHANGED <<nextId, demux, active, inflight, turn, fed, delivery, app, consumes,
                   cancels, toHome, toDialer>>

PumpUpload ==
    LET s == Head(ready)
        u == active[s]
    IN
    /\ Pumping /\ Serves(s)
    /\ UNCHANGED <<nextId, demux, fed, delivery, app, consumes, cancels, toDialer>>
    /\ \/ /\ MayPoll(u)
          /\ active' = [active EXCEPT ![s] = [Polled(u) EXCEPT !.queued = StaysReady(Polled(u))]]
          /\ ready' = IF StaysReady(Polled(u)) THEN Append(Tail(ready), s) ELSE Tail(ready)
          /\ Write(<<PollFrame(s, u)>>, turn)
       \/ /\ ~MayPoll(u)
          /\ active' = [active EXCEPT ![s].queued = FALSE]
          /\ ready' = Tail(ready)
          /\ UNCHANGED <<inflight, toHome, turn>>

EndTurn ==
    /\ Is("pump") /\ (ready = <<>> \/ ~UploadRoom)
    /\ turn' = At("idle")
    /\ UNCHANGED <<nextId, demux, active, ready, inflight, fed, delivery, app, consumes,
                   cancels, toHome, toDialer>>

-----------------------------------------------------------------------------
(* The application's StreamRx.                                             *)

HandedOver(s) == s < nextId /\ ~(Is("open") /\ s = nextId - 2)
Listening(s)  == HandedOver(s) /\ ~app[s].dropped /\ app[s].last \notin Terminal \cup {"Gone"}

\* Every item but an early head is reported to the coordinator.
Recv(s) ==
    LET item == Head(delivery[s]) IN
    /\ Listening(s) /\ delivery[s] # <<>>
    /\ delivery' = [delivery EXCEPT ![s] = Tail(@)]
    /\ app' = [app EXCEPT ![s].last = item.kind]
    /\ consumes' = IF item.kind = "EarlyFinal" \/ Is("stopped") THEN consumes
                   ELSE Append(consumes, [sid |-> s, bytes |-> item.len])
    /\ UNCHANGED <<nextId, demux, active, ready, inflight, turn, fed, cancels, toHome, toDialer>>

\* The coordinator has dropped the sender.
RecvGone(s) ==
    /\ Listening(s) /\ delivery[s] = <<>> /\ ~Serves(s)
    /\ app' = [app EXCEPT ![s].last = "Gone"]
    /\ UNCHANGED <<nextId, demux, active, ready, inflight, turn, fed, delivery, consumes,
                   cancels, toHome, toDialer>>

\* A drop before the end cancels the stream.
DropRx(s) ==
    /\ MayCancel /\ Listening(s)
    /\ app' = [app EXCEPT ![s].dropped = TRUE]
    /\ cancels' = IF Is("stopped") THEN cancels ELSE cancels \cup {s}
    /\ UNCHANGED <<nextId, demux, active, ready, inflight, turn, fed, delivery, consumes,
                   toHome, toDialer>>

-----------------------------------------------------------------------------
\* The bytes of a stream between the demux and a handled Consume.
Undrained(s) ==
    LET cost(items) == FoldLeft(LAMBDA n, x : n + x.len, 0, items) IN
    cost(delivery[s]) + cost(active[s].pending)
    + FoldLeft(LAMBDA n, c : IF c.sid = s THEN n + c.bytes ELSE n, 0, consumes)

ReadTurn   == BeginRead \/ FeedFrame \/ FeedFatal \/ EndFeed \/ RouteFrames \/ RouteGrant \/ RouteEvent \/ EndRead
BodyTurn   == (\E s \in Ids, n \in 0..Max(Bodies) : BodyArrives(s, n)) \/ EndBody
AbortTurn  == (\E s \in Ids : TakeCancel(s) \/ BodyShort(s)) \/ Stop \/ Teardown
SettleTurn == (\E s \in Ids : Flush(s)) \/ PumpStale \/ PumpUpload \/ EndTurn
Coordinate == ReadTurn \/ Open \/ EndOpen \/ TakeConsume \/ BodyTurn \/ AbortTurn \/ Drained \/ SettleTurn
Applies    == \E s \in Ids : Recv(s) \/ RecvGone(s) \/ DropRx(s)
=============================================================================
