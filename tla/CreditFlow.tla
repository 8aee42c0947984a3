----------------------------- MODULE CreditFlow -----------------------------
(***************************************************************************)
(* Credit-based flow control of one direction of one mux stream: the       *)
(* sender's stage and send credit, the receiver's RecvWindow, DATA and     *)
(* CLOSE frames in flight one way and WINDOW frames in flight the other.   *)
(*                                                                         *)
(* Payload bytes are named by their offset in the stream.  A DATA frame is *)
(* the interval of offsets it carries; a WINDOW frame is the interval of   *)
(* consumed offsets whose credit it returns, so its 4-byte credit value is *)
(* upto - from.                                                            *)
(*                                                                         *)
(* The repository has two kinds of sender.  The dialer's WindowedUpload    *)
(* cuts a frame down to the credit it has.  The home's MuxAcceptor and the *)
(* bridge's frame dialer send a frame whole or not at all.  Which one a    *)
(* behaviour has is fixed initially.                                       *)
(***************************************************************************)
EXTENDS Naturals, Sequences

CONSTANTS
    Window,       \* INITIAL_WINDOW
    Threshold,    \* RECEIVE_GRANT_THRESHOLD
    Chunk,        \* RECOMMENDED_CHUNK
    Stage,        \* UPLOAD_BODY_STAGE_CAPACITY, MAX_STAGED_WRITE_BYTES_PER_STREAM
    MaxCredit,    \* the cap of 2^31 - 1 on send credit
    Total         \* the most bytes the sending application supplies

ASSUME SizesAssumption ==
    /\ Window \in Nat \ {0}
    /\ Threshold \in Nat \ {0}
    /\ Chunk \in Nat \ {0}
    /\ Stage \in Nat \ {0}
    /\ MaxCredit \in Nat
    /\ Total \in Nat

\* The credit cap is above the window, as 2^31 - 1 is above 2^20.
ASSUME CapAssumption == Window <= MaxCredit

\* 64 KiB + 512 KiB is below 1 MiB: with everything but the last
\* Threshold - 1 consumed bytes granted back, a whole chunk still fits.
ASSUME StallFreeAssumption == Chunk + Threshold <= Window + 1

VARIABLES
    splits,   \* the sender is a WindowedUpload, or else calls try_send_data
    fed,      \* bytes the application has put into the sender's stage
    shut,     \* the application has declared the end of its bytes
    sent,     \* bytes emitted in DATA frames
    credit,   \* send_credit
    closed,   \* the CLOSE frame has been emitted
    wire,     \* DATA and CLOSE frames in flight
    rcredit,  \* RecvWindow.credit
    unacked,  \* RecvWindow.unacked
    got,      \* bytes debited and handed to the receiving application
    read,     \* bytes the receiving application has consumed
    eof,      \* the receiver has seen CLOSE
    grants,   \* WINDOW frames in flight
    granted,  \* bytes returned by all WINDOW frames sent so far
    regained, \* bytes of credit the sender has taken from WINDOW frames
    fault     \* "none", or the flow-control error that reset the stream

sender   == <<splits, fed, shut, sent, credit, closed, regained>>
receiver == <<rcredit, unacked, got, read, eof, granted>>
vars     == <<splits, fed, shut, sent, credit, closed, wire, rcredit, unacked,
              got, read, eof, grants, granted, regained, fault>>

Lesser(a, b) == IF a <= b THEN a ELSE b

DataFrame(from, upto) == [from |-> from, upto |-> upto, fin |-> FALSE]
CloseFrame            == [from |-> sent, upto |-> sent, fin |-> TRUE]
WindowFrame(from, upto) == [from |-> from, upto |-> upto, fin |-> FALSE]

-----------------------------------------------------------------------------
Init ==
    /\ splits \in BOOLEAN
    /\ fed = 0 /\ sent = 0 /\ credit = Window /\ regained = 0
    /\ shut = FALSE /\ closed = FALSE
    /\ wire = <<>> /\ grants = <<>>
    /\ rcredit = Window /\ unacked = 0
    /\ got = 0 /\ read = 0 /\ granted = 0
    /\ eof = FALSE
    /\ fault = "none"

-----------------------------------------------------------------------------
(* The sender.                                                             *)

\* Bytes enter the bounded stage: feed_body for an upload, poll_write and
\* reserve_staging for the home.
FeedBody ==
    /\ fault = "none" /\ ~shut
    /\ \E n \in 1..Lesser(Stage - (fed - sent), Total - fed) : fed' = fed + n
    /\ UNCHANGED <<splits, shut, sent, credit, closed, regained, wire, receiver, grants, fault>>

\* The application ends its bytes.  An upload declares its length, so there
\* this happens exactly when the declared body has been fed.
Shutdown ==
    /\ fault = "none" /\ ~shut
    /\ splits => fed = Total
    /\ shut' = TRUE
    /\ UNCHANGED <<splits, fed, sent, credit, closed, regained, wire, receiver, grants, fault>>

\* Mutant: the frame is not cut down to the credit left.
PollSendUncut ==
    LET n == Lesser(fed - sent, Chunk) IN
    /\ splits
    /\ fault = "none" /\ fed > sent /\ credit # 0
    /\ sent' = sent + n
    /\ credit' = credit - n
    /\ wire' = Append(wire, DataFrame(sent, sent + n))
    /\ UNCHANGED <<splits, fed, shut, closed, regained, receiver, grants, fault>>

\* WindowedUpload::poll_send with bytes available: never more than the
\* credit left, and nothing at all when it is zero.
PollSend ==
    LET n == Lesser(Lesser(fed - sent, Chunk), credit) IN
    /\ splits
    /\ fault = "none"
    /\ fed > sent
    /\ credit # 0
    /\ sent' = sent + n
    /\ credit' = credit - n
    /\ wire' = Append(wire, DataFrame(sent, sent + n))
    /\ UNCHANGED <<splits, fed, shut, closed, regained, receiver, grants, fault>>

\* Mutant: some credit is enough for the whole chunk.
TrySendDataUncovered ==
    LET n == Lesser(fed - sent, Chunk) IN
    /\ ~splits
    /\ fault = "none" /\ fed > sent /\ credit # 0
    /\ sent' = sent + n
    /\ credit' = credit - n
    /\ wire' = Append(wire, DataFrame(sent, sent + n))
    /\ UNCHANGED <<splits, fed, shut, closed, regained, receiver, grants, fault>>

\* flush_ready takes the next chunk of the queue and try_send_data sends it
\* whole; without the credit for all of it the chunk goes back to the queue.
TrySendData ==
    LET n == Lesser(fed - sent, Chunk) IN
    /\ ~splits
    /\ fault = "none"
    /\ fed > sent
    /\ n <= credit
    /\ sent' = sent + n
    /\ credit' = credit - n
    /\ wire' = Append(wire, DataFrame(sent, sent + n))
    /\ UNCHANGED <<splits, fed, shut, closed, regained, receiver, grants, fault>>

\* Mutant: CLOSE does not wait for the staged bytes.
SendCloseEarly ==
    /\ fault = "none" /\ shut /\ ~closed
    /\ closed' = TRUE
    /\ wire' = Append(wire, CloseFrame)
    /\ UNCHANGED <<splits, fed, shut, sent, credit, regained, receiver, grants, fault>>

\* The half-closing CLOSE, once, when every byte has been emitted.  It
\* carries no payload and needs no credit.
SendClose ==
    /\ fault = "none"
    /\ shut /\ fed = sent /\ ~closed
    /\ closed' = TRUE
    /\ wire' = Append(wire, CloseFrame)
    /\ UNCHANGED <<splits, fed, shut, sent, credit, regained, receiver, grants, fault>>

\* Mutant: a grant is applied again after it was taken.
ReceiveGrantTwice ==
    /\ fault = "none" /\ grants # <<>>
    /\ LET back == Head(grants).upto - Head(grants).from IN
       /\ credit' = credit + 2 * back
       /\ regained' = regained + 2 * back
    /\ grants' = Tail(grants)
    /\ UNCHANGED <<splits, fed, shut, sent, closed, wire, receiver, fault>>

\* A WINDOW frame reaches the sender: grant, handle_window.
ReceiveGrant ==
    /\ fault = "none"
    /\ grants # <<>>
    /\ LET back == Head(grants).upto - Head(grants).from IN
       IF credit + back > MaxCredit
       THEN /\ fault' = "credit_overflow"
            /\ UNCHANGED <<credit, regained>>
       ELSE /\ credit' = credit + back
            /\ regained' = regained + back
            /\ UNCHANGED fault
    /\ grants' = Tail(grants)
    /\ UNCHANGED <<splits, fed, shut, sent, closed, wire, receiver>>

-----------------------------------------------------------------------------
(* The receiver.                                                           *)

\* Mutant: a CLOSE without payload is dropped.
ReceiveFrameNoEof ==
    /\ fault = "none" /\ wire # <<>>
    /\ LET len == Head(wire).upto - Head(wire).from IN
       IF len > rcredit
       THEN /\ fault' = "window_overrun"
            /\ UNCHANGED <<rcredit, got>>
       ELSE /\ rcredit' = rcredit - len
            /\ got' = got + len
            /\ UNCHANGED fault
    /\ wire' = Tail(wire)
    /\ UNCHANGED <<sender, unacked, read, granted, grants, eof>>

\* A DATA or CLOSE frame reaches the receiver, which debits its window
\* before it delivers.
ReceiveFrame ==
    /\ fault = "none"
    /\ wire # <<>>
    /\ LET f   == Head(wire)
           len == f.upto - f.from
       IN IF len > rcredit
          THEN /\ fault' = "window_overrun"
               /\ UNCHANGED <<rcredit, got, eof>>
          ELSE /\ rcredit' = rcredit - len
               /\ got' = got + len
               /\ eof' = (eof \/ f.fin)
               /\ UNCHANGED fault
    /\ wire' = Tail(wire)
    /\ UNCHANGED <<sender, unacked, read, granted, grants>>

\* Mutants: consumed bytes are counted again after they were granted; the
\* grant leaves the receiver's own window alone; the threshold is a whole
\* window too high.
ConsumeBytesRecounted(n) ==
    LET acked == unacked + n IN
    /\ fault = "none"
    /\ read' = read + n
    /\ unacked' = acked
    /\ IF acked < Threshold
       THEN UNCHANGED <<rcredit, grants, granted>>
       ELSE /\ rcredit' = rcredit + acked
            /\ granted' = granted + acked
            /\ grants' = Append(grants, WindowFrame(granted, granted + acked))
    /\ UNCHANGED <<sender, wire, got, eof, fault>>

ConsumeBytesUncredited(n) ==
    LET acked == unacked + n IN
    /\ fault = "none"
    /\ read' = read + n
    /\ IF acked < Threshold
       THEN /\ unacked' = acked
            /\ UNCHANGED <<grants, granted>>
       ELSE /\ unacked' = 0
            /\ granted' = granted + acked
            /\ grants' = Append(grants, WindowFrame(granted, granted + acked))
    /\ UNCHANGED <<sender, wire, got, eof, fault, rcredit>>

ConsumeBytesHoarded(n) ==
    LET acked == unacked + n IN
    /\ fault = "none"
    /\ read' = read + n
    /\ IF acked < Threshold + Window
       THEN /\ unacked' = acked
            /\ UNCHANGED <<rcredit, grants, granted>>
       ELSE /\ unacked' = 0
            /\ rcredit' = rcredit + acked
            /\ granted' = granted + acked
            /\ grants' = Append(grants, WindowFrame(granted, granted + acked))
    /\ UNCHANGED <<sender, wire, got, eof, fault>>

\* RecvWindow::consume: all consumed bytes are granted back together once
\* they reach the threshold.
ConsumeBytes(n) ==
    LET acked == unacked + n IN
    /\ fault = "none"
    /\ read' = read + n
    /\ IF acked < Threshold
       THEN /\ unacked' = acked
            /\ UNCHANGED <<rcredit, grants, granted>>
       ELSE /\ unacked' = 0
            /\ rcredit' = rcredit + acked
            /\ granted' = granted + acked
            /\ grants' = Append(grants, WindowFrame(granted, granted + acked))
    /\ UNCHANGED <<sender, wire, got, eof, fault>>

\* The application never reads past what it was handed.
Consume == \E n \in 1..(got - read) : ConsumeBytes(n)

Next ==
    \/ FeedBody
    \/ Shutdown
    \/ PollSend
    \/ TrySendData
    \/ SendClose
    \/ ReceiveGrant
    \/ ReceiveFrame
    \/ Consume

Spec == Init /\ [][Next]_vars

(***************************************************************************)
(* The coordinator and driver tasks pump whatever the window permits, the  *)
(* carrier delivers in order, and the receiving application keeps reading. *)
(* Nothing is assumed of the sending application.                          *)
(***************************************************************************)
FairSpec ==
    /\ Spec
    /\ WF_vars(PollSend) /\ WF_vars(TrySendData) /\ WF_vars(SendClose)
    /\ WF_vars(ReceiveFrame) /\ WF_vars(ReceiveGrant)
    /\ WF_vars(Consume)

-----------------------------------------------------------------------------
(* Properties.                                                             *)

Interval == [from : Nat, upto : Nat, fin : BOOLEAN]

\* Every variable has its type.
TypeOK ==
    /\ splits \in BOOLEAN
    /\ fed \in Nat /\ sent \in Nat /\ credit \in Nat /\ regained \in Nat
    /\ rcredit \in Nat /\ unacked \in Nat /\ got \in Nat /\ read \in Nat
    /\ granted \in Nat
    /\ shut \in BOOLEAN /\ closed \in BOOLEAN /\ eof \in BOOLEAN
    /\ wire \in Seq(Interval) /\ grants \in Seq(Interval)
    /\ fault \in {"none", "window_overrun", "credit_overflow"}

\* Frames in flight carry consecutive intervals, from what the far end has
\* already taken up to what the near end has emitted.
Consecutive(q, lo, hi) ==
    /\ q = <<>> => lo = hi
    /\ q # <<>> => q[1].from = lo /\ q[Len(q)].upto = hi
    /\ \A i \in 1..Len(q) : q[i].from <= q[i].upto
    /\ \A i \in 1..Len(q) : i < Len(q) => q[i].upto = q[i + 1].from
    /\ \A i, j \in 1..Len(q) : i < j => q[i].upto <= q[j].from

\* Nothing is lost, duplicated or reordered on its way to the receiver, and
\* no grant is lost or given twice: the intervals in flight close the gap
\* between the two ends exactly.
InOrder ==
    /\ Consecutive(wire, got, sent)
    /\ Consecutive(grants, regained, granted)

\* Credit is conserved across both ends and both channels: a byte's credit
\* is held by the sender, is with the byte in flight or unread, is waiting
\* below the grant threshold, or is in a WINDOW frame.
Conservation ==
    /\ credit + sent = Window + regained
    /\ rcredit + got = Window + granted
    /\ granted + unacked = read
    /\ unacked < Threshold

\* A sender that spends only granted credit never draws FLOW_CONTROL_ERROR:
\* RecvWindow::debit never fails and no grant reaches the credit cap.
NoFlowControlError == fault = "none"

\* The accounting RecvWindow::consume asserts: what it computes as debited
\* and unconsumed is what the application still holds, so neither
\* expectation can panic.
ConsumeNeverPanics ==
    /\ rcredit + unacked <= Window
    /\ Window - rcredit - unacked = got - read

\* The receiver sees the end of the stream only after every byte the
\* application supplied before it.
EofIsComplete == eof => shut /\ got = fed

\* The two ends of one direction keep sound books: bytes and grants cross in order and
\* once, credit is conserved, no honest sender is refused, RecvWindow::consume cannot
\* panic, and end of stream comes after the last byte.
StreamIsSound ==
    /\ TypeOK /\ InOrder /\ Conservation
    /\ NoFlowControlError /\ ConsumeNeverPanics /\ EofIsComplete

\* One direction of a stream is a bounded byte pipe.
Pipe == INSTANCE BytePipe WITH written <- sent, taken <- read, closed <- closed
PipeSpec == Pipe!Spec

\* Every byte the application supplied is eventually read, since the reader catches
\* up with the application time and again: neither the threshold on grants nor an
\* all-or-nothing sender can leave both sides waiting for each other.
EveryByteIsRead == []<>(read = fed)

\* A shutdown always reaches the receiver as end of stream.
ShutdownReachesReader == shut ~> eof

\* Everything a stream is given reaches its reader: every byte, and then the shutdown.
EverythingArrives == EveryByteIsRead /\ ShutdownReachesReader
=============================================================================
