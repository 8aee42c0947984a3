---------------------------- MODULE MuxAcceptor -----------------------------
(***************************************************************************)
(* The listener's mux, spl-home's MuxAcceptor: a state machine without I/O *)
(* that turns one inbound frame or one local call into frames for the      *)
(* carrier and events for the stream handles.  Every handler is an action  *)
(* on the acceptor's own state that leaves its output in out, where the    *)
(* module that runs the acceptor reads it in the same step.                *)
(*                                                                         *)
(* The decoder delivers whole frames, so a handler is one step.            *)
(***************************************************************************)
EXTENDS MuxFrames, FiniteSets

CONSTANT MaxStreams     \* max_concurrent_streams

ASSUME MaxStreamsAssumption == MaxStreams \in Nat

VARIABLES
    streams,    \* the live streams: a function from their ids to StreamState
    highWater,  \* peer_high_water, the largest id the peer has opened, or 0
    carrier,    \* "up", "failed" after a fatal refusal, "ended" after EOF
    out         \* the MuxOutput of the latest frame or call

acceptorState == <<streams, highWater, carrier>>
acceptorVars  == <<streams, highWater, carrier, out>>

StreamState ==
    [window      : [credit : 0..Window, unacked : 0..(Threshold - 1)],
     held        : 0..Window,   \* debited_not_consumed
     send        : 0..MaxCredit,
     peerClosed  : BOOLEAN,
     localClosed : BOOLEAN]

Known(s)       == s \in DOMAIN streams
Without(s)     == [t \in DOMAIN streams \ {s} |-> streams[t]]
With(s, state) == [t \in DOMAIN streams \cup {s} |-> IF t = s THEN state ELSE streams[t]]

\* Events for the local stream handles.
Opened(s)        == [kind |-> "Opened", sid |-> s, len |-> 0]
Data(s, len)     == [kind |-> "Data", sid |-> s, len |-> len]
ReadClosed(s)    == [kind |-> "ReadClosed", sid |-> s, len |-> 0]
ResetEvent(s)    == [kind |-> "Reset", sid |-> s, len |-> 0]
OnlyIf(c, event) == IF c THEN <<event>> ELSE <<>>

\* A MuxOutput: the stream it is about, frames to write, events to deliver.
NoOutput == [sid |-> 0, frames |-> <<>>, events |-> <<>>]
Output(s, frames, events) == out' = [sid |-> s, frames |-> frames, events |-> events]

AcceptorInit ==
    /\ streams = [t \in {} |-> FALSE]
    /\ highWater = 0
    /\ carrier = "up"
    /\ out = NoOutput

-----------------------------------------------------------------------------
(* Inbound frames.                                                         *)

\* refuse_violation: one RESET in reply, and a stream that is live is gone.
Refuse(f, reason) ==
    /\ streams' = Without(f.sid)
    /\ Output(f.sid, <<ResetFrame(f.sid, reason)>>, OnlyIf(Known(f.sid), ResetEvent(f.sid)))

\* A fatal refusal ends the carrier; nothing is sent.
Fatal ==
    /\ carrier' = "failed"
    /\ UNCHANGED <<streams, highWater>>
    /\ Output(0, <<>>, <<>>)

\* Stream zero: a PING is answered, a PONG dropped, anything else is fatal.
HandleControl(f) ==
    /\ f.sid = 0
    /\ \/ /\ f.flags = {"PING"} /\ ~f.bad
          /\ UNCHANGED acceptorState
          /\ Output(0, <<PongFrame>>, <<>>)
       \/ /\ f.flags = {"PONG"} /\ ~f.bad
          /\ UNCHANGED acceptorState
          /\ Output(0, <<>>, <<>>)
       \/ /\ f.flags \notin {{"PING"}, {"PONG"}} \/ f.bad
          /\ Fatal

\* A reserved bit, an illegal combination, or a control flag on a stream.
HandleInvalid(f) ==
    /\ f.sid # 0
    /\ ~FlagsValid(f.flags) \/ f.flags \cap ControlFlags # {}
    /\ Refuse(f, "PROTOCOL_ERROR")
    /\ UNCHANGED <<highWater, carrier>>

\* Mutants: any odd id may be opened; the limit admits one stream too many.
ValidIdUnordered(s) == s % 2 = 1
AtLimitLate         == Cardinality(DOMAIN streams) > MaxStreams

\* The peer opens odd ids in increasing order.
ValidId(s) == s % 2 = 1 /\ s > highWater
AtLimit    == Cardinality(DOMAIN streams) >= MaxStreams

\* Mutant: the payload of OPEN is not counted as held.
OpenedStreamUncounted(f) ==
    [window      |-> Debit(FreshWindow(Window), f.len),
     held        |-> 0,
     send        |-> Window,
     peerClosed  |-> "CLOSE" \in f.flags,
     localClosed |-> FALSE]

OpenedStream(f) ==
    [window      |-> Debit(FreshWindow(Window), f.len),
     held        |-> f.len,
     send        |-> Window,
     peerClosed  |-> "CLOSE" \in f.flags,
     localClosed |-> FALSE]

\* An OPEN uses up its id even when a local limit then refuses the stream.
HandleOpen(f) ==
    /\ f.sid # 0 /\ FlagsValid(f.flags) /\ "OPEN" \in f.flags
    /\ highWater' = IF ValidId(f.sid) THEN f.sid ELSE highWater
    /\ UNCHANGED carrier
    /\ \/ /\ ~ValidId(f.sid)
          /\ Refuse(f, "PROTOCOL_ERROR")
       \/ /\ ValidId(f.sid) /\ AtLimit
          /\ Refuse(f, "STREAM_LIMIT_EXCEEDED")
       \/ /\ ValidId(f.sid) /\ ~AtLimit /\ ~CanDebit(FreshWindow(Window), f.len)
          /\ Refuse(f, "FLOW_CONTROL_ERROR")
       \/ /\ ValidId(f.sid) /\ ~AtLimit /\ CanDebit(FreshWindow(Window), f.len)
          /\ streams' = With(f.sid, OpenedStream(f))
          /\ Output(f.sid, <<>>,
                  <<Opened(f.sid)>>
                  \o OnlyIf(f.len > 0 \/ "DATA" \in f.flags, Data(f.sid, f.len))
                  \o OnlyIf("CLOSE" \in f.flags, ReadClosed(f.sid)))

\* Frames that a live stream may receive after its OPEN.
LaterFrame(f) ==
    /\ f.sid # 0 /\ FlagsValid(f.flags)
    /\ f.flags \cap (ControlFlags \cup {"OPEN"}) = {}

\* A frame for a stream not in the table: terminal frames are tolerated,
\* DATA and WINDOW draw one RESET.
HandleUnknown(f) ==
    /\ LaterFrame(f) /\ ~Known(f.sid)
    /\ UNCHANGED <<highWater, carrier>>
    /\ \/ /\ f.flags \cap {"CLOSE", "RESET"} # {}
          /\ UNCHANGED streams
          /\ Output(f.sid, <<>>, <<>>)
       \/ /\ f.flags \cap {"CLOSE", "RESET"} = {}
          /\ Refuse(f, "PROTOCOL_ERROR")

\* Mutants: a stream closed on both sides stays in the table; bytes are
\* accepted after the peer's CLOSE.
SettleKept(s, state) == With(s, state)
MayReceiveAlways(s)  == TRUE

\* The stream once the peer has closed, or not, its side: forgotten when
\* both sides are closed.
Settle(s, state) == IF state.peerClosed /\ state.localClosed THEN Without(s) ELSE With(s, state)

MayReceive(s) == ~streams[s].peerClosed

\* DATA, DATA|CLOSE, or a CLOSE that carries the final bytes.
HandleData(f) ==
    LET s  == f.sid
        st == streams[s]
        closes == "CLOSE" \in f.flags
    IN
    /\ LaterFrame(f) /\ Known(s)
    /\ "DATA" \in f.flags \/ (f.flags = {"CLOSE"} /\ f.len > 0)
    /\ UNCHANGED <<highWater, carrier>>
    /\ \/ /\ ~MayReceive(s)
          /\ Refuse(f, "PROTOCOL_ERROR")
       \/ /\ MayReceive(s) /\ ~CanDebit(st.window, f.len)
          /\ Refuse(f, "FLOW_CONTROL_ERROR")
       \/ /\ MayReceive(s) /\ CanDebit(st.window, f.len)
          /\ streams' = Settle(s, [st EXCEPT !.window = Debit(@, f.len),
                                             !.held = @ + f.len,
                                             !.peerClosed = closes])
          /\ Output(s, <<>>, <<Data(s, f.len)>> \o OnlyIf(closes, ReadClosed(s)))

\* mark_peer_closed, for a CLOSE without payload.
HandleClose(f) ==
    /\ LaterFrame(f) /\ Known(f.sid)
    /\ f.flags = {"CLOSE"} /\ f.len = 0
    /\ streams' = Settle(f.sid, [streams[f.sid] EXCEPT !.peerClosed = TRUE])
    /\ UNCHANGED <<highWater, carrier>>
    /\ Output(f.sid, <<>>, <<ReadClosed(f.sid)>>)

HandleReset(f) ==
    /\ LaterFrame(f) /\ Known(f.sid)
    /\ f.flags = {"RESET"}
    /\ UNCHANGED <<highWater, carrier>>
    /\ \/ /\ f.bad
          /\ Refuse(f, "PROTOCOL_ERROR")
       \/ /\ ~f.bad
          /\ streams' = Without(f.sid)
          /\ Output(f.sid, <<>>, <<ResetEvent(f.sid)>>)

CreditFits(s, credit) == streams[s].send + credit <= MaxCredit

HandleWindow(f) ==
    /\ LaterFrame(f) /\ Known(f.sid)
    /\ f.flags = {"WINDOW"}
    /\ UNCHANGED <<highWater, carrier>>
    /\ \/ /\ f.bad
          /\ Refuse(f, "PROTOCOL_ERROR")
       \/ /\ ~f.bad /\ ~CreditFits(f.sid, f.credit)
          /\ Refuse(f, "FLOW_CONTROL_ERROR")
       \/ /\ ~f.bad /\ CreditFits(f.sid, f.credit)
          /\ streams' = [streams EXCEPT ![f.sid].send = @ + f.credit]
          /\ Output(f.sid, <<>>, <<>>)

\* feed and handle_frame: exactly one handler takes each frame.
HandleFrame(f) ==
    /\ carrier = "up"
    /\ \/ HandleControl(f)
       \/ HandleInvalid(f)
       \/ HandleOpen(f)
       \/ HandleUnknown(f)
       \/ HandleData(f)
       \/ HandleClose(f)
       \/ HandleReset(f)
       \/ HandleWindow(f)

-----------------------------------------------------------------------------
(* Calls of the stream driver.  A call on a forgotten stream, or one past  *)
(* a local close, returns an error and changes nothing.                    *)

MayConsume(s, n) == n <= streams[s].held

Consume(s, n) ==
    /\ carrier = "up" /\ Known(s)
    /\ MayConsume(s, n)
    /\ streams' = [streams EXCEPT ![s].window = ConsumeBytes(@, n), ![s].held = @ - n]
    /\ UNCHANGED <<highWater, carrier>>
    /\ Output(s, IF GrantDue(streams[s].window, n)
               THEN <<WindowFrame(s, Grant(streams[s].window, n))>>
               ELSE <<>>, <<>>)

MaySend(s, n) == ~streams[s].localClosed /\ n <= streams[s].send

\* The whole chunk, or nothing when the peer's credit does not cover it.
TrySendData(s, n) ==
    /\ carrier = "up" /\ Known(s)
    /\ n <= Chunk
    /\ MaySend(s, n)
    /\ streams' = [streams EXCEPT ![s].send = @ - n]
    /\ UNCHANGED <<highWater, carrier>>
    /\ Output(s, <<DataFrame(s, n)>>, <<>>)

CloseWrite(s) ==
    /\ carrier = "up" /\ Known(s)
    /\ ~streams[s].localClosed
    /\ streams' = Settle(s, [streams[s] EXCEPT !.localClosed = TRUE])
    /\ UNCHANGED <<highWater, carrier>>
    /\ Output(s, <<CloseFrame(s)>>, <<>>)

ResetStream(s, reason) ==
    /\ carrier = "up" /\ Known(s)
    /\ streams' = Without(s)
    /\ UNCHANGED <<highWater, carrier>>
    /\ Output(s, <<ResetFrame(s, reason)>>, <<>>)

FinishEof ==
    /\ carrier = "up"
    /\ carrier' = "ended"
    /\ streams' = [t \in {} |-> FALSE]
    /\ UNCHANGED highWater
    /\ Output(0, <<>>, <<>>)
=============================================================================
