-------------------------- MODULE AcceptorAnyPeer ---------------------------
(***************************************************************************)
(* The acceptor on a carrier whose peer may send any decodable frame at    *)
(* any time, driven by a local application that makes any legal call.      *)
(*                                                                         *)
(* Two history variables record, for every id, what the application has    *)
(* been told of the stream and what has been written to the peer since the *)
(* stream was opened.                                                      *)
(***************************************************************************)
EXTENDS MuxAcceptor

CONSTANTS
    Ids,      \* the nonzero stream ids the peer uses
    Credits   \* the credit values its WINDOW frames carry

ASSUME IdsAssumption == Ids \subseteq Nat \ {0} /\ Credits \subseteq Nat

VARIABLES
    told,     \* kinds of lasting events delivered, per id
    wrote     \* kinds of terminal frames written since OPEN, per id

vars == <<acceptorVars, told, wrote>>

AllIds == Ids \cup {0}

-----------------------------------------------------------------------------
(* The order of a stream's life.                                           *)

\* A stream is over once it was reset or both sides have closed.
Over(heard, written) ==
    \/ "Reset" \in heard
    \/ "RESET" \in written
    \/ "ReadClosed" \in heard /\ "CLOSE" \in written

\* An event may follow those heard before it.
EventAllowed(kind, heard, written) ==
    /\ ~Over(heard, written)
    /\ kind = "Opened" <=> "Opened" \notin heard
    /\ kind = "Data" => "ReadClosed" \notin heard

EventsAllowed(s, events) ==
    \A i \in 1..Len(events) :
        /\ events[i].sid = s
        /\ EventAllowed(events[i].kind,
                        told[s] \cup {events[j].kind : j \in 1..(i - 1)}, wrote[s])

\* Only RESET may be written for a stream that is not live, and nothing but
\* WINDOW or RESET after the local CLOSE.
FrameAllowed(f, heard, written) ==
    \/ f.flags = {"RESET"}
    \/ f.sid = 0
    \/ /\ "Opened" \in heard /\ ~Over(heard, written)
       /\ f.flags # {"WINDOW"} => "CLOSE" \notin written

FramesAllowed(s, frames) ==
    \A i \in 1..Len(frames) : frames[i].sid = s /\ FrameAllowed(frames[i], told[s], wrote[s])

Lasting         == {"Opened", "ReadClosed", "Reset"}
Kinds(events)   == {events[i].kind : i \in 1..Len(events)} \cap Lasting
Written(frames) == (UNION {frames[i].flags : i \in 1..Len(frames)}) \cap {"CLOSE", "RESET"}

\* The history after the output of this step.
Record ==
    LET s == out'.sid IN
    /\ told' = [told EXCEPT ![s] = @ \cup Kinds(out'.events)]
    /\ wrote' = [wrote EXCEPT ![s] = IF "Opened" \in told[s] THEN @ \cup Written(out'.frames)
                                     ELSE @]

-----------------------------------------------------------------------------
PayloadFrames == {Frame(s, flags, len) : s \in Ids, flags \in SUBSET StreamFlags \ {{}},
                                         len \in 0..(Window + 1)}
WindowFrames  == {WindowFrame(s, c) : s \in Ids, c \in Credits}
ShortFrames   == {Frame(s, flags, 0) : s \in AllIds, flags \in {{"RESET"}, {"PING"}, {"PONG"}}}
BadFrames     == {[Frame(s, flags, 0) EXCEPT !.bad = TRUE] :
                      s \in AllIds, flags \in {{"RESET"}, {"WINDOW"}, {"PING"}, {"PONG"}}}
IllegalFrames == {Frame(s, flags, 0) : s \in AllIds,
                      flags \in {{}, {"RESERVED"}, {"DATA", "RESERVED"}, {"OPEN", "RESET"},
                                 {"DATA", "WINDOW"}, {"PING", "PONG"}}}

PeerFrames == PayloadFrames \cup WindowFrames \cup ShortFrames \cup BadFrames \cup IllegalFrames

Init ==
    /\ AcceptorInit
    /\ told = [s \in AllIds |-> {}]
    /\ wrote = [s \in AllIds |-> {}]

PeerSends    == \E f \in PeerFrames : HandleFrame(f)
AppReads     == \E s \in Ids, n \in 1..Window : Consume(s, n)
AppWrites    == \E s \in Ids, n \in 1..Chunk : TrySendData(s, n)
AppCloses    == \E s \in Ids : CloseWrite(s)
AppResets    == \E s \in Ids : ResetStream(s, "CANCEL")
CarrierEnds  == FinishEof

Step == PeerSends \/ AppReads \/ AppWrites \/ AppCloses \/ AppResets \/ CarrierEnds

Next == Step /\ Record

Spec == Init /\ [][Next]_vars

-----------------------------------------------------------------------------
(* Properties.                                                             *)

\* Every variable has its type.
TypeOK ==
    /\ DOMAIN streams \subseteq Ids
    /\ streams \in [DOMAIN streams -> StreamState]
    /\ highWater \in AllIds
    /\ carrier \in {"up", "failed", "ended"}
    /\ told \in [AllIds -> SUBSET Lasting]
    /\ wrote \in [AllIds -> SUBSET {"CLOSE", "RESET"}]

\* Whatever the peer sends, the handles see each stream open once, then
\* bytes, then its end of stream, then at most a reset, and nothing for a
\* stream that is over; the peer sees no DATA or CLOSE after our CLOSE
\* and only RESET for a stream that is not live.
OrderlyLife ==
    [][/\ EventsAllowed(out'.sid, out'.events)
       /\ FramesAllowed(out'.sid, out'.frames)]_vars

\* The table holds exactly the streams that were opened and are not over, so
\* no sequence of frames and calls leaks a slot or frees one early.
TableMatchesHistory ==
    carrier # "ended" =>
        \A s \in Ids :
            /\ Known(s) <=> "Opened" \in told[s] /\ ~Over(told[s], wrote[s])
            /\ Known(s) => /\ streams[s].peerClosed <=> "ReadClosed" \in told[s]
                           /\ streams[s].localClosed <=> "CLOSE" \in wrote[s]

\* The receive accounting of every live stream adds up, whatever the peer
\* sends and however the application reads, so consume cannot panic and a
\* stream never holds more than one window of unread bytes.
WindowAccounting ==
    \A s \in DOMAIN streams :
        streams[s].window.credit + streams[s].window.unacked + streams[s].held = Window

\* The peer cannot hold more streams than the configured cap.
WithinLimit == Cardinality(DOMAIN streams) <= MaxStreams

\* An id that was opened, or refused by a limit, is never live again once it
\* is gone.
NeverReopened ==
    [][\A s \in Ids : s <= highWater /\ ~Known(s) => s \notin DOMAIN streams']_vars

\* The acceptor's books hold whatever the peer sends: types, the table against what was
\* announced and written, the receive accounting of every stream, and the cap.
AcceptorBooks == TypeOK /\ TableMatchesHistory /\ WindowAccounting /\ WithinLimit

\* No step breaks the life of a stream or brings one back: events and frames come in
\* their order, and an id that was used is never live again.
AcceptorSteps == OrderlyLife /\ NeverReopened
=============================================================================
