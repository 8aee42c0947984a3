----------------------------- MODULE MuxFrames ------------------------------
(***************************************************************************)
(* Mux frames and the receive window, as both ends of a carrier use them.  *)
(* A frame's flags are the set of its flag bits.  Its payload is its       *)
(* length, plus what the one or four bytes of a RESET or WINDOW payload    *)
(* say; bad marks a RESET, WINDOW, PING or PONG whose payload does not     *)
(* have the length that flag requires.                                     *)
(***************************************************************************)
EXTENDS Naturals, Sequences

CONSTANTS
    Window,      \* INITIAL_WINDOW
    Threshold,   \* RECEIVE_GRANT_THRESHOLD
    Chunk,       \* RECOMMENDED_CHUNK
    MaxCredit    \* the cap of 2^31 - 1 on send credit

ASSUME WindowAssumption ==
    /\ Window \in Nat \ {0}
    /\ Threshold \in Nat \ {0}
    /\ Chunk \in Nat \ {0}
    /\ MaxCredit \in Nat
    /\ Window <= MaxCredit

StreamFlags  == {"OPEN", "DATA", "CLOSE"}
ControlFlags == {"PING", "PONG"}
Flags        == StreamFlags \cup ControlFlags \cup {"RESET", "WINDOW", "RESERVED"}

\* The combinations the framing contract permits: any of OPEN, DATA and
\* CLOSE together, and every other flag only by itself.
FlagsValid(flags) ==
    \/ flags \in SUBSET StreamFlags \ {{}}
    \/ flags \in {{"RESET"}, {"WINDOW"}, {"PING"}, {"PONG"}}

Reasons == {"PROTOCOL_ERROR", "FLOW_CONTROL_ERROR", "STREAM_LIMIT_EXCEEDED",
            "INTERNAL_ERROR", "CANCEL", "UNSPECIFIED"}

Frame(s, flags, len) ==
    [sid |-> s, flags |-> flags, len |-> len, credit |-> 0,
     reason |-> "UNSPECIFIED", bad |-> FALSE]

DataFrame(s, len)      == Frame(s, {"DATA"}, len)
CloseFrame(s)          == Frame(s, {"CLOSE"}, 0)
ResetFrame(s, reason)  == [Frame(s, {"RESET"}, 0) EXCEPT !.reason = reason]
WindowFrame(s, credit) == [Frame(s, {"WINDOW"}, 0) EXCEPT !.credit = credit]
PongFrame              == Frame(0, {"PONG"}, 0)

-----------------------------------------------------------------------------
(* RecvWindow: credit the peer may still spend, and consumed bytes not yet *)
(* granted back.                                                           *)

FreshWindow(size) == [credit |-> size, unacked |-> 0]

\* Mutant: a frame is accepted whatever credit is left.
CanDebitAlways(w, n) == TRUE

CanDebit(w, n) == n <= w.credit
Debit(w, n)    == [w EXCEPT !.credit = @ - n]

\* Mutant: consumed bytes are counted again after they were granted.
ConsumeBytesRecounted(w, n) ==
    IF w.unacked + n >= Threshold
    THEN [w EXCEPT !.credit = @ + w.unacked + n]
    ELSE [w EXCEPT !.unacked = @ + n]

\* Mutants: the threshold must be exceeded; one byte too many is granted.
GrantDueLate(w, n) == w.unacked + n > Threshold
GrantAhead(w, n)   == w.unacked + n + 1

\* A grant is due when the consumed bytes reach the threshold; it returns
\* all of them.
GrantDue(w, n) == w.unacked + n >= Threshold
Grant(w, n)    == w.unacked + n
ConsumeBytes(w, n) ==
    IF GrantDue(w, n)
    THEN [credit |-> w.credit + Grant(w, n), unacked |-> 0]
    ELSE [w EXCEPT !.unacked = @ + n]
=============================================================================
