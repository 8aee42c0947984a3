------------------------------ MODULE MuxLink -------------------------------
(***************************************************************************)
(* A carrier with both real ends: the dialer's coordinator and demux, and  *)
(* the listener's acceptor under a local application that reads requests,  *)
(* writes replies and closes.  Frames are in flight in both directions and *)
(* arrive in order.                                                        *)
(*                                                                         *)
(* The home moves between turns of the coordinator.  Within a turn the     *)
(* coordinator only takes from the front of one channel and appends to the *)
(* other, so steps of the home commute with those of a turn.               *)
(***************************************************************************)
EXTENDS CarrierDialer, MuxAcceptor

CONSTANTS
    Reply,         \* length of a reply, head included
    HomeWaits,     \* the home replies only once the request is over
    HomeMayQuit,   \* the home may close before it has sent the whole reply
    HomeMayReset   \* the home may reset a stream

ReplyAssumption == Reply \in Nat /\ Reply >= ReplyHead

VARIABLES
    reply,     \* bytes of the reply sent by the home, per id
    got        \* body bytes the dialer's application has received, per id

vars == <<dialerVars, acceptorVars, reply, got>>

Init ==
    /\ DialerInit
    /\ AcceptorInit
    /\ reply = [s \in Ids |-> 0]
    /\ got = [s \in Ids |-> 0]

-----------------------------------------------------------------------------
DialerSteps ==
    /\ Coordinate \/ \E s \in Ids : RecvGone(s) \/ DropRx(s)
    /\ UNCHANGED <<acceptorState, reply, got>> /\ out' = NoOutput

Receives(s) ==
    /\ Recv(s)
    /\ got' = [got EXCEPT ![s] = @ + Head(delivery[s]).len]
    /\ UNCHANGED <<acceptorState, reply>> /\ out' = NoOutput

\* What the acceptor writes reaches the dialer, unless it has gone.
HomeTurn ==
    /\ Is("idle") \/ Is("stopped")
    /\ toDialer' = IF Is("idle") THEN toDialer \o out'.frames ELSE <<>>
    /\ UNCHANGED <<nextId, demux, active, ready, inflight, turn, fed, delivery, app, consumes,
                   cancels, got>>

HomeReads ==
    /\ toHome # <<>>
    /\ HandleFrame(Head(toHome))
    /\ toHome' = Tail(toHome)
    /\ UNCHANGED reply
    /\ HomeTurn

HomeConsumes(s) ==
    /\ \E n \in 1..Window : Consume(s, n)
    /\ UNCHANGED <<toHome, reply>>
    /\ HomeTurn

HomeSends(s) ==
    /\ HomeWaits => Known(s) /\ streams[s].peerClosed
    /\ \E n \in 1..Chunk :
           /\ reply[s] + n <= Reply
           /\ TrySendData(s, n)
           /\ reply' = [reply EXCEPT ![s] = @ + n]
    /\ UNCHANGED toHome
    /\ HomeTurn

HomeCloses(s) ==
    /\ reply[s] = Reply \/ HomeMayQuit
    /\ CloseWrite(s)
    /\ UNCHANGED <<toHome, reply>>
    /\ HomeTurn

HomeResets(s) ==
    /\ HomeMayReset
    /\ ResetStream(s, "CANCEL")
    /\ UNCHANGED <<toHome, reply>>
    /\ HomeTurn

HomeEof ==
    /\ Is("stopped") /\ toHome = <<>>
    /\ FinishEof
    /\ UNCHANGED <<toHome, reply>>
    /\ HomeTurn

HomeSteps ==
    \/ HomeReads
    \/ \E s \in Ids : HomeConsumes(s) \/ HomeSends(s) \/ HomeCloses(s) \/ HomeResets(s)
    \/ HomeEof

Next == DialerSteps \/ (\E s \in Ids : Receives(s)) \/ HomeSteps

Spec == Init /\ [][Next]_vars

\* A turn goes on to its end, and the branches of the coordinator's select!
\* are all taken in the end, since it polls them in random order.  The home
\* reads its carrier and its application serves requests.  The application
\* of the dialer supplies the body and reads the response.  A home whose
\* carrier ended notices it.  Nothing makes a home reset or a carrier stop.
WithinTurn == DialerSteps /\ ~Is("idle")
Select(A)  == A /\ UNCHANGED <<acceptorState, reply, got>> /\ out' = NoOutput

Fairness ==
    /\ WF_vars(WithinTurn)
    /\ SF_vars(Select(BeginRead))
    /\ SF_vars(Select(TakeConsume))
    /\ SF_vars(Select(Drained))
    /\ SF_vars(HomeReads)
    /\ WF_vars(HomeEof)
    /\ \A s \in Ids :
           /\ SF_vars(Select(\E n \in 1..Max(Bodies \cup {1}) : BodyArrives(s, n)))
           /\ SF_vars(HomeConsumes(s))
           /\ SF_vars(HomeSends(s))
           /\ SF_vars(HomeCloses(s))
           /\ WF_vars(Receives(s))

FairSpec == Spec /\ Fairness

-----------------------------------------------------------------------------
(* Properties.                                                             *)

Errors == {"PROTOCOL_ERROR", "FLOW_CONTROL_ERROR"}
Accuses(f) == f.flags = {"RESET"} /\ f.reason \in Errors

\* Two honest ends never end a stream for an error: a RESET that reports one
\* answers a late frame, and its receiver has already forgotten the stream.  (A step.)
NoFalseError ==
    /\ Is("feed") /\ toDialer' # toDialer /\ toDialer # <<>> /\ Accuses(Head(toDialer))
           => ~Routes(Head(toDialer).sid)
    /\ toHome # <<>> /\ toHome' = Tail(toHome) /\ Accuses(Head(toHome))
           => ~Known(Head(toHome).sid)

Quiet ==
    /\ Is("idle") /\ toHome = <<>> /\ toDialer = <<>>
    /\ cancels = {}

\* When nothing is in flight the two ends have the same open streams, so
\* neither holds a slot the other has given up.
SlotsAgree ==
    Quiet => DOMAIN streams = {s \in DOMAIN demux : active[s].sent > 0}

Carried(ch, s, flag) ==
    FoldLeft(LAMBDA n, f : IF f.sid = s /\ flag \in f.flags
                           THEN n + (IF flag = "WINDOW" THEN f.credit ELSE f.len) ELSE n, 0, ch)

Both(s) == s \in DOMAIN demux /\ s \in DOMAIN streams /\ ~app[s].dropped

\* On a stream that both ends have, every byte of the window of either
\* direction is credit at the sender, in flight, held by the receiver, or a
\* grant that is due or in flight.
LinkCredit ==
    Is("idle") =>
        \A s \in Ids :
            Both(s) =>
                /\ streams[s].send + Carried(toDialer, s, "DATA") + Undrained(s)
                     + demux[s].window.unacked + Carried(toHome, s, "WINDOW") = Window
                /\ active[s].credit + Carried(toHome, s, "DATA") + streams[s].held
                     + streams[s].window.unacked + Carried(toDialer, s, "WINDOW") = Window

\* An application that sees the response close has received all of the body
\* the home sent before its CLOSE.
ResponseIsWhole ==
    \A s \in Ids :
        app[s].last = "Close" => got[s] = IF reply[s] > ReplyHead THEN reply[s] - ReplyHead ELSE 0

\* The statement that a stream is closed when both directions have CLOSE'd
\* or either side RESET's, and is forgotten then: with nothing in flight, a
\* stream that the dialer has forgotten is over at the home too.
ForgottenIsOver ==
    Quiet => \A s \in Ids : s < nextId /\ ~Routes(s) => ~Known(s)

\* The response has closed; or the home reset the stream; or the carrier stopped, and
\* the application has been told or finds its sender gone.
Finished(s) ==
    \/ app[s].last \in {"Close", "Reset"}
    \/ Is("stopped") /\ app[s].last \in {"Eof", "Gone"}

\* A request to a home that waits for all of it ends: Started leads to Finished, and
\* Known to ~Known.
Started(s) == s < nextId
=============================================================================
