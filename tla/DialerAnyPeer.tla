--------------------------- MODULE DialerAnyPeer ----------------------------
(***************************************************************************)
(* The dialer's end of a carrier with a peer that may send any decodable   *)
(* frame at any time.  The peer takes frames as they are written, which    *)
(* the dialer cannot observe, and its own frames are chosen when they are  *)
(* read.                                                                   *)
(*                                                                         *)
(* A history variable records the OPEN, CLOSE and RESET flags written for  *)
(* every id since it was allocated.                                        *)
(***************************************************************************)
EXTENDS CarrierDialer

CONSTANTS
    Lengths,   \* payload lengths of the peer's DATA frames
    Credits    \* credits of its WINDOW frames

PeerAssumption == Lengths \subseteq Nat /\ Credits \subseteq Nat

VARIABLE wrote   \* OPEN, CLOSE and RESET flags written, per id

vars == <<dialerVars, wrote>>

AllIds == Ids \cup {0}

PayloadFrames == {Frame(s, flags, len) : s \in Ids, flags \in {{"DATA"}, {"DATA", "CLOSE"}},
                                         len \in Lengths}
SimpleFrames  == {Frame(s, flags, 0) : s \in AllIds,
                      flags \in {{"CLOSE"}, {"RESET"}, {"OPEN"}, {"PING"}, {"PONG"}, {"RESERVED"}}}
WindowFrames  == {WindowFrame(s, c) : s \in Ids, c \in Credits}
BadFrames     == {[Frame(s, {"WINDOW"}, 0) EXCEPT !.bad = TRUE] : s \in Ids}
PeerFrames    == PayloadFrames \cup SimpleFrames \cup WindowFrames \cup BadFrames

Init == DialerInit /\ wrote = [s \in Ids |-> {}]

PeerSends ==
    /\ Is("idle") \/ (Is("feed") /\ turn.left > 0)
    /\ \E f \in PeerFrames : toDialer' = Append(toDialer, f)
    /\ UNCHANGED <<nextId, demux, active, ready, inflight, turn, fed, delivery, app,
                   consumes, cancels, toHome>>

\* OPEN, CLOSE and RESET among the flags of toHome' for an id, up to a
\* position.
WrittenUpTo(s, n) ==
    (UNION {toHome'[i].flags : i \in {j \in 1..n : toHome'[j].sid = s}})
        \cap {"OPEN", "CLOSE", "RESET"}

Step ==
    /\ toHome = <<>>
    /\ IF toDialer = <<>> THEN Coordinate \/ Applies \/ PeerSends ELSE ReadTurn
    /\ wrote' = [s \in Ids |-> IF s < nextId THEN wrote[s] \cup WrittenUpTo(s, Len(toHome'))
                                  ELSE {}]

PeerTakes ==
    /\ toHome # <<>> /\ toHome' = <<>>
    /\ UNCHANGED <<nextId, demux, active, ready, inflight, turn, fed, delivery, app,
                   consumes, cancels, toDialer, wrote>>

Next == Step \/ PeerTakes

Spec == Init /\ [][Next]_vars

-----------------------------------------------------------------------------
(* Properties.                                                             *)

\* Every variable has its type.
TypeOK ==
    /\ nextId \in Nat
    /\ DOMAIN active \subseteq Ids /\ DOMAIN demux \subseteq Ids
    /\ \A s \in DOMAIN demux :
           /\ demux[s].window \in [credit : 0..Window, unacked : 0..(Threshold - 1)]
           /\ demux[s].head \in 0..ReplyHead
    /\ \A s \in DOMAIN active :
           /\ active[s].credit \in 0..MaxCredit
           /\ active[s].declared \in Bodies /\ active[s].fed \in 0..active[s].declared
           /\ active[s].sent \in 0..(RequestHead + active[s].fed)
    /\ inflight \in 0..WriterQueue
    /\ wrote \in [Ids -> SUBSET {"OPEN", "CLOSE", "RESET"}]

\* A frame is allowed after the flags written before it for its id: OPEN
\* first, nothing of the upload after CLOSE, and after a RESET only another
\* RESET.  A WINDOW is for a stream the demux still routes.  Ids are opened
\* in increasing order.
Allowed(f, before) ==
    CASE f.flags = {"RESET"}        -> TRUE
      [] f.flags = {"OPEN", "DATA"} ->
             before = {} /\ \A t \in Ids : t > f.sid => "OPEN" \notin wrote[t]
      [] f.flags = {"WINDOW"}       -> "RESET" \notin before /\ Routes(f.sid)
      [] OTHER                      -> "OPEN" \in before /\ before \cap {"CLOSE", "RESET"} = {}

\* (A step.) Whatever the peer sends and however slowly the application reads, each
\* stream's frames come out in order, none follows the stream's RESET or
\* adds to the upload after its CLOSE, no credit is granted for a stream
\* that has ended, and ids are opened in increasing order.
OrderedStep ==
    toHome = <<>> =>
        \A i \in 1..Len(toHome') :
            LET f == toHome'[i] IN
            f.sid # 0 => Allowed(f, wrote[f.sid] \cup WrittenUpTo(f.sid, i - 1))

\* What the application has received of a stream, what its queue holds, and
\* what waits for the queue, as one sequence of kinds.
Kinds(items) == [i \in 1..Len(items) |-> items[i].kind]
Story(s) ==
    (IF app[s].last = "none" THEN <<>> ELSE <<app[s].last>>)
    \o Kinds(delivery[s])
    \o (IF Serves(s) THEN Kinds(ThroughEnd(active[s].pending)) ELSE <<>>)

\* The application sees a response head, then body, then one end; or an
\* early head and nothing more; or an end at once.
OrderlyDelivery ==
    \A s \in Ids :
        LET story == Story(s) IN
        /\ \A i \in 1..Len(story) :
               /\ story[i] \in Terminal \cup {"Gone"} => i = Len(story)
               /\ story[i] = "Head" => i = 1
        /\ app[s].last = "none" /\ story # <<>> => story[1] # "Body"

\* Between turns the demux knows exactly the streams the coordinator serves,
\* except those whose end is waiting for a full queue.
TablesAgree ==
    Is("idle") =>
        /\ DOMAIN demux \subseteq DOMAIN active
        /\ \A s \in DOMAIN active \ DOMAIN demux :
               \E i \in 1..Len(active[s].pending) : active[s].pending[i].kind \in Ends

\* Every byte that was debited is granted back, waiting for the grant
\* threshold, or still on its way through the application, so no credit is
\* lost in the queues, where bodies are joined and retried.
CreditKept ==
    Is("idle") =>
        \A s \in DOMAIN demux :
            ~app[s].dropped =>
                demux[s].window.credit + demux[s].window.unacked + Undrained(s) = Window

\* An upload that could send a frame is queued, and only a writer without
\* room for uploads leaves the queue unserved; so no upload is forgotten.
NoUploadForgotten ==
    Is("idle") =>
        /\ \A s \in DOMAIN active :
               /\ MayPoll(active[s]) => active[s].queued
               /\ active[s].queued <=> \E i \in 1..Len(ready) : ready[i] = s
        /\ ready # <<>> => ~UploadRoom

\* While an upload is unfinished nothing of its response is queued, so the
\* end of a stream never waits behind a full queue while bytes are still
\* being sent on it.
UnfinishedHearsNothing ==
    \A s \in DOMAIN active : ~active[s].closed => delivery[s] = <<>> /\ active[s].pending = <<>>
=============================================================================
