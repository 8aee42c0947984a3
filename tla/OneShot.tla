------------------------------ MODULE OneShot -------------------------------
(***************************************************************************)
(* One request over a connection of its own, as pairing and the one-shot   *)
(* client path send it: run_request_over_stream pumps a WindowedUpload     *)
(* until its credit is spent, reads what the peer sent, feeds it to a      *)
(* ResponseAssembler, writes back what that produced and starts again, in  *)
(* one task with nothing but timeouts to end a wait.                       *)
(*                                                                         *)
(* The peer is arbitrary: each read returns a segment of any frames, the   *)
(* end of the connection, or an error.  Bodies are byte counts.            *)
(***************************************************************************)
EXTENDS MuxFrames, SequencesExt

CONSTANTS HeadLen,      \* bytes of the request head
          BodyLen,      \* bytes of the request body
          Stage,        \* UPLOAD_BODY_STAGE_CAPACITY
          Cap,          \* the response cap
          Naming,       \* whether a TLS alert may name a refusal
          MaxSegments,  \* bound: reads that return frames
          MaxFrames     \* bound: frames of one read

VARIABLES phase,        \* "send", "read", "reply" or "over"
          upload,       \* WindowedUpload
          response,     \* ResponseAssembler
          accepted,     \* whether a TLS alert is no longer the peer's verdict
          queue,        \* originated frames still to write this turn
          ends,         \* whether the turn then ends the call: a terminal error
          result,       \* how the call returned, "none" while it runs
          log,          \* frames written for the stream, in order
          got, granted, seen, \* DATA bytes, credit and flags read for the stream
          reads         \* segments read

history == <<log, got, granted, seen, reads>>
vars == <<phase, upload, response, accepted, queue, ends, result, history>>

Id == 1

Init ==
    /\ phase = "send"
    /\ upload = [head |-> HeadLen, staged |-> 0, fed |-> 0, emitted |-> 0,
                 credit |-> Window, opened |-> FALSE, closed |-> FALSE]
    /\ response = [body |-> 0, window |-> FreshWindow(Window), closed |-> FALSE,
                   reset |-> FALSE, flow_control_failed |-> FALSE]
    /\ accepted = ~Naming
    /\ queue = <<>> /\ ends = FALSE /\ result = "none"
    /\ log = <<>> /\ got = 0 /\ granted = 0 /\ seen = {} /\ reads = 0

\* The call returns; what it held is dropped.
Return(how) ==
    /\ phase' = "over"
    /\ result' = how
    /\ queue' = <<>>
    /\ ends' = FALSE

\* stream_error and read_verdict: until the peer has sent something, an I/O
\* error may turn out to be the journal's refusal of this device.
Breaks ==
    /\ \E how \in {"io"} \cup (IF accepted THEN {} ELSE {"refused"}) : Return(how)
    /\ UNCHANGED <<upload, response, accepted, history>>

-----------------------------------------------------------------------------
(* The upload.                                                             *)

Least(a, b) == IF a < b THEN a ELSE b

\* body_capacity, and feed_body with that many bytes.
body_capacity(u) == Least(Stage - u.staged, BodyLen - u.fed)
Fed(u) == [u EXCEPT !.staged = @ + body_capacity(u), !.fed = @ + body_capacity(u)]

Available(u) == IF u.head > 0 THEN u.head ELSE u.staged

SendableUnpaid(u) == Least(Available(u), Chunk)
Sendable(u) == Least(Least(Available(u), Chunk), u.credit)

Blocked(u) == Available(u) > 0 /\ u.credit = 0
CloseDue(u) == Available(u) = 0 /\ ~u.closed /\ u.emitted = BodyLen

\* poll_send: the frame it returns and the upload it leaves.
DataOut(u) ==
    LET n == Sendable(u)
    IN  [frame |-> Frame(Id, IF u.opened THEN {"DATA"} ELSE {"OPEN", "DATA"}, n),
         upload |-> [u EXCEPT !.head = IF u.head > 0 THEN @ - n ELSE @,
                              !.staged = IF u.head > 0 THEN @ ELSE @ - n,
                              !.emitted = IF u.head > 0 THEN @ ELSE @ + n,
                              !.opened = TRUE,
                              !.credit = @ - n]]
poll_send(u) ==
    IF Available(u) > 0 THEN DataOut(u)
    ELSE [frame |-> CloseFrame(Id), upload |-> [u EXCEPT !.closed = TRUE]]
Idle(u) == Blocked(u) \/ (Available(u) = 0 /\ ~CloseDue(u))

\* One turn of the inner loop, with the write it makes; the frame counts as
\* sent whether or not the write comes back.
SendFrame ==
    /\ phase = "send" /\ ~response.closed
    /\ ~Idle(Fed(upload))
    /\ upload' = poll_send(Fed(upload)).upload
    /\ log' = Append(log, poll_send(Fed(upload)).frame)
    /\ UNCHANGED <<phase, response, accepted, queue, ends, result, got, granted, seen, reads>>

\* A write or flush fails or takes longer than its timeout.
WriteFails ==
    /\ phase \in {"send", "reply"}
    /\ Breaks

\* Nothing more to send now: flush, and wait for the peer.
SendDone ==
    /\ phase = "send" /\ ~response.closed
    /\ Idle(Fed(upload))
    /\ upload' = Fed(upload)
    /\ phase' = "read"
    /\ UNCHANGED <<response, accepted, queue, ends, result, history>>

-----------------------------------------------------------------------------
(* ResponseAssembler::feed, frame by frame.                                *)

Start(r) == [r |-> r, pongs |-> <<>>, grants |-> <<>>, emit |-> <<>>, error |-> "none", stop |-> FALSE]

OnData(a, f) ==
    LET window == Debit(a.r.window, f.len)
        grant == IF GrantDue(window, f.len) THEN <<WindowFrame(Id, Grant(window, f.len))>> ELSE <<>>
    IN  IF a.r.body + f.len > Cap THEN [a EXCEPT !.error = "cap", !.stop = TRUE]
        ELSE IF ~CanDebit(a.r.window, f.len)
        THEN [a EXCEPT !.r.closed = TRUE, !.r.flow_control_failed = TRUE, !.stop = TRUE,
                       !.emit = Append(@, ResetFrame(Id, "FLOW_CONTROL_ERROR"))]
        ELSE [a EXCEPT !.r.body = @ + f.len, !.r.window = ConsumeBytes(window, f.len),
                       !.emit = @ \o grant]

OnClose(a) == [a EXCEPT !.r.closed = TRUE, !.emit = <<>>]

OnResetMissed(a) == [a EXCEPT !.r.closed = TRUE, !.emit = <<>>]
OnReset(a) == [a EXCEPT !.r.reset = TRUE, !.r.closed = TRUE, !.emit = <<>>]

OnFrame(a, f) ==
    LET data == IF "DATA" \in f.flags THEN OnData(a, f) ELSE a
    IN  IF a.stop THEN a
        ELSE IF f.sid = 0 /\ f.flags = {"PING"} THEN [a EXCEPT !.pongs = Append(@, PongFrame)]
        ELSE IF f.sid # Id THEN a
        ELSE IF "WINDOW" \in f.flags THEN [a EXCEPT !.grants = Append(@, f.credit)]
        ELSE IF "RESET" \in f.flags THEN OnReset(a)
        ELSE IF ~data.stop /\ "CLOSE" \in f.flags THEN OnClose(data) ELSE data

\* A reserved flag anywhere in what is decoded fails the whole read.
feed(segment) ==
    IF \E i \in 1..Len(segment) : "RESERVED" \in segment[i].flags
    THEN [Start(response) EXCEPT !.error = "frame", !.stop = TRUE]
    ELSE FoldLeft(OnFrame, Start(response), segment)

-----------------------------------------------------------------------------
(* Reading, and writing back.                                              *)

Mine(segment) == SelectSeq(segment, LAMBDA f : f.sid = Id)
Total(field(_), segment) == FoldLeft(LAMBDA n, f : n + field(f), 0, segment)

\* Grants in order; one that passes the cap on credit resets the stream and
\* ends the call, and the read's other output is not written.
RECURSIVE Credited(_, _)
Credited(credit, grants) ==
    IF grants = <<>> THEN credit
    ELSE IF credit + Head(grants) > MaxCredit THEN -1
    ELSE Credited(credit + Head(grants), Tail(grants))

Read(segment) ==
    LET a == feed(segment)
        credit == Credited(upload.credit, a.grants)
    IN  /\ phase = "read" /\ reads < MaxSegments
        /\ reads' = reads + 1
        /\ got' = got + Total(LAMBDA f : IF "DATA" \in f.flags THEN f.len ELSE 0, Mine(segment))
        /\ granted' = granted + Total(LAMBDA f : f.credit, Mine(segment))
        /\ seen' = seen \cup UNION {Mine(segment)[i].flags : i \in 1..Len(Mine(segment))}
        /\ accepted' = TRUE
        /\ response' = a.r
        /\ \/ /\ a.error # "none"
              /\ Return(a.error)
              /\ UNCHANGED upload
           \/ /\ a.error = "none" /\ credit = -1
              /\ phase' = "reply" /\ queue' = <<ResetFrame(Id, "FLOW_CONTROL_ERROR")>> /\ ends' = TRUE
              /\ UNCHANGED <<upload, result>>
           \/ /\ a.error = "none" /\ credit # -1
              /\ upload' = [upload EXCEPT !.credit = credit]
              /\ phase' = "reply" /\ queue' = a.pongs \o a.emit
              /\ ends' = a.r.flow_control_failed
              /\ UNCHANGED result
        /\ UNCHANGED log

\* The read times out or fails.
ReadFails == phase = "read" /\ Breaks

WriteBack ==
    /\ phase = "reply" /\ queue # <<>>
    /\ queue' = Tail(queue)
    /\ log' = IF Head(queue).sid = Id THEN Append(log, Head(queue)) ELSE log
    /\ UNCHANGED <<phase, upload, response, accepted, ends, result, got, granted, seen, reads>>

\* The turn is over: a terminal error returns, else the loop starts again.
TurnEnds ==
    /\ phase = "reply" /\ queue = <<>>
    /\ \/ /\ ends
          /\ Return("flow_control")
       \/ /\ ~ends
          /\ phase' = "send"
          /\ UNCHANGED <<queue, ends, result>>
    /\ UNCHANGED <<upload, response, accepted, history>>

\* into_response, once the loop has ended: at the end of the stream's
\* response, or when the peer has closed the connection.
into_response ==
    IF response.reset THEN "reset"
    ELSE IF response.flow_control_failed THEN "flow_control"
    ELSE IF ~response.closed THEN "incomplete" ELSE "ok"

Finish ==
    /\ phase = "read" \/ (phase = "send" /\ response.closed)
    /\ Return(into_response)
    /\ UNCHANGED <<upload, response, accepted, history>>

\* The frames an arbitrary peer puts in a segment.
PeerFrames ==
    {DataFrame(Id, 1), DataFrame(Id, 2), Frame(Id, {"DATA", "CLOSE"}, 1), CloseFrame(Id),
     ResetFrame(Id, "CANCEL"), WindowFrame(Id, 1), WindowFrame(Id, MaxCredit),
     Frame(0, {"PING"}, 0), DataFrame(Id + 2, 1), Frame(Id, {"RESERVED"}, 0)}
PeerSegments == {<<f>> : f \in PeerFrames} \cup {<<f, g>> : f, g \in PeerFrames}

Next ==
    \/ SendFrame \/ SendDone \/ WriteFails
    \/ \E segment \in PeerSegments : Len(segment) <= MaxFrames /\ Read(segment)
    \/ ReadFails \/ WriteBack \/ TurnEnds \/ Finish

Spec == Init /\ [][Next]_vars

-----------------------------------------------------------------------------
(* Properties.                                                             *)

SentData == Total(LAMBDA f : IF "DATA" \in f.flags THEN f.len ELSE 0, log)
OwnFrames == SelectSeq(log, LAMBDA f : f.flags \notin {{"WINDOW"}, {"RESET"}})

\* A call returns a response only when the peer closed the stream, nothing it
\* read reset it, and every DATA byte it read for the stream is in the body,
\* within the cap and within the credit it had granted; and it names a refusal
\* only when the peer had sent nothing at all.
ResponseIsSound ==
    /\ result = "ok" => /\ "CLOSE" \in seen /\ "RESET" \notin seen
                        /\ response.body = got /\ got <= Cap
    /\ result = "refused" => Naming /\ reads = 0
    /\ response.window.credit + response.window.unacked = Window
    /\ response.body <= got

\* Whatever the peer grants, in whatever order, the request leaves as OPEN,
\* DATA within the credit granted, and one CLOSE after the whole of the head
\* and the body.
RequestIsInOrder ==
    /\ SentData <= Window + granted
    /\ SentData = HeadLen - upload.head + upload.emitted
    /\ \A i \in 1..Len(OwnFrames) :
          /\ ("OPEN" \in OwnFrames[i].flags) <=> (i = 1)
          /\ "CLOSE" \in OwnFrames[i].flags => i = Len(OwnFrames) /\ SentData = HeadLen + BodyLen
    /\ upload.closed <=> \E i \in 1..Len(OwnFrames) : "CLOSE" \in OwnFrames[i].flags
=============================================================================
