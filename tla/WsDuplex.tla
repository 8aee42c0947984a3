------------------------------ MODULE WsDuplex ------------------------------
(***************************************************************************)
(* WsByteDuplex: the byte stream a relay carrier runs its inner TLS over,  *)
(* made of web socket messages.  A message from the relay is cut into      *)
(* reads through read_tail and read_pos; what a caller writes leaves in    *)
(* binary messages of at most ChunkBytes.  The first way the socket ends   *)
(* is kept in a termination cell the carrier reads later to tell "not      *)
(* authorised" or "unpaid" from a broken connection.                       *)
(*                                                                         *)
(* A byte is its offset in its direction.  The web socket itself (message  *)
(* boundaries, masking, answering pings) belongs to a library.             *)
(***************************************************************************)
EXTENDS Integers, Sequences, SequencesExt

CONSTANTS ChunkBytes,   \* MAX_WS_CHUNK_BYTES
          BufBytes,     \* the largest buffer a caller reads into or writes from
          MaxMessage,   \* bound: bytes in one binary message of the relay
          MaxMessages,  \* bound: messages the relay sends
          MaxBytes      \* bound: bytes a caller writes

VARIABLES inbox,        \* messages of the relay not polled yet
          put,          \* bytes the relay has sent
          peer,         \* "open"; "closed" after its Close, "gone" after its end
          said,         \* the code of its Close
          count,        \* messages the relay has sent
          tail,         \* read_tail
          pos,          \* read_pos
          delivered,    \* the bytes the caller has read, in order
          readEnd,      \* "open", "eof" or "error": the last end a read saw
          termination,  \* what the cell holds
          outbox,       \* binary messages handed to the socket
          reported,     \* bytes poll_write has reported written
          writeEnd      \* "open", "error", or "shutdown" once closed locally

relay == <<inbox, put, peer, said, count>>
reader == <<tail, pos, delivered, readEnd, termination>>
writer == <<outbox, reported, writeEnd>>
vars == <<relay, reader, writer>>

\* A termination is a close code, or one of two numbers no close code has.
None == -1
Abnormal == -2
CloseCodes == {1000, 1009, 4401, 4402}

relay_error_from_close(code) ==
    CASE code = 4401 -> "Unauthorized"
      [] code = 4402 -> "Unpaid"
      [] code = 1009 -> "Overflow"
      [] OTHER -> "Abnormal"

relay_error_from_termination(t) ==
    IF t = Abnormal THEN "Abnormal" ELSE relay_error_from_close(t)

current_error ==
    IF termination = None THEN "none" ELSE relay_error_from_termination(termination)

RecordedLatest(value) == value

\* The cell keeps the first termination recorded in it.
Recorded(value) == IF termination = None THEN value ELSE termination

Init ==
    /\ inbox = <<>> /\ put = 0 /\ peer = "open" /\ said = None /\ count = 0
    /\ tail = <<>> /\ pos = 0 /\ delivered = <<>>
    /\ readEnd = "open" /\ termination = None
    /\ outbox = <<>> /\ reported = 0 /\ writeEnd = "open"

-----------------------------------------------------------------------------
(* The relay: any run of messages, a Close with or without a code, or an   *)
(* end of the connection, clean or not.                                    *)

Offsets(first, n) == [i \in 1..n |-> first + i]

SendBinary(n) ==
    /\ inbox' = Append(inbox, [kind |-> "binary", bytes |-> Offsets(put, n)])
    /\ put' = put + n
    /\ UNCHANGED <<peer, said>>

SendOther(kind, to) ==
    /\ inbox' = Append(inbox, [kind |-> kind])
    /\ peer' = to
    /\ UNCHANGED <<put, said>>

SendClose(code) ==
    /\ inbox' = Append(inbox, [kind |-> "close", code |-> code])
    /\ peer' = "closed"
    /\ said' = IF code = None THEN 1000 ELSE code
    /\ UNCHANGED put

RelaySends ==
    /\ peer = "open"
    /\ count < MaxMessages
    /\ count' = count + 1
    /\ \/ \E n \in 0..MaxMessage : SendBinary(n)
       \/ SendOther("ping", "open")
       \/ SendOther("text", "open")
       \/ \E code \in CloseCodes \cup {None} : SendClose(code)
       \/ SendOther("failure", "gone")
       \/ SendOther("end", "gone")
    /\ UNCHANGED <<reader, writer>>

-----------------------------------------------------------------------------
(* Reading.                                                                *)

copy_tailRepeating(t, p, room) ==
    LET n == IF room < Len(t) - p THEN room ELSE Len(t) - p
        done == n = Len(t)
    IN  [tail |-> IF done THEN <<>> ELSE t,
         pos |-> IF done THEN 0 ELSE p,
         out |-> SubSeq(t, p + 1, p + n)]

\* What copy_tail leaves and hands out, with room for room bytes in the
\* caller's buffer; a tail read to its end is cleared.
copy_tail(t, p, room) ==
    LET n == IF room < Len(t) - p THEN room ELSE Len(t) - p
        done == p + n = Len(t)
    IN  [tail |-> IF done THEN <<>> ELSE t,
         pos |-> IF done THEN 0 ELSE p + n,
         out |-> SubSeq(t, p + 1, p + n)]

HandOut(copied) ==
    /\ tail' = copied.tail
    /\ pos' = copied.pos
    /\ delivered' = delivered \o copied.out
    /\ UNCHANGED <<readEnd, termination>>

ReadEnds(how, cell) ==
    /\ readEnd' = how
    /\ termination' = cell
    /\ UNCHANGED <<tail, pos, delivered>>

\* The web socket's messages in order; a ping or an empty binary message
\* does not end the poll.
Skipped(m) == m.kind = "ping" \/ (m.kind = "binary" /\ m.bytes = <<>>)
FirstReal == SelectInSeq(inbox, LAMBDA m : ~Skipped(m))

OnMessage(m, room) ==
    \/ m.kind = "binary" /\ HandOut(copy_tail(m.bytes, 0, room))
    \/ m.kind = "close" /\ ReadEnds("eof", Recorded(IF m.code = None THEN 1000 ELSE m.code))
    \/ m.kind \in {"text", "failure"} /\ ReadEnds("error", Recorded(Abnormal))
    \/ m.kind = "end" /\ ReadEnds("eof", termination)

\* A caller's poll_read with a buffer of room bytes: what is left of the last
\* message first, else the next message of the socket; a poll that finds only
\* messages it skips drops them and waits.  A caller may poll again after an
\* end or an error.
poll_read(room) ==
    /\ \/ /\ pos < Len(tail)
          /\ HandOut(copy_tail(tail, pos, room))
          /\ UNCHANGED relay
       \/ /\ pos >= Len(tail)
          /\ FirstReal > 0
          /\ OnMessage(inbox[FirstReal], room)
          /\ inbox' = SubSeq(inbox, FirstReal + 1, Len(inbox))
          /\ UNCHANGED <<put, peer, said, count>>
       \/ /\ pos >= Len(tail)
          /\ FirstReal = 0 /\ inbox # <<>>
          /\ inbox' = <<>>
          /\ UNCHANGED <<put, peer, said, count, reader>>
    /\ UNCHANGED writer

-----------------------------------------------------------------------------
(* Writing.                                                                *)

\* One poll_write of len bytes: a prefix of at most ChunkBytes leaves as one
\* message and is what the call reports; the socket may refuse.
poll_write(len) ==
    /\ writeEnd = "open"
    /\ LET n == IF len < ChunkBytes THEN len ELSE ChunkBytes
       IN  \/ /\ outbox' = Append(outbox, Offsets(reported, n))
              /\ reported' = reported + n
              /\ UNCHANGED writeEnd
           \/ /\ writeEnd' = "error"
              /\ UNCHANGED <<outbox, reported>>
    /\ UNCHANGED <<relay, reader>>

poll_shutdown ==
    /\ writeEnd = "open"
    /\ writeEnd' \in {"shutdown", "error"}
    /\ UNCHANGED <<relay, reader, outbox, reported>>

Next ==
    \/ RelaySends
    \/ \E room \in 1..BufBytes : poll_read(room)
    \/ \E len \in 1..BufBytes : reported + len <= MaxBytes /\ poll_write(len)
    \/ poll_shutdown

Spec == Init /\ [][Next]_vars

-----------------------------------------------------------------------------
(* Properties.                                                             *)

\* The bytes waiting in the web socket's messages, in order.
Pending == FlattenSeq([i \in 1..Len(inbox) |->
               IF inbox[i].kind = "binary" THEN inbox[i].bytes ELSE <<>>])

\* Whatever the sizes of the messages and of the caller's buffers, a caller
\* reads the relay's bytes in order, none twice and none lost, and is told of
\* a clean end only when it has read every byte the relay sent before its
\* Close or its end; an error the carrier reports as "not authorised",
\* "unpaid" or "overflow" is what the code of the relay's Close says; and the
\* messages sent out are exactly what poll_write reported, none above the
\* chunk limit.
DuplexFaithful ==
    /\ delivered \o SubSeq(tail, pos + 1, Len(tail)) \o Pending = Offsets(0, put)
    /\ readEnd = "eof" => peer # "open" /\ Len(delivered) = put
    /\ termination # None => readEnd # "open"
    /\ current_error \in {"Unauthorized", "Unpaid", "Overflow"}
          => peer = "closed" /\ current_error = relay_error_from_close(said)
    /\ FlattenSeq(outbox) = Offsets(0, reported)
    /\ \A i \in 1..Len(outbox) : Len(outbox[i]) \in 1..ChunkBytes

\* (A step.) The first end of the socket is the one the carrier hears of: a failure met
\* while winding down never replaces the code of a Close, nor the reverse.
FirstEndStays == termination # None => termination' = termination

\* What the reader sees of the relay is a byte pipe: the stream the inner TLS
\* session runs over gains and loses nothing in being cut into messages.
Pipe == INSTANCE BytePipe WITH Window <- MaxMessage * MaxMessages, written <- put,
                               taken <- Len(delivered), closed <- peer # "open"
=============================================================================
