------------------------------ MODULE HttpReply -----------------------------
(***************************************************************************)
(* How an HTTP response is read off a byte stream, by the three readers    *)
(* the code has: the incremental assembler of a mux stream (a head, then   *)
(* body items, with the wire bytes each one gives back as credit), the     *)
(* chunked decoder inside it, and the relay control exchange, which keeps  *)
(* the raw bytes and parses all of them again after every read.            *)
(*                                                                         *)
(* The wire is a sequence of symbols: CR and LF, chunk size digits, data,  *)
(* and one symbol for a whole response head.  It reaches its reader in     *)
(* segments that may cut anything anywhere, and may stop short.            *)
(***************************************************************************)
EXTENDS Integers, Sequences, SequencesExt

CONSTANTS MaxChunk,     \* MAX_PAYLOAD: the largest chunk size accepted
          MaxHead,      \* MAX_ASSEMBLED_BYTES, as a bound on a head
          MaxRaw,       \* the control exchange's limit on a response
          MaxChunks,    \* bound: chunks of a response
          MaxSegment    \* bound: symbols of a segment, unless it is all the rest

VARIABLES reader,       \* who reads this stream: "assembler" or "exchange"
          wire,         \* what the peer will send, if it does not stop
          fed,          \* symbols that have arrived
          eof,          \* the stream has ended
          asm,          \* HttpStreamAssembler, with what it has put out
          exch          \* the control exchange: its state and its result

vars == <<reader, wire, fed, eof, asm, exch>>

CR == "r"
LF == "n"
CRLF == <<CR, LF>>
Digit == [d \in {"0", "1", "2"} |-> CASE d = "0" -> 0 [] d = "1" -> 1 [] OTHER -> 2]

-----------------------------------------------------------------------------
(* Pieces of http.rs.                                                      *)

\* Where needle first starts in s, or 0.
find_subsequence(s, needle) ==
    LET At(i) == i + Len(needle) - 1 <= Len(s) /\ SubSeq(s, i, i + Len(needle) - 1) = needle
    IN  SelectInSeq([i \in 1..Len(s) |-> i], At)

After(s, n) == SubSeq(s, n + 1, Len(s))

\* The size a size line gives, or -1 where the code refuses the line.
FieldValue(field) ==
    LET size == FoldLeft(LAMBDA n, c : 16 * n + Digit[c], 0, field)
    IN  IF field = <<>> \/ \E i \in 1..Len(field) : field[i] \notin DOMAIN Digit THEN -1
        ELSE IF size > MaxChunk THEN -1 ELSE size

\* trim, of the white space this wire has: a CR or an LF that is no line end.
Trim(field) ==
    LET kept == {i \in 1..Len(field) : field[i] \notin {CR, LF}}
    IN  IF kept = {} THEN <<>> ELSE SubSeq(field, Min(kept), Max(kept))

parse_chunk_size(line) ==
    FieldValue(Trim(IF Contains(line, ";")
                    THEN SubSeq(line, 1, SelectInSeq(line, LAMBDA c : c = ";") - 1)
                    ELSE line))

\* A head: chunked, with a content length, with neither, or unreadable.
HeadSymbols == {"chunked", "length0", "length2", "plain"}
parse_head(head) ==
    IF head # <<>> /\ head[1] \in HeadSymbols
    THEN [ok |-> TRUE, chunked |-> head[1] = "chunked",
          length |-> CASE head[1] = "length0" -> 0 [] head[1] = "length2" -> 2 [] OTHER -> -1]
    ELSE [ok |-> FALSE, chunked |-> FALSE, length |-> -1]

-----------------------------------------------------------------------------
(* ChunkedDecoder.                                                         *)

NewDecoder == [buf |-> <<>>, state |-> "Size", size |-> 0]
Fails == [buf |-> <<>>, state |-> "Failed", size |-> 0]
Finished == [buf |-> <<>>, state |-> "Done", size |-> 0]

\* The decoder after a size line that gives size.
Sized(size, rest) ==
    IF size = -1 THEN Fails
    ELSE [buf |-> rest, size |-> size, state |-> IF size = 0 THEN "Trailer" ELSE "Data"]

\* One turn of push's loop on decoder d, whose buffer has its first line end at
\* line, as the decoder after it and the bytes the turn decodes; a turn that
\* must wait for more input changes nothing.
TurnAt(d, line) ==
    LET Same == [d |-> d, out |-> <<>>]
    IN  CASE d.state = "Size" ->
               IF line = 0 THEN Same
               ELSE [d |-> Sized(parse_chunk_size(SubSeq(d.buf, 1, line - 1)), After(d.buf, line + 1)),
                     out |-> <<>>]
          [] d.state = "Data" ->
               IF Len(d.buf) < d.size THEN Same
               ELSE [d |-> [buf |-> After(d.buf, d.size), state |-> "DataCrlf", size |-> 0],
                     out |-> SubSeq(d.buf, 1, d.size)]
          [] d.state = "DataCrlf" ->
               IF Len(d.buf) < 2 THEN Same
               ELSE [d |-> IF line # 1 THEN Fails
                           ELSE [d EXCEPT !.buf = After(@, 2), !.state = "Size"],
                     out |-> <<>>]
          [] d.state = "Trailer" ->
               [d |-> IF line = 1 \/ find_subsequence(d.buf, CRLF \o CRLF) > 0 THEN Finished ELSE d,
                out |-> <<>>]
          [] OTHER -> Same

Turn(d) == TurnAt(d, find_subsequence(d.buf, CRLF))

\* The loop, with t the turn that d has taken.
RECURSIVE PushLoop(_, _, _)
PushLoop(d, t, out) ==
    IF t.d = d THEN [d |-> d, out |-> out] ELSE PushLoop(t.d, Turn(t.d), out \o t.out)

\* push: a decoder that is done ignores what follows, and a push that fails
\* gives up what it had decoded in that call.
Pushed(r) == [r EXCEPT !.out = IF r.d.state = "Failed" THEN <<>> ELSE @]

push(d, bytes) ==
    LET longer == [d EXCEPT !.buf = @ \o bytes]
    IN  IF d.state \in {"Done", "Failed"} THEN [d |-> d, out |-> <<>>]
        ELSE Pushed(PushLoop(longer, Turn(longer), <<>>))

Bad == [ok |-> FALSE, body |-> <<>>]

\* dechunk, on a whole body: the data of its chunks up to the size line of the
\* last one, or Bad.  What follows that line is not looked at.
RECURSIVE dechunk(_, _)
ChunkOf(size, rest, out) ==
    CASE size = -1 -> Bad
      [] size = 0 -> [ok |-> TRUE, body |-> out]
      [] OTHER -> IF size + 2 <= Len(rest) /\ SubSeq(rest, size + 1, size + 2) = CRLF
                  THEN dechunk(After(rest, size + 2), out \o SubSeq(rest, 1, size))
                  ELSE Bad

dechunk(raw, out) ==
    LET line == find_subsequence(raw, CRLF)
    IN  IF line = 0 THEN Bad
        ELSE ChunkOf(parse_chunk_size(SubSeq(raw, 1, line - 1)), After(raw, line + 1), out)

-----------------------------------------------------------------------------
(* HttpStreamAssembler: the fields of the struct, then what has come out:  *)
(* body, the decoded bytes; credited, the wire bytes accounted to the head *)
(* or to a body item; failed, after an error.                              *)

NewAssembler ==
    [head_buf |-> <<>>, head_emitted |-> FALSE, chunked |-> FALSE, decoder |-> NewDecoder,
     pending |-> 0, body |-> <<>>, credited |-> 0, failed |-> FALSE]

\* What a payload decodes to, r, goes out; an item that goes out takes the wire
\* bytes wire_cost with it, which otherwise wait for the next one.
Decoded(a, payload) ==
    IF a.chunked THEN push(a.decoder, payload) ELSE [d |-> a.decoder, out |-> payload]
PutOut(a, r, wire_cost) ==
    [a EXCEPT !.decoder = r.d, !.failed = r.d.state = "Failed", !.body = @ \o r.out,
              !.credited = @ + (IF r.out = <<>> THEN 0 ELSE wire_cost),
              !.pending = IF r.out = <<>> THEN wire_cost ELSE 0]

feed_bodyUnpaid(a, payload) ==
    [PutOut(a, Decoded(a, payload), Len(payload)) EXCEPT !.pending = 0]

\* A body item takes with it the wire bytes of every payload since the last.
feed_body(a, payload) ==
    IF payload = <<>> THEN a ELSE PutOut(a, Decoded(a, payload), a.pending + Len(payload))

\* buf is the head so far with the payload; it has its end at split, or 0.
FedAt(a, payload, buf, split) ==
    LET head == parse_head(SubSeq(buf, 1, split - 1))
        of_head == split + 3 - Len(a.head_buf)
    IN  IF split = 0
        THEN [a EXCEPT !.head_buf = buf, !.credited = @ + Len(payload),
                       !.failed = Len(buf) > MaxHead]
        ELSE IF ~head.ok THEN [a EXCEPT !.failed = TRUE]
        ELSE feed_body([a EXCEPT !.head_buf = <<>>, !.head_emitted = TRUE,
                                 !.chunked = head.chunked,
                                 !.credited = @ + of_head],
                       After(buf, split + 3))

feed_data(a, payload) ==
    LET buf == a.head_buf \o payload
    IN  IF a.head_emitted THEN feed_body(a, payload)
        ELSE FedAt(a, payload, buf, find_subsequence(buf, CRLF \o CRLF))

-----------------------------------------------------------------------------
(* parse_response on everything read, and the control exchange around it.  *)

Parsed(head, body) ==
    IF ~head.ok THEN Bad
    ELSE IF head.chunked THEN dechunk(body, <<>>)
    ELSE IF head.length > Len(body) THEN Bad
    ELSE [ok |-> TRUE, body |-> IF head.length = -1 THEN body ELSE SubSeq(body, 1, head.length)]

parse_response(raw) ==
    LET split == find_subsequence(raw, CRLF \o CRLF)
    IN  IF split = 0 THEN Bad
        ELSE Parsed(parse_head(SubSeq(raw, 1, split - 1)), After(raw, split + 3))

HeadOf(raw) == parse_head(SubSeq(raw, 1, find_subsequence(raw, CRLF \o CRLF) - 1))

response_is_completeParsed(raw) == HeadOf(raw).chunked \/ HeadOf(raw).length # -1

\* Asked of a response that parses: whether there is nothing left to wait for.
response_is_complete(raw) ==
    LET split == find_subsequence(raw, CRLF \o CRLF)
    IN  IF HeadOf(raw).chunked THEN push(NewDecoder, After(raw, split + 3)).d.state = "Done"
        ELSE HeadOf(raw).length # -1 /\ Len(parse_response(raw).body) >= HeadOf(raw).length

At(phase) == [status |-> phase, body |-> <<>>, at |-> 0]
Waiting == At("reading")
Phases == {"connecting", "handshaking", "posting", "reading"}
Returns(status, body, at) == [status |-> status, body |-> body, at |-> at]

\* post_json_over_stream, after a read that made what was read raw.
AfterRead(raw) ==
    LET parsed == parse_response(raw)
    IN  IF Len(raw) > MaxRaw THEN Returns("too_large", <<>>, Len(raw))
        ELSE IF parsed.ok /\ response_is_complete(raw) THEN Returns("ok", parsed.body, Len(raw))
        ELSE Waiting

\* ... and at the end of the stream.
AtEnd(raw) ==
    LET parsed == parse_response(raw)
    IN  IF parsed.ok /\ (HeadOf(raw).chunked => response_is_complete(raw))
        THEN Returns("ok", parsed.body, Len(raw))
        ELSE Returns("malformed", <<>>, Len(raw))

-----------------------------------------------------------------------------
(* The responses a peer sends: well formed, or with one symbol changed.    *)

Chunks == SeqOf({<<"d">>, CRLF}, MaxChunks)
SizeDigit(data) == IF Len(data) = 1 THEN "1" ELSE "2"
Encoded(chunks) == FlattenSeq([i \in 1..Len(chunks) |->
                       <<SizeDigit(chunks[i])>> \o CRLF \o chunks[i] \o CRLF])
Terminators == {<<"0">> \o CRLF \o CRLF, <<"0", ";", "x">> \o CRLF \o <<"t">> \o CRLF \o CRLF}
ChunkedBodies == {Encoded(c) \o t : c \in Chunks, t \in Terminators}
OneOff(bodies) ==
    bodies \cup UNION {{ReplaceAt(b, i, x) : i \in 1..Len(b), x \in {CR, LF, "0", "2", "d"}} : b \in bodies}
Heads == {<<h>> \o CRLF \o CRLF : h \in HeadSymbols \cup {"bad"}} \cup {<<"plain", "t", "t", "t", "t">> \o CRLF \o CRLF}

Wires == {<<"chunked">> \o CRLF \o CRLF \o b : b \in OneOff(ChunkedBodies)}
             \cup {h \o b : h \in Heads, b \in {<<>>, <<"d">>, <<"d", CR, LF>>}}

Init ==
    /\ reader \in {"assembler", "exchange"}
    /\ wire \in Wires
    /\ fed = 0 /\ eof = FALSE
    /\ asm = NewAssembler
    /\ exch = At("connecting")

\* connect, to an http or an https origin.
Connect ==
    /\ reader = "exchange" /\ exch.status = "connecting"
    /\ \E next \in {"handshaking", "posting"} : exch' = At(next)
    /\ UNCHANGED <<reader, wire, fed, eof, asm>>

\* relay_https_post_json_inner: TLS with the relay, on an https origin.
Handshake ==
    /\ reader = "exchange" /\ exch.status = "handshaking"
    /\ exch' = At("posting")
    /\ UNCHANGED <<reader, wire, fed, eof, asm>>

\* build_request is written and flushed before anything is read.
Post ==
    /\ reader = "exchange" /\ exch.status = "posting"
    /\ exch' = Waiting
    /\ UNCHANGED <<reader, wire, fed, eof, asm>>

\* The next n symbols arrive as one DATA payload for the assembler (which is
\* not fed again after an error), or as one read of the exchange.
Feed(n) ==
    /\ reader = "assembler" /\ ~asm.failed
    /\ asm' = feed_data(asm, SubSeq(wire, fed + 1, fed + n))
    /\ UNCHANGED exch

Read(n) ==
    /\ reader = "exchange" /\ exch.status = "reading"
    /\ exch' = AfterRead(SubSeq(wire, 1, fed + n))
    /\ UNCHANGED asm

Arrive(n) ==
    /\ ~eof /\ n <= Len(wire) - fed
    /\ fed' = fed + n
    /\ Feed(n) \/ Read(n)
    /\ UNCHANGED <<reader, wire, eof>>

\* The stream ends, here or early; the exchange takes an end without a TLS
\* close for an end.
End ==
    /\ ~eof /\ (reader = "exchange" => exch.status = "reading")
    /\ eof' = TRUE
    /\ exch' = IF reader = "exchange" THEN AtEnd(SubSeq(wire, 1, fed)) ELSE exch
    /\ UNCHANGED <<reader, wire, fed, asm>>

\* The exchange gives up: the timeout of its phase, the deadline over the
\* whole exchange, or an error of the stream.
GiveUp ==
    /\ reader = "exchange" /\ exch.status \in Phases
    /\ exch' = Returns("failed", <<>>, fed)
    /\ UNCHANGED <<reader, wire, fed, eof, asm>>

Segments == (1..MaxSegment) \cup {Len(wire) - fed}

Next ==
    \/ Connect \/ Handshake \/ Post
    \/ \E n \in Segments \ {0} : Arrive(n)
    \/ End \/ GiveUp

Spec == Init /\ [][Next]_vars

-----------------------------------------------------------------------------
(* Properties.                                                             *)

Whole(n) == feed_data(NewAssembler, SubSeq(wire, 1, n))
SameBody(a) == ~a.failed => asm.body = a.body
CutOf(a) == ~a.failed /\ IsPrefix(asm.body, a.body)

\* However the wire is cut into payloads, the assembler has put out exactly
\* the body that the same bytes give in one piece, or, once it has failed, no
\* byte that the wire does not carry before the fault; and as long as it has
\* not failed every wire byte is accounted once: to the head, to a body item
\* put out, or to the next one.
SegmentsDoNotMatter ==
    /\ reader = "assembler" /\ ~asm.failed => asm.credited + asm.pending = fed /\ SameBody(Whole(fed))
    /\ asm.failed => \E n \in 0..fed : CutOf(Whole(n))

\* a is what the assembler makes of the bytes the exchange had, head their head.
Agrees(a, head) ==
    /\ exch.status = "ok" =>
          /\ a.head_emitted
          /\ a.chunked => a.decoder.state = "Done" /\ exch.body = a.body
          /\ ~a.chunked => IsPrefix(exch.body, a.body)
          /\ ~a.chunked /\ head.length = -1 => exch.body = a.body /\ eof
          /\ ~a.chunked /\ head.length # -1 => Len(exch.body) = head.length
    /\ exch.status = "malformed" =>
          /\ eof /\ a.decoder.state # "Done"
          /\ a.head_emitted /\ ~a.chunked => Len(a.body) < head.length

\* The control exchange and the assembler read the same response: an exchange
\* that returns a chunked response returns the assembler's body, and only
\* once the last chunk and its trailer are there; one that returns a response
\* with a length returns exactly that many bytes; and a response is refused as
\* malformed only at the end of a stream that does not hold a whole one.
ReadersAgree == Agrees(Whole(exch.at), HeadOf(SubSeq(wire, 1, exch.at)))
=============================================================================
