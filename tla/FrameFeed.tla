----------------------------- MODULE FrameFeed ------------------------------
(***************************************************************************)
(* Frames and bytes.  Frame::encode writes a frame as a header and a       *)
(* payload; the carrier delivers the bytes in segments of any size; and    *)
(* two decoders turn them back into frames.  FrameDecoder, the dialer's,   *)
(* buffers what it is fed and takes complete frames off the front.  The    *)
(* home's MuxAcceptor::feed goes byte by byte in front of a FrameDecoder:  *)
(* it counts what it holds against a limit, and it refuses a frame with a  *)
(* reserved flag from its header alone and skips the payload, so that the  *)
(* other streams of the carrier go on.                                     *)
(*                                                                         *)
(* The header has one byte for the stream, one for the flags (1 is the     *)
(* reserved bit, 0 any other flags) and LenBytes bytes for the length,     *)
(* most significant first, in base Base.  Every payload byte is 1, so that *)
(* a decoder that loses its place takes payload for a header.              *)
(***************************************************************************)
EXTENDS Integers, Sequences, SequencesExt

CONSTANTS Base,         \* 256
          LenBytes,     \* 3
          BufferBytes,  \* decoder_buffer_bytes
          MaxFrames,    \* bound: frames on the wire
          MaxSegment    \* bound: bytes of a segment

HeaderLen == 2 + LenBytes
MaxPayload == Base ^ LenBytes - 1

\* MuxLimits::validate
ReservesOneFrame == BufferBytes >= HeaderLen + MaxPayload

VARIABLES sent,         \* the frames the peer encodes
          fed,          \* bytes that have arrived
          gone,         \* "no"; at the end of the carrier "clean" or "truncated"
          dialer,       \* a FrameDecoder: buffer, frames put out, failed
          home          \* the acceptor's decoding state and what came of it

vars == <<sent, fed, gone, dialer, home>>

-----------------------------------------------------------------------------
(* frame.rs                                                                *)

\* The frames and lengths a peer may put on the wire.  encode refuses a
\* reserved flag, so such a frame comes from a peer with another encoder.
Frames == [sid : 0..1, flags : 0..1, len : {0, 1, MaxPayload}]
Payload(n) == [i \in 1..n |-> 1]

LengthDigits(n) == [i \in 1..LenBytes |-> (n \div Base ^ (LenBytes - i)) % Base]
encode(f) == <<f.sid, f.flags>> \o LengthDigits(f.len) \o Payload(f.len)

LengthOf(header) == FoldLeft(LAMBDA n, d : Base * n + d, 0, SubSeq(header, 3, HeaderLen))

HeaderFrame(header) == [sid |-> header[1], flags |-> header[2], len |-> LengthOf(header)]

\* next_frame on buffer buf: "none" until a frame is complete, "error" for a
\* reserved flag, which leaves the buffer as it is.
next_frame(buf) ==
    IF Len(buf) < HeaderLen THEN [is |-> "none"]
    ELSE IF buf[2] = 1 THEN [is |-> "error"]
    ELSE IF Len(buf) < HeaderLen + LengthOf(buf) THEN [is |-> "none"]
    ELSE [is |-> "frame", frame |-> HeaderFrame(buf),
          rest |-> SubSeq(buf, HeaderLen + LengthOf(buf) + 1, Len(buf))]

\* drain: every complete frame, or an error that drops the frames before it.
RECURSIVE drain(_, _)
drain(d, out) ==
    LET next == next_frame(d.buf)
    IN  CASE next.is = "none" -> [d EXCEPT !.frames = @ \o out]
          [] next.is = "error" -> [d EXCEPT !.failed = TRUE]
          [] OTHER -> drain([d EXCEPT !.buf = next.rest], Append(out, next.frame))

-----------------------------------------------------------------------------
(* MuxAcceptor::feed                                                       *)

NewHome ==
    [buffered |-> 0, header |-> <<>>, decoder |-> <<>>, payload |-> 0, discard |-> 0,
     handled |-> <<>>, fatal |-> "none"]

drain_decoderUncounted(h) ==
    LET next == next_frame(h.decoder)
    IN  IF next.is # "frame" THEN h
        ELSE [h EXCEPT !.decoder = next.rest,
                       !.buffered = @ - next.frame.len,
                       !.handled = Append(@, next.frame)]

\* drain_decoder after the decoder has been given bytes: at most one frame can
\* have been completed, and its bytes are no longer held.
drain_decoder(h) ==
    LET next == next_frame(h.decoder)
    IN  IF next.is # "frame" THEN h
        ELSE IF h.buffered < HeaderLen + next.frame.len THEN [h EXCEPT !.fatal = "internal"]
        ELSE [h EXCEPT !.decoder = next.rest,
                       !.buffered = @ - HeaderLen - next.frame.len,
                       !.handled = Append(@, next.frame)]

\* A header with the reserved flag: the frame is refused, its payload skipped;
\* on stream 0 it is fatal.
RefuseReservedKept(h, f) ==
    [h EXCEPT !.header = <<>>, !.buffered = @ - HeaderLen,
              !.handled = Append(@, f),
              !.fatal = IF f.sid = 0 THEN "protocol" ELSE @]
RefuseReserved(h, f) ==
    [h EXCEPT !.header = <<>>, !.buffered = @ - HeaderLen, !.discard = f.len,
              !.handled = Append(@, f),
              !.fatal = IF f.sid = 0 THEN "protocol" ELSE @]

HeaderByte(h, byte) ==
    LET header == Append(h.header, byte)
    IN  IF Len(header) # HeaderLen THEN [h EXCEPT !.header = header]
        ELSE IF header[2] = 1 THEN RefuseReserved(h, HeaderFrame(header))
        ELSE drain_decoder([h EXCEPT !.header = <<>>, !.decoder = @ \o header,
                                     !.payload = LengthOf(header)])

FeedByte(h, byte) ==
    LET counted == [h EXCEPT !.buffered = @ + 1]
    IN  IF h.fatal # "none" THEN h
        ELSE IF h.discard > 0 THEN [h EXCEPT !.discard = @ - 1]
        ELSE IF h.buffered >= BufferBytes THEN [h EXCEPT !.fatal = "flow_control"]
        ELSE IF h.payload = 0 THEN HeaderByte(counted, byte)
        ELSE drain_decoder([counted EXCEPT !.decoder = Append(@, byte), !.payload = @ - 1])

feed(h, bytes) == FoldLeft(FeedByte, h, bytes)

-----------------------------------------------------------------------------

Wire == FlattenSeq([i \in 1..Len(sent) |-> encode(sent[i])])

Init ==
    /\ sent \in SeqOf(Frames, MaxFrames)
    /\ fed = 0 /\ gone = "no"
    /\ dialer = [buf |-> <<>>, frames |-> <<>>, failed |-> FALSE]
    /\ home = NewHome

\* A segment arrives; a decoder that has failed is not used again.
Arrive(n) ==
    LET bytes == SubSeq(Wire, fed + 1, fed + n)
    IN  /\ gone = "no" /\ n <= Len(Wire) - fed
        /\ fed' = fed + n
        /\ dialer' = IF dialer.failed THEN dialer
                     ELSE drain([dialer EXCEPT !.buf = @ \o bytes], <<>>)
        /\ home' = feed(home, bytes)
        /\ UNCHANGED <<sent, gone>>

\* The carrier ends, possibly in the middle of a frame.
finish_eof ==
    /\ gone = "no"
    /\ gone' = IF home.buffered # 0 THEN "truncated" ELSE "clean"
    /\ UNCHANGED <<sent, fed, dialer, home>>

Next == (\E n \in 1..MaxSegment : Arrive(n)) \/ finish_eof

Spec == Init /\ [][Next]_vars

-----------------------------------------------------------------------------
(* Properties.                                                             *)

\* Where the bytes of the first k frames end.
EndOf(k) == Len(FlattenSeq([i \in 1..k |-> encode(sent[i])]))
Whole == CHOOSE k \in 0..Len(sent) :
             EndOf(k) <= fed /\ (k < Len(sent) => EndOf(k + 1) > fed)
Reserved(k) == {i \in 1..k : sent[i].flags = 1}

\* However the bytes are cut, the dialer's decoder puts out the frames that
\* were encoded, in order, and nothing after a reserved flag; and the home
\* handles every frame that was sent, in order and none twice, a frame with
\* a reserved flag from its header on, keeping its place in the stream past
\* the payload it skips, until such a frame comes on stream 0.
FramesComeBack ==
    LET k == Whole
        skipping == IF home.fatal = "none" /\ Len(home.handled) = k + 1 THEN k + 1 ELSE k
    IN  /\ ~dialer.failed => dialer.frames = SubSeq(sent, 1, k) /\ Reserved(k) = {}
        /\ dialer.failed => IsPrefix(dialer.frames, sent)
        /\ IsPrefix(home.handled, sent)
        /\ home.fatal = "none" => home.handled = SubSeq(sent, 1, skipping)
        /\ skipping = k + 1 => sent[k + 1].flags = 1
        /\ home.fatal = "protocol" => Last(home.handled) \in [sid : {0}, flags : {1}, len : Nat]

\* What the home counts as held is what it holds: the bytes of the one frame
\* it has only part of, so that the limit, which has room for any frame, is
\* never what ends a carrier; and a carrier is called truncated at its end
\* only when it ends inside a frame.
HeldIsCounted ==
    LET inside == IF home.discard > 0 THEN 0 ELSE fed - EndOf(Whole)
    IN  /\ home.fatal = "none" => home.buffered = inside
        /\ home.buffered = Len(home.header) + Len(home.decoder)
        /\ home.fatal \notin {"internal", "flow_control"}
        /\ gone = "truncated" /\ home.fatal = "none" => EndOf(Whole) < fed
=============================================================================
