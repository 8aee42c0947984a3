------------------------------ MODULE PairLink ------------------------------
(***************************************************************************)
(* Pair links: Crockford base32 text (spl-core/src/crockford.rs) over a    *)
(* small binary blob (spl-core/src/pairlink.rs).  Bytes are numbers below  *)
(* 256.  A character is its symbol value 0..31, in upper or lower case, or *)
(* one of the kinds of characters that are not in the alphabet.            *)
(*                                                                         *)
(* The lengths of the opaque fields are constants: the code's are 4        *)
(* (address), 16 (nonce and certificate fingerprint) and 8 (secret).       *)
(***************************************************************************)
EXTENDS Integers, Sequences, SequencesExt

CONSTANTS
    AddrLen, NonceLen, FpLen, SecretLen,
    WordBits,       \* width of the shift buffers: 32 in the code
    DefaultPort

Byte == 0..255

(***************************************************************************)
(* crockford.rs                                                            *)
(***************************************************************************)
Hyphen == 32
LooksLikeOne == 33      \* I, L and their lower case
LooksLikeZero == 34     \* O and o
Invalid == 35
Slash == 36
Hash == 37

NoSymbol == 32              \* CrockfordError::InvalidSymbol
NoBlob == <<256>>           \* decode failed: no byte is 256
Error == [form |-> "none"]  \* PairLinkError, other than
MissingFragment == [form |-> "no fragment"]

\* symbol_value, for a character other than the hyphen
SymbolValue(c) ==
    CASE c < 32 -> c
      [] c = LooksLikeOne -> 1
      [] c = LooksLikeZero -> 0
      [] OTHER -> NoSymbol

Word(n) == n % (2 ^ WordBits)

DecodeCharForgets(s, c) ==
    IF ~ s.ok \/ c = Hyphen THEN s
    ELSE IF SymbolValue(c) = NoSymbol THEN [s EXCEPT !.ok = FALSE]
    ELSE LET buffer == Word(s.buffer * 32 + SymbolValue(c))
             bits == s.bits + 5
         IN  IF bits < 8
             THEN [s EXCEPT !.buffer = buffer, !.bits = bits]
             ELSE [ok |-> TRUE, out |-> Append(s.out, (buffer \div 2 ^ (bits - 8)) % 256),
                   buffer |-> 0, bits |-> bits - 8]

\* the loop of decode: a symbol enters the buffer, a byte leaves it when 8
\* bits are there; the buffer is never cleared, so its high bits fall off
DecodeChar(s, c) ==
    IF ~ s.ok \/ c = Hyphen THEN s
    ELSE IF SymbolValue(c) = NoSymbol THEN [s EXCEPT !.ok = FALSE]
    ELSE LET buffer == Word(s.buffer * 32 + SymbolValue(c))
             bits == s.bits + 5
         IN  IF bits < 8
             THEN [s EXCEPT !.buffer = buffer, !.bits = bits]
             ELSE [ok |-> TRUE, out |-> Append(s.out, (buffer \div 2 ^ (bits - 8)) % 256),
                   buffer |-> buffer, bits |-> bits - 8]

Decode(text) ==
    LET s == FoldLeft(DecodeChar, [ok |-> TRUE, out |-> <<>>, buffer |-> 0, bits |-> 0], text)
    IN  IF s.ok /\ s.buffer % (2 ^ s.bits) = 0 THEN s.out ELSE NoBlob

\* encode: 5 bits leave the buffer while it has them
EncodeByte(s, b) ==
    LET buffer == Word(s.buffer * 256 + b)
        bits == s.bits + 8
        Symbol(left) == (buffer \div 2 ^ left) % 32
    IN  IF bits < 10
        THEN [out |-> Append(s.out, Symbol(bits - 5)), buffer |-> buffer, bits |-> bits - 5]
        ELSE [out |-> s.out \o <<Symbol(bits - 5), Symbol(bits - 10)>>,
              buffer |-> buffer, bits |-> bits - 10]

Encode(bytes) ==
    LET s == FoldLeft(EncodeByte, [out |-> <<>>, buffer |-> 0, bits |-> 0], bytes)
    IN  IF s.bits = 0 THEN s.out
        ELSE Append(s.out, (s.buffer * 2 ^ (5 - s.bits)) % 32)

(***************************************************************************)
(* pairlink.rs: parse_blob and the three forms it knows.  A parsed link is *)
(* a record; the text of an address or a nonce is its bytes.               *)
(***************************************************************************)
Slice(blob, from, n) == SubSeq(blob, from + 1, from + n)    \* blob[from..from + n]

IsAllowedDirectIpv4(addr) == addr[1] # 0 /\ addr[1] < 224

NormalizePort(hi, lo) == IF hi * 256 + lo = 0 THEN DefaultPort ELSE hi * 256 + lo

Direct(candidates, nonce, fp) ==
    [form |-> "direct", candidates |-> candidates, nonce |-> nonce, fp |-> fp]

ParseV04(blob) ==
    LET addr == Slice(blob, 2, AddrLen)
        nonceAt == 4 + AddrLen
        total == nonceAt + NonceLen + FpLen
    IN  IF Len(blob) < total \/ blob[2] # 1 THEN Error
        ELSE IF ~ IsAllowedDirectIpv4(addr) THEN Error
        ELSE Direct(<<[host |-> addr, port |-> NormalizePort(blob[nonceAt - 1], blob[nonceAt])]>>,
                    Slice(blob, nonceAt, NonceLen), Slice(blob, nonceAt + NonceLen, FpLen))

MaxDirectCandidates == 4

\* duplicates are dropped, the first of each stays where it was
AddCandidate(seen, e) == IF \E i \in DOMAIN seen : seen[i] = e THEN seen ELSE Append(seen, e)

ParseV05(blob) ==
    IF Len(blob) < 3 THEN Error
    ELSE IF blob[2] # 1 \/ blob[3] \notin 1..MaxDirectCandidates THEN Error
    ELSE LET count == blob[3]
             nonceAt == 5 + AddrLen * count
             total == nonceAt + NonceLen + FpLen
             addrs == [i \in 1..count |-> Slice(blob, 5 + AddrLen * (i - 1), AddrLen)]
             port == NormalizePort(blob[4], blob[5])
         IN  IF Len(blob) < total THEN Error
             ELSE IF \E i \in 1..count : ~ IsAllowedDirectIpv4(addrs[i]) THEN Error
             ELSE Direct(FoldLeft(AddCandidate, <<>>,
                                  [i \in 1..count |-> [host |-> addrs[i], port |-> port]]),
                         Slice(blob, nonceAt, NonceLen), Slice(blob, nonceAt + NonceLen, FpLen))

\* std::str::from_utf8: a character is its first byte and the bytes that must follow;
\* next is the range of the one expected, {} after a byte that is not UTF-8
Utf8Byte(s, b) ==
    LET Lead(more, next) == [more |-> more, next |-> next]
        Follow == 128..191
    IN  CASE s.more > 0 -> Lead(s.more - 1, IF b \in s.next THEN Follow ELSE {})
          [] s.more = 0 /\ s.next = {} -> s
          [] s.more = 0 /\ s.next # {} ->
                CASE b < 128 -> s
                  [] b \in 194..223 -> Lead(1, Follow)
                  [] b \in 224..239 -> Lead(2, IF b = 224 THEN 160..191 ELSE IF b = 237 THEN 128..159 ELSE Follow)
                  [] b \in 240..244 -> Lead(3, IF b = 240 THEN 144..191 ELSE IF b = 244 THEN 128..143 ELSE Follow)
                  [] OTHER -> Lead(0, {})

FromUtf8(bytes) ==
    LET s == FoldLeft(Utf8Byte, [more |-> 0, next |-> 128..191], bytes)
    IN  s.more = 0 /\ s.next # {}

\* the selector is the length of a custom origin, 0 for the default one
ParseV06(blob) ==
    LET base == 3 + SecretLen + FpLen
    IN  IF Len(blob) < base THEN Error
        ELSE IF blob[SecretLen + 2] # 1 THEN Error
        ELSE IF Len(blob) # base + blob[base] THEN Error
        ELSE IF ~ FromUtf8(Slice(blob, base, blob[base])) THEN Error
        ELSE [form |-> "relay", secret |-> Slice(blob, 1, SecretLen),
              fp |-> Slice(blob, SecretLen + 2, FpLen),
              origin |-> Slice(blob, base, blob[base])]

ParseBlob(blob) ==
    IF blob = <<>> THEN Error
    ELSE CASE blob[1] = 4 -> ParseV04(blob)
           [] blob[1] = 5 -> ParseV05(blob)
           [] blob[1] = 6 -> ParseV06(blob)
           [] OTHER -> Error

\* what follows the first #; without one, a bare fragment has no slash (the text
\* "://" has one)
Parse(link) ==
    LET hash == SelectInSeq(link, LAMBDA c : c = Hash)
        blob == Decode(SubSeq(link, hash + 1, Len(link)))
    IN  IF hash = 0 /\ Contains(link, Slash) THEN MissingFragment
        ELSE IF blob = NoBlob THEN Error ELSE ParseBlob(blob)

=============================================================================
