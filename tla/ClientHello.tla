----------------------------- MODULE ClientHello -----------------------------
(***************************************************************************)
(* How the bridge finds out which journal a client wants, without taking a *)
(* byte from it (spl-bridge/src/sni.rs): it peeks at a growing window of   *)
(* the socket and parses what is there from the start each time, through   *)
(* TLS records, the handshake message, the extensions and the lists in     *)
(* them.  Every length is one symbol here, and the fixed fields of a       *)
(* header are one symbol or none.                                          *)
(***************************************************************************)
EXTENDS Integers, Sequences, SequencesExt

CONSTANTS
    InitialPeek,     \* INITIAL_PEEK_BYTES
    WireLimit,       \* encoded_wire_bytes
    HandshakeLimit,  \* handshake_message_bytes
    PayloadLimit,    \* record_payload_bytes
    RecordLimit,     \* record_count
    MaxExtensions    \* bound: extensions of a hello

VARIABLES
    hello,     \* what the client means: its extensions, or a fault put into them
    wire,      \* the bytes it sends for that
    arrived,   \* how many of them are in the socket
    closed,    \* the client has closed its side
    capacity,  \* the window of the next peek
    verdict    \* "none", an error, or a routing

vars == <<hello, wire, arrived, closed, capacity, verdict>>

TLS_HANDSHAKE == 5
CLIENT_HELLO == 1
SERVER_NAME_EXTENSION == 0
ALPN_EXTENSION == 6
HOST_NAME == 0
AcmeTls == <<4>>

Error(kind) == [is |-> kind, hostname |-> <<>>, acme |-> FALSE]
Malformed == Error("MalformedClientHello")
NoServerName == Error("NoServerName")
Incomplete == Error("Incomplete")
None == Error("none")
Complete(hostname, acme) == [is |-> "Complete", hostname |-> hostname, acme |-> acme]

------------------------------------------------------------------------------
(* Parsing.                                                                 *)

\* Cursor: a length and that many symbols, off the front of s.
Takes(s) == s # <<>> /\ s[1] < Len(s)
Taken(s) == SubSeq(s, 2, 1 + s[1])
Rest(s) == SubSeq(s, 2 + s[1], Len(s))
After(s, n) == SubSeq(s, n + 1, Len(s))
Utf8(name) == \A i \in DOMAIN name : name[i] # 9

\* parse_server_name: the entries of names, once the first host name is found.
RECURSIVE NameLoop(_, _)
NameLoop(names, found) ==
    IF names = <<>> THEN IF found = <<>> THEN NoServerName ELSE Complete(found, FALSE)
    ELSE IF ~Takes(Tail(names)) THEN Malformed
    ELSE LET name == Taken(Tail(names))
             first == names[1] = HOST_NAME /\ found = <<>>
         IN  IF first /\ (name = <<>> \/ ~Utf8(name)) THEN Malformed
             ELSE NameLoop(Rest(Tail(names)), IF first THEN name ELSE found)

parse_server_name(data) ==
    IF ~Takes(data) \/ Rest(data) # <<>> THEN Malformed ELSE NameLoop(Taken(data), <<>>)

RECURSIVE ProtocolLoop(_, _)
ProtocolLoop(protocols, acme) ==
    IF protocols = <<>> THEN Complete(<<>>, acme)
    ELSE IF ~Takes(protocols) THEN Malformed
    ELSE ProtocolLoop(Rest(protocols), acme \/ Taken(protocols) = AcmeTls)

parse_alpn_for_acme(data) ==
    IF ~Takes(data) \/ Rest(data) # <<>> THEN Malformed ELSE ProtocolLoop(Taken(data), FALSE)

\* The loop over the extensions, with what it has seen; r gathers the routing.
RECURSIVE ExtensionLoop(_, _, _)
ExtensionLoop(exts, seen, r) ==
    IF exts = <<>> THEN IF r.hostname = <<>> THEN NoServerName ELSE r
    ELSE IF ~Takes(Tail(exts)) THEN Malformed
    ELSE LET type == exts[1]
             data == Taken(Tail(exts))
             found == CASE type = SERVER_NAME_EXTENSION -> parse_server_name(data)
                        [] type = ALPN_EXTENSION -> parse_alpn_for_acme(data)
                        [] OTHER -> Complete(<<>>, FALSE)
         IN  IF type \in seen THEN Malformed
             ELSE IF found.is # "Complete" THEN found
             ELSE ExtensionLoop(Rest(Tail(exts)),
                      seen \cup ({type} \cap {SERVER_NAME_EXTENSION, ALPN_EXTENSION}),
                      Complete(r.hostname \o found.hostname, r.acme \/ found.acme))

\* Version and random, then the session id, suites and compression methods.
parse_client_hello_body(body) ==
    LET session == After(body, 1)
        suites == Rest(session)
        methods == Rest(suites)
        exts == Rest(methods)
        Skipped == body # <<>> /\ Takes(session) /\ Takes(suites) /\ Takes(methods)
        Whole == Takes(exts) /\ Rest(exts) = <<>>
    IN  IF Skipped /\ Whole THEN ExtensionLoop(Taken(exts), {}, Complete(<<>>, FALSE)) ELSE Malformed

\* A handshake message is whole at the length its header gives.
HandshakeWants(hs) == Len(hs) >= 2 /\ Len(hs) = 2 + hs[2]

\* What a record's payload may not do to the message it continues.
HandshakeBad(hs) ==
    \/ Len(hs) > HandshakeLimit
    \/ hs # <<>> /\ hs[1] # CLIENT_HELLO
    \/ Len(hs) >= 2 /\ (2 + hs[2] > HandshakeLimit \/ Len(hs) > 2 + hs[2])

\* Records from the rest of the input, after count of them and used bytes.
RECURSIVE RecordLoop(_, _, _, _)
RecordLoop(input, count, used, handshake) ==
    IF input = <<>> THEN Incomplete
    ELSE IF count = RecordLimit THEN Malformed
    ELSE IF Len(input) < 2 THEN Incomplete
    ELSE IF input[1] # TLS_HANDSHAKE \/ input[2] > PayloadLimit \/ used + 2 + input[2] > WireLimit
    THEN Malformed
    ELSE IF ~Takes(Tail(input)) THEN Incomplete
    ELSE LET hs == handshake \o Taken(Tail(input))
         IN  IF HandshakeBad(hs) THEN Malformed
             ELSE IF HandshakeWants(hs) /\ input[2] > 0 THEN parse_client_hello_body(After(hs, 2))
             ELSE RecordLoop(Rest(Tail(input)), count + 1, used + 2 + input[2], hs)

parse_client_hello(input) == RecordLoop(input, 0, 0, <<>>)

------------------------------------------------------------------------------
(* The clients: hellos of a few extensions, cut into records, one symbol    *)
(* of some of them off by one.                                              *)

Vector(s) == <<Len(s)>> \o s
Vectors(list) == FlattenSeq([i \in DOMAIN list |-> Vector(list[i])])
Names(list) == FlattenSeq([i \in DOMAIN list |-> <<list[i][1]>> \o Vector(list[i][2])])

ServerNames == {<<>>, <<<<HOST_NAME, <<7>>>>>>, <<<<HOST_NAME, <<9>>>>>>, <<<<HOST_NAME, <<>>>>>>,
                <<<<2, <<7>>>>, <<HOST_NAME, <<8>>>>, <<HOST_NAME, <<7>>>>>>}
Protocols == {<<>>, <<AcmeTls>>, <<AcmeTls, <<2>>>>, <<<<4, 4>>>>}

Extension == [type : {SERVER_NAME_EXTENSION}, list : ServerNames]
                 \cup [type : {ALPN_EXTENSION}, list : Protocols]
                 \cup [type : {3}, list : {<<>>}]

ExtensionBytes(e) ==
    <<e.type>> \o Vector(CASE e.type = SERVER_NAME_EXTENSION -> Vector(Names(e.list))
                           [] e.type = ALPN_EXTENSION -> Vector(Vectors(e.list))
                           [] OTHER -> <<>>)

Message(exts) ==
    LET body == <<3>> \o Vector(<<>>) \o Vector(<<2>>) \o Vector(<<>>)
                    \o Vector(FlattenSeq([i \in DOMAIN exts |-> ExtensionBytes(exts[i])]))
    IN  <<CLIENT_HELLO>> \o Vector(body)

Record(payload) == <<TLS_HANDSHAKE>> \o Vector(payload)
\* In one record, in two, or in three of which one is empty; more may follow.
Framed(message, cut) ==
    IF cut = 0 THEN Record(message)
    ELSE Record(SubSeq(message, 1, cut)) \o Record(<<>>) \o Record(After(message, cut))

Hellos == [exts : SeqOf(Extension, MaxExtensions), fault : {0}]
              \cup [exts : SeqOf(Extension, 1), fault : 1..16]

Faulty(h) ==
    LET m == Message(h.exts) IN IF h.fault \in DOMAIN m THEN ReplaceAt(m, h.fault, m[h.fault] + 1) ELSE m

Init ==
    /\ hello \in Hellos
    /\ \E cut \in {0, 1, 2, 9} : wire = Framed(Faulty(hello), IF cut < Len(Faulty(hello)) THEN cut ELSE 0)
    /\ arrived = 0 /\ closed = FALSE
    /\ capacity = InitialPeek
    /\ verdict = None

------------------------------------------------------------------------------
(* extract_sni.                                                             *)

Window == SubSeq(wire, 1, IF arrived < capacity THEN arrived ELSE capacity)

PeekedHastily(parsed) ==
    /\ verdict' = IF parsed = Incomplete /\ Len(Window) = capacity /\ capacity < WireLimit THEN verdict
                  ELSE IF parsed = Incomplete THEN Malformed ELSE parsed
    /\ capacity' = IF 2 * capacity < WireLimit THEN 2 * capacity ELSE WireLimit

\* What extract_sni_inner does with the outcome of one parse.
Peeked(parsed) ==
    /\ verdict' = IF parsed # Incomplete THEN parsed
                  ELSE IF capacity = WireLimit THEN Malformed ELSE verdict
    /\ capacity' = IF parsed = Incomplete /\ capacity # WireLimit /\ Len(Window) = capacity
                   THEN IF 2 * capacity < WireLimit THEN 2 * capacity ELSE WireLimit
                   ELSE capacity

\* One turn of extract_sni_inner's loop; a peek waits for a byte or the end.
Peek ==
    /\ verdict = None
    /\ arrived > 0 \/ closed
    /\ IF arrived = 0
       THEN verdict' = Malformed /\ UNCHANGED capacity
       ELSE Peeked(parse_client_hello(Window))
    /\ UNCHANGED <<hello, wire, arrived, closed>>

\* The caller's deadline, or an error of the socket.
Abandon ==
    /\ verdict = None
    /\ \E kind \in {"Timeout", "Io"} : verdict' = Error(kind)
    /\ UNCHANGED <<hello, wire, arrived, closed, capacity>>

Arrive ==
    /\ verdict = None /\ ~closed
    /\ \E n \in (arrived + 1)..Len(wire) : arrived' = n
    /\ UNCHANGED <<hello, wire, closed, capacity, verdict>>

Close ==
    /\ verdict = None /\ ~closed
    /\ closed' = TRUE
    /\ UNCHANGED <<hello, wire, arrived, capacity, verdict>>

Next == Peek \/ Abandon \/ Arrive \/ Close

Spec == Init /\ [][Next]_vars

------------------------------------------------------------------------------
(* Properties.                                                              *)

Of(type) == {i \in DOMAIN hello.exts : hello.exts[i].type = type}
Named(i) == SelectSeq(hello.exts[i].list, LAMBDA n : n[1] = HOST_NAME)

\* What a well-formed hello asks for: the first host name of its one server name
\* extension, and whether its protocols, if it lists any, include acme-tls/1.
Asked ==
    IF \E i \in Of(SERVER_NAME_EXTENSION) :
          /\ Of(SERVER_NAME_EXTENSION) = {i}
          /\ Named(i) # <<>> /\ Named(i)[1][2] # <<>> /\ Utf8(Named(i)[1][2])
          /\ \A j, k \in Of(ALPN_EXTENSION) : j = k
    THEN Complete(Named(CHOOSE i \in Of(SERVER_NAME_EXTENSION) : TRUE)[1][2],
                  \E j \in Of(ALPN_EXTENSION) : \E k \in DOMAIN hello.exts[j].list :
                      hello.exts[j].list[k] = AcmeTls)
    ELSE None

\* The windows below the last one reach this far.
Reach == CHOOSE n \in 1..WireLimit : \E k \in 0..10 : n = InitialPeek * 2^k /\ n < WireLimit /\ 2 * n >= WireLimit

\* A client is routed exactly where its hello says, or refused when the hello does
\* not say: whatever the records it comes in, and at whatever moments its bytes
\* arrive.  A verdict, once there are bytes, is the one on the whole hello; only a
\* hello longer than the windows below the last may be refused for arriving slowly.
RoutingIsExact ==
    /\ verdict.is = "Complete" /\ hello.fault = 0 => verdict = Asked
    /\ verdict.is \in {"Complete", "NoServerName"} => verdict = parse_client_hello(wire)
    /\ verdict.is \in {"MalformedClientHello", "NoServerName"} /\ arrived > 0 /\ hello.fault = 0 =>
          Asked = None \/ Len(wire) > Reach
==============================================================================
