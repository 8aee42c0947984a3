------------------------------- MODULE MCEnds --------------------------------
(***************************************************************************)
(* The components of a device and of a home for TLC, without fairness: the *)
(* transport client, pairing, the relay token, the web socket carrier, the *)
(* one-shot exchange and the HTTP readers; the home's relay service, its   *)
(* frame reader and tally; and the journal bridge: its carriers, a request *)
(* forwarded over them, and the gate in front of them.                     *)
(***************************************************************************)
EXTENDS Slots, PairingCases

\* x1 and x2 are the two of whatever a part has two of.
CONSTANTS x0, x1, x2, t1, t2, home, other, nil

Client == INSTANCE TransportClient WITH
    None <- nil, Calls <- {x1, x2}, Endpoints <- 1, MaxAttempts <- 2, MaxTransient <- 2, MaxToken <- 2,
    call <- s1, pub <- s2, lock <- s3, token <- s4, durable <- s5, issued <- s6, fence <- s7,
    section <- s8, ineligible <- s9, published <- s10

Relay == INSTANCE HomeRelay WITH
    Tunnels <- {1, 2, 3}, Pipes <- {11}, Stoppers <- {x1, x2}, Ceiling <- 1, MaxBase <- 2,
    MayCancel <- TRUE,
    listen <- s1, task <- s2, drivers <- s3, seen <- s4, tasks <- s5, aborted <- s6, accepting <- s7,
    phase <- s8, stop <- s9, slots <- s10, health <- s11

Carrier == INSTANCE BridgeCarrier WITH
    Reqs <- {x1, x2}, RefusalLimit <- 2, QueueCap <- 1, MaxCarriers <- 2,
    slot <- s1, lock <- s2, rec <- s3, car <- s4, req <- s5, phase <- s6, taken <- s7, blamed <- s8,
    accepted <- s9

Forward == INSTANCE JournalForward WITH
    Bodies <- {0, 3}, Lengths <- {0, 1, 2}, MaxReply <- 3, Readers <- {FALSE},
    BodyQueue <- 1, Stage <- 2, StreamQueue <- 1,
    kind <- s1, upload <- s2, chan <- s3, free <- s4, up <- s5, delivery <- s6, pend <- s7, recv <- s8,
    fwd <- s9, seen <- s10, pc <- s11, flag <- s12, lost <- s13

Gate == INSTANCE LocalGate WITH
    Browsers <- {x1, x2}, Tokens <- {t1, t2}, Life <- 1, MaxTime <- 2, MaxBody <- 1,
    Prefix <- <<"p">>, CapName <- <<"c">>, Names <- {<<"c">>, <<"p", "c">>}, Strays <- {<<"s">>},
    JournalHosts <- {[scheme |-> "", host |-> "spl.local", port |-> 0],
                     [scheme |-> "https", host |-> "endpoint", port |-> 0],
                     [scheme |-> "", host |-> "loopback", port |-> 7]},
    now <- s1, pending <- s2, jar <- s3, issued <- s4, granted <- s5, theirs <- s6, last <- s7

\* An empty prefix, and a journal that may take the capability cookie's name.
Bare == INSTANCE LocalGate WITH
    Browsers <- {x0}, Tokens <- {t1, t2}, Life <- 1, MaxTime <- 1, MaxBody <- 1,
    Prefix <- <<>>, CapName <- <<"c">>, Names <- {<<"c">>, <<"d">>}, Strays <- {<<"s">>},
    JournalHosts <- {},
    now <- s1, pending <- s2, jar <- s3, issued <- s4, granted <- s5, theirs <- s6, last <- s7

Pair == INSTANCE Pairing WITH
    None <- nil, Devices <- {x1, x2}, Blobs <- MCBlobs, Typed <- MCTyped, Chains <- MCChains, Pems <- MCPems,
    Keys <- {1, 2}, WindowSecret <- MCSecret,
    issued <- s1, dev <- s2, window <- s3, expired <- s4, admitted <- s5

\* The times are both ends of a 5-bit integer and those around the clock.
Token == INSTANCE RelayToken WITH
    None <- nil, Instances <- {home, other}, Home <- home, MaxInt <- 15, Skew <- 1, MaxNow <- 5,
    Times <- {-16, -6, 0, 2, 4, 15},
    Links <- {[scheme |-> "https", host |-> "relay", port |-> nil, bare |-> TRUE],
              [scheme |-> "ws", host |-> "relay", port |-> nil, bare |-> TRUE]},
    now <- s1, link <- s2, token <- s3, origin <- s4, outcome <- s5

Ws == INSTANCE WsDuplex WITH
    ChunkBytes <- 2, BufBytes <- 3, MaxMessage <- 3, MaxMessages <- 3, MaxBytes <- 3,
    inbox <- s1, put <- s2, peer <- s3, said <- s4, count <- s5, tail <- s6, pos <- s7,
    delivered <- s8, readEnd <- s9, termination <- s10, outbox <- s11, reported <- s12, writeEnd <- s13

Http == INSTANCE HttpReply WITH
    MaxChunk <- 2, MaxHead <- 6, MaxRaw <- 20, MaxChunks <- 2, MaxSegment <- 3,
    reader <- s1, wire <- s2, fed <- s3, eof <- s4, asm <- s5, exch <- s6

Shot == INSTANCE OneShot WITH
    Window <- 2, Threshold <- 2, Chunk <- 2, MaxCredit <- 6, HeadLen <- 1, BodyLen <- 3, Stage <- 2,
    Cap <- 4, Naming <- TRUE, MaxSegments <- 4, MaxFrames <- 2,
    phase <- s1, upload <- s2, response <- s3, accepted <- s4, queue <- s5, ends <- s6, result <- s7,
    log <- s8, got <- s9, granted <- s10, seen <- s11, reads <- s12

Feed == INSTANCE FrameFeed WITH
    Base <- 2, LenBytes <- 2, BufferBytes <- 7, MaxFrames <- 3, MaxSegment <- 4,
    sent <- s1, fed <- s2, gone <- s3, dialer <- s4, home <- s5

Tally == INSTANCE CarrierTally WITH
    MaxTime <- 2, MaxAnswers <- 2, MaxRefusals <- 1,
    at <- s1, now <- s2, mem <- s3, batch <- s4, stamps <- s5, cause <- s6, refused <- s7, shown <- s8,
    rd <- s9

ASSUME EndsConstants ==
    /\ Client!ClientConstants /\ Relay!RelayConstants /\ Carrier!CarrierConstants
    /\ Gate!GateConstants /\ Bare!GateConstants /\ Feed!ReservesOneFrame

Symmetry == Permutations({x1, x2})

Init ==
    \/ Part10("client") /\ Client!Init
    \/ Part11("relay") /\ Relay!Init
    \/ Part9("carrier") /\ Carrier!Init
    \/ Part13("forward") /\ Forward!Init
    \/ Part7("gate") /\ Gate!Init
    \/ Part7("bare") /\ Bare!Init
    \/ Part5("pair") /\ Pair!Init
    \/ Part5("token") /\ Token!Init
    \/ Part13("ws") /\ Ws!Init
    \/ Part6("http") /\ Http!Init
    \/ Part12("shot") /\ Shot!Init
    \/ Part5("feed") /\ Feed!Init
    \/ Part9("tally") /\ Tally!Init

Next ==
    \/ Of10("client") /\ Client!Next
    \/ Of11("relay") /\ Relay!Next
    \/ Of9("carrier") /\ Carrier!Next
    \/ Of13("forward") /\ Forward!Next
    \/ Of7("gate") /\ Gate!Next
    \/ Of7("bare") /\ Bare!Next
    \/ Of5("pair") /\ Pair!Next
    \/ Of5("token") /\ Token!Next
    \/ Of13("ws") /\ Ws!Next
    \/ Of6("http") /\ Http!Next
    \/ Of12("shot") /\ Shot!Next
    \/ Of5("feed") /\ Feed!Next
    \/ Of9("tally") /\ Tally!Next

Spec == Init /\ [][Next]_slots

------------------------------------------------------------------------------
\* A request that must not be repeated is put on the wire at most once, through every
\* endpoint, relay close, refresh and retry (client.rs), and a stream that a coordinator
\* claimed is never opened on a second carrier (journal_bridge_carrier.rs).
NothingSentTwice ==
    /\ part = "client" => Client!NothingSentTwice
    /\ part = "carrier" => Carrier!NothingSentTwice

\* With a publication, the token a client dials with is never newer than the one stored
\* (client.rs).
LiveIsDurable == part = "client" => Client!LiveIsDurable

\* Nothing is committed or made live once the consumer has retired the client, and a
\* refresh replaces only the token it started from (client.rs).
PublicationIsFenced ==
    [][part = "client" => Client!PublicationIsFenced /\ Client!NoLostRefresh]_slots

\* After stop() has returned no tunnel or stream task is alive, though carrier drivers may
\* be; the admission count is the number of tunnels waiting for their first bytes; no
\* refusal is lost from the health record (home_relay.rs, spl-home connection.rs).
RelayAccounts == part = "relay" => Relay!RelayAccounts

\* The journal bridge's status is about the carrier that requests are given, its refusal
\* count about distinct newer attempts, and its final status is quiescent
\* (journal_bridge.rs, journal_bridge_carrier.rs).
CarrierStatusIsTrue == part = "carrier" => Carrier!CarrierStatusIsTrue

\* A journal bridge that was stopped stays stopped, even against a dial under way
\* (journal_bridge_carrier.rs); and once a home relay's stop() has returned no carrier
\* begins to be driven, whatever handshake it overtook (home_relay.rs).
StopIsFinal ==
    [][/\ part = "carrier" => Carrier!StopIsFinal
       /\ part = "relay" => Relay!NoDriverAfterStop]_slots

\* A response that looks complete is the journal's whole body, no part of it is lost in a
\* dropped receive, and the upload arrives in order within its budget
\* (journal_bridge.rs, journal_bridge_carrier.rs).
RelayedIntact ==
    part = "forward" => Forward!CompleteMeansClean /\ Forward!ItemsKept /\ Forward!UploadIntact

\* A one-time link admits one browser, once, within its life (journal_bridge.rs).
GateAdmitsOne ==
    /\ part = "gate" => Gate!LinkAdmitsOne
    /\ part = "bare" => Bare!LinkAdmitsOne

\* The journal gets its own cookies back under its own names, also with an empty prefix,
\* and never the capability; of each header all the consumer's fields, or else all the
\* page's; and its redirects lead back to the bridge (bridge.rs, journal_bridge.rs).
JournalSeesItsOwn ==
    /\ part = "gate" => Gate!CookiesReturn /\ Gate!HeadersAreAttributed /\ Gate!RedirectsComeBack
    /\ part = "bare" => Bare!CookiesReturn

\* A pair link means what was issued however it is typed; one pairing sends one request,
\* one window admits one carrier, and a credential is bound to the pinned authority
\* (crockford.rs, pairlink.rs, pairing.rs, pair_window.rs).
PairingIsSound ==
    part = "pair" =>
        Pair!ParsedIsIssued /\ Pair!PairRequestOnce /\ Pair!WindowOnce /\ Pair!CredentialIsPinned

\* An accepted relay token can be renewed, in time, at an origin that parses
\* (relay_token.rs, relay_pairing.rs, jwt.rs).
RenewalIsPossible == part = "token" => Token!RenewalIsPossible

\* A token is replaced only by one for the same instance that its checks admit at that
\* time, and a version 2 token only by another (relay_token.rs).  It may expire sooner than
\* the one it replaces.
TokenOnlyImproves == [][part = "token" => Token!TokenOnlyImproves]_slots

\* The web socket carrier is a byte pipe: its bytes come in order, none lost or twice, a
\* clean end only after the last, in messages within the limit; and the first end it meets
\* stays the one it reports (relay.rs).
DuplexIsAPipe ==
    /\ [](part = "ws" => Ws!DuplexFaithful)
    /\ part = "ws" => Ws!Pipe!Init
    /\ [][part = "ws" => [Ws!Pipe!Next]_(Ws!Pipe!pipeVars) /\ Ws!FirstEndStays]_slots

\* However the bytes are cut into reads, the frames and the bodies read from them are the
\* same, both readers of a response agree, and what is held is counted
\* (frame.rs, mux.rs, relay_http.rs).
CutsDoNotMatter ==
    /\ part = "feed" => Feed!FramesComeBack /\ Feed!HeldIsCounted
    /\ part = "http" => Http!SegmentsDoNotMatter /\ Http!ReadersAgree

\* A one-shot exchange sends its request in order within the credit and returns only a
\* whole response (connection.rs of spl-transport).
OneShotIsSound == part = "shot" => Shot!ResponseIsSound /\ Shot!RequestIsInOrder

\* A snapshot of a carrier that has fallen silent shows the whole of that silence, however
\* stale its relaxed loads are, and the account of a stopped one is complete and names its
\* first cause (connection.rs of spl-home).
TallyIsHonest == part = "tally" => Tally!SilenceIsSeen /\ Tally!AccountIsFinal
==============================================================================
