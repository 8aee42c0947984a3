------------------------------ MODULE MCBridge -------------------------------
(***************************************************************************)
(* The bridge's components for TLC: the dialer of one journal connection,  *)
(* with one caller and every kind of frame, and with two callers; the      *)
(* registry with its routed clients, the cache of signing keys, the        *)
(* activation of certificates, leases and their proofs of possession, and  *)
(* the reading of a client's hello.                                        *)
(***************************************************************************)
EXTENDS Slots, Naturals, TLC

\* x1 and x2 are the two of whatever a part has two of.
CONSTANTS x0, x1, x2, g0, g1, g2, site, a, b, n1, n2, nil

Dialer == INSTANCE BridgeDialer WITH
    Callers <- {x0}, Writes <- {1, 2}, Lengths <- {1}, Credits <- {1},
    Window <- 2, Threshold <- 1, Chunk <- 2, MaxCredit <- 2,
    Kinds <- {{"DATA"}, {"DATA", "CLOSE"}, {"CLOSE"}, {"RESET"}, {"OPEN"}, {"PING", "DATA"}, {"WINDOW"}},
    MayStall <- FALSE, MayFlush <- TRUE, MayGiveUp <- TRUE,
    nextId <- s1, streams <- s2, coord <- s3, state <- s4, retired <- s5, stalled <- s6,
    commands <- s7, opens <- s8, writerQ <- s9, writer <- s10, inbound <- s11, caller <- s12,
    wire <- s13

\* Two callers on one connection, whose journal grants credit and breaks streams off.
Dialers == INSTANCE BridgeDialer WITH
    Callers <- {x1, x2}, Writes <- {1}, Lengths <- {}, Credits <- {1},
    Window <- 1, Threshold <- 1, Chunk <- 1, MaxCredit <- 1, Kinds <- {{"WINDOW"}},
    MayStall <- FALSE, MayFlush <- FALSE, MayGiveUp <- TRUE,
    nextId <- s1, streams <- s2, coord <- s3, state <- s4, retired <- s5, stalled <- s6,
    commands <- s7, opens <- s8, writerQ <- s9, writer <- s10, inbound <- s11, caller <- s12,
    wire <- s13

Router == INSTANCE BridgeRouter WITH
    None <- nil, Gens <- {g1, g2}, Clients <- {x1, x2}, Hosts <- {site}, SniSlots <- 1, HeldSlots <- 1,
    entries <- s1, reg <- s2, client <- s3, phase <- s4, doomed <- s5

Keys == INSTANCE JwksKeys WITH
    Lookups <- {x1, x2}, Kids <- {a, b}, CacheLimit <- 1, CacheTtl <- 2, Cooldown <- 1,
    FetchTime <- 1, MaxTime <- 4,
    now <- s1, published <- s2, lastPublished <- s3, cache <- s4, fetch <- s5, lastBegin <- s6,
    requests <- s7, look <- s8

Certs == INSTANCE CertActivation WITH
    None <- nil, Gens <- {g0, g1, g2}, First <- g0,
    files <- s1, active <- s2, pending <- s3, tool <- s4, bridge <- s5, signalled <- s6, missed <- s7

Lease == INSTANCE PopLease WITH
    Journals <- {x1, x2}, Nonces <- {n1, n2}, OutstandingLimit <- 1, SpentLimit <- 1, Skew <- 1,
    RenewalWindow <- 4, AttemptTimeout <- 2, AttemptFloor <- 3, Reconciliation <- 1, MinTtl <- 6,
    MaxTtl <- 8, Ages <- {0, 4, 9}, Ttls <- {7, 9}, Jumps <- {2}, MaxJumps <- 1, MaxTime <- 9,
    now <- s1, wall <- s2, jumps <- s3, outstanding <- s4, spent <- s5, jn <- s6

Hello == INSTANCE ClientHello WITH
    InitialPeek <- 7, WireLimit <- 30, HandshakeLimit <- 40, PayloadLimit <- 30, RecordLimit <- 4,
    MaxExtensions <- 2,
    hello <- s1, wire <- s2, arrived <- s3, closed <- s4, capacity <- s5, verdict <- s6

Symmetry == Permutations({x1, x2}) \cup Permutations({n1, n2})

ASSUME BridgeConstants ==
    /\ Dialer!BridgeDialerAssumption /\ Dialers!BridgeDialerAssumption /\ Router!RouterConstants
    /\ Keys!CacheHasRoom /\ Lease!LeaseConstants /\ Certs!FirstIsAGeneration

Init ==
    \/ Part13("dialer") /\ Dialer!Init
    \/ Part13("dialers") /\ Dialers!Init
    \/ Part5("router") /\ Router!Init
    \/ Part8("keys") /\ Keys!Init
    \/ Part7("certs") /\ Certs!Init
    \/ Part6("lease") /\ Lease!Init
    \/ Part6("hello") /\ Hello!Init

Next ==
    \/ Of13("dialer") /\ Dialer!Next
    \/ Of13("dialers") /\ Dialers!Next
    \/ Of5("router") /\ Router!Next
    \/ Of8("keys") /\ Keys!Next
    \/ Of7("certs") /\ Certs!Next
    \/ Of6("lease") /\ Lease!Next
    \/ Of6("hello") /\ Hello!Next

Spec == Init /\ [][Next]_slots

------------------------------------------------------------------------------
\* On every stream of a journal connection the frames leave in order and within the
\* journal's credit, and every byte received is granted back once, however callers
\* come, go and overlap (frame_dialer.rs); DATA follows CLOSE only for a caller that
\* shut its stream down over a blocked write.
JournalStreamsExact ==
    /\ part = "dialer" => Dialer!FramesInOrder /\ Dialer!ReceiveLedger
    /\ part = "dialers" => Dialers!FramesInOrder /\ Dialers!ReceiveLedger

\* A registration that serves is the one its hostname routes to, in every order of
\* replacement, expiry, cleanup and drain (registry.rs).
ServingIsCurrent == part = "router" => Router!ServingIsCurrent

\* An unanswered client is closed early only for a limit, or because the journal it was
\* spliced to acted: a label without a journal is not told apart from one whose journal
\* sleeps (lib.rs, routed.rs).
EarlyCloseHasCause == [][part = "router" => Router!EarlyCloseHasCause]_slots

\* A signing key handed out was published at most one cache lifetime and one fetch ago
\* (pop_auth.rs).
KeyIsRecent == part = "keys" => Keys!KeyIsRecent

\* The active generation is complete at every moment and so is one to be retried, and the
\* certificate served goes with its key, although the link may move between the loader's
\* two reads (spl-bridge-activate.rs, control_cert.rs).
CertificateIsUsable == part = "certs" => Certs!ActiveIsUsable /\ Certs!ServedPairMatches

\* Once reloads have settled the bridge serves the active generation, in every order of
\* signals, reads, moves of the link and rollbacks, and what the activation tool reported
\* as activated (control_cert.rs, spl-bridge-activate.rs).
ReloadsSettle == part = "certs" => Certs!ReloadsSettle

\* Whatever a proof of possession meets, errors, cancellation, expiry or a clock that is
\* set, no nonce slot is left behind, no registration outlives its expiry by more than
\* one reconciliation, and none is lost without a cause (pop_auth.rs, lease.rs).
LeaseIsKept == part = "lease" => Lease!LeaseIsKept

\* A retired registration is not brought back by a renewal already under way (lease.rs).
RetiredIsFinal == [][part = "lease" => Lease!RetiredIsFinal]_slots

\* A client is routed where its ClientHello says, whatever records it comes in and
\* whenever its bytes arrive (sni.rs).
RoutingIsExact == part = "hello" => Hello!RoutingIsExact
==============================================================================
