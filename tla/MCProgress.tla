----------------------------- MODULE MCProgress ------------------------------
(***************************************************************************)
(* What eventually happens, for TLC: the components with tasks of their    *)
(* own, each on a small instance and under the fairness its module states. *)
(* Calls, clients, requests and generations are interchangeable, so one of *)
(* each is watched.                                                        *)
(***************************************************************************)
EXTENDS Slots, Naturals

CONSTANTS c1, c2, g0, g1, g2, site, l1, l2, a, s_1, s_2, r1, r2, nil

Dialer == INSTANCE BridgeDialer WITH
    Callers <- {c1}, Writes <- {1}, Lengths <- {}, Credits <- {},
    Window <- 1, Threshold <- 1, Chunk <- 1, MaxCredit <- 1,
    Kinds <- {{"CLOSE"}, {"RESET"}, {"OPEN"}, {"PING", "DATA"}, {"WINDOW"}},
    MayStall <- TRUE, MayFlush <- TRUE, MayGiveUp <- FALSE,
    nextId <- s1, streams <- s2, coord <- s3, state <- s4, retired <- s5, stalled <- s6,
    commands <- s7, opens <- s8, writerQ <- s9, writer <- s10, inbound <- s11, caller <- s12,
    wire <- s13

Router == INSTANCE BridgeRouter WITH
    None <- nil, Gens <- {g1, g2}, Clients <- {c1}, Hosts <- {site}, SniSlots <- 1, HeldSlots <- 1,
    entries <- s1, reg <- s2, client <- s3, phase <- s4, doomed <- s5

Keys == INSTANCE JwksKeys WITH
    Lookups <- {l1, l2}, Kids <- {a}, CacheLimit <- 1, CacheTtl <- 2, Cooldown <- 1,
    FetchTime <- 1, MaxTime <- 4,
    now <- s1, published <- s2, lastPublished <- s3, cache <- s4, fetch <- s5, lastBegin <- s6,
    requests <- s7, look <- s8

Certs == INSTANCE CertActivation WITH
    None <- nil, Gens <- {g0, g1}, First <- g0,
    files <- s1, active <- s2, pending <- s3, tool <- s4, bridge <- s5, signalled <- s6, missed <- s7

Client == INSTANCE TransportClient WITH
    None <- nil, Calls <- {c1, c2}, Endpoints <- 1, MaxAttempts <- 1, MaxTransient <- 1, MaxToken <- 1,
    call <- s1, pub <- s2, lock <- s3, token <- s4, durable <- s5, issued <- s6, fence <- s7,
    section <- s8, ineligible <- s9, published <- s10

Relay == INSTANCE HomeRelay WITH
    Tunnels <- {1, 2}, Pipes <- {11}, Stoppers <- {s_1, s_2}, Ceiling <- 1, MaxBase <- 1,
    MayCancel <- TRUE,
    listen <- s1, task <- s2, drivers <- s3, seen <- s4, tasks <- s5, aborted <- s6, accepting <- s7,
    phase <- s8, stop <- s9, slots <- s10, health <- s11

\* One request that meets two carriers, and two requests that share one.
Carrier == INSTANCE BridgeCarrier WITH
    Reqs <- {r1}, RefusalLimit <- 2, QueueCap <- 1, MaxCarriers <- 2,
    slot <- s1, lock <- s2, rec <- s3, car <- s4, req <- s5, phase <- s6, taken <- s7, blamed <- s8,
    accepted <- s9

Shared == INSTANCE BridgeCarrier WITH
    Reqs <- {r1, r2}, RefusalLimit <- 2, QueueCap <- 1, MaxCarriers <- 1,
    slot <- s1, lock <- s2, rec <- s3, car <- s4, req <- s5, phase <- s6, taken <- s7, blamed <- s8,
    accepted <- s9

Forward == INSTANCE JournalForward WITH
    Bodies <- {0, 2}, Lengths <- {0, 1}, MaxReply <- 2, Readers <- BOOLEAN,
    BodyQueue <- 1, Stage <- 1, StreamQueue <- 1,
    kind <- s1, upload <- s2, chan <- s3, free <- s4, up <- s5, delivery <- s6, pend <- s7, recv <- s8,
    fwd <- s9, seen <- s10, pc <- s11, flag <- s12, lost <- s13

Init ==
    \/ Part13("dialer") /\ Dialer!Init
    \/ Part5("router") /\ Router!Init
    \/ Part8("keys") /\ Keys!Init
    \/ Part7("certs") /\ Certs!Init
    \/ Part10("client") /\ Client!Init
    \/ Part11("relay") /\ Relay!Init
    \/ Part9("carrier") /\ Carrier!Init
    \/ Part9("shared") /\ Shared!Init
    \/ Part13("forward") /\ Forward!Init

DialerDoes(A) == Of13("dialer") /\ A
RouterDoes(A) == Of5("router") /\ A
KeysDo(A) == Of8("keys") /\ A
CertsDo(A) == Of7("certs") /\ A
ClientDoes(A) == Of10("client") /\ A
RelayDoes(A) == Of11("relay") /\ A
CarrierDoes(A) == Of9("carrier") /\ A
SharedDoes(A) == Of9("shared") /\ A
ForwardDoes(A) == Of13("forward") /\ A

Next ==
    \/ DialerDoes(Dialer!Next) \/ RouterDoes(Router!Next) \/ KeysDo(Keys!Next) \/ CertsDo(Certs!Next)
    \/ ClientDoes(Client!Next) \/ RelayDoes(Relay!Next) \/ CarrierDoes(Carrier!Next) \/ SharedDoes(Shared!Next)
    \/ ForwardDoes(Forward!Next)

\* As each module states it.
Fairness ==
    /\ WF_slots(DialerDoes(Dialer!TakeCommand)) /\ WF_slots(DialerDoes(\E o \in s8 : Dialer!OpenDone(o)))
    /\ WF_slots(DialerDoes(Dialer!SeesGone)) /\ WF_slots(DialerDoes(Dialer!Finish))
    /\ WF_slots(DialerDoes(Dialer!WriterStep)) /\ WF_slots(DialerDoes(Dialer!WriterEnds))
    /\ WF_slots(DialerDoes(Dialer!OpenLost(c1)))
    /\ \A g \in {g1, g2} : WF_slots(RouterDoes(Router!RegistryStep(g)))
    /\ WF_slots(RouterDoes(Router!ClientStep(c1)))
    /\ WF_slots(RouterDoes(Router!DrainRegistry)) /\ WF_slots(RouterDoes(Router!Exit))
    /\ WF_slots(KeysDo(Keys!Take)) /\ WF_slots(KeysDo(Keys!FetchFails))
    /\ WF_slots(CertsDo(Certs!Hangup)) /\ WF_slots(CertsDo(Certs!LoadCert))
    /\ WF_slots(CertsDo(Certs!LoadKey)) /\ WF_slots(CertsDo(Certs!Apply))
    /\ WF_slots(CertsDo(Certs!BridgeStarts))
    /\ \A c \in {c1, c2} :
          WF_slots(ClientDoes(Client!CallStep(c))) /\ WF_slots(ClientDoes(Client!PublisherStep(c)))
    /\ \A t \in {1, 2, 11} :
          /\ WF_slots(RelayDoes(Relay!ReadRefusals(t))) /\ WF_slots(RelayDoes(Relay!Report(t)))
          /\ WF_slots(RelayDoes(Relay!Aborted(t)))
    /\ \A s \in {s_1, s_2} : WF_slots(RelayDoes(Relay!StopDone(s)))
    /\ WF_slots(CarrierDoes(Carrier!CallerStep(r1))) /\ WF_slots(CarrierDoes(Carrier!StopStep))
    /\ \A k \in {1, 2} :
          WF_slots(CarrierDoes(Carrier!TaskStep(k))) /\ WF_slots(CarrierDoes(Carrier!WriterEnds(k)))
    /\ \A r \in {r1, r2} : WF_slots(SharedDoes(Shared!CallerStep(r)))
    /\ WF_slots(SharedDoes(Shared!TaskStep(1))) /\ WF_slots(SharedDoes(Shared!WriterEnds(1)))
    /\ WF_slots(SharedDoes(Shared!StopStep))
    /\ WF_slots(ForwardDoes(Forward!LoopStep)) /\ WF_slots(ForwardDoes(s11 # "over" /\ Forward!Flush))
    /\ WF_slots(ForwardDoes(Forward!CallerReads))

Spec == Init /\ [][Next]_slots /\ Fairness

------------------------------------------------------------------------------
Calling ==
    CASE part = "dialer" -> Dialer!Waits(c1)
      [] part = "router" -> Router!Placed(c1)
      [] part = "keys" -> Keys!Waiting(l2)
      [] part = "client" -> Client!Called(c1)
      [] part \in {"carrier", "shared"} -> Carrier!Wants(r1)
      [] OTHER -> FALSE

Answered ==
    CASE part = "dialer" -> ~Dialer!Waits(c1) \/ s6
      [] part = "router" -> Router!Settled(c1)
      [] part = "keys" -> ~Keys!Waiting(l2)
      [] part = "client" -> Client!Returned(c1)
      [] part \in {"carrier", "shared"} -> Carrier!Got(r1)
      [] OTHER -> FALSE

\* Whoever calls is answered: a call on a journal stream, unless the journal stalls
\* (frame_dialer.rs); a routed or refused client (lib.rs); a waiter for a signing key
\* (pop_auth.rs); a call of the transport client (client.rs); a request for a stream of the
\* journal bridge (journal_bridge_carrier.rs).
CallsReturn == Calling ~> Answered

Ending ==
    CASE part = "dialer" -> Dialer!Opening(c1) /\ s4 = "Gone"
      [] part = "certs" -> Certs!Signalled
      [] part = "relay" -> Relay!Stopping(s_1)
      [] part \in {"carrier", "shared"} -> s6 = "flagged"
      [] part = "forward" -> Forward!MustEnd
      [] OTHER -> FALSE

Ended ==
    CASE part = "dialer" -> ~Dialer!Opening(c1)
      [] part = "certs" -> Certs!Reloaded
      [] part = "relay" -> Relay!StopOver(s_1)
      [] part \in {"carrier", "shared"} -> s6 = "over"
      [] part = "forward" -> s11 = "over"
      [] OTHER -> FALSE

\* What was told to end or to change does: an open on a connection that is gone returns,
\* even from a stalled journal; a reload asked for during a reload takes effect; stop()
\* returns unless the call that collects the tasks was dropped; a journal bridge's
\* shutdown completes; a forwarded request is finished by a shutdown, and by the end of
\* its stream unless its caller has stopped reading (journal_bridge.rs).
WorkEnds == Ending ~> Ended

Held ==
    CASE part = "dialer" -> Dialer!Abandoned(c1)
      [] part = "router" -> Router!Leaving(g1)
      [] OTHER -> FALSE

Released ==
    CASE part = "dialer" -> Dialer!IsReset(c1)
      [] part = "router" -> Router!Cleared(g1)
      [] OTHER -> FALSE

\* Nothing is kept for nobody: a stream its opener abandoned is reset, and a
\* retired registration is shut down and leaves the map.
NothingIsKept == Held ~> Released
==============================================================================
