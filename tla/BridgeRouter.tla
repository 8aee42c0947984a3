---------------------------- MODULE BridgeRouter ----------------------------
(***************************************************************************)
(* The serving side of the bridge: the hostname registry (registry.rs),    *)
(* the control and client listeners and the routing of one client (lib.rs, *)
(* routed.rs, sni.rs), and the drain (bin/spl-bridge.rs).  One admission   *)
(* task per registration g, one task per client c, the registry's watcher  *)
(* and shutdown tasks; every step between two await points is one action.  *)
(* The journal connection underneath (module BridgeDialer) is its state    *)
(* `live`, and its lease supervisor (module PopLease) the action Expire.   *)
(***************************************************************************)
EXTENDS Naturals, FiniteSets

CONSTANTS
    Gens,           \* registrations, each by its own admission task
    Clients,
    Hosts,
    SniSlots,       \* MAX_SNI_ADMISSION_SLOTS
    HeldSlots,      \* MAX_HELD_REFUSALS
    None

RouterConstants == SniSlots \in Nat /\ HeldSlots \in Nat /\ None \notin Gens

VARIABLES entries, reg, client, phase, doomed

vars == <<entries, reg, client, phase, doomed>>

NoReg == [at |-> "idle", host |-> None, live |-> FALSE, retired |-> FALSE,
          closing |-> FALSE, watched |-> FALSE]
NoClient == [at |-> "idle", host |-> None, gen |-> None, answered |-> FALSE, reset |-> FALSE]

Init ==
    /\ entries = [h \in Hosts |-> None]
    /\ reg = [g \in Gens |-> NoReg]
    /\ client = [c \in Clients |-> NoClient]
    /\ phase = "up" /\ doomed = {}

Registered(g) == reg[g].at = "registered"
Unchanged == UNCHANGED <<phase, doomed>>

-----------------------------------------------------------------------------
(* Registry *)

\* remove_if_current without its look at the generation.
RemoveAny(es, g) == [es EXCEPT ![reg[g].host] = None]

\* remove_if_current
Remove(es, g) == IF es[reg[g].host] = g THEN [es EXCEPT ![reg[g].host] = None] ELSE es

\* run_control_listener: a carrier is accepted and authenticated, and register
\* builds its dialer and asks for the control stream.
Admit(g) ==
    /\ phase = "up" /\ reg[g].at = "idle"
    /\ \E h \in Hosts : reg' = [reg EXCEPT ![g] = [NoReg EXCEPT !.at = "opening", !.host = h, !.live = TRUE]]
    /\ UNCHANGED <<entries, client>> /\ Unchanged

\* The control stream fails, the admission deadline passes or the token has
\* expired by the time of the commit: the CandidateGuard shuts the carrier down.
AdmissionFails(g) ==
    /\ reg[g].at = "opening"
    /\ reg' = [reg EXCEPT ![g].at = "over", ![g].closing = TRUE]
    /\ UNCHANGED <<entries, client>> /\ Unchanged

\* The commit under the write lock: the displaced registration is retired and
\* the map updated in one section; the watcher, the displaced journal's bounded
\* shutdown and the lease supervisor are spawned.
Commit(g) ==
    /\ reg[g].at = "opening"
    /\ LET old == entries[reg[g].host] IN
        /\ entries' = [entries EXCEPT ![reg[g].host] = g]
        /\ reg' = [k \in Gens |->
                CASE k = g -> [reg[g] EXCEPT !.at = "registered", !.watched = TRUE]
                  [] k = old /\ k # g -> [reg[k] EXCEPT !.retired = TRUE, !.closing = TRUE]
                  [] OTHER -> reg[k]]
    /\ UNCHANGED client /\ Unchanged

\* The connection has ended; of a registration that is over nothing remains.
Over(r) == [NoReg EXCEPT !.at = "over", !.host = r.host]
Gone(r) == IF r.at = "over" THEN Over(r) ELSE [r EXCEPT !.live = FALSE, !.closing = FALSE]

\* The watcher task: the connection has ended, and its entry goes.
Watch(g) ==
    /\ Registered(g) /\ reg[g].watched /\ ~reg[g].live
    /\ entries' = Remove(entries, g)
    /\ reg' = [reg EXCEPT ![g].watched = FALSE]
    /\ UNCHANGED client /\ Unchanged

\* shutdown_bounded reaches the dialer, whose connection ends.
Shutdown(g) ==
    /\ reg[g].closing /\ reg[g].live
    /\ reg' = [reg EXCEPT ![g] = Gone(@)]
    /\ UNCHANGED <<entries, client>> /\ Unchanged

\* The carrier ends by itself.  (A host that sleeps with its socket open is a
\* journal that never takes Answer.)
CarrierEnds(g) ==
    /\ reg[g].live
    /\ reg' = [reg EXCEPT ![g] = Gone(@)]
    /\ UNCHANGED <<entries, client>> /\ Unchanged

\* retire_for_expiry of the lease supervisor: the entry is left to the watcher.
Expire(g) ==
    /\ Registered(g) /\ reg[g].live /\ ~reg[g].retired
    /\ reg' = [reg EXCEPT ![g].retired = TRUE, ![g].closing = TRUE]
    /\ UNCHANGED <<entries, client>> /\ Unchanged

\* The admission task waits until the connection is gone.
AdmissionEnds(g) ==
    /\ Registered(g) /\ ~reg[g].live /\ ~reg[g].watched
    /\ reg' = [reg EXCEPT ![g] = Over(@)]
    /\ UNCHANGED <<entries, client>> /\ Unchanged

-----------------------------------------------------------------------------
(* handle_client *)

In(c, at) == client[c].at = at
Go(c, at) == client' = [client EXCEPT ![c].at = at]
Close(c) == client' = [client EXCEPT ![c] = [NoClient EXCEPT !.at = "closed"]]
Leave(c) == client' = [client EXCEPT ![c] = [NoClient EXCEPT !.at = "left"]]
Refuse(c) == client' = [client EXCEPT ![c].at = "refused", ![c].gen = None]
Count(at) == Cardinality({c \in Clients : In(c, at)})
Quiet == UNCHANGED <<entries, reg, phase, doomed>>

\* A connection is accepted; beyond the slots for reading ClientHellos it is
\* closed at once.
Arrive(c) ==
    /\ phase = "up" /\ In(c, "idle")
    /\ IF Count("sni") >= SniSlots THEN Close(c) ELSE Go(c, "sni")
    /\ Quiet

\* What parse_client_hello may return: the reserved name (with or without the
\* ACME protocol), a hostname that is not a journal label, or a journal label.
Routings == {"reserved", "invalid"} \cup Hosts

\* extract_sni, which fails on a malformed ClientHello or at its deadline, and
\* the choice handle_client makes.
Hello(c) ==
    /\ In(c, "sni")
    /\ \/ Close(c)
       \/ \E hostname \in Routings :
            CASE hostname = "reserved" -> Go(c, "control")
              [] hostname = "invalid"  -> Close(c)
              [] OTHER -> client' = [client EXCEPT ![c].at = "lookup", ![c].host = hostname]
    /\ Quiet

\* A splice to the control listener or the ACME target; it may fail to connect.
ControlEnds(c) ==
    /\ In(c, "control") /\ Close(c) /\ Quiet

\* lookup, then the first look at is_retired in open_stream.
Lookup(c) ==
    /\ In(c, "lookup")
    /\ LET g == entries[client[c].host] IN
        IF g = None THEN Refuse(c)
        ELSE IF reg[g].retired THEN Refuse(c)
        ELSE client' = [client EXCEPT ![c].at = "opening", ![c].gen = g]
    /\ Quiet

\* open_stream ends: an error or its three seconds refuse the client, and so
\* does a registration that was retired meanwhile.
OpenEnds(c) ==
    /\ In(c, "opening")
    /\ \/ Refuse(c)
       \/ /\ reg[client[c].gen].live /\ ~reg[client[c].gen].retired
          /\ Go(c, "header")
    /\ Quiet

\* v1_header: there is one unless the two addresses are of different families.
V1Header(source, destination) == source = destination

\* The PROXY header is written and flushed; without a header, or on a write
\* error, the client is refused.
HeaderEnds(c) ==
    /\ In(c, "header")
    /\ \E source, destination \in {"ipv4", "ipv6"} :
        \/ Refuse(c)
        \/ V1Header(source, destination) /\ reg[client[c].gen].live /\ Go(c, "spliced")
    /\ Quiet

\* FirstByteWitness sees the journal's first byte.
Answer(c) ==
    /\ In(c, "spliced") /\ ~client[c].answered /\ ~client[c].reset
    /\ reg[client[c].gen].live
    /\ client' = [client EXCEPT ![c].answered = TRUE]
    /\ Quiet

\* The stream of a live journal is aborted, answered or not: the journal sends RESET, or
\* a frame for which the dialer resets the stream.
StreamReset(c) ==
    /\ In(c, "spliced") /\ ~client[c].reset
    /\ reg[client[c].gen].live
    /\ client' = [client EXCEPT ![c].reset = TRUE]
    /\ Quiet

\* copy_bidirectional ends: the client breaks off, or both sides finish.  (A journal that
\* closes its half unanswered has not finished: the client's half goes on.)
SpliceEnds(c) ==
    /\ In(c, "spliced")
    /\ \/ client[c].answered /\ Close(c)
       \/ Leave(c)
    /\ Quiet

\* copy_bidirectional fails on the journal's side: the stream was reset, or its
\* connection has ended.
SpliceFails(c) ==
    /\ In(c, "spliced")
    /\ client[c].reset \/ ~reg[client[c].gen].live
    /\ Close(c) /\ Quiet

\* A deadline for the PROXY header only.
UnansweredHeader(c) ==
    /\ In(c, "header")
    /\ reg' = [reg EXCEPT ![client[c].gen].retired = TRUE]
    /\ Go(c, "retiring")
    /\ UNCHANGED <<entries, phase, doomed>>

\* The deadline, counted from the ClientHello, finds no answer (or the header
\* still unwritten):
\* retire_unresponsive retires the journal and waits for the registry's lock.
Unanswered(c) ==
    /\ client[c].at \in {"header", "spliced"} /\ ~client[c].answered /\ ~client[c].reset
    /\ reg' = [reg EXCEPT ![client[c].gen].retired = TRUE]
    /\ Go(c, "retiring")
    /\ UNCHANGED <<entries, phase, doomed>>

\* retire_unresponsive without the bounded shutdown.
RetiredOnly(c) ==
    /\ In(c, "retiring")
    /\ entries' = Remove(entries, client[c].gen)
    /\ Close(c)
    /\ UNCHANGED reg /\ Unchanged

\* It has the lock: the entry goes if it is still this generation's, the bounded
\* shutdown is spawned, and the client is closed.
Retired(c) ==
    /\ In(c, "retiring")
    /\ entries' = Remove(entries, client[c].gen)
    /\ reg' = [reg EXCEPT ![client[c].gen].closing = TRUE]
    /\ Close(c)
    /\ Unchanged

\* Refused without the stand-in route.
HoldNot(c) == In(c, "refused") /\ Close(c) /\ Quiet

\* hold_like_an_unanswered_route: at the limit the client is closed at once.
Hold(c) ==
    /\ In(c, "refused")
    /\ IF Count("held") >= HeldSlots THEN Close(c) ELSE Go(c, "held")
    /\ Quiet

\* The stand-in takes bytes and never answers: only the deadline closes it, or
\* the client breaking off.
HeldEnds(c) ==
    /\ In(c, "held")
    /\ \/ Close(c)
       \/ Leave(c)
    /\ Quiet

-----------------------------------------------------------------------------
(* Drain *)

Term ==
    /\ phase = "up" /\ phase' = "draining"
    /\ UNCHANGED <<entries, reg, client, doomed>>

\* shutdown_all takes every entry out of the map ...
DrainRegistry ==
    /\ phase = "draining" /\ phase' = "drained"
    /\ doomed' = {entries[h] : h \in Hosts} \ {None}
    /\ entries' = [h \in Hosts |-> None]
    /\ UNCHANGED <<reg, client>>

\* ... and one task per journal retires it and shuts it down.
RetireDoomed(g) ==
    /\ g \in doomed /\ doomed' = doomed \ {g}
    /\ reg' = [reg EXCEPT ![g].retired = TRUE, ![g].closing = TRUE]
    /\ UNCHANGED <<entries, client, phase>>

TasksOver ==
    /\ doomed = {}
    /\ \A c \in Clients : client[c].at \in {"idle", "closed", "left"}
    /\ \A g \in Gens : reg[g].at \in {"idle", "over"}

\* Everything has ended, or the drain budget is spent and the listeners' tasks
\* are aborted; the process exits.
Exit ==
    /\ phase = "drained" /\ phase' = "done"
    /\ \/ TasksOver /\ UNCHANGED client
       \/ client' = [c \in Clients |-> IF client[c].at \in {"idle", "left"} THEN client[c]
                                       ELSE [NoClient EXCEPT !.at = "closed"]]
    /\ UNCHANGED <<entries, reg, doomed>>

RegistryStep(g) ==
    \/ Commit(g) \/ AdmissionFails(g) \/ Watch(g) \/ Shutdown(g) \/ AdmissionEnds(g) \/ RetireDoomed(g)

ClientStep(c) ==
    \/ Hello(c) \/ Lookup(c) \/ OpenEnds(c) \/ HeaderEnds(c)
    \/ SpliceFails(c) \/ Unanswered(c) \/ Retired(c) \/ Hold(c) \/ HeldEnds(c)

Next ==
    /\ phase # "done"
    /\ \/ \E g \in Gens : RegistryStep(g) \/ Admit(g) \/ CarrierEnds(g) \/ Expire(g)
       \/ \E c \in Clients : ClientStep(c) \/ Arrive(c) \/ ControlEnds(c) \/ Answer(c)
                             \/ StreamReset(c) \/ SpliceEnds(c)
       \/ Term \/ DrainRegistry \/ Exit

\* Tasks that can run do run and timers fire; nothing is assumed of clients,
\* journals or signals.
Fairness ==
    /\ \A g \in Gens : WF_vars(RegistryStep(g))
    /\ \A c \in Clients : WF_vars(ClientStep(c))
    /\ WF_vars(DrainRegistry) /\ WF_vars(Exit)

Spec == Init /\ [][Next]_vars /\ Fairness

-----------------------------------------------------------------------------
\* A registration that is live and not retired is the one its hostname routes to
\* (or is about to be shut down by the drain): replacing, forgetting and cleaning
\* up in any order never leaves a second journal serving, nor takes a newer
\* registration out of the map.
ServingIsCurrent ==
    \A g \in Gens :
        Registered(g) /\ reg[g].live /\ ~reg[g].retired =>
            entries[reg[g].host] = g \/ g \in doomed

\* (A step.) The bridge closes an unanswered client before its deadline only because a
\* limit was reached or the journal it was spliced to acted, by resetting the stream or
\* by ending its connection: a label without a journal is not told apart from one whose
\* journal sleeps.
EarlyCloseHasCause ==
    \A c \in Clients :
        ~In(c, "closed") /\ client'[c].at = "closed" /\ client[c].host # None /\ ~client[c].answered =>
            \/ In(c, "retiring") \/ In(c, "held")
            \/ In(c, "refused") /\ Count("held") >= HeldSlots
            \/ In(c, "spliced") /\ (client[c].reset \/ ~reg[client[c].gen].live)
            \/ phase' = "done"

\* No client hangs on a journal that never answers: whoever has been routed or
\* refused is answered or closed, so Placed leads to Settled.
Placed(c) == client[c].host # None
Settled(c) == client[c].answered \/ In(c, "closed") \/ In(c, "left")

\* What is retired, and a candidate that was never registered, is shut down and
\* leaves the map, so that nothing is routed to it for ever: Leaving leads to Cleared.
Leaving(g) == reg[g].retired \/ reg[g].closing
Cleared(g) == (~reg[g].live /\ \A h \in Hosts : entries[h] # g) \/ phase = "done"

\* RUNBOOK: on SIGTERM "All registered journals are gracefully retired".
DrainRetiresAll ==
    phase = "done" => \A g \in Gens : Registered(g) /\ reg[g].live => reg[g].retired
=============================================================================
