----------------------------- MODULE HomeRelay -----------------------------
(***************************************************************************)
(* The home's relay attachment (spl-transport/src/home_relay.rs): one      *)
(* listen task that reconnects forever, one task per tunnel the relay      *)
(* offers, one task per stream a tunnel accepts, the driver task that      *)
(* HomeConnection::accept detaches for each tunnel's carrier, the bounded  *)
(* admission of tunnels whose first bytes are awaited, the health record   *)
(* that the tasks update, and stop(), which any number of callers may call *)
(* and drop.                                                               *)
(*                                                                         *)
(* A task is aborted only where it awaits: "refused", "failed" and         *)
(* "reporting" are straight-line code between two locks and run to the     *)
(* end.  The bytes of a stream are the subject of HomePipe; here a stream  *)
(* is one task that ends well or not.                                      *)
(***************************************************************************)
EXTENDS Naturals, FiniteSets, FiniteSetsExt

CONSTANTS
    Tunnels,        \* tunnels the relay offers during the run, numbered in that order
    Pipes,          \* streams the tunnels accept, numbered in that order
    Stoppers,       \* callers of stop()
    Ceiling,        \* admission_ceiling
    MaxBase,        \* reconnect bases: 0, then 1, 2, 4 ... up to MaxBase
    MayCancel       \* a caller may drop the future stop() returned

RelayConstants ==
    /\ Tunnels \subseteq Nat /\ Pipes \subseteq Nat /\ Tunnels \cap Pipes = {}
    /\ Ceiling \in Nat \ {0}        \* NonZeroUsize
    /\ MaxBase \in Nat \ {0}

VARIABLES
    listen,     \* run(): [at, base]
    task,       \* Tunnels \cup Pipes -> where the task is
    drivers,    \* the tunnels whose carrier is driven: run_driver, spawned and not kept
    seen,       \* the refusal count a task has read and not yet reported
    tasks,      \* TunnelTasks.tasks: handles kept for stop()
    aborted,    \* tasks on which abort() was called
    accepting,  \* accepting_tunnels
    phase,      \* TunnelTasks: "running", "stopping" or "stopped"
    stop,       \* Stoppers -> where the call is
    slots,      \* Admission.count: [held, refused]
    health      \* RelayHealth: [state, saturated]; its times and last failure are only reported

vars == <<listen, task, drivers, seen, tasks, aborted, accepting, phase, stop, slots, health>>

Tasks == Tunnels \cup Pipes

\* names carry no meaning: the next task takes the least unused one
IsNext(t, kind) == task[t] = "new" /\ \A u \in kind : u < t => task[u] # "new"

Finished(t) == task[t] \in {"new", "done"}

(***************************************************************************)
(* HomeRelayClient::new                                                    *)
(***************************************************************************)
Init ==
    /\ listen = [at |-> "connecting", base |-> 0]
    /\ task = [t \in Tasks |-> "new"]
    /\ drivers = {}
    /\ seen = [t \in Tasks |-> 0]
    /\ tasks = {}
    /\ aborted = {}
    /\ accepting = TRUE
    /\ phase = "running"
    /\ stop = [s \in Stoppers |-> "idle"]
    /\ slots = [held |-> 0, refused |-> 0]
    /\ health = [state |-> "connecting", saturated |-> 0]

StopUnchanged == UNCHANGED <<aborted, phase, stop, accepting>>
TasksUnchanged == UNCHANGED <<task, drivers, seen, tasks>>

(***************************************************************************)
(* The listen task                                                         *)
(***************************************************************************)

\* schedule_reconnect clamps the base before it is doubled for the next time
NextBase(base) == Min({2 * Max({base, 1}), MaxBase})

\* base_after_connection: a connection that held for a minute forgets the base
BaseAfter(base, lasted) == IF lasted THEN 0 ELSE base

\* run_once failed or its WebSocket ended; only a bad origin, or a jitter
\* sample outside its range, ends run() itself
Disconnect(lasted, jitter) ==
    /\ health' = [health EXCEPT !.state = "reconnecting"]
    /\ listen' = IF jitter
                 THEN [listen EXCEPT !.at = "waiting",
                                     !.base = NextBase(BaseAfter(listen.base, lasted))]
                 ELSE [listen EXCEPT !.at = "over"]

ListenFails ==
    /\ listen.at = "connecting"
    /\ \/ /\ listen' = [listen EXCEPT !.at = "over"]        \* listen_url refused
          /\ UNCHANGED health
       \/ \E jitter \in BOOLEAN : Disconnect(FALSE, jitter)
    /\ TasksUnchanged /\ StopUnchanged /\ UNCHANGED slots

Connected ==
    /\ listen.at = "connecting"
    /\ listen' = [listen EXCEPT !.at = "connected"]
    /\ health' = [health EXCEPT !.state = "connected"]
    /\ TasksUnchanged /\ StopUnchanged /\ UNCHANGED slots

ListenEnds ==
    /\ listen.at = "connected"
    /\ \E lasted, jitter \in BOOLEAN : Disconnect(lasted, jitter)
    /\ TasksUnchanged /\ StopUnchanged /\ UNCHANGED slots

Reconnect ==
    /\ listen.at = "waiting"
    /\ listen' = [listen EXCEPT !.at = "connecting"]
    /\ TasksUnchanged /\ StopUnchanged /\ UNCHANGED <<slots, health>>

\* an Incoming message: run_once looks at accepting_tunnels first ...
Incoming ==
    /\ listen.at = "connected"
    /\ accepting
    /\ \E t \in Tunnels : task[t] = "new"
    /\ listen' = [listen EXCEPT !.at = "offered"]
    /\ TasksUnchanged /\ StopUnchanged /\ UNCHANGED <<slots, health>>

(***************************************************************************)
(* spawn_tunnel_task: under the lock of tunnel_tasks the finished handles  *)
(* go, and a new task is refused once stop() has begun.                    *)
(***************************************************************************)
Unfinished == {u \in tasks : ~ Finished(u)}

MaySpawnLate == phase # "stopped"

MaySpawn == phase # "stopped" /\ accepting

Spawn(t, at) ==
    /\ task' = [task EXCEPT ![t] = at]
    /\ tasks' = Unfinished \cup {t}

\* ... and spawns the tunnel's task in a later step
Offer(t) ==
    /\ listen.at = "offered"
    /\ IsNext(t, Tunnels)
    /\ IF MaySpawn THEN Spawn(t, "dial") ELSE tasks' = Unfinished /\ UNCHANGED task
    /\ listen' = [listen EXCEPT !.at = "connected"]
    /\ StopUnchanged /\ UNCHANGED <<drivers, seen, slots, health>>

(***************************************************************************)
(* handle_tunnel_inner, one action for each stretch between two awaits or  *)
(* two locks                                                               *)
(***************************************************************************)
Goto(t, at) == task' = [task EXCEPT ![t] = at]

RelayUnchanged == UNCHANGED <<listen, tasks>> /\ StopUnchanged
TunnelUnchanged == RelayUnchanged /\ UNCHANGED drivers

\* tunnel_url or dial_home_ws failed
DialFails(t) ==
    /\ task[t] = "dial"
    /\ Goto(t, "failed")
    /\ TunnelUnchanged /\ UNCHANGED <<seen, slots, health>>

\* dialled: Admission::acquire takes a slot or counts the refusal
Acquire(t) ==
    /\ task[t] = "dial"
    /\ IF slots.held < Ceiling
       THEN /\ slots' = [slots EXCEPT !.held = @ + 1]
            /\ Goto(t, "prefix")
       ELSE /\ slots' = [slots EXCEPT !.refused = @ + 1]
            /\ Goto(t, "refused")
    /\ TunnelUnchanged /\ UNCHANGED <<seen, health>>

\* Admission::release
Release == slots' = [slots EXCEPT !.held = IF @ = 0 THEN 0 ELSE @ - 1]

\* guard_tls_prefix: a TLS record, other bytes, or the deadline or an error
PrefixEndsHeld(t) ==
    /\ task[t] = "prefix"
    /\ \/ Release /\ Goto(t, "hello")
       \/ UNCHANGED slots /\ Goto(t, "done")
       \/ Release /\ Goto(t, "failed")
    /\ TunnelUnchanged /\ UNCHANGED <<seen, health>>

PrefixEnds(t) ==
    /\ task[t] = "prefix"
    /\ Release
    /\ Goto(t, "hello") \/ Goto(t, "done") \/ Goto(t, "failed")
    /\ TunnelUnchanged /\ UNCHANGED <<seen, health>>

\* the inner handshake, bounded by RELAY_HANDSHAKE_TIMEOUT: HomeConnection::accept
\* spawns the carrier's driver and returns without its handle; record_success
Handshake(t) ==
    /\ task[t] = "hello"
    /\ \/ Goto(t, "failed") /\ UNCHANGED drivers
       \/ Goto(t, "serve") /\ drivers' = drivers \cup {t}
    /\ RelayUnchanged /\ UNCHANGED <<seen, slots, health>>

\* run_driver returns: the carrier ended or failed, or an OPEN found its owner gone
DriverEnds(t) ==
    /\ t \in drivers
    /\ drivers' = drivers \ {t}
    /\ RelayUnchanged /\ UNCHANGED <<task, seen, slots, health>>

\* accept_stream returned a stream: a task for its pipe, or the end of the
\* tunnel when the task is refused; a driver that has ended may have left streams
AcceptStream(t, p) ==
    /\ task[t] = "serve"
    /\ IsNext(p, Pipes)
    /\ IF MaySpawn THEN Spawn(p, "pipe") ELSE tasks' = Unfinished /\ Goto(t, "done")
    /\ StopUnchanged /\ UNCHANGED <<listen, drivers, seen, slots, health>>

\* accept_stream failed: the driver has dropped its sender
CarrierEnds(t) ==
    /\ task[t] = "serve" /\ t \notin drivers
    /\ Goto(t, "done")
    /\ TunnelUnchanged /\ UNCHANGED <<seen, slots, health>>

\* pipe_stream returned
PipeEnds(p) ==
    /\ task[p] = "pipe"
    /\ Goto(p, "done") \/ Goto(p, "failed")
    /\ TunnelUnchanged /\ UNCHANGED <<seen, slots, health>>

(***************************************************************************)
(* record_saturation and record_failure read the count of refusals under   *)
(* one lock and write the health record under another.                     *)
(***************************************************************************)
ReadRefusals(t) ==
    /\ task[t] \in {"refused", "failed"}
    /\ seen' = [seen EXCEPT ![t] = slots.refused]
    /\ Goto(t, "reporting")
    /\ TunnelUnchanged /\ UNCHANGED <<slots, health>>

ReportLatest(t) ==
    /\ task[t] = "reporting"
    /\ health' = [health EXCEPT !.saturated = seen[t]]
    /\ seen' = [seen EXCEPT ![t] = 0]
    /\ Goto(t, "done")
    /\ TunnelUnchanged /\ UNCHANGED slots

Report(t) ==
    /\ task[t] = "reporting"
    /\ health' = [health EXCEPT !.saturated = Max({@, seen[t]})]
    /\ seen' = [seen EXCEPT ![t] = 0]
    /\ Goto(t, "done")
    /\ TunnelUnchanged /\ UNCHANGED slots

(***************************************************************************)
(* stop().  The first caller takes every handle, aborts the tasks and      *)
(* waits for each; later callers wait for the first.                       *)
(***************************************************************************)
ListenUnchanged == UNCHANGED <<listen, task, drivers, seen, slots, health>>

StopCall(s) ==
    /\ stop[s] = "idle"
    /\ CASE phase = "stopped" ->
              /\ stop' = [stop EXCEPT ![s] = "returned"]
              /\ UNCHANGED <<phase, accepting, aborted, tasks>>
         [] phase = "stopping" ->
              /\ stop' = [stop EXCEPT ![s] = "follower"]
              /\ UNCHANGED <<phase, accepting, aborted, tasks>>
         [] OTHER ->
              /\ stop' = [stop EXCEPT ![s] = "leader"]
              /\ phase' = "stopping"
              /\ accepting' = FALSE
              /\ aborted' = tasks
              /\ tasks' = {}
    /\ ListenUnchanged

\* an aborted task ends where it awaits, without its remaining code: the
\* slot of a tunnel that waits for its prefix is not given back, and the driver
\* of a tunnel that serves runs on without its owner
Aborted(t) ==
    /\ t \in aborted
    /\ task[t] \in {"dial", "prefix", "hello", "serve", "pipe"}
    /\ Goto(t, "done")
    /\ TunnelUnchanged /\ UNCHANGED <<seen, slots, health>>

\* every handle the leader took has been awaited
StopDoneAlone(s) ==
    /\ stop[s] = "leader"
    /\ \A t \in aborted : Finished(t)
    /\ phase' = "stopped"
    /\ stop' = [stop EXCEPT ![s] = "returned"]
    /\ ListenUnchanged /\ UNCHANGED <<tasks, aborted, accepting>>

StopDone(s) ==
    /\ stop[s] = "leader"
    /\ \A t \in aborted : Finished(t)
    /\ phase' = "stopped"
    /\ stop' = [u \in Stoppers |-> IF u = s \/ stop[u] = "follower" THEN "returned" ELSE stop[u]]
    /\ ListenUnchanged /\ UNCHANGED <<tasks, aborted, accepting>>

\* the caller drops the future; a dropped leader leaves TunnelTasks.stopping set
StopCancelled(s) ==
    /\ MayCancel
    /\ \/ stop[s] = "leader" /\ \E t \in aborted : ~ Finished(t)
       \/ stop[s] = "follower"
    /\ stop' = [stop EXCEPT ![s] = "cancelled"]
    /\ ListenUnchanged /\ UNCHANGED <<tasks, aborted, accepting, phase>>

TunnelStep(t) ==
    \/ DialFails(t) \/ Acquire(t) \/ PrefixEnds(t) \/ Handshake(t)
    \/ DriverEnds(t) \/ CarrierEnds(t)

TaskStep(t) == PipeEnds(t) \/ ReadRefusals(t) \/ Report(t) \/ Aborted(t)

Next ==
    \/ ListenFails \/ Connected \/ ListenEnds \/ Reconnect \/ Incoming
    \/ \E t \in Tunnels : Offer(t) \/ TunnelStep(t) \/ \E p \in Pipes : AcceptStream(t, p)
    \/ \E t \in Tasks : TaskStep(t)
    \/ \E s \in Stoppers : StopCall(s) \/ StopDone(s) \/ StopCancelled(s)

(***************************************************************************)
(* Fairness: the runtime polls a task that can proceed, delivers aborts,   *)
(* and polls the futures of stop() that are not dropped.                   *)
(***************************************************************************)
Fairness ==
    /\ \A t \in Tasks : WF_vars(ReadRefusals(t)) /\ WF_vars(Report(t)) /\ WF_vars(Aborted(t))
    /\ \A s \in Stoppers : WF_vars(StopDone(s))

Spec == Init /\ [][Next]_vars /\ Fairness

-----------------------------------------------------------------------------

TypeOK ==
    /\ listen.at \in {"connecting", "connected", "offered", "waiting", "over"}
    /\ listen.base \in 0..MaxBase
    /\ tasks \subseteq Tasks /\ aborted \subseteq Tasks /\ drivers \subseteq Tunnels
    /\ slots.held \in 0..Ceiling

(***************************************************************************)
(* Once any call of stop() has returned, no tunnel or pipe task is alive,  *)
(* whatever the listen task and the tunnels were spawning when stop() took *)
(* the handles (home_relay.rs 475-528 against 630-647).  What may be left  *)
(* are carrier drivers, which stop() has no handle of (spl-home            *)
(* connection.rs 266-268): a driver is that of a tunnel past its           *)
(* handshake, and has an owner exactly while that tunnel serves.           *)
(***************************************************************************)
Stopped == \E s \in Stoppers : stop[s] = "returned"

StoppedIsQuiet ==
    /\ Stopped => \A t \in Tasks : Finished(t)
    /\ \A t \in drivers : task[t] \in {"serve", "done"}

(***************************************************************************)
(* The drivers that outlive stop() only become fewer: no handshake that    *)
(* was under way when stop() was called completes after it has returned.   *)
(* (A step.)                                                               *)
(***************************************************************************)
NoDriverAfterStop == Stopped => Stopped' /\ drivers' \subseteq drivers

(***************************************************************************)
(* "Stop and await all tunnel work": once stop() has returned nothing of a *)
(* tunnel runs, the driver of its carrier included.  Violated: the driver  *)
(* of an aborted tunnel keeps its socket until the peer ends it or opens   *)
(* another stream.                                                         *)
(***************************************************************************)
StopAwaitsAllWork == Stopped => drivers = {} /\ \A t \in Tasks : Finished(t)

(***************************************************************************)
(* While tunnels are accepted, the admission count is exactly the number   *)
(* of tunnels that wait for their first bytes, on every way out of that    *)
(* wait (587-607): a slot kept by a tunnel that left would lower the       *)
(* ceiling for good.  stop() may abort a tunnel that holds one, and        *)
(* nothing is admitted afterwards.                                         *)
(***************************************************************************)
AdmissionExact ==
    LET peeking == Cardinality({t \in Tunnels : task[t] = "prefix"})
    IN  /\ accepting => slots.held = peeking
        /\ slots.held <= Ceiling
        /\ peeking <= slots.held

(***************************************************************************)
(* No refusal is lost from the health record: whenever no task is between  *)
(* its refusal and its report, admission_saturated_count is the number of  *)
(* refusals, in whatever order the tasks that read that number wrote it    *)
(* (665-680).                                                              *)
(***************************************************************************)
SaturationReported ==
    (\A t \in Tasks : task[t] \notin {"refused", "reporting"}) =>
        health.saturated = slots.refused

\* The relay's books: its admissions, its health record and its stop are all exact.
RelayAccounts == TypeOK /\ StoppedIsQuiet /\ AdmissionExact /\ SaturationReported

(***************************************************************************)
(* A call of stop() returns, unless its own future or the future of the    *)
(* call that took the handles is dropped: Stopping leads to StopOver.      *)
(***************************************************************************)
Stopping(s) == stop[s] \in {"leader", "follower"}
StopOver(s) == stop[s] = "returned" \/ \E u \in Stoppers : stop[u] = "cancelled"

(***************************************************************************)
(* "Stop and await all tunnel work" for every caller that waits: violated  *)
(* when the first caller's future is dropped while it awaits the tasks,    *)
(* since nothing completes the stop in its place.                          *)
(***************************************************************************)
EveryStopReturns ==
    \A s \in Stoppers : stop[s] = "follower" ~> stop[s] \in {"returned", "cancelled"}

=============================================================================
