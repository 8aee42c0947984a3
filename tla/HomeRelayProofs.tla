--------------------------- MODULE HomeRelayProofs ---------------------------
(***************************************************************************)
(* Proofs about HomeRelay, for any number of tunnels, streams and callers  *)
(* of stop(): the admission count is exact, no refusal is lost from the    *)
(* health record, no tunnel or stream task runs once a call of stop() has  *)
(* returned, and the carrier drivers that are left then only become fewer. *)
(***************************************************************************)
EXTENDS HomeRelay, FiniteSetTheorems, TLAPS

-----------------------------------------------------------------------------
(* The inductive invariant.                                                *)

Points == {"new", "dial", "prefix", "hello", "serve", "pipe", "refused", "failed", "reporting", "done"}
Listen == [at : {"connecting", "connected", "offered", "waiting", "over"}, base : 0..MaxBase]
Slots == [held : Nat, refused : Nat]
Health == [state : {"connecting", "connected", "reconnecting"}, saturated : Nat]

Types ==
    /\ listen \in Listen /\ task \in [Tasks -> Points] /\ seen \in [Tasks -> Nat]
    /\ tasks \subseteq Tasks /\ aborted \subseteq Tasks /\ accepting \in BOOLEAN /\ drivers \subseteq Tunnels
    /\ phase \in {"running", "stopping", "stopped"}
    /\ stop \in [Stoppers -> {"idle", "leader", "follower", "returned", "cancelled"}]
    /\ slots \in Slots /\ health \in Health

\* The tunnels that wait for their first bytes hold the slots.
Peeking == {t \in Tunnels : task[t] = "prefix"}
Admission ==
    /\ IsFiniteSet(Peeking) /\ Cardinality(Peeking) <= slots.held /\ slots.held <= Ceiling
    /\ accepting => slots.held = Cardinality(Peeking)

\* Every task that runs is kept for stop(), or was aborted by it.
Handles ==
    /\ \A t \in Tasks : ~Finished(t) => t \in tasks \cup aborted
    /\ accepting => aborted = {}
    /\ ~accepting => tasks = {}

\* No task is accepted once stop() has begun, and none is left when it has ended.
Stops ==
    /\ accepting <=> phase = "running"
    /\ \A s \in Stoppers : stop[s] = "leader" => phase # "running"
    /\ \A s \in Stoppers : stop[s] = "returned" => phase = "stopped"
    /\ phase = "stopped" => \A t \in Tasks : Finished(t)

\* The newest refusal is in the record, or in the hands of a task that reports it.
Carries(t) == task[t] = "refused" \/ (task[t] = "reporting" /\ seen[t] = slots.refused)
Refusals ==
    /\ health.saturated <= slots.refused /\ \A t \in Tasks : seen[t] <= slots.refused
    /\ health.saturated = slots.refused \/ \E t \in Tasks : Carries(t)

\* A carrier is driven from the end of its tunnel's handshake.
Owners == \A t \in drivers : task[t] \in {"serve", "done"}

IInv == Types /\ Owners /\ Admission /\ Handles /\ Stops /\ Refusals

-----------------------------------------------------------------------------
LEMMA MaxIs == ASSUME NEW m \in Nat, NEW n \in Nat PROVE Max({m, n}) = IF m >= n THEN m ELSE n
<1> DEFINE x == IF m >= n THEN m ELSE n
<1>1. x \in {m, n} /\ \A y \in {m, n} : x >= y
  OBVIOUS
<1>2. \A z \in {m, n} : (\A y \in {m, n} : z >= y) => z = x
  OBVIOUS
<1> QED
  BY <1>1, <1>2 DEF Max

LEMMA MinIs == ASSUME NEW m \in Nat, NEW n \in Nat PROVE Min({m, n}) = IF m <= n THEN m ELSE n
<1> DEFINE x == IF m <= n THEN m ELSE n
<1>1. x \in {m, n} /\ \A y \in {m, n} : x <= y
  OBVIOUS
<1>2. \A z \in {m, n} : (\A y \in {m, n} : z <= y) => z = x
  OBVIOUS
<1> QED
  BY <1>1, <1>2 DEF Min

LEMMA NextBaseIs == ASSUME RelayConstants, NEW b \in 0..MaxBase PROVE NextBase(b) \in 0..MaxBase
<1>1. MaxBase \in Nat /\ b \in Nat /\ 1 \in Nat
  BY DEF RelayConstants
<1>2. Max({b, 1}) \in Nat
  BY <1>1, MaxIs
<1>3. 2 * Max({b, 1}) \in Nat
  BY <1>2
<1>4. NextBase(b) = IF 2 * Max({b, 1}) <= MaxBase THEN 2 * Max({b, 1}) ELSE MaxBase
  BY <1>1, <1>3, MinIs DEF NextBase
<1> QED
  BY <1>1, <1>3, <1>4

LEMMA InitIInv == ASSUME RelayConstants, Init PROVE IInv
<1>1. Types
  BY DEF Init, Types, Points, Listen, Slots, Health, RelayConstants
<1>2. Peeking = {}
  BY DEF Init, Peeking, Tasks
<1>3. Admission
  BY <1>2, FS_EmptySet DEF Init, Admission, RelayConstants
<1>4. Handles /\ Stops /\ Refusals /\ Owners
  BY DEF Init, Handles, Stops, Refusals, Finished, Owners
<1> QED
  BY <1>1, <1>3, <1>4 DEF IInv

-----------------------------------------------------------------------------
(* What a step of one task does to each part of the invariant.             *)

LEMMA PeekingStays ==
  ASSUME Types, NEW t \in Tasks, NEW at, Goto(t, at), task[t] = "prefix" /\ t \in Tunnels <=> at = "prefix" /\ t \in Tunnels
  PROVE  Peeking' = Peeking
BY DEF Types, Goto, Peeking, Tasks

LEMMA PeekingGrows ==
  ASSUME Types, NEW t \in Tunnels, Goto(t, "prefix"), task[t] # "prefix", IsFiniteSet(Peeking)
  PROVE  IsFiniteSet(Peeking') /\ Cardinality(Peeking') = Cardinality(Peeking) + 1
<1>1. Peeking' = Peeking \cup {t} /\ t \notin Peeking
  BY DEF Types, Goto, Peeking, Tasks
<1> QED
  BY <1>1, FS_AddElement

LEMMA PeekingShrinks ==
  ASSUME Types, NEW t \in Tunnels, NEW at, Goto(t, at), task[t] = "prefix", at # "prefix", IsFiniteSet(Peeking)
  PROVE  /\ IsFiniteSet(Peeking') /\ Cardinality(Peeking') = Cardinality(Peeking) - 1
         /\ Cardinality(Peeking') \in Nat
<1>1. Peeking' = Peeking \ {t} /\ t \in Peeking
  BY DEF Types, Goto, Peeking, Tasks
<1>2. IsFiniteSet(Peeking') /\ Cardinality(Peeking') = Cardinality(Peeking) - 1
  BY <1>1, FS_RemoveElement
<1> QED
  BY <1>2, FS_CardinalityType

LEMMA AdmissionStays ==
  ASSUME Admission, Peeking' = Peeking, UNCHANGED accepting, slots'.held = slots.held
  PROVE  Admission'
BY DEF Admission

\* A task whose carrier is driven serves until it ends.
LEMMA OwnersKept ==
  ASSUME IInv, NEW t \in Tasks, NEW at, Goto(t, at), UNCHANGED drivers, task[t] = "serve" => at = "done", task[t] # "done"
  PROVE  Owners'
<1>1. task \in [Tasks -> Points] /\ \A u \in drivers : u \in Tasks /\ task[u] \in {"serve", "done"}
  BY DEF IInv, Types, Owners, Tasks
<1> QED
  BY <1>1 DEF Goto, Owners

\* A task that runs goes on, or ends.
LEMMA HandlesKept ==
  ASSUME IInv, NEW t \in Tasks, NEW at, Goto(t, at), ~Finished(t), StopUnchanged, tasks' \in {tasks, Unfinished}
  PROVE  Handles' /\ Stops'
<1>1. task \in [Tasks -> Points] /\ \A u \in Tasks \ {t} : task'[u] = task[u]
  BY DEF IInv, Types, Goto
<1>2. UNCHANGED <<aborted, phase, stop, accepting>> /\ phase # "stopped"
  BY DEF StopUnchanged, IInv, Stops
<1>3. \A u \in Tasks : ~Finished(u)' => ~Finished(u)
  BY <1>1 DEF Finished
<1>4. \A u \in Tasks : ~Finished(u)' => u \in tasks' \cup aborted'
  BY <1>2, <1>3 DEF IInv, Handles, Unfinished
<1>5. tasks' \subseteq tasks
  BY DEF Unfinished
<1>6. Handles'
  BY <1>2, <1>4, <1>5 DEF IInv, Handles
<1>7. Stops'
  BY <1>2 DEF IInv, Stops
<1> QED
  BY <1>6, <1>7

LEMMA HandlesSpawned ==
  ASSUME IInv, NEW t \in Tasks, NEW at, Spawn(t, at), MaySpawn, StopUnchanged
  PROVE  Handles' /\ Stops' /\ tasks' \subseteq Tasks
<1>1. /\ task \in [Tasks -> Points] /\ tasks \subseteq Tasks /\ tasks' = Unfinished \cup {t}
      /\ \A u \in Tasks \ {t} : task'[u] = task[u]
  BY DEF IInv, Types, Spawn
<1>2. UNCHANGED <<aborted, phase, stop, accepting>> /\ phase = "running" /\ accepting
  BY DEF StopUnchanged, IInv, Stops, MaySpawn
<1>3. \A u \in Tasks : ~Finished(u)' => u \in tasks' \cup aborted'
  BY <1>1, <1>2 DEF IInv, Handles, Unfinished, Finished
<1>4. Handles' /\ Stops'
  BY <1>2, <1>3 DEF IInv, Handles, Stops
<1> QED
  BY <1>1, <1>4 DEF Unfinished

\* A task that carries no refusal moves.
LEMMA RefusalsStay ==
  ASSUME IInv, NEW t \in Tasks, NEW at, Goto(t, at), UNCHANGED seen, slots'.refused = slots.refused,
         health'.saturated = health.saturated, task[t] \notin {"refused", "reporting"}
  PROVE  Refusals'
<1>1. task \in [Tasks -> Points] /\ \A u \in Tasks \ {t} : task'[u] = task[u]
  BY DEF IInv, Types, Goto
<1>2. \A u \in Tasks : Carries(u) => Carries(u)'
  BY <1>1 DEF Carries
<1> QED
  BY <1>2 DEF IInv, Refusals

\* The parts together, for a task that has no slot to give back and no refusal to report.
LEMMA TaskMoves ==
  ASSUME IInv, NEW t \in Tasks, NEW at \in Points, Goto(t, at), UNCHANGED <<listen, drivers, seen, slots, health>>,
         StopUnchanged, tasks' \in {tasks, Unfinished}, task[t] = "serve" => at = "done",
         task[t] \notin {"new", "done", "refused", "reporting", "prefix"}, at # "prefix"
  PROVE  IInv'
<1>1. Types
  BY DEF IInv
<1>2. Types'
  BY <1>1 DEF Types, Goto, StopUnchanged, Unfinished
<1>3. Handles' /\ Stops'
  BY HandlesKept DEF Finished
<1>4. Admission'
  BY <1>1, PeekingStays, AdmissionStays DEF IInv, StopUnchanged
<1>5. Refusals'
  BY RefusalsStay
<1>6. Owners'
  BY OwnersKept
<1> QED
  BY <1>2, <1>3, <1>4, <1>5, <1>6 DEF IInv

\* The listen task changes nothing but itself and the state it reports.
LEMMA ListenMoves ==
  ASSUME IInv, listen' \in Listen, health' \in Health, health'.saturated = health.saturated,
         TasksUnchanged, StopUnchanged, UNCHANGED slots
  PROVE  IInv'
<1>1. UNCHANGED <<task, drivers, seen, tasks, aborted, phase, stop, accepting, slots>>
  BY DEF TasksUnchanged, StopUnchanged
<1>2. Types' /\ Owners'
  BY <1>1 DEF IInv, Types, Owners
<1>3. Admission' /\ Handles' /\ Stops'
  BY <1>1 DEF IInv, Admission, Peeking, Handles, Stops, Finished
<1>4. Refusals'
  BY <1>1 DEF IInv, Refusals, Carries
<1> QED
  BY <1>2, <1>3, <1>4 DEF IInv

-----------------------------------------------------------------------------
(* The steps.                                                              *)

LEMMA DisconnectIs ==
  ASSUME RelayConstants, Types, NEW lasted \in BOOLEAN, NEW jitter \in BOOLEAN, Disconnect(lasted, jitter)
  PROVE  listen' \in Listen /\ health' \in Health /\ health'.saturated = health.saturated
<1> DEFINE b == NextBase(BaseAfter(listen.base, lasted))
<1>1. listen \in Listen /\ health \in Health /\ MaxBase \in Nat
  BY DEF Types, RelayConstants
<1>2. health' \in Health /\ health'.saturated = health.saturated
  BY <1>1 DEF Disconnect, Health
<1>3. BaseAfter(listen.base, lasted) \in 0..MaxBase
  BY <1>1 DEF Listen, BaseAfter
<1>4. b \in 0..MaxBase
  BY <1>3, NextBaseIs
<1>5. listen' = IF jitter THEN [listen EXCEPT !.at = "waiting", !.base = b] ELSE [listen EXCEPT !.at = "over"]
  BY DEF Disconnect
<1> HIDE DEF b
<1>6. listen' \in Listen
  BY <1>1, <1>4, <1>5 DEF Listen
<1> QED
  BY <1>2, <1>6

LEMMA ListenStep ==
  ASSUME RelayConstants, IInv, ListenFails \/ Connected \/ ListenEnds \/ Reconnect \/ Incoming PROVE IInv'
<1>1. Types /\ listen \in Listen /\ health \in Health /\ TasksUnchanged /\ StopUnchanged /\ UNCHANGED slots
  BY DEF IInv, Types, ListenFails, Connected, ListenEnds, Reconnect, Incoming
<1>2. CASE ListenFails
  <2>1. CASE listen' = [listen EXCEPT !.at = "over"] /\ UNCHANGED health
    <3>1. listen' \in Listen
      BY <1>1, <2>1 DEF Listen
    <3> QED
      BY <1>1, <2>1, <3>1, ListenMoves
  <2>2. CASE \E jitter \in BOOLEAN : Disconnect(FALSE, jitter)
    BY <1>1, <2>2, DisconnectIs, ListenMoves
  <2> QED
    BY <1>2, <2>1, <2>2 DEF ListenFails
<1>3. CASE Connected
  <2>1. listen' \in Listen
    BY <1>1, <1>3 DEF Listen, Connected
  <2>2. health' \in Health /\ health'.saturated = health.saturated
    BY <1>1, <1>3 DEF Health, Connected
  <2> QED
    BY <1>1, <2>1, <2>2, ListenMoves
<1>4. CASE ListenEnds
  BY <1>1, <1>4, DisconnectIs, ListenMoves DEF ListenEnds
<1>5. CASE Reconnect \/ Incoming
  <2>1. listen' \in Listen /\ UNCHANGED health
    BY <1>1, <1>5 DEF Listen, Reconnect, Incoming
  <2> QED
    BY <1>1, <2>1, ListenMoves
<1> QED
  BY <1>2, <1>3, <1>4, <1>5

\* A task is spawned while tasks are accepted.
LEMMA SpawnKeeps ==
  ASSUME RelayConstants, IInv, NEW t \in Tasks, NEW at \in {"dial", "pipe"}, Spawn(t, at), MaySpawn, task[t] = "new",
         listen' \in Listen, StopUnchanged, UNCHANGED <<drivers, seen, slots, health>>
  PROVE  IInv'
<1>1. Types /\ Goto(t, at)
  BY DEF IInv, Spawn, Goto
<1>2. Handles' /\ Stops' /\ tasks' \subseteq Tasks
  BY HandlesSpawned
<1>3. Types'
  BY <1>1, <1>2 DEF Types, Goto, StopUnchanged, Points
<1>4. Admission'
  BY <1>1, PeekingStays, AdmissionStays DEF IInv, StopUnchanged
<1>5. Refusals'
  BY <1>1, RefusalsStay
<1>6. Owners'
  BY <1>1, OwnersKept
<1> QED
  BY <1>2, <1>3, <1>4, <1>5, <1>6 DEF IInv

\* stop() has begun: the finished handles go, and nothing is spawned.
LEMMA NoSpawn ==
  ASSUME IInv, listen' \in Listen, tasks' = Unfinished, StopUnchanged, UNCHANGED <<task, drivers, seen, slots, health>>
  PROVE  IInv'
<1>1. UNCHANGED <<aborted, phase, stop, accepting>>
  BY DEF StopUnchanged
<1>2. Types' /\ Owners'
  BY <1>1 DEF IInv, Types, Unfinished, Owners
<1>3. \A u \in Tasks : Finished(u)' <=> Finished(u)
  BY DEF Finished
<1>4. Handles' /\ Stops'
  BY <1>1, <1>3 DEF IInv, Handles, Stops, Unfinished
<1>5. Admission' /\ Refusals'
  BY <1>1 DEF IInv, Admission, Peeking, Refusals, Carries
<1> QED
  BY <1>2, <1>4, <1>5 DEF IInv

LEMMA OfferStep == ASSUME RelayConstants, IInv, NEW t \in Tunnels, Offer(t) PROVE IInv'
<1>1. t \in Tasks /\ listen \in Listen /\ task[t] = "new" /\ StopUnchanged
      /\ UNCHANGED <<drivers, seen, slots, health>>
  BY DEF Tasks, IInv, Types, Offer, IsNext
<1>2. listen' \in Listen
  BY <1>1 DEF Offer, Listen
<1> QED
  BY <1>1, <1>2, SpawnKeeps, NoSpawn DEF Offer

LEMMA AcceptStreamStep ==
  ASSUME RelayConstants, IInv, NEW t \in Tunnels, NEW p \in Pipes, AcceptStream(t, p) PROVE IInv'
<1>1. /\ t \in Tasks /\ p \in Tasks /\ listen' \in Listen /\ task[p] = "new" /\ task[t] = "serve"
      /\ StopUnchanged /\ UNCHANGED <<listen, drivers, seen, slots, health>>
  BY DEF Tasks, IInv, Types, AcceptStream, IsNext
<1>2. CASE MaySpawn
  BY <1>1, <1>2, SpawnKeeps DEF AcceptStream
<1>3. CASE ~MaySpawn
  BY <1>1, <1>3, TaskMoves DEF AcceptStream, Points
<1> QED
  BY <1>2, <1>3

LEMMA PlainStep ==
  ASSUME RelayConstants, IInv, NEW t \in Tasks, DialFails(t) \/ CarrierEnds(t) \/ PipeEnds(t)
  PROVE  IInv'
<1>1. /\ task[t] \in {"dial", "serve", "pipe"}
      /\ \E at \in {"failed", "done"} : Goto(t, at) /\ (task[t] = "serve" => at = "done")
      /\ UNCHANGED <<listen, drivers, tasks, seen, slots, health>> /\ StopUnchanged
  BY DEF DialFails, CarrierEnds, PipeEnds, TunnelUnchanged, RelayUnchanged
<1> QED
  BY <1>1, TaskMoves DEF Points

\* The handshake fails, or the tunnel serves and its carrier is driven.
LEMMA HandshakeStep == ASSUME RelayConstants, IInv, NEW t \in Tunnels, Handshake(t) PROVE IInv'
<1>1. /\ t \in Tasks /\ Types /\ task[t] = "hello" /\ UNCHANGED <<listen, tasks, seen, slots, health>> /\ StopUnchanged
  BY DEF Tasks, IInv, Handshake, RelayUnchanged
<1>2. CASE Goto(t, "failed") /\ UNCHANGED drivers
  BY <1>1, <1>2, TaskMoves DEF Points
<1>3. CASE Goto(t, "serve") /\ drivers' = drivers \cup {t}
  <2>1. Types'
    BY <1>1, <1>3 DEF Types, Goto, StopUnchanged, Points
  <2>2. Handles' /\ Stops'
    BY <1>1, <1>3, HandlesKept DEF Finished
  <2>3. Admission'
    BY <1>1, <1>3, PeekingStays, AdmissionStays DEF IInv, StopUnchanged
  <2>4. Refusals'
    BY <1>1, <1>3, RefusalsStay
  <2>5. task'[t] = "serve" /\ \A u \in Tasks \ {t} : task'[u] = task[u]
    BY <1>1, <1>3 DEF Types, Goto
  <2>6. \A u \in drivers : u \in Tasks /\ task[u] \in {"serve", "done"}
    BY DEF IInv, Types, Owners, Tasks
  <2>7. Owners'
    BY <1>3, <2>5, <2>6 DEF Owners
  <2> QED
    BY <2>1, <2>2, <2>3, <2>4, <2>7 DEF IInv
<1> QED
  BY <1>2, <1>3 DEF Handshake

\* A driver is nobody's task.
LEMMA DriverEndsStep == ASSUME IInv, NEW t \in Tunnels, DriverEnds(t) PROVE IInv'
<1>1. UNCHANGED <<listen, task, seen, tasks, aborted, phase, stop, accepting, slots, health>> /\ drivers' \subseteq drivers
  BY DEF DriverEnds, RelayUnchanged, StopUnchanged
<1>2. Types' /\ Owners'
  BY <1>1 DEF IInv, Types, Owners
<1>3. Admission' /\ Handles' /\ Stops'
  BY <1>1 DEF IInv, Admission, Peeking, Handles, Stops, Finished
<1>4. Refusals'
  BY <1>1 DEF IInv, Refusals, Carries
<1> QED
  BY <1>2, <1>3, <1>4 DEF IInv

\* A slot is taken, or the refusal is counted and this task has it to report.
LEMMA AcquireStep == ASSUME RelayConstants, IInv, NEW t \in Tunnels, Acquire(t) PROVE IInv'
<1>1. /\ t \in Tasks /\ Types /\ slots \in Slots /\ slots.held \in Nat /\ slots.refused \in Nat /\ task[t] = "dial"
      /\ UNCHANGED <<listen, drivers, tasks, seen, health>> /\ StopUnchanged /\ Ceiling \in Nat
  BY DEF Tasks, IInv, Types, Slots, Acquire, TunnelUnchanged, RelayUnchanged, RelayConstants
<1>2. CASE slots.held < Ceiling
  <2> DEFINE n == slots.held + 1
  <2>1. slots' = [slots EXCEPT !.held = n] /\ Goto(t, "prefix")
    BY <1>2 DEF Acquire
  <2>2. n \in Nat /\ n <= Ceiling /\ n = slots.held + 1
    BY <1>1, <1>2
  <2> HIDE DEF n
  <2>3. slots' \in Slots /\ slots'.held = n /\ slots'.refused = slots.refused
    BY <1>1, <2>1, <2>2 DEF Slots
  <2>4. Types'
    BY <1>1, <2>1, <2>3 DEF Types, Goto, StopUnchanged, Points
  <2>5. Handles' /\ Stops'
    BY <1>1, <2>1, HandlesKept DEF Finished
  <2>6. IsFiniteSet(Peeking') /\ Cardinality(Peeking') = Cardinality(Peeking) + 1
    BY <1>1, <2>1, PeekingGrows DEF IInv, Admission
  <2>7. Cardinality(Peeking) \in Nat
    BY FS_CardinalityType DEF IInv, Admission
  <2>8. Admission'
    BY <1>1, <2>2, <2>3, <2>6, <2>7 DEF IInv, Admission, StopUnchanged
  <2>9. Refusals'
    BY <1>1, <2>1, <2>3, RefusalsStay
  <2>10. Owners'
    BY <1>1, <2>1, OwnersKept
  <2> QED
    BY <2>4, <2>5, <2>8, <2>9, <2>10 DEF IInv
<1>3. CASE ~(slots.held < Ceiling)
  <2> DEFINE n == slots.refused + 1
  <2>1. slots' = [slots EXCEPT !.refused = n] /\ Goto(t, "refused")
    BY <1>3 DEF Acquire
  <2>2. n \in Nat /\ slots.refused <= n
    BY <1>1
  <2> HIDE DEF n
  <2>3. slots' \in Slots /\ slots'.held = slots.held /\ slots'.refused = n
    BY <1>1, <2>1, <2>2 DEF Slots
  <2>4. Types'
    BY <1>1, <2>1, <2>3 DEF Types, Goto, StopUnchanged, Points
  <2>5. Handles' /\ Stops'
    BY <1>1, <2>1, HandlesKept DEF Finished
  <2>6. Admission'
    BY <1>1, <2>1, <2>3, PeekingStays, AdmissionStays DEF IInv, StopUnchanged
  <2>7. Carries(t)'
    BY <1>1, <2>1 DEF Carries, Goto, Types
  <2>8. health.saturated \in Nat /\ \A u \in Tasks : seen[u] \in Nat
    BY <1>1 DEF Types, Health
  <2>9. Refusals'
    BY <1>1, <2>2, <2>3, <2>7, <2>8 DEF IInv, Refusals
  <2>10. Owners'
    BY <1>1, <2>1, OwnersKept
  <2> QED
    BY <2>4, <2>5, <2>6, <2>9, <2>10 DEF IInv
<1> QED
  BY <1>2, <1>3

\* The slot goes back on every way out of the wait for the first bytes.
LEMMA PrefixEndsStep == ASSUME RelayConstants, IInv, NEW t \in Tunnels, PrefixEnds(t) PROVE IInv'
<1> DEFINE n == IF slots.held = 0 THEN 0 ELSE slots.held - 1
<1>1. /\ t \in Tasks /\ Types /\ slots \in Slots /\ slots.held \in Nat /\ task[t] = "prefix"
      /\ UNCHANGED <<listen, drivers, tasks, seen, health>> /\ StopUnchanged /\ slots' = [slots EXCEPT !.held = n]
  BY DEF Tasks, IInv, Types, Slots, PrefixEnds, TunnelUnchanged, RelayUnchanged, Release
<1> PICK at \in {"hello", "done", "failed"} : Goto(t, at)
  BY DEF PrefixEnds
<1>2. n \in Nat /\ n <= slots.held /\ (slots.held > 0 => n = slots.held - 1)
  BY <1>1
<1> HIDE DEF n
<1>3. slots' \in Slots /\ slots'.held = n /\ slots'.refused = slots.refused
  BY <1>1, <1>2 DEF Slots
<1>4. Types'
  BY <1>1, <1>3 DEF Types, Goto, StopUnchanged, Points
<1>5. Handles' /\ Stops'
  BY <1>1, HandlesKept DEF Finished
<1>6. /\ IsFiniteSet(Peeking') /\ Cardinality(Peeking') = Cardinality(Peeking) - 1
      /\ Cardinality(Peeking') \in Nat
  BY <1>1, PeekingShrinks DEF IInv, Admission
<1>7. Cardinality(Peeking) \in Nat /\ Cardinality(Peeking) <= slots.held /\ slots.held <= Ceiling /\ Ceiling \in Nat
  BY FS_CardinalityType DEF IInv, Admission, RelayConstants
<1>8. slots.held > 0
  BY <1>1, <1>6, <1>7
<1>9. Admission'
  BY <1>1, <1>2, <1>3, <1>6, <1>7, <1>8 DEF IInv, Admission, StopUnchanged
<1>10. Refusals'
  BY <1>1, <1>3, RefusalsStay
<1>11. Owners'
  BY <1>1, OwnersKept
<1> QED
  BY <1>4, <1>5, <1>9, <1>10, <1>11 DEF IInv

LEMMA ReadRefusalsStep == ASSUME RelayConstants, IInv, NEW t \in Tasks, ReadRefusals(t) PROVE IInv'
<1>1. /\ Types /\ slots.refused \in Nat /\ task[t] \in {"refused", "failed"} /\ Goto(t, "reporting")
      /\ UNCHANGED <<listen, drivers, tasks, slots, health>> /\ StopUnchanged /\ seen' = [seen EXCEPT ![t] = slots.refused]
  BY DEF IInv, Types, Slots, ReadRefusals, TunnelUnchanged, RelayUnchanged
<1>2. Types'
  BY <1>1 DEF Types, Goto, StopUnchanged, Points
<1>3. Handles' /\ Stops'
  BY <1>1, HandlesKept DEF Finished
<1>4. Admission'
  BY <1>1, PeekingStays, AdmissionStays DEF IInv, StopUnchanged
<1>5. /\ seen'[t] = slots.refused /\ task'[t] = "reporting"
      /\ \A u \in Tasks \ {t} : task'[u] = task[u] /\ seen'[u] = seen[u]
  BY <1>1 DEF Types, Goto
<1>6. Carries(t)' /\ \A u \in Tasks : seen'[u] <= slots.refused
  BY <1>1, <1>5 DEF IInv, Refusals, Carries
<1>7. Refusals'
  BY <1>1, <1>6 DEF IInv, Refusals
<1>8. Owners'
  BY <1>1, OwnersKept
<1> QED
  BY <1>2, <1>3, <1>4, <1>7, <1>8 DEF IInv

\* Reports may come in any order: the record takes the greatest count.
LEMMA ReportStep == ASSUME RelayConstants, IInv, NEW t \in Tasks, Report(t) PROVE IInv'
<1> DEFINE m == Max({health.saturated, seen[t]})
           zero == 0
<1>1. /\ Types /\ health \in Health /\ slots.refused \in Nat /\ task[t] = "reporting" /\ Goto(t, "done")
      /\ UNCHANGED <<listen, drivers, tasks, slots>> /\ StopUnchanged /\ seen' = [seen EXCEPT ![t] = zero]
      /\ health' = [health EXCEPT !.saturated = m] /\ health.saturated \in Nat /\ seen[t] \in Nat
  BY DEF IInv, Types, Slots, Health, Report, TunnelUnchanged, RelayUnchanged
<1>2. m = IF health.saturated >= seen[t] THEN health.saturated ELSE seen[t]
  BY <1>1, MaxIs
<1>3. m \in Nat /\ m >= health.saturated /\ m >= seen[t] /\ zero \in Nat /\ zero <= slots.refused
  BY <1>1, <1>2
<1>4. m <= slots.refused
  BY <1>2 DEF IInv, Refusals
<1> HIDE DEF m, zero
<1>5. health' \in Health /\ health'.saturated = m
  BY <1>1, <1>3 DEF Health
<1>6. Types'
  BY <1>1, <1>3, <1>5 DEF Types, Goto, StopUnchanged, Points
<1>7. Handles' /\ Stops'
  BY <1>1, HandlesKept DEF Finished
<1>8. Admission'
  BY <1>1, PeekingStays, AdmissionStays DEF IInv, StopUnchanged
<1>9. seen'[t] = zero /\ \A u \in Tasks \ {t} : task'[u] = task[u] /\ seen'[u] = seen[u]
  BY <1>1 DEF Types, Goto
<1>10. \A u \in Tasks : seen'[u] <= slots.refused
  BY <1>3, <1>9 DEF IInv, Refusals
<1>11. m = slots.refused \/ \E u \in Tasks : Carries(u)'
  <2>1. CASE health.saturated = slots.refused
    BY <1>1, <1>3, <1>4, <2>1
  <2>2. CASE \E u \in Tasks \ {t} : Carries(u)
    BY <1>1, <1>9, <2>2 DEF Carries
  <2>3. CASE Carries(t)
    BY <1>1, <1>3, <1>4, <2>3 DEF Carries
  <2> QED
    BY <2>1, <2>2, <2>3 DEF IInv, Refusals
<1>12. Refusals'
  BY <1>1, <1>4, <1>5, <1>10, <1>11 DEF Refusals
<1>13. Owners'
  BY <1>1, OwnersKept
<1> QED
  BY <1>6, <1>7, <1>8, <1>12, <1>13 DEF IInv

\* An aborted task keeps its slot and its carrier's driver, and nothing is admitted any more.
LEMMA AbortedStep == ASSUME RelayConstants, IInv, NEW t \in Tasks, Aborted(t) PROVE IInv'
<1>1. /\ Types /\ t \in aborted /\ task[t] \in {"dial", "prefix", "hello", "serve", "pipe"} /\ Goto(t, "done")
      /\ UNCHANGED <<listen, drivers, tasks, seen, slots, health>> /\ StopUnchanged
  BY DEF IInv, Aborted, TunnelUnchanged, RelayUnchanged
<1>2. Types'
  BY <1>1 DEF Types, Goto, StopUnchanged, Points
<1>3. Handles' /\ Stops'
  BY <1>1, HandlesKept DEF Finished
<1>4. Admission'
  <2>1. CASE t \in Tunnels /\ task[t] = "prefix"
    <3>1. /\ IsFiniteSet(Peeking') /\ Cardinality(Peeking') = Cardinality(Peeking) - 1
          /\ Cardinality(Peeking') \in Nat /\ Cardinality(Peeking) <= slots.held /\ slots.held <= Ceiling
      BY <1>1, <2>1, PeekingShrinks DEF IInv, Admission
    <3>2. Cardinality(Peeking) \in Nat /\ slots.held \in Nat
      BY <1>1, FS_CardinalityType DEF IInv, Admission, Types, Slots
    <3>3. ~accepting /\ UNCHANGED accepting
      BY <1>1 DEF IInv, Handles, StopUnchanged
    <3> QED
      BY <1>1, <3>1, <3>2, <3>3 DEF Admission
  <2>2. CASE ~(t \in Tunnels /\ task[t] = "prefix")
    BY <1>1, <2>2, PeekingStays, AdmissionStays DEF IInv, StopUnchanged
  <2> QED
    BY <2>1, <2>2
<1>5. Refusals'
  BY <1>1, RefusalsStay
<1>6. Owners'
  BY <1>1, OwnersKept
<1> QED
  BY <1>2, <1>3, <1>4, <1>5, <1>6 DEF IInv

-----------------------------------------------------------------------------
(* The callers of stop().                                                  *)

LEMMA StopKeeps ==
  ASSUME IInv, ListenUnchanged, Handles', Stops', tasks' \subseteq Tasks, aborted' \subseteq Tasks,
         accepting' \in BOOLEAN, phase' \in {"running", "stopping", "stopped"},
         stop' \in [Stoppers -> {"idle", "leader", "follower", "returned", "cancelled"}],
         accepting' => accepting
  PROVE  IInv'
<1>1. UNCHANGED <<listen, task, drivers, seen, slots, health>>
  BY DEF ListenUnchanged
<1>2. Types' /\ Owners'
  BY <1>1 DEF IInv, Types, Owners
<1>3. Admission' /\ Refusals'
  BY <1>1 DEF IInv, Admission, Peeking, Refusals, Carries
<1> QED
  BY <1>2, <1>3 DEF IInv

LEMMA StopCallStep == ASSUME RelayConstants, IInv, NEW s \in Stoppers, StopCall(s) PROVE IInv'
<1>1. Types /\ ListenUnchanged /\ UNCHANGED task
  BY DEF IInv, StopCall, ListenUnchanged
<1>2. \A t \in Tasks : Finished(t)' <=> Finished(t)
  BY <1>1 DEF Finished
<1>3. CASE phase = "stopped" \/ phase = "stopping"
  <2>1. /\ UNCHANGED <<phase, accepting, aborted, tasks>>
        /\ \E v \in {"returned", "follower"} : stop' = [stop EXCEPT ![s] = v] /\ (v = "returned" => phase = "stopped")
    BY <1>3 DEF StopCall
  <2>2. Handles'
    BY <1>2, <2>1 DEF IInv, Handles
  <2>3. Stops'
    BY <1>1, <1>2, <2>1 DEF IInv, Stops, Types
  <2> QED
    BY <1>1, <2>1, <2>2, <2>3, StopKeeps DEF Types
<1>4. CASE phase = "running"
  <2>1. /\ stop' = [stop EXCEPT ![s] = "leader"] /\ phase' = "stopping" /\ accepting' = FALSE
        /\ aborted' = tasks /\ tasks' = {} /\ accepting /\ aborted = {}
    BY <1>4 DEF StopCall, IInv, Stops, Handles
  <2>2. Handles'
    BY <1>2, <2>1 DEF IInv, Handles
  <2>3. Stops'
    BY <1>1, <1>4, <2>1 DEF IInv, Stops, Types
  <2> QED
    BY <1>1, <2>1, <2>2, <2>3, StopKeeps DEF Types
<1> QED
  BY <1>1, <1>3, <1>4 DEF Types

\* Every task that could still run was aborted, and has ended.
LEMMA StopDoneStep == ASSUME RelayConstants, IInv, NEW s \in Stoppers, StopDone(s) PROVE IInv'
<1>1. /\ Types /\ ListenUnchanged /\ UNCHANGED <<task, tasks, aborted, accepting>> /\ phase' = "stopped"
      /\ stop[s] = "leader" /\ \A t \in aborted : Finished(t)
      /\ stop' = [u \in Stoppers |-> IF u = s \/ stop[u] = "follower" THEN "returned" ELSE stop[u]]
  BY DEF IInv, StopDone, ListenUnchanged
<1>2. ~accepting /\ tasks = {}
  BY <1>1 DEF IInv, Handles, Stops
<1>3. \A t \in Tasks : Finished(t)
  BY <1>1, <1>2 DEF IInv, Handles
<1>4. Handles' /\ Stops'
  BY <1>1, <1>2, <1>3 DEF IInv, Handles, Stops, Finished
<1> QED
  BY <1>1, <1>4, StopKeeps DEF Types

LEMMA StopCancelledStep == ASSUME RelayConstants, IInv, NEW s \in Stoppers, StopCancelled(s) PROVE IInv'
<1>1. /\ Types /\ ListenUnchanged /\ UNCHANGED <<task, tasks, aborted, accepting, phase>>
      /\ stop' = [stop EXCEPT ![s] = "cancelled"]
  BY DEF IInv, StopCancelled, ListenUnchanged
<1>2. Handles' /\ Stops'
  BY <1>1 DEF IInv, Handles, Stops, Finished, Types
<1> QED
  BY <1>1, <1>2, StopKeeps DEF Types

-----------------------------------------------------------------------------
(* Theorems.                                                               *)

LEMMA StepKept == ASSUME RelayConstants, IInv, [Next]_vars PROVE IInv'
<1>1. CASE UNCHANGED vars
  <2>1. UNCHANGED <<listen, task, drivers, seen, tasks, aborted, accepting, phase, stop, slots, health>>
    BY <1>1 DEF vars
  <2>2. listen' \in Listen /\ health' \in Health
    BY <2>1 DEF IInv, Types
  <2> QED
    BY <2>1, <2>2, ListenMoves DEF TasksUnchanged, StopUnchanged
<1>2. CASE ListenFails \/ Connected \/ ListenEnds \/ Reconnect \/ Incoming
  BY <1>2, ListenStep
<1>3. ASSUME NEW t \in Tunnels, Offer(t) \/ TunnelStep(t) \/ \E p \in Pipes : AcceptStream(t, p) PROVE IInv'
  <2>1. t \in Tasks
    BY DEF Tasks
  <2> QED
    BY <1>3, <2>1, OfferStep, PlainStep, AcquireStep, PrefixEndsStep, HandshakeStep, DriverEndsStep,
       AcceptStreamStep DEF TunnelStep
<1>4. ASSUME NEW t \in Tasks, TaskStep(t) PROVE IInv'
  BY <1>4, PlainStep, ReadRefusalsStep, ReportStep, AbortedStep DEF TaskStep
<1>5. ASSUME NEW s \in Stoppers, StopCall(s) \/ StopDone(s) \/ StopCancelled(s) PROVE IInv'
  BY <1>5, StopCallStep, StopDoneStep, StopCancelledStep
<1> QED
  BY <1>1, <1>2, <1>3, <1>4, <1>5 DEF Next

\* The invariant above holds of every behaviour of the relay attachment.
THEOREM Inductive == ASSUME RelayConstants PROVE Spec => []IInv
<1>1. Init => IInv
  BY InitIInv
<1>2. IInv /\ [Next]_vars => IInv'
  BY StepKept
<1> QED
  BY <1>1, <1>2, PTL DEF Spec

\* Once a call of stop() has returned no tunnel or stream task is alive, and a carrier
\* that is still driven then is that of a tunnel whose handshake was done; the admission
\* count is the number of tunnels that wait for their first bytes and stays within the
\* ceiling; and no refusal is lost from the health record, in whatever order it is
\* reported (home_relay.rs).
THEOREM AccountsHold == ASSUME RelayConstants PROVE Spec => []RelayAccounts
<1>1. ASSUME IInv PROVE TypeOK
  BY <1>1 DEF IInv, Types, Listen, Slots, Admission, RelayConstants, TypeOK
<1>2. ASSUME IInv PROVE StoppedIsQuiet
  BY <1>2 DEF IInv, Stops, Owners, Stopped, StoppedIsQuiet
<1>3. ASSUME IInv PROVE AdmissionExact
  BY <1>3 DEF IInv, Admission, Peeking, AdmissionExact
<1>4. ASSUME IInv PROVE SaturationReported
  BY <1>4 DEF IInv, Refusals, Carries, SaturationReported
<1>5. IInv => RelayAccounts
  BY <1>1, <1>2, <1>3, <1>4 DEF RelayAccounts
<1> QED
  BY <1>5, Inductive, PTL

\* No carrier begins to be driven once a call of stop() has returned, although stop() has
\* no handle of the drivers: every handshake has ended by then (home_relay.rs 475-528,
\* 608-615).
THEOREM NoDriverStarts == ASSUME RelayConstants PROVE Spec => [][NoDriverAfterStop]_vars
<1>1. ASSUME IInv, Next, Stopped PROVE Stopped' /\ drivers' \subseteq drivers
  <2>1. /\ \A t \in Tasks : task[t] \in {"new", "done"}
        /\ \A t \in Tunnels : t \in Tasks
    BY <1>1 DEF IInv, Stops, Stopped, Finished, Tasks
  <2>2. PICK s \in Stoppers : stop[s] = "returned"
    BY <1>1 DEF Stopped
  <2>3. stop \in [Stoppers -> {"idle", "leader", "follower", "returned", "cancelled"}]
    BY <1>1 DEF IInv, Types
  <2>4. CASE ListenFails \/ Connected \/ ListenEnds \/ Reconnect \/ Incoming
    BY <2>2, <2>4 DEF ListenFails, Connected, ListenEnds, Reconnect, Incoming, TasksUnchanged, StopUnchanged, Stopped
  <2>5. ASSUME NEW t \in Tunnels, Offer(t) \/ TunnelStep(t) \/ \E p \in Pipes : AcceptStream(t, p)
        PROVE  UNCHANGED stop /\ drivers' \subseteq drivers
    BY <2>1, <2>5 DEF Offer, TunnelStep, AcceptStream, DialFails, Acquire, PrefixEnds, Handshake, DriverEnds,
       CarrierEnds, TunnelUnchanged, RelayUnchanged, StopUnchanged
  <2>6. ASSUME NEW t \in Tasks, TaskStep(t) PROVE UNCHANGED stop /\ drivers' \subseteq drivers
    BY <2>6 DEF TaskStep, PipeEnds, ReadRefusals, Report, Aborted, TunnelUnchanged, RelayUnchanged, StopUnchanged
  <2>7. ASSUME NEW u \in Stoppers, StopCall(u) \/ StopDone(u) \/ StopCancelled(u)
        PROVE  stop'[s] = "returned" /\ drivers' \subseteq drivers
    BY <2>2, <2>3, <2>7 DEF StopCall, StopDone, StopCancelled, ListenUnchanged
  <2> QED
    BY <1>1, <2>2, <2>4, <2>5, <2>6, <2>7 DEF Next, Stopped
<1>2. ASSUME IInv, [Next]_vars PROVE [NoDriverAfterStop]_vars
  BY <1>1, <1>2 DEF NoDriverAfterStop
<1> QED
  BY <1>2, Inductive, PTL DEF Spec
=============================================================================
