------------------------- MODULE BridgeRouterProofs -------------------------
(***************************************************************************)
(* Proofs about BridgeRouter, for any number of registrations, clients and *)
(* hostnames: the registration that serves a hostname is the one in the    *)
(* map, and an unanswered client is closed early only for a cause that     *)
(* does not tell whether its label has a journal.                          *)
(***************************************************************************)
EXTENDS BridgeRouter, TLAPS

-----------------------------------------------------------------------------
(* The inductive invariant.                                                *)

Reg == [at : {"idle", "opening", "registered", "over"}, host : Hosts \cup {None}, live : BOOLEAN,
        retired : BOOLEAN, closing : BOOLEAN, watched : BOOLEAN]
Unrouted == {"idle", "sni", "control"}
Routed == {"opening", "header", "spliced", "retiring"}
Client == [at : Unrouted \cup Routed \cup {"lookup", "refused", "held", "closed", "left"},
           host : Hosts \cup {None}, gen : Gens \cup {None}, answered : BOOLEAN, reset : BOOLEAN]

TypeOK ==
    /\ entries \in [Hosts -> Gens \cup {None}] /\ reg \in [Gens -> Reg]
    /\ client \in [Clients -> Client] /\ doomed \subseteq Gens

Serves(r) == r.at = "registered" /\ r.live /\ ~r.retired

\* A registration that serves is in the map or about to be retired by the drain.
Regs ==
    \A g \in Gens :
        /\ reg[g].at # "idle" => reg[g].host \in Hosts
        /\ Serves(reg[g]) => entries[reg[g].host] = g \/ g \in doomed

\* An entry is of a registration for that name whose watcher has yet to remove it.
Entries ==
    \A h \in Hosts : entries[h] # None =>
        reg[entries[h]].at = "registered" /\ reg[entries[h]].host = h /\ reg[entries[h]].watched

\* A client that was routed holds a registration, never a candidate; one that waits
\* to clean up after it has retired it.
ClientOK(q) ==
    /\ q.at \in Unrouted => q.host = None
    /\ q.at = "lookup" => q.host \in Hosts
    /\ q.at \in Routed => q.gen \in Gens /\ reg[q.gen].at \in {"registered", "over"}
    /\ q.at = "retiring" => reg[q.gen].retired \/ reg[q.gen].at = "over"
Routes == \A c \in Clients : ClientOK(client[c])

\* Nothing is doomed before shutdown_all has emptied the map.
Drains == phase \in {"up", "draining"} => doomed = {}

IInv == TypeOK /\ Regs /\ Entries /\ Routes /\ Drains
Kept == IInv' /\ EarlyCloseHasCause

-----------------------------------------------------------------------------
LEMMA InitIInv == ASSUME RouterConstants, Init PROVE IInv
<1>1. NoReg \in Reg /\ NoReg.at = "idle"
  BY DEF NoReg, Reg
<1>2. NoClient \in Client /\ NoClient.at = "idle" /\ NoClient.host = None
  BY DEF NoClient, Client, Unrouted
<1>3. TypeOK
  BY <1>1, <1>2 DEF Init, TypeOK
<1>4. Regs /\ Entries
  BY <1>1 DEF Init, Regs, Entries, Serves
<1>5. Routes
  BY <1>2 DEF Init, Routes, ClientOK, Unrouted, Routed
<1> QED
  BY <1>3, <1>4, <1>5 DEF IInv, Init, Drains

\* Only one client moves.
LEMMA ClientMoves ==
  ASSUME IInv, NEW c \in Clients, NEW q \in Client, client' = [client EXCEPT ![c] = q],
         UNCHANGED <<entries, reg, doomed, phase>>, ClientOK(q)
  PROVE  IInv'
<1>1. TypeOK'
  BY DEF IInv, TypeOK
<1>2. Regs' /\ Entries'
  BY DEF IInv, Regs, Entries
<1>3. Routes'
  BY DEF IInv, TypeOK, Routes, ClientOK
<1> QED
  BY <1>1, <1>2, <1>3 DEF IInv, Drains

LEMMA RemoveIs ==
  ASSUME TypeOK, NEW g \in Gens, reg[g].host \in Hosts
  PROVE  LET es == Remove(entries, g) IN
         /\ es \in [Hosts -> Gens \cup {None}]
         /\ \A h \in Hosts : es[h] = entries[h] \/ (es[h] = None /\ entries[h] = g)
BY DEF Remove, TypeOK

\* Only one registration moves, forwards, and its entry may go once it does not serve.
LEMMA RegMoves ==
  ASSUME RouterConstants, IInv, NEW g \in Gens, NEW r \in Reg, reg' = [reg EXCEPT ![g] = r],
         r.at # "idle" => r.host \in Hosts, reg[g].at # "idle" => r.host = reg[g].host,
         reg[g].at = "registered" => r.at \in {"registered", "over"},
         reg[g].at = "over" => r.at = "over",
         reg[g].at = "registered" /\ reg[g].retired => r.retired \/ r.at = "over",
         Serves(r) => Serves(reg[g]),
         entries' \in [Hosts -> Gens \cup {None}],
         \A h \in Hosts : entries'[h] = entries[h] \/ (entries'[h] = None /\ entries[h] = g),
         ~Serves(r) \/ (entries' = entries /\ doomed' = doomed), doomed' \in {doomed, doomed \ {g}},
         UNCHANGED phase,
         \A h \in Hosts : entries'[h] = g => r.at = "registered" /\ r.watched
  PROVE  /\ Regs' /\ Entries' /\ Drains' /\ reg' \in [Gens -> Reg] /\ doomed' \subseteq Gens
         /\ \A q \in Client : ClientOK(q) => ClientOK(q)'
<1>1. /\ reg \in [Gens -> Reg] /\ entries \in [Hosts -> Gens \cup {None}] /\ doomed \subseteq Gens
      /\ None \notin Gens
  BY DEF IInv, TypeOK, RouterConstants
<1>2. reg'[g] = r /\ reg' \in [Gens -> Reg] /\ \A k \in Gens : k # g => reg'[k] = reg[k]
  BY <1>1
<1>3. Regs'
  <2>1. ASSUME NEW k \in Gens, k # g
        PROVE  /\ reg'[k].at # "idle" => reg'[k].host \in Hosts
               /\ Serves(reg'[k]) => entries'[reg'[k].host] = k \/ k \in doomed'
    <3>1. /\ reg[k].at # "idle" => reg[k].host \in Hosts
          /\ Serves(reg[k]) => entries[reg[k].host] = k \/ k \in doomed
      BY DEF IInv, Regs
    <3>2. Serves(reg[k]) => reg[k].at # "idle"
      BY DEF Serves
    <3> QED
      BY <1>2, <2>1, <3>1, <3>2
  <2>2. Serves(r) => entries'[r.host] = g \/ g \in doomed'
    <3>1. Serves(reg[g]) => reg[g].at # "idle" /\ (entries[reg[g].host] = g \/ g \in doomed)
      BY DEF IInv, Regs, Serves
    <3> QED
      BY <3>1
  <2> QED
    BY <1>2, <2>1, <2>2 DEF Regs
<1>4. Entries'
  <2> SUFFICES ASSUME NEW h \in Hosts, entries'[h] # None
               PROVE  /\ reg'[entries'[h]].at = "registered" /\ reg'[entries'[h]].host = h
                      /\ reg'[entries'[h]].watched
    BY DEF Entries
  <2>1. /\ entries'[h] = entries[h] /\ entries[h] \in Gens
        /\ reg[entries[h]].at = "registered" /\ reg[entries[h]].host = h /\ reg[entries[h]].watched
    BY <1>1 DEF IInv, Entries
  <2>2. CASE entries[h] = g
    <3>1. r.at = "registered" /\ r.watched /\ r.host = h
      BY <2>1, <2>2
    <3> QED
      BY <1>2, <2>1, <2>2, <3>1
  <2>3. CASE entries[h] # g
    BY <1>2, <2>1, <2>3
  <2> QED
    BY <2>2, <2>3
<1>5. ASSUME NEW q \in Client, ClientOK(q) PROVE ClientOK(q)'
  <2>1. CASE q.at \in Routed /\ q.gen = g
    BY <1>2, <1>5, <2>1 DEF ClientOK, Routed
  <2>2. CASE q.at \in Routed /\ q.gen # g
    BY <1>2, <1>5, <2>2 DEF ClientOK, Routed
  <2>3. CASE q.at \notin Routed
    BY <1>5, <2>3 DEF ClientOK, Routed
  <2> QED
    BY <2>1, <2>2, <2>3
<1>6. Drains'
  BY DEF IInv, Drains
<1> QED
  BY <1>1, <1>2, <1>3, <1>4, <1>5, <1>6

LEMMA Quietly == ASSUME UNCHANGED client PROVE EarlyCloseHasCause
BY DEF EarlyCloseHasCause, In

LEMMA EntriesStay ==
  ASSUME IInv, UNCHANGED entries
  PROVE  /\ entries' \in [Hosts -> Gens \cup {None}]
         /\ \A h \in Hosts : entries'[h] = entries[h] \/ (entries'[h] = None /\ entries[h] = None)
BY DEF IInv, TypeOK

\* A step of one registration that no client takes part in.
LEMMA RegStep ==
  ASSUME RouterConstants, IInv, NEW g \in Gens, NEW r \in Reg, reg' = [reg EXCEPT ![g] = r],
         r.at # "idle" => r.host \in Hosts, reg[g].at # "idle" => r.host = reg[g].host,
         reg[g].at = "registered" => r.at \in {"registered", "over"},
         reg[g].at = "over" => r.at = "over",
         reg[g].at = "registered" /\ reg[g].retired => r.retired \/ r.at = "over",
         Serves(r) => Serves(reg[g]),
         \A h \in Hosts : entries[h] = g => r.at = "registered" /\ r.watched,
         UNCHANGED <<entries, client, phase>>, ~Serves(r) \/ doomed' = doomed, doomed' \in {doomed, doomed \ {g}}
  PROVE  Kept
<1>1. /\ Regs' /\ Entries' /\ Drains' /\ reg' \in [Gens -> Reg] /\ doomed' \subseteq Gens
      /\ \A q \in Client : ClientOK(q) => ClientOK(q)'
  BY EntriesStay, RegMoves
<1>2. TypeOK' /\ Routes'
  BY <1>1 DEF IInv, TypeOK, Routes
<1> QED
  BY <1>1, <1>2, Quietly DEF Kept, IInv

LEMMA RegBefore ==
  ASSUME RouterConstants, IInv, NEW g \in Gens
  PROVE  /\ reg[g] \in Reg /\ (reg[g].at # "idle" => reg[g].host \in Hosts)
         /\ reg \in [Gens -> Reg] /\ None \notin Gens
         /\ \A h \in Hosts : entries[h] = g => reg[g].at = "registered" /\ reg[g].host = h /\ reg[g].watched
BY DEF IInv, TypeOK, Regs, Entries, RouterConstants

LEMMA AdmitStep == ASSUME RouterConstants, IInv, NEW g \in Gens, Admit(g) PROVE Kept
<1> PICK h \in Hosts : reg' = [reg EXCEPT ![g] = [NoReg EXCEPT !.at = "opening", !.host = h, !.live = TRUE]]
  BY DEF Admit
<1> DEFINE r == [NoReg EXCEPT !.at = "opening", !.host = h, !.live = TRUE]
<1>1. reg[g].at = "idle" /\ UNCHANGED <<entries, client, phase, doomed>> /\ reg' = [reg EXCEPT ![g] = r]
  BY DEF Admit, Unchanged
<1>2. NoReg \in Reg
  BY DEF NoReg, Reg
<1>3. r \in Reg /\ r.at = "opening" /\ r.host = h
  BY <1>2 DEF Reg
<1> HIDE DEF r
<1>4. ~Serves(r)
  BY <1>3 DEF Serves
<1>5. \A k \in Hosts : entries[k] # g
  BY <1>1, RegBefore
<1> QED
  BY <1>1, <1>3, <1>4, <1>5, RegStep

LEMMA AdmissionFailsStep == ASSUME RouterConstants, IInv, NEW g \in Gens, AdmissionFails(g) PROVE Kept
<1> DEFINE r == [reg[g] EXCEPT !.at = "over", !.closing = TRUE]
<1>1. /\ reg[g].at = "opening" /\ UNCHANGED <<entries, client, phase, doomed>> /\ reg[g] \in Reg
      /\ reg[g].host \in Hosts /\ reg' = [reg EXCEPT ![g] = r] /\ \A k \in Hosts : entries[k] # g
  BY RegBefore DEF AdmissionFails, Unchanged
<1>2. r \in Reg /\ r.at = "over" /\ r.host = reg[g].host
  BY <1>1 DEF Reg
<1> HIDE DEF r
<1>3. ~Serves(r)
  BY <1>2 DEF Serves
<1> QED
  BY <1>1, <1>2, <1>3, RegStep

LEMMA OverIs == ASSUME NEW r \in Reg PROVE Over(r) \in Reg /\ Over(r).at = "over" /\ Over(r).host = r.host
<1>1. NoReg \in Reg
  BY DEF NoReg, Reg
<1> QED
  BY <1>1 DEF Over, Reg

LEMMA GoneIs ==
  ASSUME NEW r \in Reg
  PROVE  /\ Gone(r) \in Reg /\ Gone(r).at = r.at /\ Gone(r).host = r.host /\ ~Serves(Gone(r))
         /\ r.at # "over" => Gone(r).retired = r.retired /\ Gone(r).watched = r.watched
<1>1. CASE r.at = "over"
  BY <1>1, OverIs DEF Gone, Serves
<1>2. CASE r.at # "over"
  <2> DEFINE q == [r EXCEPT !.live = FALSE, !.closing = FALSE]
  <2>1. Gone(r) = q
    BY <1>2 DEF Gone
  <2>2. q \in Reg /\ q.at = r.at /\ q.host = r.host /\ q.retired = r.retired /\ q.watched = r.watched /\ q.live = FALSE
    BY DEF Reg
  <2> HIDE DEF q
  <2> QED
    BY <1>2, <2>1, <2>2 DEF Serves
<1> QED
  BY <1>1, <1>2

\* The connection ends: by a shutdown, or by itself.
LEMMA GoneStep == ASSUME RouterConstants, IInv, NEW g \in Gens, Shutdown(g) \/ CarrierEnds(g) PROVE Kept
<1> DEFINE r == Gone(reg[g])
<1>1. reg[g].live /\ UNCHANGED <<entries, client, phase, doomed>> /\ reg' = [reg EXCEPT ![g] = r]
  BY RegBefore DEF Shutdown, CarrierEnds, Unchanged
<1>2. /\ r \in Reg /\ r.at = reg[g].at /\ r.host = reg[g].host /\ ~Serves(r)
      /\ reg[g].at # "over" => r.retired = reg[g].retired /\ r.watched = reg[g].watched
  BY RegBefore, GoneIs
<1>3. /\ reg[g].at # "idle" => reg[g].host \in Hosts
      /\ \A h \in Hosts : entries[h] = g => reg[g].at = "registered" /\ reg[g].watched
  BY RegBefore
<1> HIDE DEF r
<1>4. \A h \in Hosts : entries[h] = g => r.at = "registered" /\ r.watched
  BY <1>2, <1>3
<1> QED
  BY <1>1, <1>2, <1>3, <1>4, RegStep

LEMMA ExpireStep == ASSUME RouterConstants, IInv, NEW g \in Gens, Expire(g) PROVE Kept
<1> DEFINE r == [reg[g] EXCEPT !.retired = TRUE, !.closing = TRUE]
<1>1. /\ reg[g].at = "registered" /\ UNCHANGED <<entries, client, phase, doomed>> /\ reg[g] \in Reg
      /\ reg[g].host \in Hosts /\ reg' = [reg EXCEPT ![g] = r]
  BY RegBefore DEF Expire, Unchanged, Registered
<1>2. r \in Reg /\ r.at = reg[g].at /\ r.host = reg[g].host /\ r.retired /\ r.watched = reg[g].watched
  BY <1>1 DEF Reg
<1> HIDE DEF r
<1>3. ~Serves(r)
  BY <1>2 DEF Serves
<1>4. /\ reg[g].at # "idle" => reg[g].host \in Hosts
      /\ \A h \in Hosts : entries[h] = g => r.at = "registered" /\ r.watched
  BY <1>2, RegBefore
<1> QED
  BY <1>1, <1>2, <1>3, <1>4, RegStep

LEMMA RetireDoomedStep == ASSUME RouterConstants, IInv, NEW g \in Gens, RetireDoomed(g) PROVE Kept
<1> DEFINE r == [reg[g] EXCEPT !.retired = TRUE, !.closing = TRUE]
<1>1. /\ g \in doomed /\ UNCHANGED <<entries, client, phase>> /\ doomed' = doomed \ {g} /\ reg[g] \in Reg
      /\ reg' = [reg EXCEPT ![g] = r]
  BY RegBefore DEF RetireDoomed
<1>2. r \in Reg /\ r.at = reg[g].at /\ r.host = reg[g].host /\ r.retired /\ r.watched = reg[g].watched
  BY <1>1 DEF Reg
<1> HIDE DEF r
<1>3. ~Serves(r)
  BY <1>2 DEF Serves
<1>4. /\ reg[g].at # "idle" => reg[g].host \in Hosts
      /\ \A h \in Hosts : entries[h] = g => r.at = "registered" /\ r.watched
  BY <1>2, RegBefore
<1> QED
  BY <1>1, <1>2, <1>3, <1>4, RegStep

LEMMA AdmissionEndsStep == ASSUME RouterConstants, IInv, NEW g \in Gens, AdmissionEnds(g) PROVE Kept
<1> DEFINE r == Over(reg[g])
<1>1. /\ reg[g].at = "registered" /\ ~reg[g].watched /\ UNCHANGED <<entries, client, phase, doomed>> /\ reg[g] \in Reg
      /\ reg[g].host \in Hosts /\ reg' = [reg EXCEPT ![g] = r] /\ \A k \in Hosts : entries[k] # g
  BY RegBefore DEF AdmissionEnds, Unchanged, Registered
<1>2. r \in Reg /\ r.at = "over" /\ r.host = reg[g].host
  BY <1>1, OverIs
<1> HIDE DEF r
<1>3. ~Serves(r)
  BY <1>2 DEF Serves
<1> QED
  BY <1>1, <1>2, <1>3, RegStep

LEMMA WatchStep == ASSUME RouterConstants, IInv, NEW g \in Gens, Watch(g) PROVE Kept
<1> DEFINE r == [reg[g] EXCEPT !.watched = FALSE]
<1>1. /\ reg[g].at = "registered" /\ ~reg[g].live /\ UNCHANGED <<client, phase, doomed>> /\ reg[g] \in Reg
      /\ reg[g].host \in Hosts /\ reg' = [reg EXCEPT ![g] = r] /\ entries' = Remove(entries, g)
      /\ TypeOK /\ None \notin Gens
  BY RegBefore DEF Watch, Unchanged, Registered, IInv
<1>2. /\ r \in Reg /\ r.at = reg[g].at /\ r.host = reg[g].host /\ r.live = reg[g].live
      /\ r.retired = reg[g].retired
  BY <1>1 DEF Reg
<1> HIDE DEF r
<1>3. ~Serves(r)
  BY <1>1, <1>2 DEF Serves
<1>4. /\ entries' \in [Hosts -> Gens \cup {None}]
      /\ \A h \in Hosts : entries'[h] = entries[h] \/ (entries'[h] = None /\ entries[h] = g)
  BY <1>1, RemoveIs
<1>5. \A h \in Hosts : entries'[h] # g
  <2>1. \A h \in Hosts : entries[h] = g => h = reg[g].host
    BY RegBefore
  <2> QED
    BY <1>1, <2>1 DEF Remove, TypeOK
<1>6. /\ Regs' /\ Entries' /\ Drains' /\ reg' \in [Gens -> Reg] /\ doomed' \subseteq Gens
      /\ \A q \in Client : ClientOK(q) => ClientOK(q)'
  BY <1>1, <1>2, <1>3, <1>4, <1>5, RegMoves
<1>7. TypeOK' /\ Routes'
  BY <1>1, <1>4, <1>6 DEF IInv, TypeOK, Routes
<1> QED
  BY <1>1, <1>6, <1>7, Quietly DEF Kept, IInv

\* The displaced registration is retired in the step that takes its name from it.
LEMMA CommitStep == ASSUME RouterConstants, IInv, NEW g \in Gens, Commit(g) PROVE Kept
<1> DEFINE name == reg[g].host
           old == entries[name]
           r == [reg[g] EXCEPT !.at = "registered", !.watched = TRUE]
           o(k) == [reg[k] EXCEPT !.retired = TRUE, !.closing = TRUE]
<1>1. /\ reg[g].at = "opening" /\ UNCHANGED <<client, phase, doomed>> /\ reg[g] \in Reg /\ name \in Hosts
      /\ entries' = [entries EXCEPT ![name] = g] /\ None \notin Gens /\ entries \in [Hosts -> Gens \cup {None}]
      /\ reg \in [Gens -> Reg] /\ \A k \in Hosts : entries[k] # g
  BY RegBefore DEF Commit, Unchanged, IInv, TypeOK
<1>2. reg' = [k \in Gens |-> IF k = g THEN r ELSE IF k = old THEN o(k) ELSE reg[k]]
  BY <1>1 DEF Commit
<1>3. /\ r \in Reg /\ r.at = "registered" /\ r.host = name /\ r.watched /\ r.retired = reg[g].retired
      /\ r.live = reg[g].live
  BY <1>1 DEF Reg
<1>4. ASSUME NEW k \in Gens
      PROVE  o(k) \in Reg /\ o(k).at = reg[k].at /\ o(k).host = reg[k].host /\ o(k).watched = reg[k].watched /\ o(k).retired
  BY <1>1 DEF Reg
<1> HIDE DEF r, o
<1>5. /\ reg'[g] = r /\ reg' \in [Gens -> Reg]
      /\ \A k \in Gens \ {g} : /\ reg'[k].at = reg[k].at /\ reg'[k].host = reg[k].host
                               /\ reg'[k].watched = reg[k].watched
                               /\ IF k = old THEN reg'[k].retired ELSE reg'[k] = reg[k]
  BY <1>1, <1>2, <1>3, <1>4
<1>6. entries'[name] = g /\ entries' \in [Hosts -> Gens \cup {None}] /\ \A h \in Hosts \ {name} : entries'[h] = entries[h]
  BY <1>1
<1> HIDE DEF name, old
<1>7. Regs'
  <2>1. ASSUME NEW k \in Gens \ {g}
        PROVE  /\ reg'[k].at # "idle" => reg'[k].host \in Hosts
               /\ Serves(reg'[k]) => entries'[reg'[k].host] = k \/ k \in doomed'
    <3>1. /\ reg[k].at # "idle" => reg[k].host \in Hosts
          /\ Serves(reg[k]) => entries[reg[k].host] = k \/ k \in doomed
      BY DEF IInv, Regs
    <3>2. Serves(reg'[k]) => k # old /\ reg'[k] = reg[k] /\ Serves(reg[k]) /\ reg[k].at # "idle"
      BY <1>5 DEF Serves
    <3>3. Serves(reg[k]) /\ k # old /\ k \notin doomed => entries[reg[k].host] = k /\ reg[k].host # name
      BY <3>1 DEF old
    <3> QED
      BY <1>1, <1>5, <1>6, <3>1, <3>2, <3>3
  <2>2. r.host \in Hosts /\ entries'[r.host] = g
    BY <1>1, <1>3, <1>6
  <2> QED
    BY <1>5, <2>1, <2>2 DEF Regs
<1>8. Entries'
  <2> SUFFICES ASSUME NEW h \in Hosts, entries'[h] # None
               PROVE  /\ reg'[entries'[h]].at = "registered" /\ reg'[entries'[h]].host = h
                      /\ reg'[entries'[h]].watched
    BY DEF Entries
  <2>1. CASE h = name
    BY <1>3, <1>5, <1>6, <2>1
  <2>2. CASE h # name
    <3>1. entries'[h] = entries[h] /\ entries[h] \in Gens \ {g}
      BY <1>1, <1>6, <2>2
    <3>2. reg[entries[h]].at = "registered" /\ reg[entries[h]].host = h /\ reg[entries[h]].watched
      BY <3>1 DEF IInv, Entries
    <3> QED
      BY <1>5, <3>1, <3>2
  <2> QED
    BY <2>1, <2>2
<1>9. Routes'
  <2> SUFFICES ASSUME NEW c \in Clients PROVE ClientOK(client[c])'
    BY DEF Routes
  <2>1. ClientOK(client[c]) /\ client'[c] = client[c]
    BY <1>1 DEF IInv, Routes
  <2> DEFINE q == client[c]
  <2>2. CASE q.at \in Routed
    <3>1. q.gen \in Gens \ {g} /\ reg[q.gen].at \in {"registered", "over"}
      BY <1>1, <2>1, <2>2 DEF ClientOK
    <3>2. reg[q.gen].retired => reg'[q.gen].retired
      BY <1>5, <3>1
    <3> QED
      BY <1>5, <2>1, <2>2, <3>1, <3>2 DEF ClientOK, Routed, Unrouted
  <2>3. CASE q.at \notin Routed
    BY <2>1, <2>3 DEF ClientOK, Routed
  <2> QED
    BY <2>2, <2>3
<1>10. TypeOK'
  BY <1>1, <1>5, <1>6 DEF IInv, TypeOK
<1> QED
  BY <1>1, <1>7, <1>8, <1>9, <1>10, Quietly DEF Kept, IInv, Drains

-----------------------------------------------------------------------------
(* The steps of a client.                                                  *)

Cause(c) ==
    \/ client[c].at \in {"retiring", "held"}
    \/ client[c].at = "refused" /\ Count("held") >= HeldSlots
    \/ client[c].at = "spliced" /\ (client[c].reset \/ ~reg[client[c].gen].live)

LEMMA Caused ==
  ASSUME NEW c \in Clients, \A d \in Clients \ {c} : client'[d] = client[d],
         client'[c].at = "closed" /\ client[c].host # None /\ ~client[c].answered => Cause(c)
  PROVE  EarlyCloseHasCause
<1>1. ASSUME NEW d \in Clients, ~In(d, "closed"), client'[d].at = "closed", client[d].host # None, ~client[d].answered
      PROVE  /\ d = c /\ Cause(c)
  BY <1>1 DEF In
<1> QED
  BY <1>1 DEF EarlyCloseHasCause, Cause, In

\* A step of one client that the registry takes no part in.
LEMMA ClientKept ==
  ASSUME RouterConstants, IInv, NEW c \in Clients, NEW q \in Client, client' = [client EXCEPT ![c] = q],
         Quiet, ClientOK(q), q.at = "closed" /\ client[c].host # None /\ ~client[c].answered => Cause(c)
  PROVE  Kept
<1>1. client'[c] = q /\ \A d \in Clients \ {c} : client'[d] = client[d]
  BY DEF IInv, TypeOK
<1>2. IInv'
  BY ClientMoves DEF Quiet
<1>3. EarlyCloseHasCause
  BY <1>1, Caused
<1> QED
  BY <1>2, <1>3 DEF Kept

Ended == {"refused", "held", "closed", "left"}

LEMMA EndedIs == ASSUME NEW q \in Client, q.at \in Ended PROVE ClientOK(q)
BY DEF ClientOK, Ended, Unrouted, Routed

LEMMA ClientBefore ==
  ASSUME IInv, NEW c \in Clients
  PROVE  client[c] \in Client /\ ClientOK(client[c]) /\ client \in [Clients -> Client]
BY DEF IInv, TypeOK, Routes

LEMMA Closes ==
  ASSUME RouterConstants, IInv, NEW c \in Clients, Close(c), Quiet,
         client[c].host # None /\ ~client[c].answered => Cause(c)
  PROVE  Kept
<1> DEFINE q == [NoClient EXCEPT !.at = "closed"]
<1>1. NoClient \in Client
  BY DEF NoClient, Client, Unrouted
<1>2. q \in Client /\ q.at = "closed"
  BY <1>1 DEF Client
<1>3. client' = [client EXCEPT ![c] = q]
  BY DEF Close
<1> HIDE DEF q
<1> QED
  BY <1>2, <1>3, EndedIs, ClientKept DEF Ended

LEMMA Leaves == ASSUME RouterConstants, IInv, NEW c \in Clients, Leave(c), Quiet PROVE Kept
<1> DEFINE q == [NoClient EXCEPT !.at = "left"]
<1>1. NoClient \in Client
  BY DEF NoClient, Client, Unrouted
<1>2. q \in Client /\ q.at = "left"
  BY <1>1 DEF Client
<1>3. client' = [client EXCEPT ![c] = q]
  BY DEF Leave
<1> HIDE DEF q
<1> QED
  BY <1>2, <1>3, EndedIs, ClientKept DEF Ended

LEMMA Refuses == ASSUME RouterConstants, IInv, NEW c \in Clients, Refuse(c), Quiet PROVE Kept
<1> DEFINE q == [client[c] EXCEPT !.at = "refused", !.gen = None]
<1>1. client[c] \in Client
  BY ClientBefore
<1>2. q \in Client /\ q.at = "refused"
  BY <1>1 DEF Client
<1>3. client' = [client EXCEPT ![c] = q]
  BY ClientBefore DEF Refuse
<1> HIDE DEF q
<1> QED
  BY <1>2, <1>3, EndedIs, ClientKept DEF Ended

\* A client goes on to a point where what it holds is still right.
LEMMA Goes ==
  ASSUME RouterConstants, IInv, NEW c \in Clients, Quiet,
         \/ client[c].at \in Unrouted /\ (Go(c, "sni") \/ Go(c, "control"))
         \/ client[c].at \in Routed /\ (Go(c, "header") \/ Go(c, "spliced"))
         \/ Go(c, "held")
  PROVE  Kept
<1>1. client[c] \in Client /\ ClientOK(client[c]) /\ client \in [Clients -> Client]
  BY ClientBefore
<1>2. ASSUME NEW at \in {"sni", "control", "header", "spliced", "held"}, Go(c, at),
             \/ client[c].at \in Unrouted /\ at \in {"sni", "control"}
             \/ client[c].at \in Routed /\ at \in {"header", "spliced"}
             \/ at = "held"
      PROVE  Kept
  <2> DEFINE q == [client[c] EXCEPT !.at = at]
  <2>1. q \in Client
    BY <1>1 DEF Client, Unrouted, Routed
  <2>2. q.at = at /\ q.host = client[c].host /\ q.gen = client[c].gen
    BY <1>1 DEF Client
  <2>3. client' = [client EXCEPT ![c] = q]
    BY <1>1, <1>2 DEF Go
  <2> HIDE DEF q
  <2>4. ClientOK(q)
    BY <1>1, <1>2, <2>2 DEF ClientOK, Unrouted, Routed
  <2> QED
    BY <1>2, <2>1, <2>2, <2>3, <2>4, ClientKept
<1> QED
  BY <1>2

LEMMA ArriveStep == ASSUME RouterConstants, IInv, NEW c \in Clients, Arrive(c) PROVE Kept
<1>1. client[c].at \in Unrouted /\ client[c].host = None /\ Quiet /\ (Close(c) \/ Go(c, "sni"))
  BY ClientBefore DEF Arrive, In, ClientOK, Unrouted
<1> QED
  BY <1>1, Closes, Goes

LEMMA HelloStep == ASSUME RouterConstants, IInv, NEW c \in Clients, Hello(c) PROVE Kept
<1>1. client[c].at \in Unrouted /\ client[c].host = None /\ Quiet
  BY ClientBefore DEF Hello, In, ClientOK, Unrouted
<1>2. ASSUME NEW h \in Hosts, client' = [client EXCEPT ![c].at = "lookup", ![c].host = h] PROVE Kept
  <2> DEFINE q == [client[c] EXCEPT !.at = "lookup", !.host = h]
  <2>1. client[c] \in Client /\ client \in [Clients -> Client]
    BY ClientBefore
  <2>2. q \in Client /\ q.at = "lookup" /\ q.host = h
    BY <2>1 DEF Client
  <2>3. client' = [client EXCEPT ![c] = q]
    BY <1>2, <2>1
  <2> HIDE DEF q
  <2>4. ClientOK(q)
    BY <2>2 DEF ClientOK, Unrouted, Routed
  <2> QED
    BY <1>1, <2>2, <2>3, <2>4, ClientKept
<1>3. CASE Close(c)
  BY <1>1, <1>3, Closes
<1>4. CASE Go(c, "control")
  BY <1>1, <1>4, Goes
<1>5. ASSUME NEW n \in Routings,
             CASE n = "reserved" -> Go(c, "control")
               [] n = "invalid"  -> Close(c)
               [] OTHER -> client' = [client EXCEPT ![c].at = "lookup", ![c].host = n]
      PROVE  Kept
  <2>1. CASE n = "reserved"
    BY <1>4, <1>5, <2>1
  <2>2. CASE n = "invalid"
    BY <1>3, <1>5, <2>2
  <2>3. CASE n # "reserved" /\ n # "invalid"
    BY <1>2, <1>5, <2>3 DEF Routings
  <2> QED
    BY <2>1, <2>2, <2>3
<1> QED
  BY <1>3, <1>5 DEF Hello

LEMMA LookupStep == ASSUME RouterConstants, IInv, NEW c \in Clients, Lookup(c) PROVE Kept
<1> DEFINE g == entries[client[c].host]
<1>1. /\ client[c] \in Client /\ client \in [Clients -> Client] /\ client[c].host \in Hosts /\ Quiet
      /\ g \in Gens \cup {None}
  BY ClientBefore DEF Lookup, In, ClientOK, IInv, TypeOK
<1>2. CASE Refuse(c)
  BY <1>1, <1>2, Refuses
<1>3. CASE g # None /\ client' = [client EXCEPT ![c].at = "opening", ![c].gen = g]
  <2> DEFINE q == [client[c] EXCEPT !.at = "opening", !.gen = g]
  <2>1. q \in Client /\ q.at = "opening" /\ q.gen = g /\ q.host = client[c].host
    BY <1>1 DEF Client, Routed
  <2>2. client' = [client EXCEPT ![c] = q]
    BY <1>1, <1>3
  <2>3. g \in Gens /\ reg[g].at = "registered"
    BY <1>1, <1>3 DEF IInv, Entries
  <2> HIDE DEF q
  <2>4. ClientOK(q)
    BY <2>1, <2>3 DEF ClientOK, Unrouted, Routed
  <2> QED
    BY <1>1, <2>1, <2>2, <2>4, ClientKept
<1> QED
  BY <1>2, <1>3 DEF Lookup

LEMMA OpenEndsStep == ASSUME RouterConstants, IInv, NEW c \in Clients, OpenEnds(c) PROVE Kept
<1>1. client[c].at \in Routed /\ Quiet /\ (Refuse(c) \/ Go(c, "header"))
  BY DEF OpenEnds, In, Routed
<1> QED
  BY <1>1, Refuses, Goes

LEMMA HeaderEndsStep == ASSUME RouterConstants, IInv, NEW c \in Clients, HeaderEnds(c) PROVE Kept
<1>1. client[c].at \in Routed /\ Quiet /\ (Refuse(c) \/ Go(c, "spliced"))
  BY DEF HeaderEnds, In, Routed
<1> QED
  BY <1>1, Refuses, Goes

LEMMA AnswerStep == ASSUME RouterConstants, IInv, NEW c \in Clients, Answer(c) PROVE Kept
<1> DEFINE q == [client[c] EXCEPT !.answered = TRUE]
<1>1. client[c] \in Client /\ client \in [Clients -> Client] /\ Quiet /\ client[c].at = "spliced" /\ ClientOK(client[c])
  BY ClientBefore DEF Answer, In
<1>2. q \in Client /\ q.at = client[c].at /\ q.gen = client[c].gen /\ q.host = client[c].host
  BY <1>1 DEF Client
<1>3. client' = [client EXCEPT ![c] = q]
  BY <1>1 DEF Answer
<1> HIDE DEF q
<1>4. ClientOK(q)
  BY <1>1, <1>2 DEF ClientOK
<1> QED
  BY <1>1, <1>2, <1>3, <1>4, ClientKept

LEMMA StreamResetStep == ASSUME RouterConstants, IInv, NEW c \in Clients, StreamReset(c) PROVE Kept
<1> DEFINE q == [client[c] EXCEPT !.reset = TRUE]
<1>1. client[c] \in Client /\ client \in [Clients -> Client] /\ Quiet /\ client[c].at = "spliced" /\ ClientOK(client[c])
  BY ClientBefore DEF StreamReset, In
<1>2. q \in Client /\ q.at = client[c].at /\ q.gen = client[c].gen /\ q.host = client[c].host
  BY <1>1 DEF Client
<1>3. client' = [client EXCEPT ![c] = q]
  BY <1>1 DEF StreamReset
<1> HIDE DEF q
<1>4. ClientOK(q)
  BY <1>1, <1>2 DEF ClientOK
<1> QED
  BY <1>1, <1>2, <1>3, <1>4, ClientKept

LEMMA SpliceEndsStep ==
  ASSUME RouterConstants, IInv, NEW c \in Clients, SpliceEnds(c) \/ SpliceFails(c) PROVE Kept
<1>1. /\ Quiet /\ client[c].at = "spliced"
      /\ \/ Leave(c)
         \/ Close(c) /\ (client[c].answered \/ client[c].reset \/ ~reg[client[c].gen].live)
  BY DEF SpliceEnds, SpliceFails, In
<1> QED
  BY <1>1, Closes, Leaves DEF Cause

LEMMA EndingsStep ==
  ASSUME RouterConstants, IInv, NEW c \in Clients, ControlEnds(c) \/ Hold(c) \/ HeldEnds(c) PROVE Kept
<1>1. CASE ControlEnds(c)
  <2>1. client[c].host = None /\ Quiet /\ Close(c)
    BY <1>1, ClientBefore DEF ControlEnds, In, ClientOK, Unrouted
  <2> QED
    BY <2>1, Closes
<1>2. CASE Hold(c)
  BY <1>2, Closes, Goes DEF Hold, In, Cause
<1>3. CASE HeldEnds(c)
  BY <1>3, Closes, Leaves DEF HeldEnds, In, Cause
<1> QED
  BY <1>1, <1>2, <1>3

\* The deadline retires the registration, and the client waits for the map's lock.
LEMMA UnansweredStep == ASSUME RouterConstants, IInv, NEW c \in Clients, Unanswered(c) PROVE Kept
<1> DEFINE g == client[c].gen
           r == [reg[g] EXCEPT !.retired = TRUE]
           q == [client[c] EXCEPT !.at = "retiring"]
<1>1. /\ client[c] \in Client /\ client \in [Clients -> Client] /\ ClientOK(client[c]) /\ client[c].at \in Routed
      /\ UNCHANGED <<entries, phase, doomed>>
  BY ClientBefore DEF Unanswered, Routed
<1>2. g \in Gens /\ reg[g].at \in {"registered", "over"}
  BY <1>1 DEF ClientOK
<1>3. /\ reg[g] \in Reg /\ reg[g].host \in Hosts /\ reg \in [Gens -> Reg] /\ None \notin Gens
      /\ \A h \in Hosts : entries[h] = g => reg[g].at = "registered" /\ reg[g].watched
  BY <1>2, RegBefore
<1>4. r \in Reg /\ r.at = reg[g].at /\ r.host = reg[g].host /\ r.retired /\ r.watched = reg[g].watched
  BY <1>3 DEF Reg
<1>5. q \in Client /\ q.at = "retiring" /\ q.gen = g /\ q.host = client[c].host
  BY <1>1 DEF Client, Routed
<1>6. reg' = [reg EXCEPT ![g] = r] /\ client' = [client EXCEPT ![c] = q]
  BY <1>1, <1>3 DEF Unanswered, Go
<1> HIDE DEF r, q, g
<1>7. ~Serves(r) /\ (\A h \in Hosts : entries[h] = g => r.at = "registered" /\ r.watched)
  BY <1>3, <1>4 DEF Serves
<1>8. /\ Regs' /\ Entries' /\ Drains' /\ reg' \in [Gens -> Reg] /\ doomed' \subseteq Gens
      /\ \A k \in Client : ClientOK(k) => ClientOK(k)'
  BY <1>1, <1>2, <1>3, <1>4, <1>6, <1>7, EntriesStay, RegMoves
<1>9. client'[c] = q /\ client' \in [Clients -> Client] /\ \A d \in Clients \ {c} : client'[d] = client[d]
  BY <1>1, <1>5, <1>6
<1>10. ClientOK(client[c])'
  <2>1. reg'[g] = r
    BY <1>2, <1>3, <1>6
  <2> QED
    BY <1>2, <1>4, <1>5, <1>9, <2>1 DEF ClientOK, Unrouted, Routed
<1>11. Routes'
  BY <1>8, <1>9, <1>10, ClientBefore DEF Routes
<1>12. TypeOK'
  BY <1>1, <1>8, <1>9 DEF IInv, TypeOK
<1>13. EarlyCloseHasCause
  BY <1>5, <1>9, Caused
<1> QED
  BY <1>8, <1>11, <1>12, <1>13 DEF Kept, IInv

LEMMA RetiredStep == ASSUME RouterConstants, IInv, NEW c \in Clients, Retired(c) PROVE Kept
<1> DEFINE g == client[c].gen
           r == [reg[g] EXCEPT !.closing = TRUE]
           q == [NoClient EXCEPT !.at = "closed"]
<1>1. /\ client[c] \in Client /\ client \in [Clients -> Client] /\ ClientOK(client[c]) /\ client[c].at = "retiring"
      /\ UNCHANGED <<phase, doomed>> /\ entries' = Remove(entries, g)
  BY ClientBefore DEF Retired, In, Unchanged
<1>2. g \in Gens /\ reg[g].at \in {"registered", "over"} /\ (reg[g].retired \/ reg[g].at = "over")
  BY <1>1 DEF ClientOK, Routed
<1>3. /\ reg[g] \in Reg /\ reg[g].host \in Hosts /\ reg \in [Gens -> Reg] /\ None \notin Gens
      /\ \A h \in Hosts : entries[h] = g => reg[g].at = "registered" /\ reg[g].watched
  BY <1>2, RegBefore
<1>4. r \in Reg /\ r.at = reg[g].at /\ r.host = reg[g].host /\ r.retired = reg[g].retired /\ r.watched = reg[g].watched
  BY <1>3 DEF Reg
<1>5. q \in Client /\ q.at = "closed"
  <2>1. NoClient \in Client
    BY DEF NoClient, Client, Unrouted
  <2> QED
    BY <2>1 DEF Client
<1>6. reg' = [reg EXCEPT ![g] = r] /\ client' = [client EXCEPT ![c] = q]
  BY <1>3 DEF Retired, Close
<1>7. /\ entries' \in [Hosts -> Gens \cup {None}]
      /\ \A h \in Hosts : entries'[h] = entries[h] \/ (entries'[h] = None /\ entries[h] = g)
  BY <1>1, <1>2, <1>3, RemoveIs DEF IInv
<1> HIDE DEF r, q, g
<1>8. ~Serves(r) /\ (\A h \in Hosts : entries'[h] = g => r.at = "registered" /\ r.watched)
  BY <1>2, <1>3, <1>4, <1>7 DEF Serves
<1>9. /\ Regs' /\ Entries' /\ Drains' /\ reg' \in [Gens -> Reg] /\ doomed' \subseteq Gens
      /\ \A k \in Client : ClientOK(k) => ClientOK(k)'
  BY <1>1, <1>2, <1>3, <1>4, <1>6, <1>7, <1>8, RegMoves
<1>10. client'[c] = q /\ client' \in [Clients -> Client] /\ \A d \in Clients \ {c} : client'[d] = client[d]
  BY <1>1, <1>5, <1>6
<1>11. Routes'
  <2>1. ClientOK(q)'
    BY <1>5, <1>9, EndedIs DEF Ended
  <2>2. \A d \in Clients \ {c} : ClientOK(client[d])'
    BY <1>9, <1>10, ClientBefore
  <2> QED
    BY <1>10, <2>1, <2>2 DEF Routes
<1>12. TypeOK'
  BY <1>1, <1>7, <1>9, <1>10 DEF IInv, TypeOK
<1>13. EarlyCloseHasCause
  BY <1>1, <1>10, Caused DEF Cause
<1> QED
  BY <1>9, <1>11, <1>12, <1>13 DEF Kept, IInv

-----------------------------------------------------------------------------
(* The drain.                                                              *)

LEMMA TermStep == ASSUME RouterConstants, IInv, Term PROVE Kept
<1>1. UNCHANGED <<entries, reg, client, doomed>> /\ phase = "up"
  BY DEF Term
<1>2. TypeOK' /\ Regs' /\ Entries' /\ Routes' /\ Drains'
  BY <1>1 DEF IInv, TypeOK, Regs, Entries, Routes, ClientOK, Drains
<1> QED
  BY <1>1, <1>2, Quietly DEF Kept, IInv

\* Whatever served was in the map, and is now to be retired.
LEMMA DrainRegistryStep == ASSUME RouterConstants, IInv, DrainRegistry PROVE Kept
<1>1. /\ UNCHANGED <<reg, client>> /\ phase = "draining" /\ phase' = "drained" /\ doomed = {}
      /\ doomed' = {entries[h] : h \in Hosts} \ {None} /\ entries' = [h \in Hosts |-> None]
      /\ None \notin Gens /\ entries \in [Hosts -> Gens \cup {None}]
  BY DEF DrainRegistry, IInv, Drains, RouterConstants, TypeOK
<1>2. TypeOK'
  BY <1>1 DEF IInv, TypeOK
<1>3. Regs'
  <2> SUFFICES ASSUME NEW g \in Gens
               PROVE  /\ reg[g].at # "idle" => reg[g].host \in Hosts
                      /\ Serves(reg[g]) => g \in doomed'
    BY <1>1 DEF Regs
  <2>1. reg[g].at # "idle" => reg[g].host \in Hosts
    BY DEF IInv, Regs
  <2>2. Serves(reg[g]) => reg[g].at # "idle" /\ entries[reg[g].host] = g
    BY <1>1 DEF IInv, Regs, Serves
  <2> QED
    BY <1>1, <2>1, <2>2
<1>4. Entries'
  BY <1>1 DEF Entries
<1>5. Routes' /\ Drains'
  BY <1>1 DEF IInv, Routes, ClientOK, Drains
<1> QED
  BY <1>1, <1>2, <1>3, <1>4, <1>5, Quietly DEF Kept, IInv

LEMMA ExitStep == ASSUME RouterConstants, IInv, Exit PROVE Kept
<1> DEFINE q == [NoClient EXCEPT !.at = "closed"]
<1>1. /\ UNCHANGED <<entries, reg, doomed>> /\ phase' = "done"
      /\ \/ UNCHANGED client
         \/ client' = [c \in Clients |-> IF client[c].at \in {"idle", "left"} THEN client[c] ELSE q]
  BY DEF Exit
<1>2. q \in Client /\ q.at = "closed"
  <2>1. NoClient \in Client
    BY DEF NoClient, Client, Unrouted
  <2> QED
    BY <2>1 DEF Client
<1> HIDE DEF q
<1>3. ASSUME NEW c \in Clients PROVE client'[c] \in Client /\ ClientOK(client'[c])
  <2>1. client'[c] \in {client[c], q}
    BY <1>1
  <2>2. client[c] \in Client /\ ClientOK(client[c])
    BY ClientBefore
  <2>3. ClientOK(q)
    BY <1>2, EndedIs DEF Ended
  <2> QED
    BY <1>2, <2>1, <2>2, <2>3
<1>4. Routes'
  BY <1>1, <1>3 DEF Routes, ClientOK
<1>5. client' \in [Clients -> Client]
  <2>1. CASE UNCHANGED client
    BY <2>1 DEF IInv, TypeOK
  <2>2. CASE client' = [c \in Clients |-> IF client[c].at \in {"idle", "left"} THEN client[c] ELSE q]
    BY <1>2, <2>2, ClientBefore
  <2> QED
    BY <1>1, <2>1, <2>2
<1>6. TypeOK' /\ Regs' /\ Entries' /\ Drains'
  BY <1>1, <1>5 DEF IInv, TypeOK, Regs, Entries, Drains
<1>7. EarlyCloseHasCause
  BY <1>1 DEF EarlyCloseHasCause
<1> QED
  BY <1>4, <1>6, <1>7 DEF Kept, IInv

-----------------------------------------------------------------------------
(* Theorems.                                                               *)

LEMMA StepKept == ASSUME RouterConstants, IInv, [Next]_vars PROVE Kept
<1>1. CASE UNCHANGED vars
  <2>1. UNCHANGED <<entries, reg, client, phase, doomed>>
    BY <1>1 DEF vars
  <2>2. TypeOK' /\ Regs' /\ Entries' /\ Routes' /\ Drains'
    BY <2>1 DEF IInv, TypeOK, Regs, Entries, Routes, ClientOK, Drains
  <2> QED
    BY <2>1, <2>2, Quietly DEF Kept, IInv
<1>2. ASSUME NEW g \in Gens, RegistryStep(g) \/ Admit(g) \/ CarrierEnds(g) \/ Expire(g) PROVE Kept
  BY <1>2, CommitStep, AdmissionFailsStep, WatchStep, GoneStep, AdmissionEndsStep, RetireDoomedStep,
     AdmitStep, ExpireStep DEF RegistryStep
<1>3. ASSUME NEW c \in Clients,
             ClientStep(c) \/ Arrive(c) \/ ControlEnds(c) \/ Answer(c) \/ StreamReset(c) \/ SpliceEnds(c)
      PROVE  Kept
  BY <1>3, HelloStep, LookupStep, OpenEndsStep, HeaderEndsStep, UnansweredStep, RetiredStep, EndingsStep,
     ArriveStep, AnswerStep, StreamResetStep, SpliceEndsStep DEF ClientStep
<1>4. CASE Term \/ DrainRegistry \/ Exit
  BY <1>4, TermStep, DrainRegistryStep, ExitStep
<1> QED
  BY <1>1, <1>2, <1>3, <1>4 DEF Next

\* The invariant above holds of every behaviour of the bridge.
THEOREM Inductive == ASSUME RouterConstants PROVE Spec => []IInv
<1>1. Init => IInv
  BY InitIInv
<1>2. IInv /\ [Next]_vars => IInv'
  BY StepKept DEF Kept
<1> QED
  BY <1>1, <1>2, PTL DEF Spec

\* A registration that is live and not retired is the one its hostname routes to, or
\* the drain has it: no order of commits, expiries, deadlines, watchers and drain
\* (registry.rs) leaves two journals serving one name or drops a newer one from the map.
THEOREM ServingHolds == ASSUME RouterConstants PROVE Spec => []ServingIsCurrent
<1>1. IInv => ServingIsCurrent
  BY DEF IInv, Regs, Serves, ServingIsCurrent, Registered
<1> QED
  BY <1>1, Inductive, PTL

\* Every step that closes an unanswered client before its deadline has a cause that a
\* label without a journal has as well, or is an act of the journal it was spliced to: a
\* reset of its stream, or the end of its connection.
THEOREM EarlyCloseHolds == ASSUME RouterConstants PROVE Spec => [][EarlyCloseHasCause]_vars
<1>1. IInv /\ [Next]_vars => EarlyCloseHasCause
  BY StepKept DEF Kept
<1> QED
  BY <1>1, Inductive, PTL DEF Spec
=============================================================================
