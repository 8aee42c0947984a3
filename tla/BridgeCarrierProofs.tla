------------------------- MODULE BridgeCarrierProofs -------------------------
(***************************************************************************)
(* Proofs about BridgeCarrier, for any number of requests and carriers: a  *)
(* stream is opened at most once, the status tells of the carrier requests *)
(* are given, the refusals counted are of distinct newer attempts, the     *)
(* final status is quiescent, and a stopped bridge stays stopped.          *)
(***************************************************************************)
EXTENDS BridgeCarrier, FiniteSetTheorems, TLAPS

-----------------------------------------------------------------------------
(* The inductive invariant.                                                *)

Placed == {"send", "wait", "clear", "served"}
Untried == {"new", "want", "begin", "dial", "send", "clear"}
Points == Untried \cup {"wait", "served", "over"}

Call == [pc : Points, again : BOOLEAN, h : Nat, reply : {"none", "ok", "err", "back"}, claims : Nat]
Entry == Reqs \cup {Shutdown}
Carrier == [verdict : {"none", "pending", "accepted", "failed"}, writer : {"run", "gone"},
            coord : {"run", "verdict", "ending", "gone"}, queue : Seq(Entry)]
Record == [current : Nat, stop : {"none", "denied", "exhausted"}, refusals : Nat, attempt : Nat]
Phases == {"serving", "flagged", "telling", "aborting", "joining", "over"}

TypeOK ==
    /\ slot \in Carriers \cup {0} /\ lock \in Reqs \cup {Nobody} /\ rec \in Record
    /\ car \in [Carriers -> Carrier] /\ req \in [Reqs -> Call]
    /\ phase \in Phases /\ taken \in Carriers \cup {0} /\ accepted \in Nat

\* A queue holds a request at most once.
Holds(s, x) == \E i \in 1..Len(s) : s[i] = x
Once(s) == \A i, j \in 1..Len(s) : s[i] = s[j] /\ s[i] # Shutdown => i = j

\* A call is claimed at most once, and not before its reply; it goes back only
\* from a carrier whose coordinator is gone.
CallOK(q) ==
    /\ q.pc \in Untried => q.claims = 0 /\ q.reply = "none"
    /\ q.pc = "wait" /\ q.reply \in {"none", "back"} => q.claims = 0
    /\ q.claims <= 1
    /\ q.pc \in Placed => q.h \in Carriers /\ q.h <= rec.attempt
    /\ q.pc = "clear" \/ (q.pc = "wait" /\ q.reply = "back") => car[q.h].coord = "gone"

\* A request in a queue waits for that carrier, or has been given up.
QueueOK(h) ==
    /\ Once(car[h].queue)
    /\ car[h].coord = "gone" => car[h].queue = <<>>
    /\ \A r \in Reqs : Holds(car[h].queue, r) =>
          req[r].pc = "over" \/ (req[r].pc = "wait" /\ req[r].h = h /\ req[r].reply = "none")

Requests == (\A r \in Reqs : CallOK(req[r])) /\ (\A h \in Carriers : QueueOK(h))

\* The slot is locked by the request that dials, and only once its carrier is dead.
Dials(q) == q.pc \in {"begin", "dial"}
Locked ==
    /\ \A r \in Reqs : lock = r <=> Dials(req[r])
    /\ lock # Nobody /\ slot # 0 => ~Running(slot)

\* Only the carrier in the slot, or the one that shutdown took, runs.
Slotted ==
    /\ rec.current \in {0, slot} /\ slot <= rec.attempt
    /\ rec.current # 0 => Running(rec.current)
    /\ slot # 0 /\ Running(slot) => rec.current = slot
    /\ \A h \in Carriers : Running(h) => h = slot \/ h = taken

Stopping ==
    /\ taken # 0 <=> phase \in {"telling", "aborting"}
    /\ phase \notin {"serving", "flagged"} => slot = 0
    /\ phase = "over" => \A r \in Reqs : req[r].pc \in {"new", "over"}

\* The newest attempt is not counted while its outcome is open.
Open(a) == a \notin blamed /\ accepted < a
Attempts ==
    /\ IsFiniteSet(blamed) /\ Cardinality(blamed) = rec.refusals
    /\ \A a \in blamed : a \in Nat /\ accepted < a /\ a <= rec.attempt
    /\ accepted <= rec.attempt
    /\ \A h \in Carriers : car[h].verdict # "none" => h <= rec.attempt
    /\ \A h \in Carriers : car[h].verdict = "pending" /\ h = rec.attempt => Open(h)
    /\ \A r \in Reqs : req[r].pc = "dial" =>
          /\ req[r].h = rec.attempt /\ Open(req[r].h)
          /\ req[r].h \in Carriers => car[req[r].h].verdict = "none"
    /\ \A r, q \in Reqs : req[q].pc = "dial" /\ req[r].pc \in Placed => req[r].h # req[q].h

IInv == TypeOK /\ Requests /\ Locked /\ Slotted /\ Stopping /\ Attempts

-----------------------------------------------------------------------------
(* Queues and records.                                                     *)

LEMMA TailIs ==
  ASSUME NEW s \in Seq(Entry), s # <<>>, Once(s)
  PROVE  /\ Tail(s) \in Seq(Entry) /\ Once(Tail(s)) /\ Head(s) \in Entry
         /\ \A x : Holds(Tail(s), x) => Holds(s, x)
         /\ Holds(s, Head(s)) /\ (Head(s) # Shutdown => ~Holds(Tail(s), Head(s)))
<1>1. /\ Tail(s) \in Seq(Entry) /\ Len(s) \in Nat /\ Len(s) > 0 /\ Len(Tail(s)) = Len(s) - 1
      /\ Head(s) = s[1] /\ Head(s) \in Entry
  OBVIOUS
<1>2. \A i \in 1..Len(Tail(s)) : i + 1 \in 1..Len(s) /\ Tail(s)[i] = s[i + 1]
  OBVIOUS
<1>3. Once(Tail(s))
  <2> SUFFICES ASSUME NEW i \in 1..Len(Tail(s)), NEW j \in 1..Len(Tail(s)),
                      Tail(s)[i] = Tail(s)[j], Tail(s)[i] # Shutdown
               PROVE  i = j
    BY DEF Once
  <2>1. i + 1 = j + 1
    BY <1>2 DEF Once
  <2> QED
    BY <2>1
<1>4. 1 \in 1..Len(s)
  BY <1>1
<1>5. ASSUME Head(s) # Shutdown, NEW i \in 1..Len(Tail(s)), Tail(s)[i] = Head(s) PROVE FALSE
  <2>1. i + 1 = 1
    BY <1>1, <1>2, <1>4, <1>5 DEF Once
  <2> QED
    BY <2>1
<1> QED
  BY <1>1, <1>2, <1>3, <1>4, <1>5 DEF Holds

LEMMA AppendIs ==
  ASSUME NEW s \in Seq(Entry), Once(s), NEW x \in Entry, x = Shutdown \/ ~Holds(s, x)
  PROVE  /\ Append(s, x) \in Seq(Entry) /\ Once(Append(s, x))
         /\ \A y : Holds(Append(s, x), y) => Holds(s, y) \/ y = x
<1>1. Append(s, x) \in Seq(Entry) /\ Len(s) \in Nat /\ Len(Append(s, x)) = Len(s) + 1
  OBVIOUS
<1>2. /\ \A i \in 1..Len(s) : Append(s, x)[i] = s[i]
      /\ Append(s, x)[Len(s) + 1] = x
  OBVIOUS
<1>3. \A i \in 1..Len(Append(s, x)) : i \in 1..Len(s) \/ i = Len(s) + 1
  BY <1>1
<1>4. Once(Append(s, x))
  <2> SUFFICES ASSUME NEW i \in 1..Len(Append(s, x)), NEW j \in 1..Len(Append(s, x)),
                      Append(s, x)[i] = Append(s, x)[j], Append(s, x)[i] # Shutdown
               PROVE  i = j
    BY DEF Once
  <2>1. CASE i \in 1..Len(s) /\ j \in 1..Len(s)
    BY <1>2, <2>1 DEF Once
  <2>2. CASE i \in 1..Len(s) /\ j = Len(s) + 1
    BY <1>2, <2>2 DEF Holds
  <2>3. CASE j \in 1..Len(s) /\ i = Len(s) + 1
    BY <1>2, <2>3 DEF Holds
  <2> QED
    BY <1>3, <2>1, <2>2, <2>3
<1>5. ASSUME NEW y, NEW i \in 1..Len(Append(s, x)), Append(s, x)[i] = y PROVE Holds(s, y) \/ y = x
  BY <1>2, <1>3, <1>5 DEF Holds
<1> QED
  BY <1>1, <1>4, <1>5 DEF Holds

LEMMA EmptyIs == Once(<<>>) /\ \A x : ~Holds(<<>>, x)
BY DEF Once, Holds

\* A record field at a time.
LEMMA MarkDeadIs ==
  ASSUME NEW s \in Record, NEW h
  PROVE  /\ MarkDead(s, h) \in Record /\ MarkDead(s, h).stop = s.stop
         /\ MarkDead(s, h).refusals = s.refusals /\ MarkDead(s, h).attempt = s.attempt
         /\ MarkDead(s, h).current = IF s.current = h THEN 0 ELSE s.current
<1>1. CASE s.current = h
  <2> DEFINE zero == 0
             q == [s EXCEPT !.current = zero]
  <2>1. zero \in Nat
    OBVIOUS
  <2> HIDE DEF zero
  <2>2. q \in Record
    BY <2>1 DEF Record
  <2>3. q.stop = s.stop /\ q.refusals = s.refusals /\ q.attempt = s.attempt /\ q.current = zero
    BY DEF Record
  <2>4. MarkDead(s, h) = q
    BY <1>1 DEF MarkDead, zero
  <2> HIDE DEF q
  <2> QED
    BY <1>1, <2>2, <2>3, <2>4 DEF zero
<1>2. CASE s.current # h
  BY <1>2 DEF MarkDead
<1> QED
  BY <1>1, <1>2

LEMMA LatchIs ==
  ASSUME NEW s \in Record, NEW why \in {"denied", "exhausted"}
  PROVE  /\ Latch(s, why) \in Record /\ Latch(s, why).current = s.current
         /\ Latch(s, why).refusals = s.refusals /\ Latch(s, why).attempt = s.attempt
         /\ s.stop # "none" => Latch(s, why).stop = s.stop
BY DEF Latch, Record

\* The tracker counts a refusal or does not; a stop it already has stays.
LEMMA FailedIs ==
  ASSUME NEW s \in Record, NEW f \in Failures, NEW spaced \in BOOLEAN
  PROVE  LET t == Failed(s, f, spaced) IN
         /\ t \in Record /\ t.current = s.current /\ t.attempt = s.attempt
         /\ t.refusals \in {s.refusals, s.refusals + 1}
         /\ s.stop # "none" => t.stop = s.stop
<1>1. CASE f = "denied"
  BY <1>1, LatchIs DEF Failed
<1>2. CASE f # "denied" /\ ~(f = "refused" /\ (s.refusals = 0 \/ spaced))
  BY <1>2 DEF Failed
<1>3. CASE f # "denied" /\ (f = "refused" /\ (s.refusals = 0 \/ spaced))
  <2> DEFINE n == s.refusals + 1
             u == [s EXCEPT !.refusals = n]
  <2>1. n \in Nat
    BY DEF Record
  <2>2. Failed(s, f, spaced) = IF n >= RefusalLimit THEN Latch(u, "exhausted") ELSE u
    BY <1>3 DEF Failed
  <2> HIDE DEF n
  <2>3. u \in Record
    BY <2>1 DEF Record
  <2>4. u.current = s.current /\ u.attempt = s.attempt /\ u.refusals = n /\ u.stop = s.stop
    BY DEF Record
  <2> HIDE DEF u
  <2>5. CASE n >= RefusalLimit
    <3>1. Failed(s, f, spaced) = Latch(u, "exhausted")
      BY <2>2, <2>5
    <3> QED
      BY <2>3, <2>4, <3>1, LatchIs DEF n
  <2>6. CASE ~(n >= RefusalLimit)
    BY <2>2, <2>3, <2>4, <2>6 DEF n
  <2> QED
    BY <2>5, <2>6
<1> QED
  BY <1>1, <1>2, <1>3

-----------------------------------------------------------------------------
(* What a step may do, one part of the invariant at a time.                *)

\* No request begins a dial, or comes by a carrier.
Steady ==
    \A r \in Reqs :
        /\ req'[r].pc = "dial" => req[r].pc = "dial" /\ req'[r].h = req[r].h
        /\ req'[r].pc \in Placed => req[r].pc \in Placed /\ req'[r].h = req[r].h

\* No verdict is opened.
VerdictsStay ==
    \A h \in Carriers :
        \/ car'[h].verdict = car[h].verdict
        \/ car'[h].verdict # "pending" /\ (car[h].verdict # "none" \/ car'[h].verdict = "none")

\* The newest attempt is counted as refused, and is no longer open.
Counted ==
    /\ Open(rec.attempt) /\ rec'.refusals = rec.refusals + 1 /\ blamed' = blamed \cup {rec.attempt}
    /\ rec.attempt \in Carriers => car'[rec.attempt].verdict # "pending"
    /\ \A r \in Reqs : req'[r].pc # "dial"

LEMMA AttemptsKept ==
  ASSUME TypeOK, Attempts, rec'.attempt = rec.attempt, accepted' = accepted, VerdictsStay,
         Steady \/ (\A r \in Reqs : req'[r].pc # "dial"),
         Counted \/ (rec'.refusals = rec.refusals /\ blamed' = blamed)
  PROVE  Attempts'
<1>1. rec.attempt \in Nat /\ rec.refusals \in Nat /\ accepted \in Nat
  BY DEF TypeOK, Record
<1>2. /\ IsFiniteSet(blamed') /\ Cardinality(blamed') = rec'.refusals
      /\ \A a \in blamed' : a \in Nat /\ accepted' < a /\ a <= rec'.attempt
  <2>1. CASE Counted
    <3>1. rec.attempt \notin blamed /\ IsFiniteSet(blamed) /\ Cardinality(blamed) = rec.refusals
      BY <2>1 DEF Counted, Open, Attempts
    <3>2. /\ IsFiniteSet(blamed \cup {rec.attempt})
          /\ Cardinality(blamed \cup {rec.attempt}) = Cardinality(blamed) + 1
      BY <3>1, FS_AddElement
    <3>3. blamed' = blamed \cup {rec.attempt} /\ rec'.refusals = rec.refusals + 1 /\ accepted < rec.attempt
      BY <2>1 DEF Counted, Open
    <3> QED
      BY <1>1, <3>1, <3>2, <3>3 DEF Attempts
  <2>2. CASE rec'.refusals = rec.refusals /\ blamed' = blamed
    BY <2>2 DEF Attempts
  <2> QED
    BY <2>1, <2>2
<1>3. \A h \in Carriers : car'[h].verdict # "none" => h <= rec'.attempt
  BY DEF Attempts, VerdictsStay
<1>4. ASSUME NEW h \in Carriers, car'[h].verdict = "pending", h = rec'.attempt PROVE Open(h)'
  BY <1>4 DEF Attempts, VerdictsStay, Counted, Open
<1>5. ASSUME NEW r \in Reqs, req'[r].pc = "dial"
      PROVE  /\ req'[r].h = rec'.attempt /\ Open(req[r].h)'
             /\ req'[r].h \in Carriers => car'[req'[r].h].verdict = "none"
  <2>1. /\ req[r].pc = "dial" /\ req'[r].h = req[r].h /\ blamed' = blamed /\ req[r].h = rec.attempt
        /\ Open(req[r].h) /\ (req[r].h \in Carriers => car[req[r].h].verdict = "none")
    BY <1>5 DEF Steady, Counted, Attempts
  <2> QED
    BY <2>1 DEF VerdictsStay, Open
<1>6. \A r, q \in Reqs : req'[q].pc = "dial" /\ req'[r].pc \in Placed => req'[r].h # req'[q].h
  BY DEF Steady, Attempts
<1> QED
  BY <1>1, <1>2, <1>3, <1>4, <1>5, <1>6 DEF Attempts, Open

\* record_carrier_failure counts an open attempt at most once.
LEMMA RecordFailureIs ==
  ASSUME TypeOK, NEW s \in Record, s.refusals = rec.refusals, s.attempt = rec.attempt, NEW a, NEW f \in Failures,
         RecordFailure(s, a, f)
  PROVE  /\ rec' \in Record /\ rec'.current = s.current /\ rec'.attempt = rec.attempt /\ accepted' = accepted
         /\ s.stop # "none" => rec'.stop = s.stop
         /\ \/ rec'.refusals = rec.refusals /\ blamed' = blamed
            \/ /\ a = rec.attempt /\ rec'.refusals = rec.refusals + 1 /\ blamed' = blamed \cup {a}
<1>1. PICK spaced \in BOOLEAN : rec' = IF Newest(a) THEN Failed(s, f, spaced) ELSE s
  BY DEF RecordFailure
<1>2. accepted' = accepted /\ blamed' = IF rec'.refusals > rec.refusals THEN blamed \cup {a} ELSE blamed
  BY DEF RecordFailure
<1>3. rec.refusals \in Nat
  BY DEF TypeOK, Record
<1>4. CASE Newest(a)
  <2> DEFINE t == Failed(s, f, spaced)
  <2>1. /\ t \in Record /\ t.current = s.current /\ t.attempt = s.attempt
        /\ t.refusals \in {s.refusals, s.refusals + 1} /\ (s.stop # "none" => t.stop = s.stop)
    BY FailedIs
  <2>2. rec' = t /\ a = rec.attempt
    BY <1>1, <1>4 DEF Newest
  <2> HIDE DEF t
  <2> QED
    BY <1>2, <1>3, <2>1, <2>2
<1>5. CASE ~Newest(a)
  BY <1>1, <1>2, <1>3, <1>5
<1> QED
  BY <1>4, <1>5

\* An attempt is settled: only an open one is counted, and only if it is the newest.
LEMMA SettleFromIs ==
  ASSUME TypeOK, NEW s \in Record, s.refusals = rec.refusals, s.attempt = rec.attempt, s.stop = rec.stop,
         NEW h \in Carriers, NEW f \in Failures, SettleFrom(s, h, f)
  PROVE  /\ rec' \in Record /\ rec'.current = s.current /\ rec'.attempt = rec.attempt /\ accepted' = accepted
         /\ rec.stop # "none" => rec'.stop = rec.stop
         /\ \/ rec'.refusals = rec.refusals /\ blamed' = blamed
            \/ /\ car[h].verdict = "pending" /\ h = rec.attempt
               /\ rec'.refusals = rec.refusals + 1 /\ blamed' = blamed \cup {h}
<1>1. CASE car[h].verdict # "pending"
  BY <1>1 DEF SettleFrom, history
<1>2. CASE car[h].verdict = "pending"
  <2> DEFINE t == IF f = "denied" THEN Latch(s, "denied") ELSE s
  <2>1. /\ t \in Record /\ t.current = s.current /\ t.refusals = s.refusals /\ t.attempt = s.attempt
        /\ s.stop # "none" => t.stop = s.stop
    BY LatchIs
  <2>2. RecordFailure(t, h, f)
    BY <1>2 DEF SettleFrom
  <2> HIDE DEF t
  <2> QED
    BY <1>2, <2>1, <2>2, RecordFailureIs
<1> QED
  BY <1>1, <1>2

\* An acceptance by the newest attempt forgets the refusals before it.
LEMMA AcceptIs ==
  ASSUME TypeOK, Attempts, NEW h \in Carriers, Accept(h), UNCHANGED req,
         \A k \in Carriers : k # h => car'[k] = car[k],
         car'[h].verdict = IF car[h].verdict = "pending" THEN "accepted" ELSE car[h].verdict
  PROVE  /\ rec' \in Record /\ rec'.current = rec.current /\ rec'.stop = rec.stop
         /\ rec'.attempt = rec.attempt /\ accepted' \in Nat /\ Attempts'
<1>1. rec.attempt \in Nat /\ h \in Nat /\ VerdictsStay
  BY DEF TypeOK, Record, Carriers, VerdictsStay
<1>2. CASE car[h].verdict = "pending" /\ Newest(h)
  <2> DEFINE zero == 0
             t == [rec EXCEPT !.refusals = zero]
  <2>1. zero \in Nat
    OBVIOUS
  <2>2. rec' = t /\ blamed' = {} /\ accepted' = h /\ h = rec.attempt
    BY <1>2 DEF Accept, Newest
  <2> HIDE DEF zero
  <2>3. t \in Record
    BY <2>1 DEF TypeOK, Record
  <2>4. t.current = rec.current /\ t.stop = rec.stop /\ t.attempt = rec.attempt /\ t.refusals = zero
    BY DEF TypeOK, Record
  <2> HIDE DEF t
  <2>5. \A r \in Reqs : req'[r].pc # "dial"
    BY <1>2, <2>2 DEF Attempts
  <2>6. IsFiniteSet(blamed') /\ Cardinality(blamed') = rec'.refusals
    BY <2>2, <2>4, FS_EmptySet DEF zero
  <2>7. \A k \in Carriers : car'[k].verdict # "none" => k <= rec'.attempt
    BY <1>1, <2>2, <2>4 DEF Attempts, VerdictsStay
  <2>8. ASSUME NEW k \in Carriers, car'[k].verdict = "pending", k = rec'.attempt PROVE FALSE
    BY <1>2, <2>2, <2>4, <2>8
  <2>9. accepted' <= rec'.attempt /\ accepted' \in Nat
    BY <1>1, <2>2, <2>4
  <2>10. Attempts'
    BY <2>2, <2>5, <2>6, <2>7, <2>8, <2>9 DEF Attempts
  <2> QED
    BY <2>2, <2>3, <2>4, <2>9, <2>10
<1>3. CASE ~(car[h].verdict = "pending" /\ Newest(h))
  <2>1. UNCHANGED <<rec, blamed, accepted>>
    BY <1>3 DEF Accept, history
  <2>2. Steady
    BY DEF Steady
  <2> QED
    BY <1>1, <2>1, <2>2, AttemptsKept DEF TypeOK
<1> QED
  BY <1>2, <1>3

Status == Locked /\ Slotted /\ Stopping
Runs(c) == c.writer # "gone" /\ c.coord # "gone"

\* A step of one carrier: it goes on running, or its end is reported.
LEMMA CarrierReported ==
  ASSUME TypeOK, Status, NEW h \in Carriers, UNCHANGED <<slot, lock, phase, taken>>,
         rec'.attempt = rec.attempt,
         \A k \in Carriers : k # h => car'[k] = car[k], \A r \in Reqs : req'[r].pc = req[r].pc,
         \/ (Runs(car'[h]) <=> Runs(car[h])) /\ rec'.current = rec.current
         \/ ~Runs(car'[h]) /\ rec'.current = IF rec.current = h THEN 0 ELSE rec.current
  PROVE  Status'
<1>1. \A k \in Carriers : Running(k) <=> Runs(car[k])
  BY DEF Running, Runs
<1>2. \A k \in Carriers : Running(k)' <=> Runs(car'[k])
  BY DEF Running, Runs
<1>3. \A k \in Carriers : Running(k)' => Running(k)
  BY <1>1, <1>2
<1>4. slot \in Carriers \cup {0} /\ 0 \notin Carriers /\ rec.current \in {0, slot}
  BY DEF TypeOK, Carriers, Status, Slotted
<1>5. Locked'
  <2>1. \A r \in Reqs : lock' = r <=> Dials(req'[r])
    BY DEF Status, Locked, Dials
  <2>2. lock' # Nobody /\ slot' # 0 => ~Running(slot)'
    BY <1>3, <1>4 DEF Status, Locked
  <2> QED
    BY <2>1, <2>2 DEF Locked
<1>6. Slotted'
  <2>1. rec'.current \in {0, slot} /\ slot <= rec'.attempt
    BY <1>4 DEF Status, Slotted
  <2>2. rec'.current # 0 => Running(rec.current)'
    BY <1>1, <1>2, <1>4 DEF Status, Slotted
  <2>3. slot # 0 /\ Running(slot)' => rec'.current = slot
    BY <1>1, <1>2, <1>4 DEF Status, Slotted
  <2>4. \A k \in Carriers : Running(k)' => k = slot \/ k = taken
    BY <1>3 DEF Status, Slotted
  <2> QED
    BY <2>1, <2>2, <2>3, <2>4 DEF Slotted
<1>7. Stopping'
  BY DEF Status, Stopping
<1> QED
  BY <1>5, <1>6, <1>7 DEF Status

\* A step of one request: it takes or gives back the lock, and may report a dead carrier.
LEMMA RequestReported ==
  ASSUME TypeOK, Status, NEW r \in Reqs, UNCHANGED <<slot, car, phase, taken>>,
         rec'.attempt = rec.attempt,
         \A q \in Reqs : q # r => req'[q] = req[q], Nobody \notin Reqs,
         lock' = r <=> Dials(req'[r]),
         \/ lock' = lock
         \/ lock = r /\ lock' = Nobody
         \/ lock = Nobody /\ lock' = r /\ (slot # 0 => ~Running(slot)),
         \/ rec'.current = rec.current
         \/ slot # 0 /\ ~Running(slot) /\ rec'.current = IF rec.current = slot THEN 0 ELSE rec.current,
         phase = "over" => req'[r].pc \in {"new", "over"}
  PROVE  Status'
<1>1. \A k \in Carriers : Running(k)' <=> Running(k)
  BY DEF Running
<1>2. slot \in Carriers \cup {0} /\ 0 \notin Carriers /\ rec.current \in {0, slot}
  BY DEF TypeOK, Carriers, Status, Slotted
<1>3. Locked'
  <2>1. \A q \in Reqs : lock' = q <=> Dials(req'[q])
    BY DEF Status, Locked
  <2>2. lock' # Nobody /\ slot' # 0 => ~Running(slot)'
    BY <1>1, <1>2 DEF Status, Locked
  <2> QED
    BY <2>1, <2>2 DEF Locked
<1>4. Slotted'
  <2>1. rec'.current \in {0, slot} /\ slot <= rec'.attempt
    BY <1>2 DEF Status, Slotted
  <2>2. rec'.current # 0 => Running(rec.current)'
    BY <1>1, <1>2 DEF Status, Slotted
  <2>3. slot # 0 /\ Running(slot)' => rec'.current = slot
    BY <1>1, <1>2 DEF Status, Slotted
  <2>4. \A k \in Carriers : Running(k)' => k = slot \/ k = taken
    BY <1>1 DEF Status, Slotted
  <2> QED
    BY <2>1, <2>2, <2>3, <2>4 DEF Slotted
<1>5. Stopping'
  BY DEF Status, Stopping
<1> QED
  BY <1>3, <1>4, <1>5 DEF Status

Kept == IInv' /\ StopIsFinal

\* The record after a step that leaves the stop and the attempts alone.
Recorded == rec' \in Record /\ rec'.attempt = rec.attempt /\ (rec.stop # "none" => rec'.stop = rec.stop)

\* A step of one request, which becomes q.
LEMMA RequestStep ==
  ASSUME CarrierConstants, IInv, NEW r \in Reqs, NEW q \in Call, req' = [req EXCEPT ![r] = q],
         UNCHANGED <<slot, car, phase, taken, accepted>>, Recorded, CallOK(q), q.pc # "dial",
         q.pc = "over" \/ req[r].pc \notin {"wait", "over"} \/ (req[r].pc = "wait" /\ req[r].reply # "none"),
         phase = "over" => q.pc \in {"new", "over"},
         lock' = r <=> Dials(q),
         \/ lock' = lock
         \/ lock = r /\ lock' = Nobody
         \/ lock = Nobody /\ lock' = r /\ (slot # 0 => ~Running(slot)),
         \/ rec'.current = rec.current
         \/ slot # 0 /\ ~Running(slot) /\ rec'.current = IF rec.current = slot THEN 0 ELSE rec.current,
         lock' = Nobody \/ (q.pc \in Placed => req[r].pc \in Placed /\ q.h = req[r].h),
         \/ rec'.refusals = rec.refusals /\ blamed' = blamed
         \/ /\ Open(rec.attempt) /\ rec'.refusals = rec.refusals + 1 /\ blamed' = blamed \cup {rec.attempt}
            /\ rec.attempt \in Carriers => car[rec.attempt].verdict # "pending"
            /\ lock' = Nobody
  PROVE  Kept
<1>1. /\ req \in [Reqs -> Call] /\ req'[r] = q /\ \A k \in Reqs : k # r => req'[k] = req[k]
      /\ req' \in [Reqs -> Call] /\ TypeOK /\ Attempts /\ Status /\ Nobody \notin Reqs
  BY DEF IInv, TypeOK, Status, CarrierConstants
<1>2. TypeOK'
  BY <1>1 DEF TypeOK, Recorded
<1>3. Requests'
  <2>1. ASSUME NEW k \in Reqs PROVE CallOK(req[k])'
    BY <1>1 DEF IInv, Requests, CallOK, Recorded
  <2>2. ASSUME NEW h \in Carriers PROVE QueueOK(h)'
    <3>1. QueueOK(h)
      BY DEF IInv, Requests
    <3>2. Holds(car[h].queue, r) => q.pc = "over"
      BY <3>1 DEF QueueOK
    <3> QED
      BY <1>1, <3>1, <3>2 DEF QueueOK
  <2> QED
    BY <2>1, <2>2 DEF Requests
<1>4. Status'
  BY <1>1, RequestReported DEF Recorded
<1>5. Attempts'
  <2>1. VerdictsStay
    BY DEF VerdictsStay
  <2>2. lock' = Nobody => \A k \in Reqs : req'[k].pc # "dial"
    BY <1>1, <1>4 DEF Status, Locked, Dials
  <2>3. Steady \/ \A k \in Reqs : req'[k].pc # "dial"
    BY <1>1, <2>2 DEF Steady
  <2>4. Counted \/ (rec'.refusals = rec.refusals /\ blamed' = blamed)
    BY <2>2 DEF Counted
  <2> QED
    BY <1>1, <2>1, <2>3, <2>4, AttemptsKept DEF Recorded
<1> QED
  BY <1>2, <1>3, <1>4, <1>5 DEF Kept, IInv, Status, StopIsFinal, Recorded

\* A step of one carrier, which becomes c.
LEMMA CarrierStep ==
  ASSUME CarrierConstants, IInv, NEW h \in Carriers, NEW c \in Carrier, car' = [car EXCEPT ![h] = c],
         UNCHANGED <<slot, lock, req, phase, taken>>, accepted' \in Nat, Recorded, Attempts',
         Once(c.queue), \A r \in Reqs : Holds(c.queue, r) => Holds(car[h].queue, r),
         c.coord = "gone" <=> car[h].coord = "gone", c.coord = "gone" => c.queue = <<>>,
         \/ (Runs(c) <=> Runs(car[h])) /\ rec'.current = rec.current
         \/ ~Runs(c) /\ rec'.current = IF rec.current = h THEN 0 ELSE rec.current
  PROVE  Kept
<1>1. /\ car \in [Carriers -> Carrier] /\ car'[h] = c /\ \A k \in Carriers : k # h => car'[k] = car[k]
      /\ car' \in [Carriers -> Carrier] /\ TypeOK /\ Status
  BY DEF IInv, TypeOK, Status
<1>2. TypeOK'
  BY <1>1 DEF TypeOK, Recorded
<1>3. Requests'
  <2>1. ASSUME NEW k \in Reqs PROVE CallOK(req[k])'
    BY <1>1 DEF IInv, Requests, CallOK, Recorded
  <2>2. ASSUME NEW k \in Carriers PROVE QueueOK(k)'
    BY <1>1 DEF IInv, Requests, QueueOK
  <2> QED
    BY <2>1, <2>2 DEF Requests
<1>4. Status'
  BY <1>1, CarrierReported DEF Recorded
<1> QED
  BY <1>2, <1>3, <1>4 DEF Kept, IInv, Status, StopIsFinal, Recorded

\* The same for a carrier whose tasks go on, with the record left alone.
LEMMA QuietCarrierStep ==
  ASSUME CarrierConstants, IInv, NEW h \in Carriers, NEW c \in Carrier, car' = [car EXCEPT ![h] = c],
         UNCHANGED <<slot, lock, rec, req, phase, taken, blamed, accepted>>, c.verdict = car[h].verdict,
         Once(c.queue), \A r \in Reqs : Holds(c.queue, r) => Holds(car[h].queue, r),
         c.coord # "gone", car[h].coord # "gone", c.writer = car[h].writer
  PROVE  Kept
<1>1. TypeOK /\ Attempts /\ car \in [Carriers -> Carrier]
  BY DEF IInv, TypeOK
<1>2. Steady /\ VerdictsStay
  BY <1>1 DEF Steady, VerdictsStay
<1>3. Attempts'
  BY <1>1, <1>2, AttemptsKept
<1>4. Recorded /\ accepted' \in Nat
  BY <1>1 DEF TypeOK, Recorded
<1>5. Runs(c) <=> Runs(car[h])
  BY DEF Runs
<1> QED
  BY <1>3, <1>4, <1>5, CarrierStep

LEMMA InitIInv == ASSUME CarrierConstants, Init PROVE IInv
<1>1. 0 \notin Carriers /\ Carriers \subseteq Nat
  BY DEF Carriers
<1>2. NoCarrier \in Carrier /\ Caller("new", FALSE, 0, 0) \in Call
  BY DEF NoCarrier, Carrier, Caller, Call, Points, Untried
<1>3. TypeOK
  BY <1>2 DEF Init, TypeOK, Record, Phases
<1>4. /\ \A h \in Carriers : car[h].queue = <<>> /\ car[h].coord = "gone" /\ car[h].verdict = "none"
      /\ \A r \in Reqs : req[r].pc = "new" /\ req[r].claims = 0 /\ req[r].reply = "none"
  BY DEF Init, NoCarrier, Caller
<1>5. Requests
  BY <1>4, EmptyIs DEF Requests, CallOK, QueueOK, Placed, Untried
<1>7. /\ rec.refusals = 0 /\ rec.attempt = 0 /\ rec.current = 0 /\ blamed = {} /\ accepted = 0
      /\ slot = 0 /\ lock = Nobody /\ phase = "serving" /\ taken = 0
  BY DEF Init
<1>6. Locked /\ Slotted /\ Stopping
  BY <1>1, <1>4, <1>7 DEF Locked, Slotted, Stopping, Running, Dials, CarrierConstants
<1>8. Attempts
  BY <1>4, <1>7, FS_EmptySet DEF Attempts
<1> QED
  BY <1>3, <1>5, <1>6, <1>8 DEF IInv

-----------------------------------------------------------------------------
(* The steps of a request.                                                 *)

LEMMA OverIs == Over \in Call /\ Over.pc = "over" /\ Over.claims = 0 /\ CallOK(Over) /\ ~Dials(Over)
<1>1. Over \in Call /\ Over.pc = "over" /\ Over.claims = 0
  BY DEF Over, Caller, Call, Points
<1>2. CallOK(Over) /\ ~Dials(Over)
  BY <1>1 DEF CallOK, Untried, Placed, Dials
<1> QED
  BY <1>1, <1>2

\* What is known of a request and its carrier before a step.
LEMMA Before ==
  ASSUME CarrierConstants, IInv, NEW r \in Reqs
  PROVE  /\ req[r] \in Call /\ CallOK(req[r]) /\ rec \in Record /\ (lock = r <=> Dials(req[r]))
         /\ Nobody \notin Reqs /\ r # Nobody /\ (phase = "over" => req[r].pc \in {"new", "over"})
BY DEF IInv, TypeOK, Requests, Locked, Stopping, CarrierConstants

\* A request ends; it gives back the lock if it had it.
LEMMA RequestEnds ==
  ASSUME CarrierConstants, IInv, NEW r \in Reqs, req' = [req EXCEPT ![r] = Over],
         UNCHANGED <<slot, car, rec, phase, taken, blamed, accepted>>,
         lock' = IF lock = r THEN Nobody ELSE lock
  PROVE  Kept
<1>1. Recorded
  BY Before DEF Recorded
<1>2. /\ Over \in Call /\ CallOK(Over) /\ Over.pc = "over" /\ "over" \notin Placed /\ ~(lock' = r) /\ ~Dials(Over)
      /\ lock' = lock \/ (lock = r /\ lock' = Nobody)
  BY Before, OverIs DEF Placed
<1> QED
  BY <1>1, <1>2, RequestStep

\* A request moves on to another point, without the lock.
LEMMA RequestMoves ==
  ASSUME CarrierConstants, IInv, NEW r \in Reqs, NEW q \in Call, req' = [req EXCEPT ![r] = q],
         UNCHANGED <<slot, lock, car, rec, phase, taken, blamed, accepted>>,
         CallOK(q), lock # r, ~Dials(q), phase # "over",
         req[r].pc \notin {"wait", "over"} \/ (req[r].pc = "wait" /\ req[r].reply # "none"),
         lock = Nobody \/ (q.pc \in Placed => req[r].pc \in Placed /\ q.h = req[r].h)
  PROVE  Kept
<1>1. Recorded /\ q.pc # "dial"
  BY Before DEF Recorded, Dials
<1> QED
  BY <1>1, Before, RequestStep

LEMMA ArriveStep == ASSUME CarrierConstants, IInv, NEW r \in Reqs, Arrive(r) PROVE Kept
<1> DEFINE q == [req[r] EXCEPT !.pc = "want"]
<1>1. req[r].pc = "new" /\ phase = "serving" /\ req[r] \in Call /\ CallOK(req[r]) /\ lock # r
  BY Before DEF Arrive, Dials
<1>2. q \in Call /\ q.pc = "want" /\ q.claims = req[r].claims /\ q.reply = req[r].reply
  BY <1>1 DEF Call, Points, Untried
<1>3. req' = [req EXCEPT ![r] = q] /\ UNCHANGED <<slot, lock, car, rec, phase, taken, blamed, accepted>>
  BY DEF Arrive, stopping, history
<1> HIDE DEF q
<1>4. CallOK(q) /\ ~Dials(q) /\ q.pc \notin Placed
  BY <1>1, <1>2 DEF CallOK, Untried, Placed, Dials
<1> QED
  BY <1>1, <1>2, <1>3, <1>4, RequestMoves

LEMMA AcquireStep == ASSUME CarrierConstants, IInv, NEW r \in Reqs, Acquire(r) PROVE Kept
<1>1. /\ req[r].pc = "want" /\ lock = Nobody /\ req[r] \in Call /\ CallOK(req[r]) /\ lock # r /\ phase # "over"
      /\ UNCHANGED <<slot, car, phase, taken, blamed, accepted>> /\ rec \in Record
  BY Before DEF Acquire, stopping, history
<1>2. CASE req' = [req EXCEPT ![r] = Over] /\ UNCHANGED <<lock, rec>>
  BY <1>1, <1>2, RequestEnds
<1>3. CASE Usable /\ req' = [req EXCEPT ![r].pc = "send", ![r].h = slot] /\ UNCHANGED <<lock, rec>>
  <2> DEFINE q == [req[r] EXCEPT !.pc = "send", !.h = slot]
  <2>1. slot \in Carriers /\ slot \in Nat /\ slot <= rec.attempt
    <3>1. slot \in Carriers /\ Running(slot)
      BY <1>3 DEF Usable, Alive, Running, IInv, TypeOK
    <3> QED
      BY <3>1 DEF Carriers, IInv, Slotted
  <2>2. q \in Call /\ q.pc = "send" /\ q.claims = req[r].claims /\ q.reply = req[r].reply /\ q.h = slot
    BY <1>1, <2>1 DEF Call, Points, Untried
  <2>3. req' = [req EXCEPT ![r] = q]
    BY <1>3
  <2> HIDE DEF q
  <2>4. CallOK(q) /\ ~Dials(q)
    BY <1>1, <2>1, <2>2 DEF CallOK, Untried, Placed, Dials
  <2> QED
    BY <1>1, <1>3, <2>2, <2>3, <2>4, RequestMoves
<1>4. CASE /\ rec.stop = "none" /\ ~Usable /\ rec' = (IF slot = 0 THEN rec ELSE MarkDead(rec, slot))
           /\ lock' = r /\ req' = [req EXCEPT ![r].pc = "begin"]
  <2> DEFINE q == [req[r] EXCEPT !.pc = "begin"]
  <2>1. q \in Call /\ q.pc = "begin" /\ q.claims = req[r].claims /\ q.reply = req[r].reply
    BY <1>1 DEF Call, Points, Untried
  <2>2. req' = [req EXCEPT ![r] = q]
    BY <1>4
  <2> HIDE DEF q
  <2>3. CallOK(q) /\ Dials(q) /\ q.pc \notin Placed
    BY <1>1, <2>1 DEF CallOK, Untried, Placed, Dials
  <2>4. slot # 0 => ~Running(slot)
    BY <1>4 DEF Usable, Alive, Running, IInv, TypeOK, Carrier, Stopping
  <2>5. /\ Recorded /\ rec'.refusals = rec.refusals
        /\ \/ rec'.current = rec.current
           \/ slot # 0 /\ rec'.current = IF rec.current = slot THEN 0 ELSE rec.current
    BY <1>1, <1>4, MarkDeadIs DEF Recorded
  <2> QED
    BY <1>1, <1>4, <2>1, <2>2, <2>3, <2>4, <2>5, RequestStep
<1> QED
  BY <1>2, <1>3, <1>4 DEF Acquire

LEMMA BeginStep == ASSUME CarrierConstants, IInv, NEW r \in Reqs, Begin(r) PROVE Kept
<1>1. /\ req[r].pc = "begin" /\ req[r] \in Call /\ CallOK(req[r]) /\ lock = r /\ phase # "over"
      /\ UNCHANGED <<slot, car, phase, taken, blamed, accepted>> /\ rec \in Record /\ rec.attempt \in Nat
  BY Before DEF Begin, stopping, history, Dials, Record
<1>2. CASE rec.stop # "none"
  BY <1>1, <1>2, RequestEnds DEF Begin
<1>3. CASE rec.stop = "none"
  <2> DEFINE n == rec.attempt + 1
             q == [req[r] EXCEPT !.pc = "dial", !.h = n]
             t == [rec EXCEPT !.attempt = n]
  <2>1. n \in Nat /\ rec.attempt < n
    BY <1>1
  <2>2. req' = [req EXCEPT ![r] = q] /\ rec' = t /\ UNCHANGED lock
    BY <1>3 DEF Begin
  <2> HIDE DEF n
  <2>3. q \in Call /\ q.pc = "dial" /\ q.claims = req[r].claims /\ q.reply = req[r].reply /\ q.h = n
    BY <1>1, <2>1 DEF Call, Points, Untried
  <2>4. t \in Record
    BY <1>1, <2>1 DEF Record
  <2>5. t.current = rec.current /\ t.stop = rec.stop /\ t.refusals = rec.refusals /\ t.attempt = n
    BY <1>1 DEF Record
  <2> HIDE DEF q, t
  <2>6. /\ req \in [Reqs -> Call] /\ req'[r] = q /\ \A k \in Reqs : k # r => req'[k] = req[k]
        /\ req' \in [Reqs -> Call] /\ q.pc \notin Placed
    BY <2>2, <2>3 DEF IInv, TypeOK, Placed
  <2>7. TypeOK'
    BY <1>1, <2>2, <2>4, <2>6 DEF IInv, TypeOK
  <2>8. Requests'
    <3>1. ASSUME NEW k \in Reqs PROVE CallOK(req[k])'
      <4>1. CASE k = r
        BY <1>1, <2>3, <2>6, <4>1 DEF CallOK, Untried
      <4>2. CASE k # r
        <5>1. CallOK(req[k]) /\ req'[k] = req[k] /\ req[k].h \in Nat
          BY <2>6, <4>2 DEF IInv, Requests, Call
        <5> QED
          BY <1>1, <2>1, <2>2, <2>5, <5>1 DEF CallOK
      <4> QED
        BY <4>1, <4>2
    <3>2. ASSUME NEW h \in Carriers PROVE QueueOK(h)'
      <4>1. QueueOK(h) /\ ~Holds(car[h].queue, r)
        BY <1>1 DEF IInv, Requests, QueueOK
      <4> QED
        BY <1>1, <2>6, <4>1 DEF QueueOK
    <3> QED
      BY <3>1, <3>2 DEF Requests
  <2>9. Locked' /\ Stopping'
    BY <1>1, <2>2, <2>3, <2>6 DEF IInv, Locked, Stopping, Dials, Running
  <2>10. Slotted'
    <3>1. slot <= n
      BY <1>1, <2>1 DEF IInv, Slotted, TypeOK, Carriers
    <3> QED
      BY <1>1, <2>2, <2>5, <3>1 DEF IInv, Slotted, Running
  <2>11. Attempts'
    <3>1. \A a \in blamed : a \in Nat /\ accepted < a /\ a <= rec.attempt
      BY DEF IInv, Attempts
    <3>2. accepted \in Nat /\ accepted <= rec.attempt
      BY DEF IInv, TypeOK, Attempts
    <3>3. /\ IsFiniteSet(blamed) /\ Cardinality(blamed) = rec.refusals
          /\ \A a \in blamed : a \in Nat /\ accepted < a /\ a <= n
          /\ accepted <= n /\ accepted < n /\ n \notin blamed
      BY <1>1, <2>1, <3>1, <3>2 DEF IInv, Attempts
    <3>4. \A h \in Carriers : h \in Nat /\ (car[h].verdict # "none" => h <= rec.attempt)
      BY DEF IInv, Attempts, Carriers
    <3>5. \A h \in Carriers : car[h].verdict # "none" => h <= n /\ h # n
      BY <1>1, <2>1, <3>4
    <3>6. \A k \in Reqs : req'[k].pc = "dial" => k = r
      BY <1>1, <2>6 DEF IInv, Locked, Dials
    <3>7. \A k \in Reqs : k # r /\ req[k].pc \in Placed => req[k].h # n
      <4>1. \A k \in Reqs : req[k].h \in Nat /\ (req[k].pc \in Placed => req[k].h <= rec.attempt)
        BY DEF IInv, TypeOK, Call, Requests, CallOK
      <4> QED
        BY <1>1, <2>1, <4>1
    <3>8. \A k, m \in Reqs : req'[m].pc = "dial" /\ req'[k].pc \in Placed => req'[k].h # req'[m].h
      BY <2>3, <2>6, <3>6, <3>7
    <3>9. \A k \in Reqs : req'[k].pc = "dial" => req'[k].h = n
      BY <2>3, <2>6, <3>6
    <3>10. rec'.attempt = n /\ rec'.refusals = rec.refusals /\ UNCHANGED <<car, blamed, accepted>>
      BY <1>1, <2>2, <2>5
    <3>11. n \in Carriers => car[n].verdict = "none"
      BY <3>5
    <3>12. \A h \in Carriers : ~(car[h].verdict = "pending" /\ h = n)
      BY <3>5
    <3> QED
      BY <3>3, <3>5, <3>8, <3>9, <3>10, <3>11, <3>12 DEF Attempts, Open
  <2>12. StopIsFinal
    BY <1>1, <2>2, <2>5 DEF StopIsFinal
  <2> QED
    BY <2>7, <2>8, <2>9, <2>10, <2>11, <2>12 DEF Kept, IInv
<1> QED
  BY <1>2, <1>3

LEMMA DialedStep == ASSUME CarrierConstants, IInv, NEW r \in Reqs, Dialed(r) PROVE Kept
<1> DEFINE h == req[r].h
<1>1. /\ req[r].pc = "dial" /\ req[r] \in Call /\ CallOK(req[r]) /\ lock = r /\ phase = "serving" /\ h \in Carriers
      /\ lock' = Nobody /\ UNCHANGED <<phase, taken, blamed, accepted>> /\ rec \in Record /\ Nobody \notin Reqs
  BY Before DEF Dialed, Polled, stopping, history, Dials
<1>2. CASE rec.stop # "none"
  BY <1>1, <1>2, RequestEnds DEF Dialed
<1>3. CASE rec.stop = "none"
  <2> DEFINE q == [req[r] EXCEPT !.pc = "send"]
             t == [rec EXCEPT !.current = h]
  <2>1. /\ req' = [req EXCEPT ![r] = q] /\ rec' = t /\ slot' = h /\ car' = [car EXCEPT ![h] = NewCarrier]
    BY <1>3 DEF Dialed, Install
  <2>2. q \in Call /\ q.pc = "send" /\ q.claims = req[r].claims /\ q.reply = req[r].reply /\ q.h = h
    BY <1>1 DEF Call, Points, Untried
  <2>3. h \in Nat /\ h # 0 /\ h = rec.attempt /\ Open(h) /\ car[h].verdict = "none"
    BY <1>1 DEF IInv, Attempts, Carriers
  <2>4. t \in Record
    BY <1>1, <2>3 DEF Record
  <2>5. t.current = h /\ t.stop = rec.stop /\ t.refusals = rec.refusals /\ t.attempt = rec.attempt
    BY <1>1 DEF Record
  <2>6. /\ req \in [Reqs -> Call] /\ req'[r] = q /\ \A k \in Reqs : k # r => req'[k] = req[k]
        /\ req' \in [Reqs -> Call]
    BY <2>1, <2>2 DEF IInv, TypeOK
  <2>7. NewCarrier \in Carrier /\ NewCarrier.verdict = "pending" /\ NewCarrier.queue = <<>>
        /\ NewCarrier.coord = "run" /\ NewCarrier.writer = "run"
    BY DEF NewCarrier, Carrier
  <2>8. /\ car'[h] = NewCarrier /\ \A k \in Carriers : k # h => car'[k] = car[k]
        /\ car' \in [Carriers -> Carrier]
    BY <1>1, <2>1, <2>7 DEF IInv, TypeOK
  <2> HIDE DEF q, t, h
  <2>9. TypeOK'
    BY <1>1, <2>1, <2>4, <2>6, <2>8 DEF IInv, TypeOK
  <2>10. \A k \in Reqs : k # r /\ req[k].pc \in Placed => req[k].h # h
    BY <1>1 DEF IInv, Attempts, h
  <2>11. Requests'
    <3>1. ASSUME NEW k \in Reqs PROVE CallOK(req[k])'
      <4>1. CASE k = r
        BY <1>1, <2>1, <2>2, <2>3, <2>5, <2>6, <4>1 DEF CallOK, Untried
      <4>2. CASE k # r
        <5>1. CallOK(req[k]) /\ req'[k] = req[k] /\ (req[k].pc \in Placed => req[k].h # h)
          BY <2>6, <2>10, <4>2 DEF IInv, Requests
        <5> QED
          BY <2>1, <2>5, <2>8, <5>1 DEF CallOK, Placed
      <4> QED
        BY <4>1, <4>2
    <3>2. ASSUME NEW k \in Carriers PROVE QueueOK(k)'
      <4>1. CASE k = h
        BY <2>7, <2>8, <4>1, EmptyIs DEF QueueOK
      <4>2. CASE k # h
        <5>1. QueueOK(k) /\ ~Holds(car[k].queue, r)
          BY <1>1 DEF IInv, Requests, QueueOK
        <5> QED
          BY <2>6, <2>8, <4>2, <5>1 DEF QueueOK
      <4> QED
        BY <4>1, <4>2
    <3> QED
      BY <3>1, <3>2 DEF Requests
  <2>12. Locked'
    BY <1>1, <2>2, <2>6 DEF IInv, Locked, Dials
  <2>13. \A k \in Carriers : Running(k)' <=> k = h
    <3>1. \A k \in Carriers : k # h => ~Running(k)
      BY <1>1 DEF IInv, Locked, Slotted, Stopping, TypeOK, Carriers
    <3> QED
      BY <2>7, <2>8, <3>1 DEF Running
  <2>14. Slotted'
    BY <1>1, <2>1, <2>3, <2>5, <2>13 DEF Slotted, h
  <2>15. Stopping'
    BY <1>1 DEF IInv, Stopping
  <2>16. Attempts'
    <3>1. \A k \in Reqs : req'[k].pc # "dial"
      BY <1>1, <2>2, <2>6 DEF IInv, Locked, Dials
    <3>2. \A k \in Carriers : car'[k].verdict # "none" => k <= rec'.attempt
      BY <2>1, <2>3, <2>5, <2>8 DEF IInv, Attempts
    <3>3. \A k \in Carriers : car'[k].verdict = "pending" /\ k = rec'.attempt => Open(k)
      BY <2>1, <2>3, <2>5, <2>8 DEF IInv, Attempts
    <3> QED
      BY <1>1, <2>1, <2>5, <3>1, <3>2, <3>3 DEF IInv, Attempts, Open
  <2>17. StopIsFinal
    BY <1>3 DEF StopIsFinal
  <2> QED
    BY <2>9, <2>11, <2>12, <2>14, <2>15, <2>16, <2>17 DEF Kept, IInv
<1> QED
  BY <1>2, <1>3

LEMMA DialFailsStep ==
  ASSUME CarrierConstants, IInv, NEW r \in Reqs, NEW f \in Failures, DialFails(r, f) PROVE Kept
<1> DEFINE a == req[r].h
<1>1. /\ req[r].pc = "dial" /\ lock = r /\ rec \in Record /\ TypeOK /\ r # Nobody
      /\ lock' = Nobody /\ UNCHANGED <<slot, car, phase, taken>> /\ req' = [req EXCEPT ![r] = Over]
      /\ RecordFailure(rec, a, f)
  BY Before DEF DialFails, stopping, Dials, IInv
<1>2. a = rec.attempt /\ Open(a) /\ (a \in Carriers => car[a].verdict = "none")
  BY <1>1 DEF IInv, Attempts
<1>3. /\ rec' \in Record /\ rec'.current = rec.current /\ rec'.attempt = rec.attempt /\ accepted' = accepted
      /\ rec.stop # "none" => rec'.stop = rec.stop
      /\ \/ rec'.refusals = rec.refusals /\ blamed' = blamed
         \/ /\ a = rec.attempt /\ rec'.refusals = rec.refusals + 1 /\ blamed' = blamed \cup {a}
  BY <1>1, RecordFailureIs
<1> HIDE DEF a
<1>4. /\ Over \in Call /\ CallOK(Over) /\ Over.pc = "over" /\ "over" \notin Placed /\ ~(lock' = r) /\ ~Dials(Over)
  BY <1>1, OverIs DEF Placed
<1>5. \/ rec'.refusals = rec.refusals /\ blamed' = blamed
      \/ /\ Open(rec.attempt) /\ rec'.refusals = rec.refusals + 1 /\ blamed' = blamed \cup {rec.attempt}
         /\ rec.attempt \in Carriers => car[rec.attempt].verdict # "pending"
         /\ lock' = Nobody
  BY <1>1, <1>2, <1>3
<1>6. Recorded
  BY <1>3 DEF Recorded
<1> QED
  BY <1>1, <1>3, <1>4, <1>5, <1>6, RequestStep

LEMMA SendStep == ASSUME CarrierConstants, IInv, NEW r \in Reqs, Send(r) PROVE Kept
<1> DEFINE h == req[r].h
<1>1. /\ req[r].pc = "send" /\ req[r] \in Call /\ CallOK(req[r]) /\ lock # r /\ phase # "over" /\ rec \in Record
      /\ UNCHANGED <<slot, lock, rec, phase, taken, blamed, accepted>> /\ h \in Carriers /\ h <= rec.attempt
      /\ req[r].claims = 0 /\ req[r].reply = "none"
  BY Before DEF Send, stopping, history, Dials, CallOK, Placed, Untried
<1>2. CASE car[h].coord = "gone" /\ req' = [req EXCEPT ![r].pc = "clear"] /\ UNCHANGED car
  <2> DEFINE q == [req[r] EXCEPT !.pc = "clear"]
  <2>1. q \in Call /\ q.pc = "clear" /\ q.claims = req[r].claims /\ q.reply = req[r].reply /\ q.h = h
    BY <1>1 DEF Call, Points, Untried
  <2>2. req' = [req EXCEPT ![r] = q]
    BY <1>2
  <2> HIDE DEF q, h
  <2>3. CallOK(q) /\ ~Dials(q) /\ req[r].pc \in Placed
    BY <1>1, <1>2, <2>1 DEF CallOK, Placed, Dials
  <2> QED
    BY <1>1, <1>2, <2>1, <2>2, <2>3, RequestMoves DEF h
<1>3. CASE /\ car[h].coord # "gone" /\ car' = [car EXCEPT ![h].queue = Append(@, r)]
           /\ req' = [req EXCEPT ![r].pc = "wait"]
  <2> DEFINE s == car[h].queue
             c == [car[h] EXCEPT !.queue = Append(s, r)]
             q == [req[r] EXCEPT !.pc = "wait"]
  <2>1. req' = [req EXCEPT ![r] = q] /\ car' = [car EXCEPT ![h] = c]
    BY <1>3
  <2>2. q \in Call /\ q.pc = "wait" /\ q.claims = 0 /\ q.h = h /\ q.reply = req[r].reply
    BY <1>1 DEF Call, Points
  <2>3. car[h] \in Carrier /\ s \in Seq(Entry) /\ Once(s) /\ ~Holds(s, r) /\ r \in Entry
    BY <1>1 DEF IInv, TypeOK, Carrier, Requests, QueueOK, Entry
  <2>4. /\ Append(s, r) \in Seq(Entry) /\ Once(Append(s, r))
        /\ \A y : Holds(Append(s, r), y) => Holds(s, y) \/ y = r
    BY <2>3, AppendIs
  <2>5. c \in Carrier
    BY <2>3, <2>4 DEF Carrier
  <2>6. c.queue = Append(s, r) /\ c.coord = car[h].coord /\ c.writer = car[h].writer /\ c.verdict = car[h].verdict
    BY <2>3 DEF Carrier
  <2>7. /\ req \in [Reqs -> Call] /\ req'[r] = q /\ \A k \in Reqs : k # r => req'[k] = req[k]
        /\ req' \in [Reqs -> Call]
    BY <2>1, <2>2 DEF IInv, TypeOK
  <2>8. /\ car'[h] = c /\ \A k \in Carriers : k # h => car'[k] = car[k]
        /\ car' \in [Carriers -> Carrier]
    BY <1>1, <2>1, <2>5 DEF IInv, TypeOK
  <2>9. q.reply = "none"
    BY <1>1, <2>2
  <2> HIDE DEF q, c, h
  <2>10. TypeOK'
    BY <1>1, <2>7, <2>8 DEF IInv, TypeOK
  <2>11. Requests'
    <3>1. ASSUME NEW k \in Reqs PROVE CallOK(req[k])'
      <4>1. CASE k = r
        BY <1>1, <2>2, <2>7, <2>9, <4>1 DEF CallOK, Untried
      <4>2. CASE k # r
        <5>1. CallOK(req[k]) /\ req'[k] = req[k]
          BY <2>7, <4>2 DEF IInv, Requests
        <5>2. \A m \in Carriers : car'[m].coord = car[m].coord
          BY <2>6, <2>8
        <5> QED
          BY <1>1, <5>1, <5>2 DEF CallOK, Placed
      <4> QED
        BY <4>1, <4>2
    <3>2. ASSUME NEW k \in Carriers PROVE QueueOK(k)'
      <4>1. QueueOK(k)
        BY DEF IInv, Requests
      <4>2. CASE k = h
        <5>1. /\ Once(car'[k].queue) /\ car'[k].coord # "gone"
              /\ \A m \in Reqs : Holds(car'[k].queue, m) => Holds(car[k].queue, m) \/ m = r
          BY <1>3, <2>4, <2>6, <2>8, <4>2
        <5>2. req'[r].pc = "wait" /\ req'[r].h = k /\ req'[r].reply = "none"
          BY <2>2, <2>7, <2>9, <4>2
        <5> QED
          BY <2>7, <4>1, <5>1, <5>2 DEF QueueOK
      <4>3. CASE k # h
        <5>1. ~Holds(car[k].queue, r)
          BY <1>1, <4>1 DEF QueueOK
        <5> QED
          BY <2>7, <2>8, <4>1, <4>3, <5>1 DEF QueueOK
      <4> QED
        BY <4>2, <4>3
    <3> QED
      BY <3>1, <3>2 DEF Requests
  <2>12. \A k \in Carriers : (Running(k)' <=> Running(k)) /\ car'[k].verdict = car[k].verdict
    BY <2>6, <2>8 DEF Running
  <2>13. \A k \in Reqs : (Dials(req'[k]) <=> Dials(req[k])) /\ (phase = "over" => req'[k].pc = req[k].pc)
    BY <1>1, <2>2, <2>7 DEF Dials
  <2>14. Locked' /\ Slotted' /\ Stopping'
    BY <1>1, <2>12, <2>13 DEF IInv, Locked, Slotted, Stopping, TypeOK
  <2>15. Steady /\ VerdictsStay
    BY <1>1, <2>2, <2>7, <2>12 DEF Steady, VerdictsStay, Placed, h
  <2>16. Attempts'
    BY <1>1, <2>15, AttemptsKept DEF IInv
  <2>17. StopIsFinal
    BY <1>1 DEF StopIsFinal
  <2> QED
    BY <2>10, <2>11, <2>14, <2>16, <2>17 DEF Kept, IInv
<1> QED
  BY <1>2, <1>3 DEF Send

LEMMA ReplyStep == ASSUME CarrierConstants, IInv, NEW r \in Reqs, Reply(r) PROVE Kept
<1>1. /\ req[r].pc = "wait" /\ req[r].reply \in {"ok", "err", "back"} /\ phase = "serving" /\ lock # r
      /\ req[r] \in Call /\ CallOK(req[r]) /\ req[r].pc \in Placed
      /\ UNCHANGED <<slot, lock, rec, car, phase, taken, blamed, accepted>>
  BY Before DEF Reply, Polled, stopping, history, Dials, Call, Placed
<1>2. CASE req[r].reply = "ok"
  <2> DEFINE q == Caller("served", FALSE, req[r].h, req[r].claims)
  <2>1. req' = [req EXCEPT ![r] = q]
    BY <1>2 DEF Reply
  <2>2. q \in Call /\ q.pc = "served" /\ q.h = req[r].h /\ q.claims = req[r].claims
    BY <1>1 DEF Caller, Call, Points
  <2> HIDE DEF q
  <2>3. CallOK(q) /\ ~Dials(q)
    BY <1>1, <2>2 DEF CallOK, Untried, Dials
  <2> QED
    BY <1>1, <1>2, <2>1, <2>2, <2>3, RequestMoves
<1>3. CASE req[r].reply = "err"
  <2>1. req' = [req EXCEPT ![r] = Over]
    BY <1>3 DEF Reply
  <2> QED
    BY <1>1, <2>1, RequestEnds
<1>4. CASE req[r].reply = "back"
  <2> DEFINE q == Caller("clear", req[r].again, req[r].h, req[r].claims)
  <2>1. req' = [req EXCEPT ![r] = q]
    BY <1>4 DEF Reply
  <2>2. q \in Call /\ q.pc = "clear" /\ q.h = req[r].h /\ q.claims = req[r].claims /\ q.reply = "none"
    BY <1>1 DEF Caller, Call, Points, Untried
  <2> HIDE DEF q
  <2>3. CallOK(q) /\ ~Dials(q)
    BY <1>1, <1>4, <2>2 DEF CallOK, Dials
  <2> QED
    BY <1>1, <1>4, <2>1, <2>2, <2>3, RequestMoves
<1> QED
  BY <1>1, <1>2, <1>3, <1>4

LEMMA EndStep ==
  ASSUME CarrierConstants, IInv, NEW r \in Reqs, Responded(r) \/ Cancel(r) PROVE Kept
<1>1. CASE Responded(r)
  <2>1. lock # r
    BY <1>1, Before DEF Responded, Dials
  <2> QED
    BY <1>1, <2>1, RequestEnds DEF Responded, stopping, history
<1>2. CASE Cancel(r)
  BY <1>2, RequestEnds DEF Cancel, stopping, history
<1> QED
  BY <1>1, <1>2

LEMMA ClearStep == ASSUME CarrierConstants, IInv, NEW r \in Reqs, Clear(r) PROVE Kept
<1> DEFINE h == req[r].h
           q == IF req[r].again THEN Over ELSE Caller("want", TRUE, 0, req[r].claims)
<1>1. /\ req[r].pc = "clear" /\ lock = Nobody /\ lock # r /\ phase # "over" /\ req[r] \in Call /\ CallOK(req[r])
      /\ UNCHANGED <<lock, car, phase, taken, blamed, accepted>> /\ rec \in Record
      /\ h \in Carriers /\ car[h].coord = "gone" /\ req[r].claims = 0
      /\ req' = [req EXCEPT ![r] = q]
  BY Before DEF Clear, stopping, history, CallOK, Placed, Untried
<1>2. q \in Call /\ CallOK(q) /\ q.pc \in {"over", "want"} /\ ~Dials(q) /\ q.pc \notin Placed
  <2>1. CASE req[r].again
    BY <2>1, OverIs DEF Placed
  <2>2. CASE ~req[r].again
    <3> DEFINE p == Caller("want", TRUE, 0, req[r].claims)
    <3>1. p \in Call /\ p.pc = "want" /\ p.claims = 0 /\ p.reply = "none"
      BY <1>1 DEF Caller, Call, Points, Untried
    <3>2. q = p
      BY <2>2
    <3> HIDE DEF p
    <3>3. CallOK(p)
      BY <3>1 DEF CallOK, Placed
    <3> QED
      BY <3>1, <3>2, <3>3 DEF Dials, Placed
  <2> QED
    BY <2>1, <2>2
<1> HIDE DEF q
<1>3. CASE slot # h
  <2>1. UNCHANGED <<slot, rec>>
    BY <1>3 DEF Clear
  <2> QED
    BY <1>1, <1>2, <2>1, RequestMoves
<1>4. CASE slot = h
  <2>1. slot' = 0 /\ rec' = MarkDead(rec, slot)
    BY <1>4 DEF Clear
  <2>2. /\ rec' \in Record /\ rec'.stop = rec.stop /\ rec'.refusals = rec.refusals
        /\ rec'.attempt = rec.attempt /\ rec'.current = IF rec.current = slot THEN 0 ELSE rec.current
    BY <1>1, <2>1, MarkDeadIs
  <2>3. /\ req \in [Reqs -> Call] /\ req'[r] = q /\ \A k \in Reqs : k # r => req'[k] = req[k]
        /\ req' \in [Reqs -> Call]
    BY <1>1, <1>2 DEF IInv, TypeOK
  <2>4. ~Running(slot) /\ rec'.current = 0
    BY <1>1, <1>4, <2>2 DEF Running, IInv, Slotted
  <2>5. TypeOK'
    BY <1>1, <2>1, <2>2, <2>3 DEF IInv, TypeOK
  <2>6. Requests'
    <3>1. ASSUME NEW k \in Reqs PROVE CallOK(req[k])'
      BY <1>1, <1>2, <2>2, <2>3 DEF IInv, Requests, CallOK
    <3>2. ASSUME NEW k \in Carriers PROVE QueueOK(k)'
      <4>1. QueueOK(k) /\ ~Holds(car[k].queue, r)
        BY <1>1 DEF IInv, Requests, QueueOK
      <4> QED
        BY <1>1, <2>3, <4>1 DEF QueueOK
    <3> QED
      BY <3>1, <3>2 DEF Requests
  <2>7. Locked' /\ Stopping'
    BY <1>1, <1>2, <2>1, <2>3 DEF IInv, Locked, Stopping, Dials
  <2>8. Slotted'
    <3>1. \A k \in Carriers : Running(k)' => k = taken
      BY <1>1, <2>4 DEF Running, IInv, Slotted
    <3>2. 0 <= rec'.attempt
      BY <2>2 DEF Record
    <3> QED
      BY <1>1, <2>1, <2>4, <3>1, <3>2 DEF Slotted
  <2>9. Attempts'
    <3>1. VerdictsStay /\ \A k \in Reqs : req'[k].pc # "dial"
      BY <1>1, <1>2, <2>3, Before DEF VerdictsStay, IInv, Locked, Dials
    <3> QED
      BY <1>1, <2>2, <3>1, AttemptsKept DEF IInv
  <2>10. StopIsFinal
    BY <2>1, <2>2 DEF StopIsFinal
  <2> QED
    BY <2>5, <2>6, <2>7, <2>8, <2>9, <2>10 DEF Kept, IInv
<1> QED
  BY <1>3, <1>4

-----------------------------------------------------------------------------
(* The steps of a carrier's tasks.                                         *)

LEMMA CarBefore ==
  ASSUME CarrierConstants, IInv, NEW h \in Carriers
  PROVE  /\ car[h] \in Carrier /\ QueueOK(h) /\ rec \in Record /\ TypeOK /\ Attempts
         /\ car[h].queue \in Seq(Entry) /\ Once(car[h].queue)
BY DEF IInv, TypeOK, Requests, QueueOK, Carrier

\* A settled attempt is counted once, if at all.
LEMMA SettledAttempts ==
  ASSUME TypeOK, Attempts, NEW h \in Carriers, UNCHANGED <<req, accepted>>, rec'.attempt = rec.attempt,
         \A k \in Carriers : k # h => car'[k] = car[k],
         car'[h].verdict = IF car[h].verdict = "pending" THEN "failed" ELSE car[h].verdict,
         \/ rec'.refusals = rec.refusals /\ blamed' = blamed
         \/ /\ car[h].verdict = "pending" /\ h = rec.attempt
            /\ rec'.refusals = rec.refusals + 1 /\ blamed' = blamed \cup {h}
  PROVE  Attempts'
<1>1. VerdictsStay /\ Steady
  BY DEF VerdictsStay, Steady
<1>2. CASE rec'.refusals = rec.refusals /\ blamed' = blamed
  BY <1>1, <1>2, AttemptsKept
<1>3. CASE /\ car[h].verdict = "pending" /\ h = rec.attempt
           /\ rec'.refusals = rec.refusals + 1 /\ blamed' = blamed \cup {h}
  <2>1. Counted
    BY <1>3 DEF Counted, Attempts
  <2> QED
    BY <1>1, <2>1, AttemptsKept
<1> QED
  BY <1>2, <1>3

\* The attempt of carrier h is settled while its coordinator goes on to its end.
LEMMA SettlingStep ==
  ASSUME CarrierConstants, IInv, NEW h \in Carriers, NEW f \in Failures, Settle(h, f),
         car[h].coord # "gone", car' = [car EXCEPT ![h] = [Settled(@) EXCEPT !.coord = "ending"]],
         UNCHANGED <<slot, lock, req, stopping>>
  PROVE  Kept
<1> DEFINE c == [Settled(car[h]) EXCEPT !.coord = "ending"]
<1>1. /\ car[h] \in Carrier /\ QueueOK(h) /\ rec \in Record /\ TypeOK /\ Attempts /\ Once(car[h].queue)
      /\ car' = [car EXCEPT ![h] = c] /\ UNCHANGED <<phase, taken>>
  BY CarBefore DEF stopping
<1>2. c \in Carrier
  BY <1>1 DEF Carrier, Settled
<1>3. /\ c.coord = "ending" /\ c.writer = car[h].writer /\ c.queue = car[h].queue
      /\ c.verdict = IF car[h].verdict = "pending" THEN "failed" ELSE car[h].verdict
  BY <1>1 DEF Carrier, Settled
<1> HIDE DEF c
<1>4. /\ rec' \in Record /\ rec'.current = rec.current /\ rec'.attempt = rec.attempt /\ accepted' = accepted
      /\ rec.stop # "none" => rec'.stop = rec.stop
      /\ \/ rec'.refusals = rec.refusals /\ blamed' = blamed
         \/ /\ car[h].verdict = "pending" /\ h = rec.attempt
            /\ rec'.refusals = rec.refusals + 1 /\ blamed' = blamed \cup {h}
  BY <1>1, SettleFromIs DEF Settle
<1>5. car'[h] = c /\ \A k \in Carriers : k # h => car'[k] = car[k]
  BY <1>1 DEF TypeOK
<1>6. Attempts'
  BY <1>1, <1>3, <1>4, <1>5, SettledAttempts
<1>7. Recorded /\ accepted' \in Nat /\ (Runs(c) <=> Runs(car[h]))
  BY <1>1, <1>3, <1>4 DEF Recorded, TypeOK, Runs
<1> QED
  BY <1>1, <1>2, <1>3, <1>4, <1>6, <1>7, CarrierStep

LEMMA ReadEndsStep ==
  ASSUME CarrierConstants, IInv, NEW h \in Carriers, NEW f \in Failures, ReadEnds(h, f) PROVE Kept
BY SettlingStep DEF ReadEnds

\* The journal's bytes are an acceptance, whatever the coordinator does next.
LEMMA AcceptingStep ==
  ASSUME CarrierConstants, IInv, NEW h \in Carriers, Accept(h), car[h].coord # "gone",
         NEW next \in {"run", "verdict", "ending"}, UNCHANGED <<slot, lock, req, stopping>>,
         NEW v, v = IF car[h].verdict = "pending" THEN "accepted" ELSE car[h].verdict,
         car' = [car EXCEPT ![h] = [car[h] EXCEPT !.coord = next, !.verdict = v]]
  PROVE  Kept
<1> DEFINE c == [car[h] EXCEPT !.coord = next, !.verdict = v]
<1>1. /\ car[h] \in Carrier /\ QueueOK(h) /\ rec \in Record /\ TypeOK /\ Attempts /\ Once(car[h].queue)
      /\ car' = [car EXCEPT ![h] = c] /\ UNCHANGED <<phase, taken>>
  BY CarBefore DEF stopping
<1>2. c \in Carrier
  BY <1>1 DEF Carrier
<1>3. c.coord = next /\ c.writer = car[h].writer /\ c.queue = car[h].queue /\ c.verdict = v
  BY <1>1 DEF Carrier
<1> HIDE DEF c
<1>4. car'[h] = c /\ \A k \in Carriers : k # h => car'[k] = car[k]
  BY <1>1 DEF TypeOK
<1>5. /\ rec' \in Record /\ rec'.current = rec.current /\ rec'.stop = rec.stop
      /\ rec'.attempt = rec.attempt /\ accepted' \in Nat /\ Attempts'
  BY <1>1, <1>3, <1>4, AcceptIs
<1>6. Recorded /\ c.coord # "gone" /\ (Runs(c) <=> Runs(car[h]))
  BY <1>3, <1>5 DEF Recorded, Runs
<1> QED
  BY <1>1, <1>2, <1>3, <1>5, <1>6, CarrierStep

LEMMA HeardStep == ASSUME CarrierConstants, IInv, NEW h \in Carriers, Heard(h) PROVE Kept
<1> DEFINE v == IF car[h].verdict = "pending" THEN "accepted" ELSE car[h].verdict
<1>1. PICK next \in {"run", "verdict"} :
        car' = [car EXCEPT ![h].coord = next, ![h].verdict = IF @ = "pending" THEN "accepted" ELSE @]
  BY DEF Heard
<1>2. car \in [Carriers -> Carrier]
  BY DEF IInv, TypeOK
<1>3. car' = [car EXCEPT ![h] = [car[h] EXCEPT !.coord = next, !.verdict = v]]
  BY <1>1, <1>2
<1>4. Accept(h) /\ car[h].coord # "gone" /\ UNCHANGED <<slot, lock, req, stopping>>
  BY DEF Heard
<1> HIDE DEF v
<1> QED
  BY <1>3, <1>4, AcceptingStep DEF v

LEMMA ReadVerdictStep == ASSUME CarrierConstants, IInv, NEW h \in Carriers, ReadVerdict(h) PROVE Kept
<1>1. car[h].coord # "gone" /\ UNCHANGED <<slot, lock, req, stopping>> /\ car \in [Carriers -> Carrier]
  BY DEF ReadVerdict, IInv, TypeOK
<1>2. ASSUME NEW f \in Failures, Settle(h, f), car' = [car EXCEPT ![h] = [Settled(@) EXCEPT !.coord = "ending"]]
      PROVE  Kept
  BY <1>1, <1>2, SettlingStep
<1>3. CASE /\ car[h].verdict = "pending" /\ Accept(h)
           /\ car' = [car EXCEPT ![h].verdict = "accepted", ![h].coord = "ending"]
  <2> DEFINE v == IF car[h].verdict = "pending" THEN "accepted" ELSE car[h].verdict
  <2>1. car' = [car EXCEPT ![h] = [car[h] EXCEPT !.coord = "ending", !.verdict = v]]
    BY <1>1, <1>3
  <2> HIDE DEF v
  <2> QED
    BY <1>1, <1>3, <2>1, AcceptingStep DEF v
<1> QED
  BY <1>2, <1>3 DEF ReadVerdict

LEMMA NoticeStep ==
  ASSUME CarrierConstants, IInv, NEW h \in Carriers, WriterStopped(h) \/ KeepaliveFails(h) PROVE Kept
<1> DEFINE c == [car[h] EXCEPT !.coord = "verdict"]
<1>1. /\ car[h] \in Carrier /\ Once(car[h].queue) /\ car[h].coord # "gone" /\ car' = [car EXCEPT ![h] = c]
      /\ UNCHANGED <<slot, lock, rec, req, phase, taken, blamed, accepted>>
  BY CarBefore DEF WriterStopped, KeepaliveFails, stopping, history
<1>2. c \in Carrier
  BY <1>1 DEF Carrier
<1>3. c.coord = "verdict" /\ c.writer = car[h].writer /\ c.queue = car[h].queue /\ c.verdict = car[h].verdict
  BY <1>1 DEF Carrier
<1> HIDE DEF c
<1> QED
  BY <1>1, <1>2, <1>3, QuietCarrierStep

LEMMA TakeShutdownStep == ASSUME CarrierConstants, IInv, NEW h \in Carriers, TakeShutdown(h) PROVE Kept
<1> DEFINE s == car[h].queue
           c == [car[h] EXCEPT !.queue = Tail(s), !.coord = "ending"]
<1>1. /\ car[h] \in Carrier /\ Once(s) /\ s \in Seq(Entry) /\ s # <<>> /\ car[h].coord # "gone"
      /\ UNCHANGED <<slot, lock, rec, req, phase, taken, blamed, accepted>> /\ car \in [Carriers -> Carrier]
  BY CarBefore DEF TakeShutdown, stopping, history, TypeOK
<1>2. car' = [car EXCEPT ![h] = c]
  BY <1>1 DEF TakeShutdown
<1>3. Tail(s) \in Seq(Entry) /\ Once(Tail(s)) /\ \A x : Holds(Tail(s), x) => Holds(s, x)
  BY <1>1, TailIs
<1>4. c \in Carrier
  BY <1>1, <1>3 DEF Carrier
<1>5. c.coord = "ending" /\ c.writer = car[h].writer /\ c.queue = Tail(s) /\ c.verdict = car[h].verdict
  BY <1>1 DEF Carrier
<1> HIDE DEF c
<1> QED
  BY <1>1, <1>2, <1>3, <1>4, <1>5, QuietCarrierStep

LEMMA WriteFailsStep ==
  ASSUME CarrierConstants, IInv, NEW h \in Carriers, NEW f \in Failures, WriteFails(h, f) PROVE Kept
<1> DEFINE m == MarkDead(rec, h)
<1>1. /\ car[h] \in Carrier /\ QueueOK(h) /\ rec \in Record /\ TypeOK /\ Attempts /\ Once(car[h].queue)
      /\ car[h].coord # "gone" /\ UNCHANGED <<slot, lock, req, phase, taken>> /\ car \in [Carriers -> Carrier]
  BY CarBefore DEF WriteFails, stopping, TypeOK
<1>2. /\ m \in Record /\ m.stop = rec.stop /\ m.refusals = rec.refusals /\ m.attempt = rec.attempt
      /\ m.current = IF rec.current = h THEN 0 ELSE rec.current
  BY <1>1, MarkDeadIs
<1>3. CASE f = "other"
  <2> DEFINE c == [car[h] EXCEPT !.writer = "gone"]
  <2>1. rec' = m /\ car' = [car EXCEPT ![h] = c] /\ UNCHANGED <<blamed, accepted>>
    BY <1>1, <1>3 DEF WriteFails, history
  <2>2. c \in Carrier
    BY <1>1 DEF Carrier
  <2>3. c.coord = car[h].coord /\ c.writer = "gone" /\ c.queue = car[h].queue /\ c.verdict = car[h].verdict
    BY <1>1 DEF Carrier
  <2> HIDE DEF c, m
  <2>4. VerdictsStay /\ Steady
    BY <1>1, <2>1, <2>3 DEF VerdictsStay, Steady
  <2>5. Attempts'
    BY <1>1, <1>2, <2>1, <2>4, AttemptsKept
  <2>6. Recorded /\ accepted' \in Nat /\ ~Runs(c)
    BY <1>1, <1>2, <2>1, <2>3 DEF Recorded, TypeOK, Runs
  <2> QED
    BY <1>1, <1>2, <2>1, <2>2, <2>3, <2>5, <2>6, CarrierStep
<1>4. CASE f # "other"
  <2> DEFINE c == [Settled(car[h]) EXCEPT !.writer = "gone"]
  <2>1. SettleFrom(m, h, f) /\ car' = [car EXCEPT ![h] = c]
    BY <1>1, <1>4 DEF WriteFails, SettleWriter
  <2>2. c \in Carrier
    BY <1>1 DEF Carrier, Settled
  <2>3. /\ c.coord = car[h].coord /\ c.writer = "gone" /\ c.queue = car[h].queue
        /\ c.verdict = IF car[h].verdict = "pending" THEN "failed" ELSE car[h].verdict
    BY <1>1 DEF Carrier, Settled
  <2> HIDE DEF c, m
  <2>4. /\ rec' \in Record /\ rec'.current = m.current /\ rec'.attempt = rec.attempt /\ accepted' = accepted
        /\ rec.stop # "none" => rec'.stop = rec.stop
        /\ \/ rec'.refusals = rec.refusals /\ blamed' = blamed
           \/ /\ car[h].verdict = "pending" /\ h = rec.attempt
              /\ rec'.refusals = rec.refusals + 1 /\ blamed' = blamed \cup {h}
    BY <1>1, <1>2, <2>1, SettleFromIs
  <2>5. car'[h] = c /\ \A k \in Carriers : k # h => car'[k] = car[k]
    BY <1>1, <2>1
  <2>6. Attempts'
    BY <1>1, <2>3, <2>4, <2>5, SettledAttempts
  <2>7. Recorded /\ accepted' \in Nat /\ ~Runs(c)
    BY <1>1, <2>3, <2>4 DEF Recorded, TypeOK, Runs
  <2>8. rec'.current = IF rec.current = h THEN 0 ELSE rec.current
    BY <1>2, <2>4
  <2> QED
    BY <1>1, <2>1, <2>2, <2>3, <2>6, <2>7, <2>8, CarrierStep
<1> QED
  BY <1>3, <1>4

LEMMA WriterEndsStep == ASSUME CarrierConstants, IInv, NEW h \in Carriers, WriterEnds(h) PROVE Kept
<1> DEFINE m == MarkDead(rec, h)
           c == [car[h] EXCEPT !.writer = "gone"]
<1>1. /\ car[h] \in Carrier /\ QueueOK(h) /\ rec \in Record /\ TypeOK /\ Attempts /\ Once(car[h].queue)
      /\ UNCHANGED <<slot, lock, req, phase, taken, blamed, accepted>> /\ car \in [Carriers -> Carrier]
      /\ rec' = m
  BY CarBefore DEF WriterEnds, stopping, history, TypeOK
<1>2. /\ m \in Record /\ m.stop = rec.stop /\ m.refusals = rec.refusals /\ m.attempt = rec.attempt
      /\ m.current = IF rec.current = h THEN 0 ELSE rec.current
  BY <1>1, MarkDeadIs
<1>3. car' = [car EXCEPT ![h] = c]
  BY <1>1 DEF WriterEnds
<1>4. c \in Carrier
  BY <1>1 DEF Carrier
<1>5. c.coord = car[h].coord /\ c.writer = "gone" /\ c.queue = car[h].queue /\ c.verdict = car[h].verdict
  BY <1>1 DEF Carrier
<1> HIDE DEF c, m
<1>6. VerdictsStay /\ Steady
  BY <1>1, <1>3, <1>5 DEF VerdictsStay, Steady
<1>7. Attempts'
  BY <1>1, <1>2, <1>6, AttemptsKept
<1>8. Recorded /\ accepted' \in Nat /\ ~Runs(c) /\ (c.coord = "gone" => c.queue = <<>>)
  BY <1>1, <1>2, <1>5 DEF Recorded, TypeOK, Runs, QueueOK
<1> QED
  BY <1>1, <1>2, <1>3, <1>4, <1>5, <1>7, <1>8, CarrierStep

LEMMA TakeOpenStep == ASSUME CarrierConstants, IInv, NEW h \in Carriers, TakeOpen(h) PROVE Kept
<1> DEFINE s == car[h].queue
           r == Head(s)
           pumps == car[h].writer = "run"
           c == Claimed(car[h], pumps)
<1>1. /\ car[h] \in Carrier /\ QueueOK(h) /\ rec \in Record /\ TypeOK /\ Attempts /\ Once(s) /\ s \in Seq(Entry)
      /\ s # <<>> /\ r \in Reqs /\ car[h].coord = "run" /\ car \in [Carriers -> Carrier] /\ req \in [Reqs -> Call]
      /\ UNCHANGED <<slot, lock, rec, phase, taken, blamed, accepted>>
  BY CarBefore DEF TakeOpen, stopping, history, TypeOK
<1>2. car' = [car EXCEPT ![h] = c]
  BY <1>1 DEF TakeOpen
<1>3. /\ Tail(s) \in Seq(Entry) /\ Once(Tail(s)) /\ \A x : Holds(Tail(s), x) => Holds(s, x)
      /\ Holds(s, r) /\ (r # Shutdown => ~Holds(Tail(s), r))
  BY <1>1, TailIs
<1>4. c \in Carrier
  BY <1>1, <1>3 DEF Carrier, Claimed
<1>5. c.queue = Tail(s) /\ c.coord # "gone" /\ c.writer = car[h].writer /\ c.verdict = car[h].verdict
  BY <1>1 DEF Carrier, Claimed
<1>6. /\ car'[h] = c /\ \A k \in Carriers : k # h => car'[k] = car[k]
      /\ car' \in [Carriers -> Carrier]
  BY <1>1, <1>2, <1>4
<1>7. req' = IF ~Waits(r, h) THEN req
             ELSE [req EXCEPT ![r].reply = ClaimReply(pumps), ![r].claims = @ + 1]
  BY DEF TakeOpen
<1>8. \/ req' = req
      \/ /\ req[r].pc = "wait" /\ req[r].h = h /\ req[r].reply = "none" /\ req[r].claims = 0
         /\ \E q \in Call : /\ req' = [req EXCEPT ![r] = q] /\ q.pc = "wait" /\ q.h = h /\ q.claims = 1
                            /\ q.reply \in {"ok", "err"}
  <2>1. CASE ~Waits(r, h)
    BY <1>7, <2>1
  <2>2. CASE Waits(r, h)
    <3> DEFINE one == req[r].claims + 1
               a == ClaimReply(pumps)
               q == [req[r] EXCEPT !.reply = a, !.claims = one]
    <3>1. req[r].pc = "wait" /\ req[r].h = h /\ req[r].reply = "none" /\ req[r] \in Call
      BY <1>1, <1>3, <2>2 DEF Waits, QueueOK
    <3>2. req[r].claims = 0
      BY <1>1, <3>1 DEF IInv, Requests, CallOK
    <3>3. one = 1 /\ one \in Nat /\ a \in {"ok", "err"}
      BY <3>2 DEF ClaimReply
    <3>4. req' = [req EXCEPT ![r] = q]
      BY <1>1, <1>7, <2>2
    <3> HIDE DEF one, a
    <3>5. q \in Call
      BY <3>1, <3>3 DEF Call
    <3>6. q.pc = "wait" /\ q.h = h /\ q.claims = one /\ q.reply = a
      BY <3>1 DEF Call
    <3> HIDE DEF q
    <3> QED
      BY <3>1, <3>2, <3>3, <3>4, <3>5, <3>6
  <2> QED
    BY <2>1, <2>2
<1>9. r # Shutdown
  BY <1>1 DEF CarrierConstants
<1> HIDE DEF c, r, s
<1>10. /\ req' \in [Reqs -> Call] /\ \A k \in Reqs : k # r => req'[k] = req[k]
       /\ \A k \in Reqs : req'[k].pc = req[k].pc /\ req'[k].h = req[k].h
       /\ \/ req'[r] = req[r]
          \/ /\ req[r].pc = "wait" /\ req[r].h = h
             /\ req'[r].claims = 1 /\ req'[r].reply \in {"ok", "err"}
  BY <1>1, <1>8
<1>11. TypeOK'
  BY <1>1, <1>6, <1>10 DEF TypeOK
<1>12. Requests'
  <2>1. ASSUME NEW k \in Reqs PROVE CallOK(req[k])'
    <3>1. CallOK(req[k])
      BY DEF IInv, Requests
    <3>2. \A m \in Carriers : car[m].coord = "gone" => car'[m].coord = "gone"
      BY <1>1, <1>6
    <3>3. CASE req'[k] = req[k]
      BY <1>1, <3>1, <3>2, <3>3 DEF CallOK, Placed
    <3>4. CASE /\ k = r /\ req[r].pc = "wait" /\ req[r].h = h
               /\ req'[r].claims = 1 /\ req'[r].reply \in {"ok", "err"}
      <4>1. /\ req'[k].pc = "wait" /\ req'[k].h = req[k].h /\ req'[k].claims = 1 /\ req'[k].reply \in {"ok", "err"}
            /\ req[k].pc = "wait"
        BY <1>10, <3>4
      <4> QED
        BY <1>1, <3>1, <4>1 DEF CallOK, Untried
    <3> QED
      BY <1>10, <3>3, <3>4
  <2>2. ASSUME NEW k \in Carriers PROVE QueueOK(k)'
    <3>1. QueueOK(k)
      BY DEF IInv, Requests
    <3>2. CASE k = h
      <4>1. \A m \in Reqs : Holds(car'[k].queue, m) => m # r /\ Holds(car[k].queue, m)
        BY <1>3, <1>5, <1>6, <1>9, <3>2 DEF s
      <4> QED
        BY <1>3, <1>5, <1>6, <1>10, <3>1, <3>2, <4>1 DEF QueueOK
    <3>3. CASE k # h
      <4>1. Holds(car[k].queue, r) => req'[r] = req[r]
        BY <1>1, <1>10, <3>1, <3>3 DEF QueueOK
      <4> QED
        BY <1>6, <1>10, <3>1, <3>3, <4>1 DEF QueueOK
    <3> QED
      BY <3>2, <3>3
  <2> QED
    BY <2>1, <2>2 DEF Requests
<1>13. Runs(car'[h]) <=> Runs(car[h])
  BY <1>1, <1>5, <1>6 DEF Runs
<1>14. Status'
  BY <1>1, <1>6, <1>10, <1>13, CarrierReported DEF IInv, Status
<1>15. VerdictsStay /\ Steady
  BY <1>5, <1>6, <1>10 DEF VerdictsStay, Steady
<1>16. Attempts'
  BY <1>1, <1>15, AttemptsKept
<1> QED
  BY <1>1, <1>11, <1>12, <1>14, <1>16 DEF Kept, IInv, Status, StopIsFinal

\* A coordinator drops its queue: every request nobody claimed is handed back.
LEMMA DroppedQueue ==
  ASSUME CarrierConstants, IInv, NEW h \in Carriers, NEW c \in Carrier, car' = [car EXCEPT ![h] = c],
         c.coord = "gone", c.queue = <<>>, req' = Returned(h), rec'.attempt = rec.attempt
  PROVE  /\ Requests' /\ req' \in [Reqs -> Call] /\ car' \in [Carriers -> Carrier]
         /\ \A r \in Reqs : req'[r].pc = req[r].pc /\ req'[r].h = req[r].h
<1>1. /\ car[h] \in Carrier /\ QueueOK(h) /\ car[h].queue \in Seq(Entry) /\ car \in [Carriers -> Carrier]
      /\ req \in [Reqs -> Call]
  BY CarBefore DEF TypeOK
<1>2. /\ car'[h] = c /\ \A k \in Carriers : k # h => car'[k] = car[k]
      /\ car' \in [Carriers -> Carrier]
  BY <1>1
<1>3. ASSUME NEW r \in Reqs
      PROVE  /\ req'[r] \in Call /\ req'[r].pc = req[r].pc /\ req'[r].h = req[r].h
             /\ \/ req'[r] = req[r] /\ ~(Holds(car[h].queue, r) /\ req[r].pc = "wait")
                \/ /\ req[r].pc = "wait" /\ req[r].h = h /\ req[r].reply = "none"
                   /\ req'[r].reply = "back" /\ req'[r].claims = req[r].claims
  <2> DEFINE q == [req[r] EXCEPT !.reply = "back"]
  <2>1. Holds(car[h].queue, r) => req[r].pc = "over" \/ (req[r].pc = "wait" /\ req[r].h = h /\ req[r].reply = "none")
    BY <1>1 DEF QueueOK
  <2>2. req'[r] = IF Holds(car[h].queue, r) /\ Waits(r, h) THEN q ELSE req[r]
    BY <1>1 DEF Returned, Holds
  <2>3. q \in Call
    BY <1>1 DEF Call
  <2>4. q.pc = req[r].pc /\ q.h = req[r].h /\ q.reply = "back" /\ q.claims = req[r].claims
    BY <1>1 DEF Call
  <2> HIDE DEF q
  <2>5. CASE Holds(car[h].queue, r) /\ Waits(r, h)
    BY <2>1, <2>2, <2>3, <2>4, <2>5 DEF Waits
  <2>6. CASE ~(Holds(car[h].queue, r) /\ Waits(r, h))
    <3>1. req'[r] = req[r] /\ req[r] \in Call
      BY <1>1, <2>2, <2>6
    <3> QED
      BY <2>1, <2>6, <3>1 DEF Waits
  <2> QED
    BY <2>5, <2>6
<1>4. req' \in [Reqs -> Call]
  BY <1>3 DEF Returned
<1>5. ASSUME NEW r \in Reqs PROVE CallOK(req[r])'
  <2>1. CallOK(req[r])
    BY DEF IInv, Requests
  <2>2. \A m \in Carriers : car[m].coord = "gone" => car'[m].coord = "gone"
    BY <1>2
  <2>3. CASE req'[r] = req[r]
    BY <2>1, <2>2, <2>3 DEF CallOK, Placed
  <2>4. CASE /\ req[r].pc = "wait" /\ req[r].h = h /\ req[r].reply = "none"
             /\ req'[r].reply = "back" /\ req'[r].claims = req[r].claims
    <3>1. req'[r].pc = "wait" /\ req'[r].h = h /\ car'[h].coord = "gone"
      BY <1>2, <1>3, <2>4
    <3> QED
      BY <2>1, <2>4, <3>1 DEF CallOK, Untried
  <2> QED
    BY <1>3, <2>3, <2>4
<1>6. ASSUME NEW k \in Carriers PROVE QueueOK(k)'
  <2>1. CASE k = h
    BY <1>2, <2>1, EmptyIs DEF QueueOK
  <2>2. CASE k # h
    <3>1. QueueOK(k) /\ car'[k] = car[k]
      BY <1>2, <2>2 DEF IInv, Requests
    <3>2. ASSUME NEW r \in Reqs, Holds(car[k].queue, r) PROVE req'[r] = req[r]
      <4>1. req[r].pc = "over" \/ req[r].h = k
        BY <3>1, <3>2 DEF QueueOK
      <4> QED
        BY <1>3, <2>2, <4>1
    <3> QED
      BY <3>1, <3>2 DEF QueueOK
  <2> QED
    BY <2>1, <2>2
<1> QED
  BY <1>2, <1>3, <1>4, <1>5, <1>6 DEF Requests

LEMMA CoordinatorEndsStep == ASSUME CarrierConstants, IInv, NEW h \in Carriers, CoordinatorEnds(h) PROVE Kept
<1> DEFINE m == MarkDead(rec, h)
           w == car[h].writer
           c == [NoCarrier EXCEPT !.writer = w]
<1>1. /\ car[h] \in Carrier /\ rec \in Record /\ TypeOK /\ Attempts /\ car \in [Carriers -> Carrier]
      /\ UNCHANGED <<slot, lock, phase, taken, blamed, accepted>> /\ rec' = m /\ req' = Returned(h)
      /\ car' = [car EXCEPT ![h] = c]
  BY CarBefore DEF CoordinatorEnds, stopping, history, TypeOK
<1>2. /\ m \in Record /\ m.stop = rec.stop /\ m.refusals = rec.refusals /\ m.attempt = rec.attempt
      /\ m.current = IF rec.current = h THEN 0 ELSE rec.current
  BY <1>1, MarkDeadIs
<1>3. w \in {"run", "gone"}
  BY <1>1 DEF Carrier
<1> HIDE DEF w
<1>4. c \in Carrier
  <2>1. NoCarrier \in Carrier
    BY DEF Carrier, NoCarrier
  <2> QED
    BY <1>3, <2>1 DEF Carrier
<1>5. c.coord = "gone" /\ c.queue = <<>> /\ c.verdict = "none"
  BY DEF NoCarrier
<1> HIDE DEF c, m
<1>6. /\ Requests' /\ req' \in [Reqs -> Call] /\ car' \in [Carriers -> Carrier]
      /\ \A r \in Reqs : req'[r].pc = req[r].pc /\ req'[r].h = req[r].h
  BY <1>1, <1>2, <1>4, <1>5, DroppedQueue
<1>7. car'[h] = c /\ \A k \in Carriers : k # h => car'[k] = car[k]
  BY <1>1
<1>8. TypeOK'
  BY <1>1, <1>2, <1>6 DEF TypeOK
<1>9. VerdictsStay /\ Steady
  BY <1>5, <1>6, <1>7 DEF VerdictsStay, Steady
<1>10. Attempts'
  BY <1>1, <1>2, <1>9, AttemptsKept
<1>11. ~Runs(car'[h]) /\ rec'.current = (IF rec.current = h THEN 0 ELSE rec.current) /\ rec'.attempt = rec.attempt
  BY <1>1, <1>2, <1>5, <1>7 DEF Runs
<1>12. Status
  BY DEF IInv, Status
<1>13. Status'
  BY <1>1, <1>6, <1>7, <1>11, <1>12, CarrierReported
<1> QED
  BY <1>1, <1>2, <1>6, <1>8, <1>10, <1>13 DEF Kept, IInv, Status, StopIsFinal

-----------------------------------------------------------------------------
(* The steps of shutdown.                                                  *)

LEMMA AbortStep == ASSUME CarrierConstants, IInv, Abort PROVE Kept
<1> DEFINE h == taken
           m == MarkDead(rec, h)
           c == NoCarrier
<1>1. /\ rec \in Record /\ TypeOK /\ Attempts /\ car \in [Carriers -> Carrier]
      /\ UNCHANGED <<slot, lock, blamed, accepted>> /\ rec' = m /\ req' = Returned(h) /\ taken' = 0
      /\ car' = [car EXCEPT ![h] = c] /\ phase = "aborting" /\ phase' = "joining"
  BY DEF Abort, history, TypeOK, IInv
<1>2. h \in Carriers /\ slot = 0 /\ rec.current = 0
  BY <1>1 DEF IInv, Stopping, Slotted, TypeOK
<1>3. m \in Record /\ m.stop = rec.stop /\ m.refusals = rec.refusals /\ m.attempt = rec.attempt /\ m.current = 0
  BY <1>1, <1>2, MarkDeadIs
<1>4. c \in Carrier
  BY DEF Carrier, NoCarrier
<1>5. c.coord = "gone" /\ c.queue = <<>> /\ c.verdict = "none"
  BY DEF NoCarrier
<1> HIDE DEF c, m, h
<1>6. /\ Requests' /\ req' \in [Reqs -> Call] /\ car' \in [Carriers -> Carrier]
      /\ \A r \in Reqs : req'[r].pc = req[r].pc /\ req'[r].h = req[r].h
  BY <1>1, <1>2, <1>3, <1>4, <1>5, DroppedQueue
<1>7. car'[h] = c /\ \A k \in Carriers : k # h => car'[k] = car[k]
  BY <1>1, <1>2
<1>8. TypeOK'
  BY <1>1, <1>3, <1>6 DEF TypeOK, Phases
<1>9. VerdictsStay /\ Steady
  BY <1>2, <1>5, <1>6, <1>7 DEF VerdictsStay, Steady
<1>10. Attempts'
  BY <1>1, <1>3, <1>9, AttemptsKept
<1>11. Locked'
  <2>1. \A r \in Reqs : lock' = r <=> Dials(req'[r])
    BY <1>1, <1>6 DEF IInv, Locked, Dials
  <2> QED
    BY <1>1, <1>2, <2>1 DEF Locked
<1>12. \A k \in Carriers : ~Running(k)'
  <2>1. ASSUME NEW k \in Carriers, k # h PROVE ~Running(k)'
    <3>1. 0 \notin Carriers
      BY DEF Carriers
    <3>2. ~Running(k)
      BY <1>2, <2>1, <3>1 DEF IInv, Slotted, h
    <3> QED
      BY <1>7, <2>1, <3>2 DEF Running
  <2> QED
    BY <1>5, <1>7, <2>1 DEF Running
<1>13. Slotted'
  <2>1. slot' = 0 /\ rec'.current = 0 /\ 0 <= rec'.attempt
    BY <1>1, <1>2, <1>3 DEF Record
  <2> QED
    BY <1>12, <2>1 DEF Slotted
<1>14. Stopping'
  BY <1>1, <1>2 DEF Stopping
<1> QED
  BY <1>1, <1>2, <1>3, <1>6, <1>8, <1>10, <1>11, <1>13, <1>14 DEF Kept, IInv, StopIsFinal

\* A step that leaves the requests and the carriers alone.
LEMMA PhaseStep ==
  ASSUME CarrierConstants, IInv, UNCHANGED <<lock, car, req, blamed, accepted>>,
         rec' \in Record, rec'.stop = rec.stop, rec'.refusals = rec.refusals, rec'.attempt = rec.attempt,
         slot' \in {slot, 0}, phase' \in Phases, taken' \in Carriers \cup {0}, Status'
  PROVE  Kept
<1>1. TypeOK /\ Attempts
  BY DEF IInv
<1>2. TypeOK'
  BY <1>1 DEF TypeOK
<1>3. VerdictsStay /\ Steady
  BY DEF VerdictsStay, Steady
<1>4. Attempts'
  BY <1>1, <1>3, AttemptsKept
<1>5. Requests'
  BY DEF IInv, Requests, CallOK, QueueOK
<1> QED
  BY <1>2, <1>4, <1>5 DEF Kept, IInv, Status, StopIsFinal

LEMMA BeginShutdownStep == ASSUME CarrierConstants, IInv, BeginShutdown PROVE Kept
<1>1. Status'
  BY DEF BeginShutdown, history, IInv, Status, Locked, Slotted, Stopping, Running, Dials
<1> QED
  BY <1>1, PhaseStep DEF BeginShutdown, history, IInv, TypeOK, Phases

LEMMA JoinStep == ASSUME CarrierConstants, IInv, Join PROVE Kept
<1>1. Status'
  BY DEF Join, history, IInv, Status, Locked, Slotted, Stopping, Running, Dials
<1> QED
  BY <1>1, PhaseStep DEF Join, history, IInv, TypeOK, Phases

LEMMA TakeSlotStep == ASSUME CarrierConstants, IInv, TakeSlot PROVE Kept
<1>1. /\ UNCHANGED <<lock, car, req, blamed, accepted>> /\ lock = Nobody /\ phase = "flagged" /\ slot' = 0
      /\ taken = 0 /\ rec \in Record /\ slot \in Carriers \cup {0} /\ rec.current \in {0, slot}
  BY DEF TakeSlot, history, IInv, TypeOK, Stopping, Slotted
<1>2. \A k \in Carriers : k # 0 /\ (Running(k)' <=> Running(k))
  BY <1>1 DEF Running, Carriers
<1>3. /\ rec' \in Record /\ rec'.stop = rec.stop /\ rec'.refusals = rec.refusals
      /\ rec'.attempt = rec.attempt /\ rec'.current = 0 /\ taken' = slot
      /\ phase' = IF slot = 0 THEN "joining" ELSE "telling"
  BY <1>1, MarkDeadIs DEF TakeSlot
<1>4. 0 <= rec'.attempt
  BY <1>3 DEF Record
<1>5. Slotted'
  <2>1. \A k \in Carriers : Running(k)' => k = taken'
    BY <1>1, <1>2, <1>3 DEF IInv, Slotted
  <2> QED
    BY <1>1, <1>3, <1>4, <2>1 DEF Slotted
<1>6. Locked' /\ Stopping'
  BY <1>1, <1>3 DEF IInv, Locked, Stopping, Dials
<1> QED
  BY <1>1, <1>3, <1>5, <1>6, PhaseStep DEF Status, Phases

LEMMA TellShutdownStep == ASSUME CarrierConstants, IInv, TellShutdown PROVE Kept
<1> DEFINE h == taken
           s == car[h].queue
           c == [car[h] EXCEPT !.queue = Append(s, Shutdown)]
<1>1. /\ UNCHANGED <<slot, lock, rec, req, taken, blamed, accepted>> /\ phase = "telling" /\ phase' = "aborting"
      /\ h \in Carriers
  BY DEF TellShutdown, history, IInv, TypeOK, Stopping
<1>2. /\ car[h] \in Carrier /\ QueueOK(h) /\ rec \in Record /\ TypeOK /\ Attempts /\ car \in [Carriers -> Carrier]
      /\ req \in [Reqs -> Call] /\ s \in Seq(Entry) /\ Once(s)
  BY <1>1, CarBefore DEF TypeOK
<1>3. CASE car' = car
  <2>1. Status'
    BY <1>1, <1>3 DEF IInv, Status, Locked, Slotted, Stopping, Running, Dials
  <2> QED
    BY <1>1, <1>2, <1>3, <2>1, PhaseStep DEF TypeOK, Phases
<1>4. CASE car[h].coord # "gone" /\ car' = [car EXCEPT ![h].queue = Append(@, Shutdown)]
  <2>1. car' = [car EXCEPT ![h] = c]
    BY <1>2, <1>4
  <2>2. /\ Append(s, Shutdown) \in Seq(Entry) /\ Once(Append(s, Shutdown))
        /\ \A y : Holds(Append(s, Shutdown), y) => Holds(s, y) \/ y = Shutdown
    BY <1>2, AppendIs DEF Entry
  <2>3. c \in Carrier
    BY <1>2, <2>2 DEF Carrier
  <2>4. /\ c.coord = car[h].coord /\ c.writer = car[h].writer /\ c.queue = Append(s, Shutdown)
        /\ c.verdict = car[h].verdict
    BY <1>2 DEF Carrier
  <2> HIDE DEF c, h
  <2>5. /\ car' \in [Carriers -> Carrier] /\ car'[h] = c /\ \A k \in Carriers : k # h => car'[k] = car[k]
    BY <1>1, <1>2, <2>1, <2>3
  <2>6. \A k \in Carriers : car'[k].coord = car[k].coord /\ (Running(k)' <=> Running(k))
    BY <2>4, <2>5 DEF Running
  <2>7. \A r \in Reqs : CallOK(req[r])'
    BY <1>1, <2>6 DEF IInv, Requests, CallOK, Placed
  <2>8. ASSUME NEW k \in Carriers PROVE QueueOK(k)'
    <3>1. QueueOK(k)
      BY DEF IInv, Requests
    <3>2. CASE k = h
      <4>1. \A r \in Reqs : Holds(car'[k].queue, r) => Holds(car[k].queue, r)
        BY <2>2, <2>4, <2>5, <3>2 DEF CarrierConstants
      <4> QED
        BY <1>1, <1>4, <2>2, <2>4, <2>5, <3>1, <3>2, <4>1 DEF QueueOK
    <3>3. CASE k # h
      BY <1>1, <2>5, <3>1, <3>3 DEF QueueOK
    <3> QED
      BY <3>2, <3>3
  <2>9. TypeOK'
    BY <1>1, <1>2, <2>5 DEF TypeOK, Phases
  <2>10. VerdictsStay /\ Steady
    BY <1>1, <2>4, <2>5 DEF VerdictsStay, Steady
  <2>11. Attempts'
    BY <1>1, <1>2, <2>10, AttemptsKept
  <2>12. slot \in Carriers \cup {0} /\ rec.current \in Carriers \cup {0}
    BY <1>2 DEF TypeOK, IInv, Slotted
  <2>13. Locked' /\ Slotted'
    BY <1>1, <2>6, <2>12 DEF IInv, Locked, Slotted, Dials
  <2>14. Stopping'
    BY <1>1 DEF IInv, Stopping
  <2> QED
    BY <1>1, <2>7, <2>8, <2>9, <2>11, <2>13, <2>14 DEF Kept, IInv, Requests, StopIsFinal
<1> QED
  BY <1>1, <1>3, <1>4 DEF TellShutdown

-----------------------------------------------------------------------------
(* Theorems.                                                               *)

LEMMA StepKept == ASSUME CarrierConstants, IInv, [Next]_vars PROVE Kept
<1>1. CASE UNCHANGED vars
  <2>1. UNCHANGED <<slot, lock, rec, car, req, phase, taken, blamed, accepted>>
    BY <1>1 DEF vars
  <2>2. Status'
    BY <2>1 DEF IInv, Status, Locked, Slotted, Stopping, Running, Dials
  <2> QED
    BY <2>1, <2>2, PhaseStep DEF IInv, TypeOK
<1>2. ASSUME NEW r \in Reqs, Arrive(r) \/ CallerStep(r) \/ Responded(r) PROVE Kept
  BY <1>2, ArriveStep, AcquireStep, BeginStep, DialedStep, DialFailsStep, SendStep, ReplyStep,
     ClearStep, EndStep DEF CallerStep
<1>3. ASSUME NEW h \in Carriers, TaskStep(h) \/ Heard(h) \/ KeepaliveFails(h) \/ WriterEnds(h) PROVE Kept
  BY <1>3, TakeOpenStep, TakeShutdownStep, NoticeStep, ReadVerdictStep, CoordinatorEndsStep,
     HeardStep, WriterEndsStep DEF TaskStep
<1>4. ASSUME NEW h \in Carriers, NEW f \in Failures, ReadEnds(h, f) \/ WriteFails(h, f) PROVE Kept
  BY <1>4, ReadEndsStep, WriteFailsStep
<1>5. CASE BeginShutdown \/ StopStep
  BY <1>5, BeginShutdownStep, TakeSlotStep, TellShutdownStep, AbortStep, JoinStep DEF StopStep
<1> QED
  BY <1>1, <1>2, <1>3, <1>4, <1>5 DEF Next

\* The invariant above holds of every behaviour of the bridge's carriers.
THEOREM Inductive == ASSUME CarrierConstants PROVE Spec => []IInv
<1>1. Init => IInv
  BY InitIInv
<1>2. IInv /\ [Next]_vars => IInv'
  BY StepKept DEF Kept
<1> QED
  BY <1>1, <1>2, PTL DEF Spec

\* open_stream retries only a request that no coordinator claimed, so however its
\* carriers end no request's stream is opened on two of them.
THEOREM OpenedOnce == ASSUME CarrierConstants PROVE Spec => []NothingSentTwice
<1>1. IInv => NothingSentTwice
  BY DEF IInv, Requests, CallOK, NothingSentTwice
<1> QED
  BY <1>1, Inductive, PTL

\* The status is true: carrier_live tells of the carrier in the slot, the refusals
\* counted are of distinct attempts newer than the last one accepted, and what
\* shutdown_and_wait returns is quiescent.
THEOREM StatusHolds == ASSUME CarrierConstants PROVE Spec => []CarrierStatusIsTrue
<1>1. ASSUME IInv PROVE StatusIsTrue
  BY <1>1 DEF IInv, Slotted, StatusIsTrue
<1>2. ASSUME IInv PROVE RefusalsAreJust
  BY <1>2 DEF IInv, Attempts, TypeOK, RefusalsAreJust
<1>3. ASSUME IInv, phase = "over"
      PROVE  /\ slot = 0 /\ rec.current = 0 /\ lock = Nobody
             /\ \A h \in Carriers : ~Alive(h)
             /\ \A r \in Reqs : req[r].pc \in {"new", "over"}
  <2>1. slot = 0 /\ taken = 0 /\ \A r \in Reqs : req[r].pc \in {"new", "over"}
    BY <1>3 DEF IInv, Stopping
  <2>2. rec.current = 0
    BY <1>3, <2>1 DEF IInv, Slotted
  <2>3. lock = Nobody
    BY <1>3, <2>1 DEF IInv, TypeOK, Locked, Dials
  <2>4. \A h \in Carriers : ~Running(h)
    BY <1>3, <2>1 DEF IInv, Slotted, Carriers
  <2>5. \A h \in Carriers : ~Alive(h)
    BY <2>4 DEF Alive, Running
  <2> QED
    BY <2>1, <2>2, <2>3, <2>5
<1>4. IInv => CarrierStatusIsTrue
  BY <1>1, <1>2, <1>3 DEF CarrierStatusIsTrue, FinalIsQuiescent
<1> QED
  BY <1>4, Inductive, PTL

\* A bridge the refusal tracker stopped stays stopped for that reason, and a dial
\* already under way installs no carrier.
THEOREM StopHolds == ASSUME CarrierConstants PROVE Spec => [][StopIsFinal]_vars
<1>1. IInv /\ [Next]_vars => StopIsFinal
  BY StepKept DEF Kept
<1> QED
  BY <1>1, Inductive, PTL DEF Spec
==============================================================================
