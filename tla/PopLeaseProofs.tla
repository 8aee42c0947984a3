---------------------------- MODULE PopLeaseProofs ----------------------------
(***************************************************************************)
(* Proofs about PopLease, for any number of journals and nonces and any    *)
(* limits and times: no nonce slot leaks, a lease is not served past its   *)
(* expiry for longer than one reconciliation, it is lost only for a cause, *)
(* and a retired registration stays retired.                               *)
(***************************************************************************)
EXTENDS PopLease, FiniteSetTheorems, TLAPS

-----------------------------------------------------------------------------
(* The inductive invariant.                                                *)

Early == {"idle", "challenged", "opening"}
Trying == {"renewing", "verifying"}
Points == Early \cup Trying \cup {"serving", "over", "expired"}

Reg ==
    [at : Points, nonce : Nonces \cup {None}, issuedAt : Int, expiry : Int, current : Int,
     retired : BOOLEAN, gone : BOOLEAN, poisoned : BOOLEAN, started : Int, last : Int,
     renewalStart : Int, maxDeadline : Int, attemptAt : Int, reconcileAt : Int,
     blamed : BOOLEAN, lapsed : Int]

TypeOK ==
    /\ now \in 0..MaxTime /\ wall \in 0..MaxTime /\ jumps \in Nat
    /\ jn \in [Journals -> Reg]

\* The two sides of the nonce cache are apart and within their limits.
Bounded(out, sp) ==
    /\ IsFiniteSet(DOMAIN out) /\ IsFiniteSet(DOMAIN sp)
    /\ DOMAIN out \subseteq Nonces /\ DOMAIN out \cap DOMAIN sp = {}
    /\ Cardinality(DOMAIN out) <= OutstandingLimit /\ Cardinality(DOMAIN sp) <= SpentLimit

\* Every outstanding nonce is held by an exchange.
Held == \A n \in DOMAIN outstanding : \E j \in Journals : jn[j].nonce = n

\* Only an exchange that waits for its response holds a nonce.
Holding(r) == r.nonce # None => r.at \in {"challenged"} \cup Trying

\* Before the commit nothing is published; after a poisoned attempt there is no other.
Unpublished(r, n) ==
    /\ r.last <= n
    /\ r.at \in Early => ~r.retired /\ r.current = 0
    /\ r.at \in Early \cup Trying => ~r.poisoned

\* A lapsed lease is noticed by the reconciliation that was set before it lapsed.
Watched(r, n, w) ==
    Supervised(r) =>
        /\ r.current = r.expiry /\ r.reconcileAt <= n + Reconciliation
        /\ r.lapsed # Far => /\ r.current <= w /\ n - r.lapsed <= Reconciliation
                             /\ r.reconcileAt <= r.lapsed + Reconciliation

\* As long as nothing went wrong the deadline agrees with the system clock, and
\* the next attempt, or the one that runs, is over before it.
OnTime(r, n, w) ==
    Supervised(r) /\ ~r.blamed =>
        /\ ~r.poisoned
        /\ r.maxDeadline - n = r.expiry - w
        /\ r.renewalStart + AttemptTimeout < r.maxDeadline
        /\ r.at = "serving" => /\ n <= r.attemptAt /\ r.attemptAt + AttemptTimeout < r.maxDeadline
                               /\ r.last + AttemptFloor + AttemptTimeout < r.maxDeadline
        /\ r.at # "serving" => n <= r.started + AttemptTimeout /\ r.started + AttemptTimeout < r.maxDeadline

Good(r, n, w) ==
    /\ Holding(r) /\ Unpublished(r, n) /\ Watched(r, n, w) /\ OnTime(r, n, w)
    /\ r.at = "expired" => r.blamed

IInv ==
    /\ TypeOK /\ Held /\ Bounded(outstanding, spent)
    /\ \A j \in Journals : Good(jn[j], now, wall)

-----------------------------------------------------------------------------
(* Clocks and records.                                                     *)

LEMMA ClocksAre ==
  ASSUME LeaseConstants, TypeOK
  PROVE  now \in Int /\ wall \in Int /\ 0 <= now /\ now <= MaxTime /\ 0 <= wall /\ wall <= MaxTime /\ Far \in Int /\ now < Far
BY DEF TypeOK, LeaseConstants, Far

\* A deadline is never in the past; without lead it is the expiry itself.
LEMMA DeadlineIs ==
  ASSUME LeaseConstants, TypeOK, NEW expiry \in Int, NEW lead \in Nat
  PROVE  /\ DeadlineFromWall(expiry, lead) \in Int /\ now <= DeadlineFromWall(expiry, lead)
         /\ wall < expiry => DeadlineFromWall(expiry, 0) = now + (expiry - wall)
         /\ expiry <= wall => DeadlineFromWall(expiry, 0) = now
         /\ wall < expiry => \/ DeadlineFromWall(expiry, lead) = now
                             \/ DeadlineFromWall(expiry, lead) = now + (expiry - wall) - lead
<1>1. now \in Int /\ wall \in Int /\ 0 <= wall
  BY ClocksAre
<1> QED
  BY <1>1 DEF DeadlineFromWall

LEMMA FreshIs == ASSUME LeaseConstants PROVE Fresh \in Reg /\ Fresh.last <= 0
<1>1. Never \in Int /\ Never <= 0 /\ Far \in Int
  BY DEF LeaseConstants, Never, Far
<1> QED
  BY <1>1 DEF Fresh, Reg, Points, Early, Trying

\* What is over holds nothing, and what was published stays published.
LEMMA OverIs ==
  ASSUME LeaseConstants, TypeOK, NEW r \in Reg
  PROVE  /\ Over(r) \in Reg /\ Good(Over(r), now, wall) /\ Over(r).nonce = None
         /\ Over(r).current = r.current /\ Over(r).retired = r.retired
<1>1. Over(r) \in Reg
  BY FreshIs DEF Over, Reg, Points
<1>2. /\ Over(r).at = "over" /\ Over(r).nonce = None /\ Over(r).last = Fresh.last
      /\ Over(r).current = r.current /\ Over(r).retired = r.retired
  BY DEF Over, Fresh
<1>3. Over(r).last <= now
  BY <1>1, <1>2, FreshIs, ClocksAre DEF Reg
<1>4. Good(Over(r), now, wall)
  BY <1>2, <1>3 DEF Good, Holding, Unpublished, Watched, OnTime, Supervised, Attempting, Early, Trying
<1> QED
  BY <1>1, <1>2, <1>4

\* A lease that is retired at its deadline keeps its account of what went wrong.
LEMMA RetireIs ==
  ASSUME LeaseConstants, TypeOK, NEW r \in Reg, r.blamed
  PROVE  /\ RetireForExpiry(r) \in Reg /\ Good(RetireForExpiry(r), now, wall)
         /\ RetireForExpiry(r).nonce = None /\ RetireForExpiry(r).current = r.current
         /\ RetireForExpiry(r).retired
<1> DEFINE q == RetireForExpiry(r)
<1>1. q \in Reg
  BY OverIs DEF RetireForExpiry, Reg, Points
<1>2. /\ q.at = "expired" /\ q.nonce = None /\ q.last = Fresh.last /\ q.blamed
      /\ q.current = r.current /\ q.retired
  BY DEF RetireForExpiry, Over, Fresh
<1>3. q.last <= now
  BY <1>1, <1>2, FreshIs, ClocksAre DEF Reg
<1> HIDE DEF q
<1>4. Good(q, now, wall)
  BY <1>2, <1>3 DEF Good, Holding, Unpublished, Watched, OnTime, Supervised, Attempting, Early, Trying
<1> QED
  BY <1>1, <1>2, <1>4 DEF q

\* The next attempt is never in the past, and at most one floor after the last.
LEMMA NextAttemptIs ==
  ASSUME LeaseConstants, TypeOK, NEW r \in Reg
  PROVE  /\ NextAttemptAt(r) \in Int /\ now <= NextAttemptAt(r)
         /\ NextAttemptAt(r) \in {now, r.renewalStart, r.last + AttemptFloor}
<1>1. now \in Int /\ AttemptFloor \in Int /\ r.renewalStart \in Int /\ r.last \in Int
  BY ClocksAre DEF LeaseConstants, Reg
<1> QED
  BY <1>1 DEF NextAttemptAt

-----------------------------------------------------------------------------
(* The supervisor's loop.                                                  *)

\* What a lease must satisfy when the supervisor reaches the head of its loop.
Ready(r) ==
    /\ r.last <= now /\ r.current = r.expiry /\ r.reconcileAt <= now + Reconciliation
    /\ r.lapsed # Far => \/ r.maxDeadline <= now
                         \/ /\ r.current <= wall /\ now - r.lapsed <= Reconciliation
                            /\ r.reconcileAt <= r.lapsed + Reconciliation
    /\ ~r.blamed => /\ ~r.poisoned /\ r.maxDeadline - now = r.expiry - wall
                    /\ r.renewalStart + AttemptTimeout < r.maxDeadline
                    /\ r.last + AttemptFloor + AttemptTimeout < r.maxDeadline
                    /\ now + AttemptTimeout < r.maxDeadline

\* A record stays one when these fields are set.
LEMMA ServedIs ==
  ASSUME NEW r \in Reg, NEW point \in Points, NEW zero \in Int, NEW at \in Int
  PROVE  [r EXCEPT !.at = point, !.nonce = None, !.issuedAt = zero, !.started = zero, !.attemptAt = at] \in Reg
BY DEF Reg

\* The head of the loop retires the lease or serves on, and gives back no nonce.
LEMMA LoopTopIs ==
  ASSUME LeaseConstants, TypeOK, NEW r \in Reg, Ready(r)
  PROVE  /\ LoopTop(r) \in Reg /\ Good(LoopTop(r), now, wall) /\ LoopTop(r).nonce = None
         /\ LoopTop(r).current = r.current /\ (r.retired => LoopTop(r).retired)
<1>1. now \in Int /\ wall \in Int /\ Far \in Int /\ AttemptTimeout \in Nat
  BY ClocksAre DEF LeaseConstants
<1>2. CASE r.maxDeadline <= now
  <2>1. r.blamed
    BY <1>1, <1>2 DEF Ready, Reg
  <2> QED
    BY <1>2, <2>1, RetireIs DEF LoopTop
<1>3. CASE ~(r.maxDeadline <= now)
  <2> DEFINE at == IF r.poisoned THEN Far ELSE NextAttemptAt(r)
             q == [r EXCEPT !.at = "serving", !.nonce = None, !.issuedAt = 0, !.started = 0, !.attemptAt = at]
  <2>1. LoopTop(r) = q
    BY <1>3 DEF LoopTop
  <2>2. at \in Int /\ (~r.poisoned => /\ now <= at
                                      /\ at = now \/ at = r.renewalStart \/ at = r.last + AttemptFloor)
    BY <1>1, NextAttemptIs
  <2>9. at \in Int
    BY <2>2
  <2> HIDE DEF at
  <2>3. q \in Reg
    <3>1. "serving" \in Points /\ 0 \in Int
      BY DEF Points
    <3> QED
      BY <2>9, <3>1, ServedIs
  <2>4. /\ q.at = "serving" /\ q.nonce = None /\ q.attemptAt = at
        /\ q.current = r.current /\ q.retired = r.retired /\ q.last = r.last /\ q.expiry = r.expiry
        /\ q.reconcileAt = r.reconcileAt /\ q.lapsed = r.lapsed /\ q.blamed = r.blamed
        /\ q.poisoned = r.poisoned /\ q.maxDeadline = r.maxDeadline /\ q.renewalStart = r.renewalStart
    BY DEF Reg
  <2> HIDE DEF q
  <2>5. Holding(q) /\ Unpublished(q, now)
    BY <2>4 DEF Ready, Holding, Unpublished, Early, Trying
  <2>6. Watched(q, now, wall)
    BY <1>3, <2>4 DEF Ready, Watched
  <2>7. ASSUME ~r.blamed PROVE at + AttemptTimeout < r.maxDeadline /\ now <= at
    <3>1. /\ now + AttemptTimeout < r.maxDeadline /\ r.renewalStart + AttemptTimeout < r.maxDeadline
          /\ (r.last + AttemptFloor) + AttemptTimeout < r.maxDeadline /\ ~r.poisoned
      BY <2>7 DEF Ready
    <3> QED
      BY <2>2, <3>1
  <2>8. OnTime(q, now, wall)
    BY <2>4, <2>7 DEF Ready, OnTime
  <2> QED
    BY <2>1, <2>3, <2>4, <2>5, <2>6, <2>8 DEF Good
<1> QED
  BY <1>2, <1>3

\* A new expiry in the future is a lease in good order, or one too short that is
\* marked as such.
LEMMA InstallIs ==
  ASSUME LeaseConstants, TypeOK, NEW r \in Reg, NEW expiry \in Int, wall < expiry,
         r.last <= now, ~r.poisoned
  PROVE  /\ Install(r, expiry) \in Reg /\ Ready(Install(r, expiry))
         /\ Install(r, expiry).current = expiry /\ Install(r, expiry).retired = r.retired
<1>1. /\ now \in Int /\ wall \in Int /\ Far \in Int /\ AttemptTimeout \in Nat /\ RenewalWindow \in Nat
      /\ Reconciliation \in Nat /\ AttemptFloor \in Nat /\ AttemptTimeout < RenewalWindow
  BY ClocksAre DEF LeaseConstants
<1> DEFINE start == DeadlineFromWall(expiry, RenewalWindow)
           end == DeadlineFromWall(expiry, 0)
           next == now + Reconciliation
           short == Short(expiry - wall)
           q == [r EXCEPT !.expiry = expiry, !.current = expiry, !.lapsed = Far, !.blamed = short,
                          !.renewalStart = start, !.maxDeadline = end, !.reconcileAt = next]
<1>2. Install(r, expiry) = q
  BY DEF Install
<1>3. /\ start \in Int /\ end \in Int /\ next \in Int /\ short \in BOOLEAN /\ end = now + (expiry - wall)
      /\ start = now \/ start = now + (expiry - wall) - RenewalWindow
  BY <1>1, DeadlineIs DEF Short
<1>4. ~short => expiry - wall > AttemptFloor + AttemptTimeout
  BY <1>1 DEF Short
<1> HIDE DEF start, end, short, next
<1>5. q \in Reg
  BY <1>1, <1>3 DEF Reg
<1>6. /\ q.expiry = expiry /\ q.current = expiry /\ q.lapsed = Far /\ q.blamed = short
      /\ q.renewalStart = start /\ q.maxDeadline = end /\ q.reconcileAt = next
      /\ q.last = r.last /\ q.poisoned = r.poisoned /\ q.retired = r.retired
  BY DEF Reg
<1> HIDE DEF q
<1>7. ASSUME ~short
      PROVE  /\ end - now = expiry - wall /\ start + AttemptTimeout < end
             /\ r.last + AttemptFloor + AttemptTimeout < end /\ now + AttemptTimeout < end
  BY <1>1, <1>3, <1>4, <1>7 DEF Reg
<1>8. q.last <= now /\ q.current = q.expiry /\ q.reconcileAt <= now + Reconciliation
  BY <1>1, <1>6 DEF next
<1>9. ASSUME ~q.blamed
      PROVE  /\ ~q.poisoned /\ q.maxDeadline - now = q.expiry - wall
             /\ q.renewalStart + AttemptTimeout < q.maxDeadline
             /\ q.last + AttemptFloor + AttemptTimeout < q.maxDeadline
             /\ now + AttemptTimeout < q.maxDeadline
  <2>1. ~short
    BY <1>6, <1>9
  <2> QED
    BY <1>6, <1>7, <2>1
<1>10. Ready(q)
  BY <1>6, <1>8, <1>9 DEF Ready
<1> QED
  BY <1>2, <1>5, <1>6, <1>10

\* A reconciliation only moves deadlines earlier; where the clock was not set it
\* does not move the end, and a lapsed lease is over.
LEMMA RatchetIs ==
  ASSUME LeaseConstants, TypeOK, NEW r \in Reg, Supervised(r), Good(r, now, wall)
  PROVE  LET q == Ratchet(r) IN
         /\ q \in Reg /\ q.reconcileAt = now + Reconciliation
         /\ q.at = r.at /\ q.nonce = r.nonce /\ q.expiry = r.expiry /\ q.current = r.current
         /\ q.retired = r.retired /\ q.poisoned = r.poisoned /\ q.blamed = r.blamed /\ q.last = r.last
         /\ q.lapsed = r.lapsed /\ q.started = r.started /\ q.attemptAt = r.attemptAt
         /\ q.renewalStart <= r.renewalStart
         /\ r.lapsed # Far => q.maxDeadline <= now
         /\ ~r.blamed => q.maxDeadline = r.maxDeadline
<1>1. now \in Int /\ wall \in Int /\ Reconciliation \in Nat /\ RenewalWindow \in Nat /\ r.expiry \in Int
  BY ClocksAre DEF LeaseConstants, Reg
<1> DEFINE a == DeadlineFromWall(r.expiry, RenewalWindow)
           b == DeadlineFromWall(r.expiry, 0)
           start == Earlier(r.renewalStart, a)
           end == Earlier(r.maxDeadline, b)
           next == now + Reconciliation
           q == [r EXCEPT !.renewalStart = start, !.maxDeadline = end, !.reconcileAt = next]
<1>2. Ratchet(r) = q
  BY DEF Ratchet
<1>3. a \in Int /\ b \in Int /\ (wall < r.expiry => b = now + (r.expiry - wall)) /\ (r.expiry <= wall => b = now)
  BY <1>1, DeadlineIs
<1> HIDE DEF a, b
<1>4. start \in Int /\ end \in Int /\ next \in Int /\ start <= r.renewalStart /\ end <= b
  BY <1>1, <1>3 DEF Earlier, Reg
<1>5. r.lapsed # Far => end <= now
  BY <1>1, <1>3, <1>4 DEF Good, Watched, Reg
<1>6. ~r.blamed => end = r.maxDeadline
  <2>1. ~r.blamed => r.maxDeadline - now = r.expiry - wall /\ r.maxDeadline > now
    <3>1. ASSUME ~r.blamed PROVE r.maxDeadline > now
      <4>1. CASE r.at = "serving"
        BY <1>1, <3>1, <4>1 DEF Good, OnTime, Reg, LeaseConstants
      <4>2. CASE r.at # "serving"
        BY <1>1, <3>1, <4>2 DEF Good, OnTime, Reg, LeaseConstants
      <4> QED
        BY <4>1, <4>2
    <3> QED
      BY <3>1 DEF Good, OnTime
  <2> QED
    BY <1>1, <1>3, <2>1 DEF Earlier, Reg
<1> HIDE DEF start, end, next
<1>7. q \in Reg
  BY <1>4 DEF Reg
<1>8. /\ q.at = r.at /\ q.nonce = r.nonce /\ q.expiry = r.expiry /\ q.current = r.current
      /\ q.retired = r.retired /\ q.poisoned = r.poisoned /\ q.blamed = r.blamed /\ q.last = r.last
      /\ q.lapsed = r.lapsed /\ q.started = r.started /\ q.attemptAt = r.attemptAt
      /\ q.renewalStart = start /\ q.maxDeadline = end /\ q.reconcileAt = next
  BY DEF Reg
<1> HIDE DEF q
<1> QED
  BY <1>2, <1>4, <1>5, <1>6, <1>7, <1>8 DEF next

\* A lease in good order that is marked as failed, or poisoned, can go on with the loop.
LEMMA BlamedIs ==
  ASSUME LeaseConstants, TypeOK, NEW r \in Reg, Supervised(r), Good(r, now, wall), NEW b \in BOOLEAN
  PROVE  LET q == [r EXCEPT !.blamed = TRUE, !.poisoned = b] IN
         q \in Reg /\ Ready(q) /\ q.current = r.current /\ q.retired = r.retired
<1> DEFINE q == [r EXCEPT !.blamed = TRUE, !.poisoned = b]
<1>1. q \in Reg
  BY DEF Reg
<1>2. /\ q.expiry = r.expiry /\ q.current = r.current /\ q.lapsed = r.lapsed /\ q.blamed
      /\ q.reconcileAt = r.reconcileAt /\ q.last = r.last /\ q.retired = r.retired
  BY DEF Reg
<1> HIDE DEF q
<1>3. Ready(q)
  BY <1>2 DEF Ready, Good, Watched, Unpublished
<1> QED
  BY <1>1, <1>2, <1>3 DEF q

\* The supervisor's loop after a failed attempt.
LEMMA FailedIs ==
  ASSUME LeaseConstants, TypeOK, NEW r \in Reg, Supervised(r), Good(r, now, wall),
         NEW q, q = LoopTop([r EXCEPT !.blamed = TRUE])
  PROVE  /\ q \in Reg /\ Good(q, now, wall) /\ q.nonce = None
         /\ q.current = r.current /\ (r.retired => q.retired)
<1>1. [r EXCEPT !.blamed = TRUE] = [r EXCEPT !.blamed = TRUE, !.poisoned = r.poisoned]
  BY DEF Reg
<1>2. r.poisoned \in BOOLEAN
  BY DEF Reg
<1> DEFINE s == [r EXCEPT !.blamed = TRUE, !.poisoned = r.poisoned]
<1>3. s \in Reg /\ Ready(s) /\ s.current = r.current /\ s.retired = r.retired
  BY <1>2, BlamedIs
<1>4. q = LoopTop(s)
  BY <1>1
<1> HIDE DEF s
<1> QED
  BY <1>3, <1>4, LoopTopIs

\* The supervisor's loop after the control stream was given up.
LEMMA PoisonIs ==
  ASSUME LeaseConstants, TypeOK, NEW r \in Reg, Supervised(r), Good(r, now, wall)
  PROVE  /\ Poison(r) \in Reg /\ Good(Poison(r), now, wall) /\ Poison(r).nonce = None
         /\ Poison(r).current = r.current /\ (r.retired => Poison(r).retired)
<1>1. [r EXCEPT !.poisoned = TRUE, !.blamed = TRUE] = [r EXCEPT !.blamed = TRUE, !.poisoned = TRUE]
  BY DEF Reg
<1> DEFINE s == [r EXCEPT !.blamed = TRUE, !.poisoned = TRUE]
<1>2. s \in Reg /\ Ready(s) /\ s.current = r.current /\ s.retired = r.retired
  BY BlamedIs
<1>3. Poison(r) = LoopTop(s)
  BY <1>1 DEF Poison
<1> HIDE DEF s
<1> QED
  BY <1>2, <1>3, LoopTopIs

-----------------------------------------------------------------------------
(* The nonce cache.                                                        *)

LEMMA KeepIs ==
  ASSUME NEW f, NEW S PROVE DOMAIN Keep(f, S) = S
BY DEF Keep

LEMMA PutIs ==
  ASSUME NEW f, NEW n, NEW e PROVE DOMAIN Put(f, n, e) = DOMAIN f \cup {n}
BY DEF Put

LEMMA PruneIs ==
  ASSUME NEW f PROVE DOMAIN Prune(f) \subseteq DOMAIN f
BY KeepIs DEF Prune

\* Forgetting entries keeps the cache within its limits.
LEMMA FewerBounded ==
  ASSUME LeaseConstants, Bounded(outstanding, spent), NEW out, NEW sp,
         DOMAIN out \subseteq DOMAIN outstanding, DOMAIN sp \subseteq DOMAIN spent
  PROVE  Bounded(out, sp)
<1>1. /\ IsFiniteSet(DOMAIN out) /\ Cardinality(DOMAIN out) <= Cardinality(DOMAIN outstanding)
      /\ IsFiniteSet(DOMAIN sp) /\ Cardinality(DOMAIN sp) <= Cardinality(DOMAIN spent)
  BY FS_Subset DEF Bounded
<1>2. /\ Cardinality(DOMAIN out) \in Nat /\ Cardinality(DOMAIN outstanding) \in Nat
      /\ Cardinality(DOMAIN sp) \in Nat /\ Cardinality(DOMAIN spent) \in Nat
  BY <1>1, FS_CardinalityType DEF Bounded
<1>3. Cardinality(DOMAIN out) <= OutstandingLimit /\ Cardinality(DOMAIN sp) <= SpentLimit
  BY <1>1, <1>2 DEF Bounded, LeaseConstants
<1> QED
  BY <1>1, <1>3 DEF Bounded

\* An issued nonce is new to both sides and fits.
LEMMA IssueBounded ==
  ASSUME LeaseConstants, Bounded(outstanding, spent), NEW n \in Issuable, NEW e, Issue(n, e)
  PROVE  /\ Bounded(outstanding', spent') /\ n \in Nonces \cup {None}
         /\ DOMAIN outstanding' \subseteq DOMAIN outstanding \cup ({n} \ {None})
<1> DEFINE out == Prune(outstanding)
           sp == Prune(spent)
<1>1. DOMAIN out \subseteq DOMAIN outstanding /\ DOMAIN sp \subseteq DOMAIN spent
  BY PruneIs
<1>2. Bounded(out, sp)
  BY <1>1, FewerBounded
<1>3. CASE n = None
  BY <1>1, <1>2, <1>3 DEF Issue
<1>4. CASE n # None
  <2>1. n \in Nonces /\ n \notin DOMAIN out /\ n \notin DOMAIN sp /\ ~(Cardinality(DOMAIN out) >= OutstandingLimit)
    BY <1>4 DEF Issuable
  <2>2. outstanding' = Put(out, n, e) /\ spent' = sp
    BY <1>4 DEF Issue
  <2> HIDE DEF out, sp
  <2>3. DOMAIN outstanding' = DOMAIN out \cup {n}
    BY <2>2, PutIs
  <2>4. IsFiniteSet(DOMAIN out) /\ Cardinality(DOMAIN out) \in Nat
    BY <1>2, FS_CardinalityType DEF Bounded
  <2>5. IsFiniteSet(DOMAIN out \cup {n}) /\ Cardinality(DOMAIN out \cup {n}) = Cardinality(DOMAIN out) + 1
    BY <2>1, <2>4, FS_AddElement
  <2>6. Cardinality(DOMAIN outstanding') <= OutstandingLimit
    BY <2>1, <2>3, <2>4, <2>5 DEF LeaseConstants
  <2>7. DOMAIN outstanding' \subseteq Nonces /\ DOMAIN outstanding' \cap DOMAIN spent' = {}
    BY <1>2, <2>1, <2>2, <2>3 DEF Bounded
  <2> QED
    BY <1>1, <1>2, <1>4, <2>1, <2>2, <2>3, <2>5, <2>6, <2>7 DEF Bounded
<1> QED
  BY <1>3, <1>4

\* A redeemed nonce moves to the spent side, which has room for it.
LEMMA RedeemBounded ==
  ASSUME LeaseConstants, Bounded(outstanding, spent), NEW n, NEW e, NEW until,
         Redeemable(n, e), Redeem(n, until)
  PROVE  Bounded(outstanding', spent') /\ DOMAIN outstanding' \subseteq DOMAIN outstanding \ {n}
<1> DEFINE out == Keep(Prune(outstanding), DOMAIN Prune(outstanding) \ {n})
           sp == Prune(spent)
<1>1. DOMAIN out \subseteq DOMAIN outstanding \ {n} /\ DOMAIN sp \subseteq DOMAIN spent
  BY PruneIs, KeepIs
<1>2. Bounded(out, sp)
  BY <1>1, FewerBounded
<1>3. n \in DOMAIN outstanding /\ Cardinality(DOMAIN sp) < SpentLimit
  BY PruneIs DEF Redeemable
<1>4. outstanding' = out /\ spent' = Put(sp, n, until)
  BY DEF Redeem
<1> HIDE DEF out, sp
<1>5. DOMAIN spent' = DOMAIN sp \cup {n} /\ n \notin DOMAIN sp
  BY <1>1, <1>3, <1>4, PutIs DEF Bounded
<1>6. IsFiniteSet(DOMAIN sp) /\ Cardinality(DOMAIN sp) \in Nat
  BY <1>2, FS_CardinalityType DEF Bounded
<1>7. IsFiniteSet(DOMAIN spent') /\ Cardinality(DOMAIN spent') = Cardinality(DOMAIN sp) + 1
  BY <1>5, <1>6, FS_AddElement
<1>8. Cardinality(DOMAIN spent') <= SpentLimit
  BY <1>3, <1>6, <1>7 DEF LeaseConstants
<1>9. DOMAIN outstanding' \cap DOMAIN spent' = {}
  BY <1>1, <1>2, <1>4, <1>5 DEF Bounded
<1> QED
  BY <1>1, <1>2, <1>4, <1>7, <1>8, <1>9 DEF Bounded

\* A slot given back is gone.
LEMMA DropBounded ==
  ASSUME LeaseConstants, Bounded(outstanding, spent), NEW n, DropLease(n) \/ Unredeemed(n)
  PROVE  Bounded(outstanding', spent') /\ DOMAIN outstanding' \subseteq DOMAIN outstanding \ {n}
<1>1. DOMAIN outstanding' \subseteq DOMAIN outstanding \ {n} /\ DOMAIN spent' \subseteq DOMAIN spent
  <2>1. CASE DropLease(n)
    BY <2>1, KeepIs DEF DropLease
  <2>2. CASE Unredeemed(n)
    BY <2>2, PruneIs, KeepIs DEF Unredeemed
  <2> QED
    BY <2>1, <2>2
<1> QED
  BY <1>1, FewerBounded

-----------------------------------------------------------------------------
(* The steps.                                                              *)

\* What a step may do to one registration.
Forward(r, q) == (r.retired => q.retired /\ q.current = r.current) /\ r.current <= q.current

Kept == IInv' /\ RetiredIsFinal

LEMMA InitIInv == ASSUME LeaseConstants, Init PROVE IInv
<1>1. TypeOK
  BY FreshIs DEF Init, TypeOK, LeaseConstants
<1>2. DOMAIN outstanding = {} /\ DOMAIN spent = {}
  BY DEF Init
<1>3. Held /\ Bounded(outstanding, spent)
  BY <1>2, FS_EmptySet DEF Held, Bounded, LeaseConstants
<1>4. Good(Fresh, 0, 0)
  <2>1. /\ Fresh.at = "idle" /\ Fresh.nonce = None /\ ~Fresh.retired /\ Fresh.current = 0
        /\ ~Fresh.poisoned
    BY DEF Fresh
  <2> QED
    BY <2>1, FreshIs DEF Good, Holding, Unpublished, Watched, OnTime, Supervised, Attempting, Early, Trying
<1>5. now = 0 /\ wall = 0 /\ \A j \in Journals : jn[j] = Fresh
  BY DEF Init
<1> QED
  BY <1>1, <1>3, <1>4, <1>5 DEF IInv

\* A step of one journal that gives back its nonce unless it keeps it.
LEMMA JournalStep ==
  ASSUME LeaseConstants, IInv, NEW j \in Journals, NEW r \in Reg, Set(j, r), Clocks,
         Good(r, now, wall), Forward(jn[j], r), Bounded(outstanding', spent'),
         DOMAIN outstanding' \subseteq (DOMAIN outstanding \ {jn[j].nonce}) \cup ({r.nonce} \ {None})
  PROVE  Kept
<1>1. /\ jn \in [Journals -> Reg] /\ jn'[j] = r /\ \A k \in Journals : k # j => jn'[k] = jn[k]
      /\ UNCHANGED <<now, wall, jumps>>
  BY DEF IInv, TypeOK, Set, Clocks
<1>2. TypeOK'
  BY <1>1 DEF IInv, TypeOK, Set
<1>3. Held'
  BY <1>1 DEF IInv, Held
<1>4. \A k \in Journals : Good(jn'[k], now', wall')
  BY <1>1 DEF IInv
<1>5. IInv'
  BY <1>2, <1>3, <1>4 DEF IInv
<1>6. \A k \in Journals : k # j => Forward(jn[k], jn'[k])
  BY <1>1 DEF Forward, Reg
<1>7. RetiredIsFinal
  BY <1>1, <1>6 DEF Forward, RetiredIsFinal, Reg
<1> QED
  BY <1>5, <1>7 DEF Kept

\* The same, with the cache left alone.
LEMMA QuietStep ==
  ASSUME LeaseConstants, IInv, NEW j \in Journals, NEW r \in Reg, Set(j, r), Clocks,
         Good(r, now, wall), Forward(jn[j], r), UNCHANGED <<outstanding, spent>>,
         r.nonce = jn[j].nonce \/ jn[j].nonce = None
  PROVE  Kept
<1>1. Bounded(outstanding', spent') /\ None \notin DOMAIN outstanding
  BY DEF IInv, Bounded, LeaseConstants, None
<1>2. DOMAIN outstanding' \subseteq (DOMAIN outstanding \ {jn[j].nonce}) \cup ({r.nonce} \ {None})
  BY <1>1
<1> QED
  BY <1>1, <1>2, JournalStep

\* The same, with the nonce given back.
LEMMA DropStep ==
  ASSUME LeaseConstants, IInv, NEW j \in Journals, NEW r \in Reg, Set(j, r), Clocks,
         Good(r, now, wall), Forward(jn[j], r), DropLease(jn[j].nonce) \/ Unredeemed(jn[j].nonce)
  PROVE  Kept
<1>1. Bounded(outstanding', spent') /\ DOMAIN outstanding' \subseteq DOMAIN outstanding \ {jn[j].nonce}
  BY DropBounded DEF IInv
<1> QED
  BY <1>1, JournalStep

LEMMA ForwardIs ==
  ASSUME NEW r \in Reg, NEW q \in Reg, q.current = r.current, r.retired => q.retired PROVE Forward(r, q)
BY DEF Forward, Reg

LEMMA PresentedIs ==
  ASSUME LeaseConstants, TypeOK, NEW t \in Presented PROVE t.exp \in Int /\ t.iat \in Int
BY ClocksAre DEF Presented, LeaseConstants

LEMMA ChallengeStep == ASSUME LeaseConstants, IInv, NEW j \in Journals, Challenge(j) PROVE Kept
<1>1. /\ jn[j] \in Reg /\ jn[j].at = "idle" /\ Clocks /\ Good(jn[j], now, wall) /\ jn[j].nonce = None
      /\ TypeOK /\ wall \in Int
  BY ClocksAre DEF Challenge, IInv, TypeOK, Good, Holding, Trying
<1>2. CASE Set(j, Over(jn[j])) /\ UNCHANGED <<outstanding, spent>>
  BY <1>1, <1>2, OverIs, ForwardIs, QuietStep
<1>3. ASSUME NEW t \in Presented, NEW n \in Issuable, Issue(n, t.exp),
             Set(j, IF n = None THEN Over(jn[j])
                    ELSE [jn[j] EXCEPT !.at = "challenged", !.nonce = n, !.issuedAt = wall, !.expiry = t.exp])
      PROVE  Kept
  <2>1. /\ Bounded(outstanding', spent') /\ n \in Nonces \cup {None}
        /\ DOMAIN outstanding' \subseteq DOMAIN outstanding \cup ({n} \ {None})
    BY <1>3, IssueBounded DEF IInv
  <2>2. None \notin DOMAIN outstanding
    BY DEF IInv, Bounded, LeaseConstants, None
  <2>3. CASE n = None
    BY <1>1, <1>3, <2>1, <2>2, <2>3, OverIs, ForwardIs, JournalStep
  <2>4. CASE n # None
    <3> DEFINE q == [jn[j] EXCEPT !.at = "challenged", !.nonce = n, !.issuedAt = wall, !.expiry = t.exp]
    <3>1. t.exp \in Int
      BY <1>1, PresentedIs
    <3>2. q \in Reg
      BY <1>1, <2>1, <3>1 DEF Reg, Points, Early
    <3>3. /\ q.at = "challenged" /\ q.nonce = n /\ q.last = jn[j].last /\ q.retired = jn[j].retired
          /\ q.current = jn[j].current /\ q.poisoned = jn[j].poisoned
      BY <1>1 DEF Reg
    <3> HIDE DEF q
    <3>4. Good(q, now, wall)
      BY <1>1, <3>3 DEF Good, Holding, Unpublished, Watched, OnTime, Supervised, Attempting, Early, Trying
    <3>5. Set(j, q)
      BY <1>3, <2>4 DEF q
    <3> QED
      BY <1>1, <2>1, <2>2, <3>2, <3>3, <3>4, <3>5, ForwardIs, JournalStep
  <2> QED
    BY <2>3, <2>4
<1> QED
  BY <1>2, <1>3 DEF Challenge

LEMMA RespondStep == ASSUME LeaseConstants, IInv, NEW j \in Journals, Respond(j) PROVE Kept
<1>1. jn[j] \in Reg /\ jn[j].at = "challenged" /\ Clocks /\ Good(jn[j], now, wall) /\ TypeOK
  BY DEF Respond, IInv, TypeOK
<1>2. CASE (DropLease(jn[j].nonce) \/ Unredeemed(jn[j].nonce)) /\ Set(j, Over(jn[j]))
  BY <1>1, <1>2, OverIs, ForwardIs, DropStep
<1>3. CASE /\ Redeemable(jn[j].nonce, jn[j].expiry) /\ Redeem(jn[j].nonce, jn[j].expiry)
           /\ Set(j, [jn[j] EXCEPT !.at = "opening", !.nonce = None])
  <2> DEFINE q == [jn[j] EXCEPT !.at = "opening", !.nonce = None]
  <2>1. q \in Reg
    BY <1>1 DEF Reg, Points, Early
  <2>2. /\ q.at = "opening" /\ q.nonce = None /\ q.last = jn[j].last /\ q.retired = jn[j].retired
        /\ q.current = jn[j].current /\ q.poisoned = jn[j].poisoned
    BY <1>1 DEF Reg
  <2>3. Bounded(outstanding', spent') /\ DOMAIN outstanding' \subseteq DOMAIN outstanding \ {jn[j].nonce}
    BY <1>3, RedeemBounded DEF IInv
  <2> HIDE DEF q
  <2>4. Good(q, now, wall)
    BY <1>1, <2>2 DEF Good, Holding, Unpublished, Watched, OnTime, Supervised, Attempting, Early, Trying
  <2>5. Set(j, q)
    BY <1>3 DEF q
  <2> QED
    BY <1>1, <2>1, <2>2, <2>3, <2>4, <2>5, ForwardIs, JournalStep
<1> QED
  BY <1>2, <1>3 DEF Respond

LEMMA CommitStep == ASSUME LeaseConstants, IInv, NEW j \in Journals, Commit(j) PROVE Kept
<1>1. /\ jn[j] \in Reg /\ jn[j].at = "opening" /\ Clocks /\ Good(jn[j], now, wall) /\ TypeOK
      /\ UNCHANGED <<outstanding, spent>> /\ jn[j].expiry \in Int /\ wall \in Int /\ 0 <= wall
  BY ClocksAre DEF Commit, IInv, TypeOK, Reg
<1>2. jn[j].nonce = None /\ jn[j].last <= now /\ ~jn[j].poisoned /\ ~jn[j].retired /\ jn[j].current = 0
  BY <1>1 DEF Good, Holding, Unpublished, Early, Trying
<1>3. CASE wall >= jn[j].expiry
  <2>1. Set(j, Over(jn[j]))
    BY <1>3 DEF Commit
  <2> QED
    BY <1>1, <1>2, <2>1, OverIs, ForwardIs, QuietStep
<1>4. CASE ~(wall >= jn[j].expiry)
  <2> DEFINE s == Install(jn[j], jn[j].expiry)
             q == LoopTop(s)
  <2>1. Set(j, q)
    BY <1>4 DEF Commit
  <2>2. s \in Reg /\ Ready(s) /\ s.current = jn[j].expiry
    BY <1>1, <1>2, <1>4, InstallIs
  <2> HIDE DEF s
  <2>3. q \in Reg /\ Good(q, now, wall) /\ q.current = jn[j].expiry
    BY <1>1, <2>2, LoopTopIs
  <2> HIDE DEF q
  <2>4. Forward(jn[j], q)
    BY <1>1, <1>2, <1>4, <2>3 DEF Forward
  <2> QED
    BY <1>1, <1>2, <2>1, <2>3, <2>4, QuietStep
<1> QED
  BY <1>3, <1>4

LEMMA GiveUpStep == ASSUME LeaseConstants, IInv, NEW j \in Journals, GiveUp(j) PROVE Kept
<1>1. jn[j] \in Reg /\ Clocks /\ TypeOK /\ DropLease(jn[j].nonce) /\ Set(j, Over(jn[j]))
  BY DEF GiveUp, IInv, TypeOK
<1> QED
  BY <1>1, OverIs, ForwardIs, DropStep

LEMMA SeeGoneStep == ASSUME LeaseConstants, IInv, NEW j \in Journals, SeeGone(j) PROVE Kept
<1>1. /\ jn[j] \in Reg /\ Clocks /\ TypeOK /\ Set(j, Over(jn[j])) /\ jn[j].nonce = None
      /\ UNCHANGED <<outstanding, spent>>
  BY DEF SeeGone, IInv, TypeOK, Good, Holding, Trying
<1> QED
  BY <1>1, OverIs, ForwardIs, QuietStep

\* A lease nothing went wrong with has time left.
LEMMA TimeLeft ==
  ASSUME LeaseConstants, TypeOK, NEW r \in Reg, Supervised(r), Good(r, now, wall), ~r.blamed
  PROVE  now < r.maxDeadline
<1>1. now \in Int /\ AttemptTimeout \in Nat
  BY ClocksAre DEF LeaseConstants
<1>2. CASE r.at = "serving"
  BY <1>1, <1>2 DEF Good, OnTime, Reg
<1>3. CASE r.at # "serving"
  BY <1>1, <1>3 DEF Good, OnTime, Reg
<1> QED
  BY <1>2, <1>3

LEMMA ReconcileStep == ASSUME LeaseConstants, IInv, NEW j \in Journals, Reconcile(j) PROVE Kept
<1>1. /\ jn[j] \in Reg /\ Clocks /\ TypeOK /\ jn[j].nonce = None /\ UNCHANGED <<outstanding, spent>>
      /\ jn[j].at = "serving" /\ Good(jn[j], now, wall) /\ Supervised(jn[j])
  BY DEF Reconcile, IInv, TypeOK, Good, Holding, Trying, Supervised
<1>2. now \in Int /\ wall \in Int /\ AttemptTimeout \in Nat /\ AttemptFloor \in Nat
  BY <1>1, ClocksAre DEF LeaseConstants
<1> DEFINE s == Ratchet(jn[j])
           q == LoopTop(s)
<1>3. /\ s \in Reg /\ s.reconcileAt = now + Reconciliation
      /\ s.expiry = jn[j].expiry /\ s.current = jn[j].current /\ s.retired = jn[j].retired
      /\ s.poisoned = jn[j].poisoned /\ s.blamed = jn[j].blamed /\ s.last = jn[j].last
      /\ s.lapsed = jn[j].lapsed /\ s.renewalStart <= jn[j].renewalStart
      /\ jn[j].lapsed # Far => s.maxDeadline <= now
      /\ ~jn[j].blamed => s.maxDeadline = jn[j].maxDeadline
  BY <1>1, RatchetIs
<1>4. Set(j, q)
  BY DEF Reconcile
<1> HIDE DEF s
<1>5. s.last <= now /\ s.current = s.expiry /\ s.reconcileAt <= now + Reconciliation
  BY <1>1, <1>2, <1>3 DEF Good, Unpublished, Watched, LeaseConstants
<1>6. ASSUME ~s.blamed
      PROVE  /\ ~s.poisoned /\ s.maxDeadline - now = s.expiry - wall
             /\ s.renewalStart + AttemptTimeout < s.maxDeadline
             /\ s.last + AttemptFloor + AttemptTimeout < s.maxDeadline
             /\ now + AttemptTimeout < s.maxDeadline
  <2>1. ~jn[j].blamed /\ s.maxDeadline = jn[j].maxDeadline
    BY <1>3, <1>6
  <2>2. /\ ~jn[j].poisoned /\ jn[j].maxDeadline - now = jn[j].expiry - wall
        /\ jn[j].renewalStart + AttemptTimeout < jn[j].maxDeadline
        /\ now <= jn[j].attemptAt /\ jn[j].attemptAt + AttemptTimeout < jn[j].maxDeadline
        /\ jn[j].last + AttemptFloor + AttemptTimeout < jn[j].maxDeadline
    BY <1>1, <2>1 DEF Good, OnTime
  <2>3. jn[j].renewalStart \in Int /\ s.renewalStart \in Int /\ jn[j].maxDeadline \in Int /\ jn[j].attemptAt \in Int
    BY <1>1, <1>3 DEF Reg
  <2>4. s.renewalStart + AttemptTimeout < jn[j].maxDeadline /\ now + AttemptTimeout < jn[j].maxDeadline
    BY <1>2, <1>3, <2>2, <2>3
  <2> QED
    BY <1>3, <2>1, <2>2, <2>4
<1>7. Ready(s)
  BY <1>3, <1>5, <1>6 DEF Ready
<1>8. q \in Reg /\ Good(q, now, wall) /\ q.current = jn[j].current /\ (jn[j].retired => q.retired)
  BY <1>1, <1>3, <1>7, LoopTopIs
<1> HIDE DEF q
<1> QED
  BY <1>1, <1>4, <1>8, ForwardIs, QuietStep

LEMMA ExpireStep == ASSUME LeaseConstants, IInv, NEW j \in Journals, Expire(j) PROVE Kept
<1>1. /\ jn[j] \in Reg /\ Clocks /\ TypeOK /\ jn[j].nonce = None /\ UNCHANGED <<outstanding, spent>>
      /\ Good(jn[j], now, wall) /\ Supervised(jn[j]) /\ jn[j].maxDeadline <= now
      /\ Set(j, RetireForExpiry(jn[j]))
  BY DEF Expire, IInv, TypeOK, Good, Holding, Trying, Supervised
<1>2. jn[j].blamed
  <2>1. now \in Int /\ jn[j].maxDeadline \in Int
    BY <1>1, ClocksAre DEF Reg
  <2> QED
    BY <1>1, <2>1, TimeLeft
<1> QED
  BY <1>1, <1>2, RetireIs, ForwardIs, QuietStep

LEMMA StartAttemptStep == ASSUME LeaseConstants, IInv, NEW j \in Journals, StartAttempt(j) PROVE Kept
<1>1. /\ jn[j] \in Reg /\ Clocks /\ TypeOK /\ jn[j].nonce = None /\ jn[j].at = "serving"
      /\ ~jn[j].poisoned /\ jn[j].attemptAt <= now /\ Good(jn[j], now, wall) /\ Supervised(jn[j])
  BY DEF StartAttempt, IInv, TypeOK, Good, Holding, Trying, Supervised
<1>2. now \in Int /\ wall \in Int /\ AttemptTimeout \in Nat
  BY <1>1, ClocksAre DEF LeaseConstants
<1> DEFINE r == [jn[j] EXCEPT !.last = now, !.started = now]
<1>3. PICK n \in Issuable :
        /\ Issue(n, r.expiry)
        /\ Set(j, IF n = None THEN LoopTop([r EXCEPT !.blamed = TRUE])
                  ELSE [r EXCEPT !.at = "renewing", !.nonce = n, !.issuedAt = wall])
  BY DEF StartAttempt
<1>4. /\ Bounded(outstanding', spent') /\ n \in Nonces \cup {None}
      /\ DOMAIN outstanding' \subseteq DOMAIN outstanding \cup ({n} \ {None})
  BY <1>3, IssueBounded DEF IInv
<1>5. None \notin DOMAIN outstanding
  BY DEF IInv, Bounded, LeaseConstants, None
<1>6. r \in Reg
  BY <1>1, <1>2 DEF Reg
<1>7. /\ r.at = "serving" /\ r.expiry = jn[j].expiry /\ r.current = jn[j].current /\ r.last = now
      /\ r.started = now /\ r.retired = jn[j].retired /\ r.reconcileAt = jn[j].reconcileAt
      /\ r.lapsed = jn[j].lapsed /\ r.blamed = jn[j].blamed /\ r.poisoned = jn[j].poisoned
      /\ r.maxDeadline = jn[j].maxDeadline /\ r.renewalStart = jn[j].renewalStart
  BY <1>1 DEF Reg
<1> HIDE DEF r
<1>8. CASE n = None
  <2> DEFINE s == [r EXCEPT !.blamed = TRUE]
             q == LoopTop(s)
  <2>1. s \in Reg
    BY <1>6 DEF Reg
  <2>2. /\ s.expiry = jn[j].expiry /\ s.current = jn[j].current /\ s.last = now /\ s.blamed
        /\ s.retired = jn[j].retired /\ s.reconcileAt = jn[j].reconcileAt /\ s.lapsed = jn[j].lapsed
    BY <1>6, <1>7 DEF Reg
  <2> HIDE DEF s
  <2>3. Ready(s)
    BY <1>1, <1>2, <2>2 DEF Ready, Good, Watched
  <2>4. q \in Reg /\ Good(q, now, wall) /\ q.current = jn[j].current /\ (jn[j].retired => q.retired)
    BY <1>1, <2>1, <2>2, <2>3, LoopTopIs
  <2>5. Set(j, q)
    BY <1>3, <1>8 DEF s
  <2> HIDE DEF q
  <2> QED
    BY <1>1, <1>4, <1>5, <1>8, <2>4, <2>5, ForwardIs, JournalStep
<1>9. CASE n # None
  <2> DEFINE q == [r EXCEPT !.at = "renewing", !.nonce = n, !.issuedAt = wall]
  <2>1. q \in Reg
    BY <1>2, <1>4, <1>6 DEF Reg, Points, Trying
  <2>2. /\ q.at = "renewing" /\ q.nonce = n /\ q.expiry = r.expiry /\ q.current = r.current
        /\ q.last = r.last /\ q.started = r.started /\ q.retired = r.retired
        /\ q.reconcileAt = r.reconcileAt /\ q.lapsed = r.lapsed /\ q.blamed = r.blamed
        /\ q.poisoned = r.poisoned /\ q.maxDeadline = r.maxDeadline /\ q.renewalStart = r.renewalStart
    BY <1>6 DEF Reg
  <2>3. Set(j, q)
    BY <1>3, <1>9
  <2> HIDE DEF q
  <2>4. Holding(q) /\ Unpublished(q, now)
    BY <1>1, <1>2, <1>7, <2>2 DEF Holding, Unpublished, Early, Trying
  <2>5. Watched(q, now, wall)
    BY <1>1, <1>7, <2>2 DEF Good, Watched
  <2>6. ASSUME ~q.blamed PROVE now <= now + AttemptTimeout /\ now + AttemptTimeout < jn[j].maxDeadline
    <3>1. now <= jn[j].attemptAt /\ jn[j].attemptAt + AttemptTimeout < jn[j].maxDeadline
      BY <1>1, <1>7, <2>2, <2>6 DEF Good, OnTime
    <3>2. jn[j].attemptAt \in Int /\ jn[j].maxDeadline \in Int
      BY <1>1 DEF Reg
    <3> QED
      BY <1>2, <3>1, <3>2
  <2>7. OnTime(q, now, wall)
    BY <1>1, <1>7, <2>2, <2>6 DEF Good, OnTime
  <2>8. Good(q, now, wall)
    BY <2>2, <2>4, <2>5, <2>7 DEF Good
  <2> QED
    BY <1>1, <1>4, <1>5, <1>7, <1>9, <2>1, <2>2, <2>3, <2>8, ForwardIs, JournalStep
<1> QED
  BY <1>8, <1>9

LEMMA AnswerStep == ASSUME LeaseConstants, IInv, NEW j \in Journals, Answer(j) PROVE Kept
<1>1. /\ jn[j] \in Reg /\ Clocks /\ TypeOK /\ jn[j].at = "renewing"
      /\ Good(jn[j], now, wall) /\ Supervised(jn[j])
  BY DEF Answer, IInv, TypeOK, Supervised, Attempting
<1>2. CASE DropLease(jn[j].nonce) /\ Set(j, LoopTop([jn[j] EXCEPT !.blamed = TRUE]))
  BY <1>1, <1>2, FailedIs, ForwardIs, DropStep
<1>3. CASE Set(j, [jn[j] EXCEPT !.at = "verifying"]) /\ UNCHANGED <<outstanding, spent>>
  <2> DEFINE r == jn[j]
             q == [r EXCEPT !.at = "verifying"]
  <2>1. q \in Reg
    BY <1>1 DEF Reg, Points, Trying
  <2>2. /\ q.at = "verifying" /\ q.nonce = r.nonce /\ q.expiry = r.expiry /\ q.current = r.current
        /\ q.last = r.last /\ q.started = r.started /\ q.retired = r.retired
        /\ q.reconcileAt = r.reconcileAt /\ q.lapsed = r.lapsed /\ q.blamed = r.blamed
        /\ q.poisoned = r.poisoned /\ q.maxDeadline = r.maxDeadline /\ q.renewalStart = r.renewalStart
    BY <1>1 DEF Reg
  <2>3. Set(j, q)
    BY <1>3
  <2> HIDE DEF q
  <2>4. Holding(q) /\ Unpublished(q, now)
    BY <1>1, <2>2 DEF Good, Holding, Unpublished, Early, Trying
  <2>5. Watched(q, now, wall) /\ OnTime(q, now, wall)
    BY <1>1, <2>2 DEF Good, Watched, OnTime
  <2>6. Good(q, now, wall)
    BY <2>2, <2>4, <2>5 DEF Good
  <2> QED
    BY <1>1, <1>3, <2>1, <2>2, <2>3, <2>6, ForwardIs, QuietStep
<1> QED
  BY <1>2, <1>3 DEF Answer

\* What becomes of a lease after a token was redeemed for it.
LEMMA RenewedIs ==
  ASSUME LeaseConstants, TypeOK, NEW r \in Reg, Attempting(r), Good(r, now, wall),
         NEW t, t.exp \in Int, wall < t.exp, NEW same \in BOOLEAN
  PROVE  Renewed(r, t, same) \in Reg /\ Good(Renewed(r, t, same), now, wall) /\ Forward(r, Renewed(r, t, same))
<1>1. /\ Supervised(r) /\ r.last <= now /\ ~r.poisoned /\ r.current = r.expiry /\ r.expiry \in Int
  BY DEF Supervised, Attempting, Good, Unpublished, Watched, Trying, Reg
<1>2. CASE ~same \/ t.exp <= r.expiry
  <2> DEFINE q == LoopTop([r EXCEPT !.blamed = TRUE])
  <2>1. Renewed(r, t, same) = q
    BY <1>2 DEF Renewed
  <2>2. q \in Reg /\ Good(q, now, wall) /\ q.current = r.current /\ (r.retired => q.retired)
    BY <1>1, FailedIs
  <2> QED
    BY <2>1, <2>2, ForwardIs
<1>3. CASE ~(~same \/ t.exp <= r.expiry) /\ r.retired
  <2>1. Renewed(r, t, same) = Poison(r)
    BY <1>3 DEF Renewed
  <2> QED
    BY <1>1, <2>1, PoisonIs, ForwardIs
<1>4. CASE ~(~same \/ t.exp <= r.expiry) /\ ~r.retired
  <2> DEFINE s == Install(r, t.exp)
             q == LoopTop(s)
  <2>1. Renewed(r, t, same) = q
    BY <1>4 DEF Renewed
  <2>2. s \in Reg /\ Ready(s) /\ s.current = t.exp
    BY <1>1, InstallIs
  <2> HIDE DEF s
  <2>3. q \in Reg /\ Good(q, now, wall) /\ q.current = t.exp
    BY <2>2, LoopTopIs
  <2> HIDE DEF q
  <2>4. Forward(r, q)
    BY <1>1, <1>4, <2>3 DEF Forward
  <2> QED
    BY <2>1, <2>3, <2>4
<1> QED
  BY <1>2, <1>3, <1>4

LEMMA RenewStep == ASSUME LeaseConstants, IInv, NEW j \in Journals, Renew(j) PROVE Kept
<1>1. /\ jn[j] \in Reg /\ Clocks /\ TypeOK /\ Good(jn[j], now, wall) /\ Supervised(jn[j]) /\ Attempting(jn[j])
  BY DEF Renew, IInv, TypeOK, Supervised, Attempting
<1>2. CASE /\ DropLease(jn[j].nonce) \/ Unredeemed(jn[j].nonce)
           /\ Set(j, LoopTop([jn[j] EXCEPT !.blamed = TRUE]))
  BY <1>1, <1>2, FailedIs, ForwardIs, DropStep
<1>3. ASSUME NEW t \in Presented, NEW same \in BOOLEAN, TokenAccepted(t),
             Redeemable(jn[j].nonce, jn[j].expiry), Redeem(jn[j].nonce, t.exp), Set(j, Renewed(jn[j], t, same))
      PROVE  Kept
  <2> DEFINE q == Renewed(jn[j], t, same)
  <2>1. t.exp \in Int /\ wall < t.exp
    BY <1>1, <1>3, PresentedIs DEF TokenAccepted
  <2>2. q \in Reg /\ Good(q, now, wall) /\ Forward(jn[j], q)
    BY <1>1, <2>1, RenewedIs
  <2>3. Bounded(outstanding', spent') /\ DOMAIN outstanding' \subseteq DOMAIN outstanding \ {jn[j].nonce}
    BY <1>3, RedeemBounded DEF IInv
  <2>4. Set(j, q)
    BY <1>3
  <2> HIDE DEF q
  <2> QED
    BY <1>1, <2>2, <2>3, <2>4, JournalStep
<1> QED
  BY <1>2, <1>3 DEF Renew, Verified

LEMMA AttemptFailsStep == ASSUME LeaseConstants, IInv, NEW j \in Journals, AttemptFails(j) PROVE Kept
<1>1. /\ jn[j] \in Reg /\ Clocks /\ TypeOK /\ Good(jn[j], now, wall) /\ Supervised(jn[j])
      /\ DropLease(jn[j].nonce) /\ Set(j, Poison(jn[j]))
  BY DEF AttemptFails, IInv, TypeOK, Supervised
<1> QED
  BY <1>1, PoisonIs, ForwardIs, DropStep

LEMMA AttemptReconcileStep == ASSUME LeaseConstants, IInv, NEW j \in Journals, AttemptReconcile(j) PROVE Kept
<1> DEFINE r == jn[j]
           s == Ratchet(r)
<1>1. r \in Reg /\ Clocks /\ TypeOK /\ Good(r, now, wall) /\ Supervised(r) /\ Attempting(r)
  BY DEF AttemptReconcile, IInv, TypeOK, Supervised
<1>2. /\ s \in Reg /\ s.reconcileAt = now + Reconciliation
      /\ s.at = r.at /\ s.nonce = r.nonce /\ s.expiry = r.expiry /\ s.current = r.current
      /\ s.retired = r.retired /\ s.poisoned = r.poisoned /\ s.blamed = r.blamed /\ s.last = r.last
      /\ s.lapsed = r.lapsed /\ s.started = r.started /\ s.attemptAt = r.attemptAt
      /\ s.renewalStart <= r.renewalStart
      /\ r.lapsed # Far => s.maxDeadline <= now
      /\ ~r.blamed => s.maxDeadline = r.maxDeadline
  BY <1>1, RatchetIs
<1>3. now \in Int /\ wall \in Int /\ Far \in Int /\ AttemptTimeout \in Nat /\ Reconciliation \in Nat
  BY <1>1, ClocksAre DEF LeaseConstants
<1>4. s.maxDeadline <= now => DropLease(s.nonce) /\ Set(j, Poison(s))
  BY DEF AttemptReconcile
<1>5. ~(s.maxDeadline <= now) => Set(j, s) /\ UNCHANGED <<outstanding, spent>>
  BY DEF AttemptReconcile
<1> HIDE DEF s
<1>6. CASE s.maxDeadline <= now
  <2> DEFINE p == [s EXCEPT !.poisoned = TRUE, !.blamed = TRUE]
             q == LoopTop(p)
  <2>1. p \in Reg
    BY <1>2 DEF Reg
  <2>2. /\ p.blamed /\ p.expiry = r.expiry /\ p.current = r.current /\ p.last = r.last
        /\ p.retired = r.retired /\ p.reconcileAt = now + Reconciliation /\ p.maxDeadline = s.maxDeadline
    BY <1>2 DEF Reg
  <2> HIDE DEF p
  <2>3. p.last <= now /\ p.current = p.expiry /\ p.reconcileAt <= now + Reconciliation
    BY <1>1, <1>3, <2>2 DEF Good, Unpublished, Watched
  <2>4. Ready(p)
    BY <1>6, <2>2, <2>3 DEF Ready
  <2>5. q \in Reg /\ Good(q, now, wall) /\ q.current = r.current /\ (r.retired => q.retired)
    BY <1>1, <2>1, <2>2, <2>4, LoopTopIs
  <2>6. DropLease(jn[j].nonce) /\ Set(j, q)
    BY <1>2, <1>4, <1>6 DEF Poison, p
  <2> HIDE DEF q
  <2> QED
    BY <1>1, <2>5, <2>6, ForwardIs, DropStep
<1>7. CASE ~(s.maxDeadline <= now)
  <2>1. Holding(s) /\ Unpublished(s, now)
    BY <1>1, <1>2 DEF Good, Holding, Unpublished, Early, Trying
  <2>2. Watched(s, now, wall)
    BY <1>1, <1>2, <1>3, <1>7 DEF Good, Watched
  <2>3. ASSUME ~s.blamed PROVE s.renewalStart + AttemptTimeout < s.maxDeadline
    <3>1. r.renewalStart + AttemptTimeout < r.maxDeadline /\ s.maxDeadline = r.maxDeadline
      BY <1>1, <1>2, <2>3 DEF Good, OnTime
    <3> QED
      BY <1>1, <1>2, <1>3, <3>1 DEF Reg
  <2>4. OnTime(s, now, wall)
    BY <1>1, <1>2, <2>3 DEF Good, OnTime, Supervised, Attempting
  <2>5. Good(s, now, wall)
    BY <1>1, <1>2, <2>1, <2>2, <2>4 DEF Good
  <2> QED
    BY <1>1, <1>2, <1>5, <1>7, <2>5, ForwardIs, QuietStep
<1> QED
  BY <1>6, <1>7

\* Neither the registration's mark nor the carrier's end touches the lease.
LEMMA MarkIs ==
  ASSUME NEW r \in Reg, Supervised(r), Good(r, now, wall), NEW a \in BOOLEAN, NEW b \in BOOLEAN, r.retired => a
  PROVE  LET q == [r EXCEPT !.retired = a, !.gone = b] IN
         q \in Reg /\ Good(q, now, wall) /\ Forward(r, q) /\ q.nonce = r.nonce
<1> DEFINE q == [r EXCEPT !.retired = a, !.gone = b]
<1>1. q \in Reg
  BY DEF Reg
<1>2. /\ q.at = r.at /\ q.nonce = r.nonce /\ q.expiry = r.expiry /\ q.current = r.current
      /\ q.last = r.last /\ q.started = r.started /\ q.retired = a /\ q.attemptAt = r.attemptAt
      /\ q.reconcileAt = r.reconcileAt /\ q.lapsed = r.lapsed /\ q.blamed = r.blamed
      /\ q.poisoned = r.poisoned /\ q.maxDeadline = r.maxDeadline /\ q.renewalStart = r.renewalStart
  BY DEF Reg
<1> HIDE DEF q
<1>3. Holding(q) /\ Unpublished(q, now)
  BY <1>2 DEF Good, Holding, Unpublished, Early, Trying, Supervised, Attempting
<1>4. Watched(q, now, wall) /\ OnTime(q, now, wall)
  BY <1>2 DEF Good, Watched, OnTime, Supervised, Attempting
<1>5. Good(q, now, wall)
  BY <1>2, <1>3, <1>4 DEF Good
<1>6. Forward(r, q)
  BY <1>1, <1>2 DEF Forward, Reg
<1> QED
  BY <1>1, <1>2, <1>5, <1>6 DEF q

LEMMA RetireStep ==
  ASSUME LeaseConstants, IInv, NEW j \in Journals, Retire(j) \/ CarrierEnds(j) PROVE Kept
<1> DEFINE r == jn[j]
<1>1. r \in Reg /\ Clocks /\ Good(r, now, wall) /\ Supervised(r) /\ UNCHANGED <<outstanding, spent>>
  BY DEF Retire, CarrierEnds, IInv, TypeOK
<1>2. PICK a \in BOOLEAN, b \in BOOLEAN : (r.retired => a) /\ Set(j, [r EXCEPT !.retired = a, !.gone = b])
  <2>1. CASE Retire(j)
    <3>1. r.gone \in BOOLEAN /\ [r EXCEPT !.retired = TRUE] = [r EXCEPT !.retired = TRUE, !.gone = r.gone]
      BY <1>1 DEF Reg
    <3> QED
      BY <2>1, <3>1 DEF Retire
  <2>2. CASE CarrierEnds(j)
    <3>1. r.retired \in BOOLEAN /\ [r EXCEPT !.gone = TRUE] = [r EXCEPT !.retired = r.retired, !.gone = TRUE]
      BY <1>1 DEF Reg
    <3> QED
      BY <2>2, <3>1 DEF CarrierEnds
  <2> QED
    BY <2>1, <2>2
<1> DEFINE q == [r EXCEPT !.retired = a, !.gone = b]
<1>3. q \in Reg /\ Good(q, now, wall) /\ Forward(r, q) /\ q.nonce = r.nonce
  BY <1>1, <1>2, MarkIs
<1>4. Set(j, q)
  BY <1>2
<1> HIDE DEF q
<1> QED
  BY <1>1, <1>3, <1>4, QuietStep

-----------------------------------------------------------------------------
(* The clocks.                                                             *)

\* When a registration is seen to have lapsed.
LEMMA LapseIs ==
  ASSUME LeaseConstants, NEW r \in Reg, NEW m \in Int, NEW w \in Int
  PROVE  LET q == Lapse(r, m, w) IN
         /\ q \in Reg /\ q.at = r.at /\ q.nonce = r.nonce /\ q.expiry = r.expiry /\ q.current = r.current
         /\ q.last = r.last /\ q.started = r.started /\ q.retired = r.retired /\ q.attemptAt = r.attemptAt
         /\ q.reconcileAt = r.reconcileAt /\ q.blamed = r.blamed /\ q.poisoned = r.poisoned
         /\ q.maxDeadline = r.maxDeadline /\ q.renewalStart = r.renewalStart
         /\ Supervised(r) => \/ q.lapsed = Far
                             \/ r.current <= w /\ (q.lapsed = m \/ (q.lapsed = r.lapsed /\ r.lapsed # Far))
<1> DEFINE v == CASE ~Supervised(r) \/ w < r.current -> Far
                  [] Supervised(r) /\ w >= r.current /\ r.lapsed = Far -> m
                  [] OTHER -> r.lapsed
           q == [r EXCEPT !.lapsed = v]
<1>1. Lapse(r, m, w) = q
  BY DEF Lapse
<1>2. r.lapsed \in Int /\ r.current \in Int /\ Far \in Int
  BY DEF Reg, Far, LeaseConstants
<1>4. v \in {Far, m, r.lapsed}
  OBVIOUS
<1>5. Supervised(r) => v = Far \/ (r.current <= w /\ (v = m \/ (v = r.lapsed /\ r.lapsed # Far)))
  BY <1>2
<1> HIDE DEF v
<1>6. q \in Reg
  BY <1>2, <1>4 DEF Reg
<1>7. /\ q.at = r.at /\ q.nonce = r.nonce /\ q.expiry = r.expiry /\ q.current = r.current
      /\ q.last = r.last /\ q.started = r.started /\ q.retired = r.retired /\ q.attemptAt = r.attemptAt
      /\ q.reconcileAt = r.reconcileAt /\ q.blamed = r.blamed /\ q.poisoned = r.poisoned
      /\ q.maxDeadline = r.maxDeadline /\ q.renewalStart = r.renewalStart /\ q.lapsed = v
  BY DEF Reg
<1> HIDE DEF q
<1> QED
  BY <1>1, <1>5, <1>6, <1>7

\* A second passes for a lease none of whose timers is due.
LEMMA SecondPasses ==
  ASSUME LeaseConstants, TypeOK, NEW r \in Reg, Good(r, now, wall), ~Due(r)
  PROVE  LET q == Lapse(r, now + 1, wall + 1) IN
         q \in Reg /\ Good(q, now + 1, wall + 1) /\ q.nonce = r.nonce /\ Forward(r, q)
<1> DEFINE q == Lapse(r, now + 1, wall + 1)
<1>1. now \in Int /\ wall \in Int /\ Far \in Int /\ Reconciliation \in Nat /\ AttemptTimeout \in Nat
  BY ClocksAre DEF LeaseConstants
<1>2. /\ q \in Reg /\ q.at = r.at /\ q.nonce = r.nonce /\ q.expiry = r.expiry /\ q.current = r.current
      /\ q.last = r.last /\ q.started = r.started /\ q.retired = r.retired /\ q.attemptAt = r.attemptAt
      /\ q.reconcileAt = r.reconcileAt /\ q.blamed = r.blamed /\ q.poisoned = r.poisoned
      /\ q.maxDeadline = r.maxDeadline /\ q.renewalStart = r.renewalStart
      /\ Supervised(r) => \/ q.lapsed = Far
                          \/ /\ r.current <= wall + 1
                             /\ q.lapsed = now + 1 \/ (q.lapsed = r.lapsed /\ r.lapsed # Far)
  <2>1. now + 1 \in Int /\ wall + 1 \in Int
    BY <1>1
  <2> QED
    BY <2>1, LapseIs
<1> HIDE DEF q
<1>3. /\ r.last \in Int /\ r.reconcileAt \in Int /\ r.lapsed \in Int /\ r.attemptAt \in Int /\ r.started \in Int
      /\ r.maxDeadline \in Int /\ r.expiry \in Int
  BY DEF Reg
<1>4. /\ Supervised(r) => now < r.reconcileAt
      /\ r.at = "serving" => now < r.attemptAt
      /\ Attempting(r) => now < r.started + AttemptTimeout
  BY <1>1, <1>3 DEF Due, Earlier, Supervised
<1>5. Holding(q) /\ Unpublished(q, now + 1)
  BY <1>1, <1>2, <1>3 DEF Good, Holding, Unpublished
<1>6. Watched(q, now + 1, wall + 1)
  <2> SUFFICES ASSUME Supervised(q) PROVE
        /\ q.current = q.expiry /\ q.reconcileAt <= now + 1 + Reconciliation
        /\ q.lapsed # Far => /\ q.current <= wall + 1 /\ now + 1 - q.lapsed <= Reconciliation
                             /\ q.reconcileAt <= q.lapsed + Reconciliation
    BY <1>1, <1>2, <1>3 DEF Watched, Reg
  <2>1. /\ Supervised(r) /\ r.current = r.expiry /\ r.reconcileAt <= now + Reconciliation
        /\ r.lapsed # Far => r.reconcileAt <= r.lapsed + Reconciliation
    BY <1>2 DEF Good, Watched, Supervised, Attempting
  <2>2. q.current = q.expiry /\ q.reconcileAt <= now + 1 + Reconciliation
    BY <1>1, <1>2, <1>3, <2>1
  <2>3. CASE q.lapsed = now + 1 /\ r.current <= wall + 1
    BY <1>1, <1>2, <1>3, <2>1, <2>2, <2>3
  <2>4. CASE q.lapsed = r.lapsed /\ r.lapsed # Far /\ r.current <= wall + 1
    <3>1. now < r.lapsed + Reconciliation
      BY <1>1, <1>3, <1>4, <2>1, <2>4
    <3>2. now + 1 - r.lapsed <= Reconciliation
      BY <1>1, <1>3, <3>1
    <3> QED
      BY <1>2, <2>1, <2>2, <2>4, <3>2 DEF Reg
  <2> QED
    BY <1>2, <2>1, <2>2, <2>3, <2>4
<1>7. OnTime(q, now + 1, wall + 1)
  <2> SUFFICES ASSUME Supervised(q), ~q.blamed PROVE
        /\ ~q.poisoned
        /\ q.maxDeadline - (now + 1) = q.expiry - (wall + 1)
        /\ q.renewalStart + AttemptTimeout < q.maxDeadline
        /\ q.at = "serving" => /\ now + 1 <= q.attemptAt /\ q.attemptAt + AttemptTimeout < q.maxDeadline
                               /\ q.last + AttemptFloor + AttemptTimeout < q.maxDeadline
        /\ q.at # "serving" => now + 1 <= q.started + AttemptTimeout /\ q.started + AttemptTimeout < q.maxDeadline
    BY DEF OnTime
  <2>1. Supervised(r) /\ ~r.blamed
    BY <1>2 DEF Supervised, Attempting
  <2>2. /\ ~r.poisoned
        /\ r.maxDeadline - now = r.expiry - wall
        /\ r.renewalStart + AttemptTimeout < r.maxDeadline
        /\ r.at = "serving" => /\ r.attemptAt + AttemptTimeout < r.maxDeadline
                               /\ r.last + AttemptFloor + AttemptTimeout < r.maxDeadline
        /\ r.at # "serving" => r.started + AttemptTimeout < r.maxDeadline
    BY <2>1 DEF Good, OnTime
  <2>3. r.maxDeadline - (now + 1) = r.expiry - (wall + 1)
    BY <1>1, <1>3, <2>2
  <2>4. /\ r.at = "serving" => now + 1 <= r.attemptAt
        /\ r.at # "serving" => now + 1 <= r.started + AttemptTimeout
    BY <1>1, <1>3, <1>4, <2>1 DEF Supervised
  <2> QED
    BY <1>2, <2>2, <2>3, <2>4
<1>8. Good(q, now + 1, wall + 1)
  BY <1>2, <1>5, <1>6, <1>7 DEF Good
<1>9. Forward(r, q)
  BY <1>2, ForwardIs
<1> QED
  BY <1>2, <1>8, <1>9 DEF q

\* The system clock is set: whatever was timed by it may go wrong from now on.
LEMMA ClockIsSet ==
  ASSUME LeaseConstants, TypeOK, NEW r \in Reg, Good(r, now, wall), NEW w \in Int
  PROVE  LET q == Lapse([r EXCEPT !.blamed = r.blamed \/ Supervised(r)], now, w) IN
         q \in Reg /\ Good(q, now, w) /\ q.nonce = r.nonce /\ Forward(r, q)
<1> DEFINE b == r.blamed \/ Supervised(r)
           s == [r EXCEPT !.blamed = b]
           q == Lapse(s, now, w)
<1>1. now \in Int /\ Far \in Int /\ Reconciliation \in Nat
  BY ClocksAre DEF LeaseConstants
<1>2. b \in BOOLEAN /\ (Supervised(r) => b) /\ (r.blamed => b)
  BY DEF Reg
<1> HIDE DEF b
<1>3. s \in Reg
  BY <1>2 DEF Reg
<1>4. /\ s.at = r.at /\ s.nonce = r.nonce /\ s.expiry = r.expiry /\ s.current = r.current
      /\ s.last = r.last /\ s.retired = r.retired /\ s.reconcileAt = r.reconcileAt
      /\ s.blamed = b /\ s.poisoned = r.poisoned /\ s.lapsed = r.lapsed
  BY DEF Reg
<1> HIDE DEF s
<1>5. /\ q \in Reg /\ q.at = s.at /\ q.nonce = s.nonce /\ q.expiry = s.expiry /\ q.current = s.current
      /\ q.last = s.last /\ q.retired = s.retired /\ q.reconcileAt = s.reconcileAt /\ q.blamed = s.blamed
      /\ q.poisoned = s.poisoned
      /\ Supervised(s) => \/ q.lapsed = Far
                          \/ s.current <= w /\ (q.lapsed = now \/ (q.lapsed = s.lapsed /\ s.lapsed # Far))
  BY <1>1, <1>3, LapseIs
<1> HIDE DEF q
<1>6. q.blamed = b
  BY <1>4, <1>5
<1>7. Holding(q) /\ Unpublished(q, now)
  BY <1>4, <1>5 DEF Good, Holding, Unpublished
<1>8. Watched(q, now, w)
  <2> SUFFICES ASSUME Supervised(q) PROVE
        /\ q.current = q.expiry /\ q.reconcileAt <= now + Reconciliation
        /\ q.lapsed # Far => /\ q.current <= w /\ now - q.lapsed <= Reconciliation
                             /\ q.reconcileAt <= q.lapsed + Reconciliation
    BY DEF Watched
  <2>1. /\ Supervised(s) /\ r.current = r.expiry /\ r.reconcileAt <= now + Reconciliation
        /\ r.lapsed # Far => now - r.lapsed <= Reconciliation /\ r.reconcileAt <= r.lapsed + Reconciliation
    BY <1>4, <1>5 DEF Good, Watched, Supervised, Attempting
  <2>2. now - now <= Reconciliation
    BY <1>1
  <2> QED
    BY <1>4, <1>5, <2>1, <2>2
<1>9. OnTime(q, now, w)
  BY <1>2, <1>4, <1>5, <1>6 DEF OnTime, Supervised, Attempting
<1>10. Good(q, now, w)
  <2>1. q.at = "expired" => q.blamed
    BY <1>2, <1>4, <1>5, <1>6 DEF Good
  <2> QED
    BY <1>7, <1>8, <1>9, <2>1 DEF Good
<1>11. Forward(r, q)
  <2>1. q.current = r.current /\ q.retired = r.retired
    BY <1>4, <1>5
  <2> QED
    BY <1>5, <2>1, ForwardIs
<1> QED
  BY <1>4, <1>5, <1>10, <1>11 DEF q, s, b

\* A step of the clocks, for all journals at once.
LEMMA ClockStep ==
  ASSUME LeaseConstants, IInv, now' \in 0..MaxTime, wall' \in 0..MaxTime, jumps' \in Nat,
         UNCHANGED <<outstanding, spent>>, jn' \in [Journals -> Reg],
         \A j \in Journals : /\ Good(jn'[j], now', wall') /\ jn'[j].nonce = jn[j].nonce
                             /\ Forward(jn[j], jn'[j])
  PROVE  Kept
<1>1. TypeOK'
  BY DEF TypeOK
<1>2. Held' /\ Bounded(outstanding, spent)'
  BY DEF IInv, Held, Bounded
<1>3. RetiredIsFinal
  <2>1. \A j \in Journals : jn[j].current \in Int /\ jn'[j].current \in Int
    BY DEF IInv, TypeOK, Reg
  <2> QED
    BY <2>1 DEF RetiredIsFinal, Forward
<1> QED
  BY <1>1, <1>2, <1>3 DEF Kept, IInv

LEMMA TickStep == ASSUME LeaseConstants, IInv, Tick PROVE Kept
<1>1. TypeOK /\ now \in Int /\ wall \in Int /\ 0 <= now /\ 0 <= wall /\ MaxTime \in Nat
  BY ClocksAre DEF IInv, LeaseConstants
<1>2. now' = now + 1 /\ wall' = wall + 1 /\ now' \in 0..MaxTime /\ wall' \in 0..MaxTime
  BY <1>1 DEF Tick
<1>3. \A j \in Journals : jn[j] \in Reg /\ Good(jn[j], now, wall) /\ ~Due(jn[j])
  BY DEF IInv, TypeOK, Tick
<1>4. ASSUME NEW j \in Journals
      PROVE  /\ jn'[j] \in Reg /\ Good(jn'[j], now', wall') /\ jn'[j].nonce = jn[j].nonce
             /\ Forward(jn[j], jn'[j])
  <2> DEFINE q == Lapse(jn[j], now + 1, wall + 1)
  <2>1. q \in Reg /\ Good(q, now + 1, wall + 1) /\ q.nonce = jn[j].nonce /\ Forward(jn[j], q)
    BY <1>1, <1>3, SecondPasses
  <2>2. jn'[j] = q
    BY DEF Tick
  <2> HIDE DEF q
  <2> QED
    BY <1>2, <2>1, <2>2
<1>5. jn' \in [Journals -> Reg]
  BY <1>4 DEF Tick
<1>6. UNCHANGED <<outstanding, spent>> /\ jumps' \in Nat
  BY DEF Tick, IInv, TypeOK
<1> QED
  BY <1>2, <1>4, <1>5, <1>6, ClockStep

LEMMA SetClockStep == ASSUME LeaseConstants, IInv, SetClock PROVE Kept
<1>1. TypeOK /\ now \in Int /\ wall \in Int
  BY ClocksAre DEF IInv
<1>2. wall' \in 0..MaxTime /\ wall' \in Int /\ now' = now /\ now' \in 0..MaxTime
  BY <1>1 DEF SetClock, TypeOK
<1>3. jn' = [j \in Journals |-> Lapse([jn[j] EXCEPT !.blamed = jn[j].blamed \/ Supervised(jn[j])], now, wall')]
  BY DEF SetClock
<1>4. ASSUME NEW j \in Journals
      PROVE  /\ jn'[j] \in Reg /\ Good(jn'[j], now', wall') /\ jn'[j].nonce = jn[j].nonce
             /\ Forward(jn[j], jn'[j])
  <2> DEFINE q == Lapse([jn[j] EXCEPT !.blamed = jn[j].blamed \/ Supervised(jn[j])], now, wall')
  <2>1. jn[j] \in Reg /\ Good(jn[j], now, wall)
    BY DEF IInv, TypeOK
  <2>2. q \in Reg /\ Good(q, now, wall') /\ q.nonce = jn[j].nonce /\ Forward(jn[j], q)
    BY <1>1, <1>2, <2>1, ClockIsSet
  <2>3. jn'[j] = q
    BY <1>3
  <2> HIDE DEF q
  <2> QED
    BY <1>2, <2>2, <2>3
<1>5. jn' \in [Journals -> Reg]
  BY <1>3, <1>4
<1>6. UNCHANGED <<outstanding, spent>> /\ jumps' \in Nat
  BY <1>1 DEF SetClock, TypeOK
<1> QED
  BY <1>2, <1>4, <1>5, <1>6, ClockStep

-----------------------------------------------------------------------------
(* The theorems.                                                           *)

LEMMA StutterStep == ASSUME LeaseConstants, IInv, UNCHANGED vars PROVE Kept
<1>1. UNCHANGED <<now, wall, jumps, outstanding, spent, jn>>
  BY DEF vars
<1>2. \A j \in Journals : jn[j].current \in Int
  BY DEF IInv, TypeOK, Reg
<1>3. RetiredIsFinal
  BY <1>1, <1>2 DEF RetiredIsFinal
<1>4. IInv'
  BY <1>1 DEF IInv, TypeOK, Held, Bounded
<1> QED
  BY <1>3, <1>4 DEF Kept

LEMMA StepKept == ASSUME LeaseConstants, IInv, [Next]_vars PROVE Kept
<1>1. ASSUME NEW j \in Journals, Challenge(j) \/ Respond(j) \/ Commit(j) \/ GiveUp(j) PROVE Kept
  BY <1>1, ChallengeStep, RespondStep, CommitStep, GiveUpStep
<1>2. ASSUME NEW j \in Journals, SeeGone(j) \/ Reconcile(j) \/ Expire(j) \/ StartAttempt(j) PROVE Kept
  BY <1>2, SeeGoneStep, ReconcileStep, ExpireStep, StartAttemptStep
<1>3. ASSUME NEW j \in Journals, Answer(j) \/ Renew(j) \/ AttemptFails(j) \/ AttemptReconcile(j) PROVE Kept
  BY <1>3, AnswerStep, RenewStep, AttemptFailsStep, AttemptReconcileStep
<1>4. ASSUME NEW j \in Journals, Retire(j) \/ CarrierEnds(j) PROVE Kept
  BY <1>4, RetireStep
<1>5. CASE Tick \/ SetClock
  BY <1>5, TickStep, SetClockStep
<1>6. CASE UNCHANGED vars
  BY <1>6, StutterStep
<1> QED
  BY <1>1, <1>2, <1>3, <1>4, <1>5, <1>6 DEF Next

\* Every reachable state has the nonce cache, the published expiries and the
\* schedules of all journals in order (pop_auth.rs, lease.rs).
THEOREM Inductive == ASSUME LeaseConstants PROVE Spec => []IInv
<1>1. Init => IInv
  BY InitIInv
<1>2. IInv /\ [Next]_vars => IInv'
  BY StepKept DEF Kept
<1> QED
  BY <1>1, <1>2, PTL DEF Spec

\* For any number of journals and nonces, any limits and any times with an
\* attempt's cap below the renewal window: no nonce slot leaks, no registration
\* is served past its expiry for longer than one reconciliation interval, and a
\* lease ends by expiry only when something went wrong.
THEOREM LeaseKept == ASSUME LeaseConstants PROVE Spec => []LeaseIsKept
<1>1. IInv => NoLeakedSlot
  BY DEF IInv, Held, Bounded, NoLeakedSlot
<1>2. IInv => ExpiryEnforced
  BY DEF IInv, Good, Watched, ExpiryEnforced
<1>3. IInv => LostForCause
  BY DEF IInv, Good, LostForCause
<1> QED
  BY <1>1, <1>2, <1>3, Inductive, PTL DEF LeaseIsKept

\* A retired registration stays retired and is never extended, not even by a
\* renewal already under way, and a published expiry only moves forward
\* (run_attempt's look at is_retired).
THEOREM RetirementHolds == ASSUME LeaseConstants PROVE Spec => [][RetiredIsFinal]_vars
<1>1. IInv /\ [Next]_vars => RetiredIsFinal
  BY StepKept DEF Kept
<1> QED
  BY <1>1, Inductive, PTL DEF Spec
===============================================================================
