------------------------------ MODULE PopLease ------------------------------
(***************************************************************************)
(* Proof-of-possession admission of journals and the renewal of their      *)
(* leases (spl-bridge: pop_auth.rs, lease.rs, and the two lease fields of  *)
(* registry.rs).  Every journal j goes through `authenticate`, is          *)
(* registered, and is then supervised by `run_supervisor`; all of them     *)
(* share one NonceCache.                                                   *)
(*                                                                         *)
(* Time is kept in seconds on two clocks, as in the code: `now` is the     *)
(* monotonic clock (tokio Instant) and `wall` the system clock, which may  *)
(* be set forward or back.  A timer that is due fires before `now` moves   *)
(* on; which of several ready branches of a select! runs is open.          *)
(***************************************************************************)
EXTENDS Integers, FiniteSets

CONSTANTS
    Journals,           \* the carriers that authenticate
    Nonces,             \* the values the nonce generator may return
    OutstandingLimit,   \* OUTSTANDING_NONCE_LIMIT
    SpentLimit,         \* SPENT_NONCE_LIMIT
    Skew,               \* POP_SKEW
    RenewalWindow,      \* RENEWAL_WINDOW
    AttemptTimeout,     \* ATTEMPT_TIMEOUT
    AttemptFloor,       \* ATTEMPT_FLOOR
    Reconciliation,     \* RECONCILIATION_INTERVAL
    MinTtl, MaxTtl,     \* the token lifetimes validate_token_claims accepts
    Ages, Ttls,         \* age and lifetime of the tokens journals present
    Jumps, MaxJumps,    \* how far, and how often, the system clock is set
    MaxTime             \* bound on both clocks

LeaseConstants ==
    /\ OutstandingLimit \in Nat /\ SpentLimit \in Nat /\ MaxTime \in Nat
    /\ RenewalWindow \in Nat /\ AttemptFloor \in Nat /\ Reconciliation \in Nat
    /\ AttemptTimeout \in Nat /\ AttemptTimeout < RenewalWindow
    /\ Ages \subseteq Int /\ Ttls \subseteq Int /\ Jumps \subseteq Int
    /\ "none" \notin Nonces

VARIABLES now, wall, jumps, outstanding, spent, jn

vars == <<now, wall, jumps, outstanding, spent, jn>>

None == "none"
Never == 0 - AttemptFloor   \* no attempt yet
Far == MaxTime + 1      \* a timer later than any instant of the model

\* A carrier before its registration request.
Fresh == [at |-> "idle", nonce |-> None, issuedAt |-> 0, expiry |-> 0, current |-> 0,
          retired |-> FALSE, gone |-> FALSE, poisoned |-> FALSE, started |-> 0,
          last |-> Never, renewalStart |-> 0, maxDeadline |-> 0, attemptAt |-> Far,
          reconcileAt |-> 0, blamed |-> FALSE, lapsed |-> Far]

Init ==
    /\ now = 0 /\ wall = 0 /\ jumps = 0
    /\ outstanding = <<>> /\ spent = <<>>
    /\ jn = [j \in Journals |-> Fresh]

-----------------------------------------------------------------------------
(* The nonce cache *)

Keep(cache, ns) == [n \in ns |-> cache[n]]
Put(cache, n, e) == [m \in DOMAIN cache \cup {n} |-> IF m = n THEN e ELSE cache[m]]

\* prune: entries whose token has expired are forgotten.
Prune(cache) == Keep(cache, {n \in DOMAIN cache : cache[n] > wall})

\* issue_with: a fresh nonce, or None when the cache is at its limit or the
\* generator only returned nonces that are still known.
Issuable ==
    LET known == DOMAIN Prune(outstanding) \cup DOMAIN Prune(spent) IN
    (IF Cardinality(DOMAIN Prune(outstanding)) >= OutstandingLimit THEN {} ELSE Nonces \ known)
      \cup (IF Cardinality(DOMAIN Prune(outstanding)) >= OutstandingLimit \/ known # {}
            THEN {None} ELSE {})

Issue(n, e) ==
    /\ outstanding' = IF n = None THEN Prune(outstanding) ELSE Put(Prune(outstanding), n, e)
    /\ spent' = Prune(spent)

\* redeem and redeem_renewal: the nonce is still outstanding under the expiry it
\* was issued for, and the spent side has room.
Redeemable(n, e) ==
    /\ n \in DOMAIN Prune(outstanding)
    /\ outstanding[n] = e
    /\ Cardinality(DOMAIN Prune(spent)) < SpentLimit

Redeem(n, until) ==
    /\ outstanding' = Keep(Prune(outstanding), DOMAIN Prune(outstanding) \ {n})
    /\ spent' = Put(Prune(spent), n, until)

\* Without the release: the slot stays until its token expires.
UnredeemedKept(n) ==
    /\ outstanding' = Prune(outstanding)
    /\ spent' = Prune(spent)

\* A failed redemption prunes, and the dropped NonceLease gives its slot back.
Unredeemed(n) ==
    /\ outstanding' = Keep(Prune(outstanding), DOMAIN Prune(outstanding) \ {n})
    /\ spent' = Prune(spent)

\* NonceLease::drop of an armed lease, without a redemption before it.
DropLease(n) ==
    /\ outstanding' = Keep(outstanding, DOMAIN outstanding \ {n})
    /\ UNCHANGED spent

\* The tokens a journal may hold, by issue and expiry time.
Presented == {[iat |-> wall - a, exp |-> wall - a + t] : a \in Ages, t \in Ttls}

\* validate_token_claims; signature, issuer, audience, hostname and key are the
\* verdict `genuine` that the handlers take with the token.
TokenAccepted(t) ==
    /\ t.iat <= t.exp /\ t.exp - t.iat \in MinTtl..MaxTtl
    /\ t.iat <= wall + Skew /\ wall < t.exp

\* The verifier's answer: parse_compact_token, verify_parsed_token and the claims.
Verified(t, genuine) == genuine /\ TokenAccepted(t)

\* challenge_timestamp_is_fresh
FreshAt(issued) == issued - wall <= Skew /\ wall - issued <= Skew

-----------------------------------------------------------------------------
(* LeaseSchedule *)

\* Without the lead time: renewal would only start at the expiry.
DeadlineNoLead(expiry, lead) == now + (IF expiry > wall THEN expiry - wall ELSE 0)

\* deadline_from_wall: `lead` seconds before the expiry, never before `now`.
DeadlineFromWall(expiry, lead) ==
    LET left == (IF expiry > lead THEN expiry - lead ELSE 0) - wall
    IN  now + (IF left > 0 THEN left ELSE 0)

\* A token that ends before another attempt could follow and complete.
Short(left) == left <= AttemptFloor + AttemptTimeout

Earlier(a, b) == IF a < b THEN a ELSE b

\* The expiry is published in the registration and the schedule set for it.
Install(r, expiry) ==
    [r EXCEPT !.expiry = expiry, !.current = expiry, !.lapsed = Far,
              !.blamed = Short(expiry - wall),
              !.renewalStart = DeadlineFromWall(expiry, RenewalWindow),
              !.maxDeadline = DeadlineFromWall(expiry, 0),
              !.reconcileAt = now + Reconciliation]

\* Without the second look at the system clock.
RatchetIdle(r) == [r EXCEPT !.reconcileAt = now + Reconciliation]

\* ratchet_earlier: a reconciliation only ever moves the deadlines earlier.
Ratchet(r) ==
    [r EXCEPT !.renewalStart = Earlier(@, DeadlineFromWall(r.expiry, RenewalWindow)),
              !.maxDeadline = Earlier(@, DeadlineFromWall(r.expiry, 0)),
              !.reconcileAt = now + Reconciliation]

\* next_attempt_at; the floor only counts once the window is open.
NextAttemptAt(r) ==
    IF r.renewalStart > now THEN r.renewalStart
    ELSE IF r.last + AttemptFloor > now THEN r.last + AttemptFloor
    ELSE now

\* The admission or the supervision is over; only what was published remains.
Over(r) == [Fresh EXCEPT !.at = "over", !.current = r.current, !.retired = r.retired]

\* retire_for_expiry; the bounded shutdown that follows only ends the carrier.
RetireForExpiry(r) ==
    [Over(r) EXCEPT !.at = "expired", !.retired = TRUE, !.blamed = r.blamed]

\* The head of the supervisor loop, run after every branch of its select!.
LoopTop(r) ==
    IF r.maxDeadline <= now THEN RetireForExpiry(r)
    ELSE [r EXCEPT !.at = "serving", !.nonce = None, !.issuedAt = 0, !.started = 0,
                   !.attemptAt = IF r.poisoned THEN Far ELSE NextAttemptAt(r)]

\* The control stream is given up: no further attempt is made.
Poison(r) == LoopTop([r EXCEPT !.poisoned = TRUE, !.blamed = TRUE])

-----------------------------------------------------------------------------
(* authenticate and register *)

Set(j, r) == jn' = [jn EXCEPT ![j] = r]
Clocks == UNCHANGED <<now, wall, jumps>>

\* The request is read and its token verified; the challenge is issued for the
\* token's expiry and written.  Without a nonce the admission ends.
Challenge(j) ==
    /\ jn[j].at = "idle"
    /\ \E t \in Presented, genuine \in BOOLEAN :
        \/ /\ ~Verified(t, genuine)
           /\ Set(j, Over(jn[j])) /\ UNCHANGED <<outstanding, spent>>
        \/ \E n \in Issuable :
           /\ Verified(t, genuine)
           /\ Issue(n, t.exp)
           /\ Set(j, IF n = None THEN Over(jn[j])
                     ELSE [jn[j] EXCEPT !.at = "challenged", !.nonce = n, !.issuedAt = wall,
                                        !.expiry = t.exp])
    /\ Clocks

\* The journal's response: stale and unproved answers are refused, a good one
\* redeems the nonce for the token's expiry.
Respond(j) ==
    LET r == jn[j] IN
    /\ r.at = "challenged"
    /\ \E proved \in BOOLEAN :
        \/ /\ ~proved \/ ~FreshAt(r.issuedAt)
           /\ DropLease(r.nonce) /\ Set(j, Over(r))
        \/ /\ proved /\ FreshAt(r.issuedAt) /\ ~Redeemable(r.nonce, r.expiry)
           /\ Unredeemed(r.nonce) /\ Set(j, Over(r))
        \/ /\ proved /\ FreshAt(r.issuedAt) /\ Redeemable(r.nonce, r.expiry)
           /\ Redeem(r.nonce, r.expiry) /\ Set(j, [r EXCEPT !.at = "opening", !.nonce = None])
    /\ Clocks

\* Commit of Registry::register once the control stream is open: refused when
\* the token has expired meanwhile, else the supervisor starts.
Commit(j) ==
    LET r == jn[j] IN
    /\ r.at = "opening"
    /\ Set(j, IF wall >= r.expiry THEN Over(r) ELSE LoopTop(Install(r, r.expiry)))
    /\ UNCHANGED <<outstanding, spent>> /\ Clocks

\* The admission deadline, a read error or a closed carrier ends the exchange
\* wherever it waits; dropping the future drops its NonceLease.
GiveUp(j) ==
    LET r == jn[j] IN
    /\ r.at \in {"challenged", "opening"}
    /\ DropLease(r.nonce)
    /\ Set(j, Over(r))
    /\ Clocks

-----------------------------------------------------------------------------
(* run_supervisor and run_attempt *)

Attempting(r) == r.at \in {"renewing", "verifying"}
Supervised(r) == r.at = "serving" \/ Attempting(r)

\* The carrier is seen gone; not looked at while an attempt runs.
SeeGone(j) ==
    /\ jn[j].at = "serving" /\ jn[j].gone
    /\ Set(j, Over(jn[j]))
    /\ UNCHANGED <<outstanding, spent>> /\ Clocks

Reconcile(j) ==
    /\ jn[j].at = "serving" /\ jn[j].reconcileAt <= now
    /\ Set(j, LoopTop(Ratchet(jn[j])))
    /\ UNCHANGED <<outstanding, spent>> /\ Clocks

Expire(j) ==
    /\ jn[j].at = "serving" /\ jn[j].maxDeadline <= now
    /\ Set(j, RetireForExpiry(jn[j]))
    /\ UNCHANGED <<outstanding, spent>> /\ Clocks

\* An attempt begins: renew issues a nonce for the current expiry and writes
\* the challenge.  Without a nonce the attempt is retried later.
StartAttempt(j) ==
    LET r == [jn[j] EXCEPT !.last = now, !.started = now] IN
    /\ jn[j].at = "serving" /\ ~jn[j].poisoned /\ jn[j].attemptAt <= now
    /\ \E n \in Issuable :
        /\ Issue(n, r.expiry)
        /\ Set(j, IF n = None THEN LoopTop([r EXCEPT !.blamed = TRUE])
                  ELSE [r EXCEPT !.at = "renewing", !.nonce = n, !.issuedAt = wall])
    /\ Clocks

\* The response is read whole; an unreadable one is retried later, otherwise
\* its token goes to the verifier, which may have to fetch keys.
Answer(j) ==
    LET r == jn[j] IN
    /\ r.at = "renewing"
    /\ \/ /\ DropLease(r.nonce) /\ Set(j, LoopTop([r EXCEPT !.blamed = TRUE]))
       \/ /\ Set(j, [r EXCEPT !.at = "verifying"]) /\ UNCHANGED <<outstanding, spent>>
    /\ Clocks

\* Without the look at is_retired before the new expiry is published.
RenewRetired(j) ==
    LET r == jn[j] IN
    /\ r.at = "verifying"
    /\ \E t \in Presented :
          /\ TokenAccepted(t) /\ FreshAt(r.issuedAt) /\ Redeemable(r.nonce, r.expiry)
          /\ Redeem(r.nonce, t.exp)
          /\ Set(j, LoopTop(Install(r, t.exp)))
    /\ Clocks

\* What the supervisor makes of a token whose nonce has been redeemed: one of
\* another identity or without a later expiry is a failed attempt, and a
\* registration that was retired meanwhile is not extended.
Renewed(r, t, same) ==
    IF ~same \/ t.exp <= r.expiry THEN LoopTop([r EXCEPT !.blamed = TRUE])
    ELSE IF r.retired THEN Poison(r)
    ELSE LoopTop(Install(r, t.exp))

\* The verifier returns.  The nonce is redeemed before the claims are held
\* against the registration's identity and its current expiry.
Renew(j) ==
    LET r == jn[j] IN
    /\ r.at = "verifying"
    /\ \/ /\ DropLease(r.nonce)                       \* token, freshness or proof refused
          /\ Set(j, LoopTop([r EXCEPT !.blamed = TRUE]))
       \/ /\ FreshAt(r.issuedAt) /\ ~Redeemable(r.nonce, r.expiry)
          /\ Unredeemed(r.nonce)
          /\ Set(j, LoopTop([r EXCEPT !.blamed = TRUE]))
       \/ \E t \in Presented, same \in BOOLEAN :
          /\ Verified(t, TRUE) /\ FreshAt(r.issuedAt) /\ Redeemable(r.nonce, r.expiry)
          /\ Redeem(r.nonce, t.exp)
          /\ Set(j, Renewed(r, t, same))
    /\ Clocks

\* The challenge cannot be written, the response breaks off, or the attempt
\* reaches its cap or the lease's end: the future is dropped.
AttemptFails(j) ==
    /\ Attempting(jn[j])
    /\ DropLease(jn[j].nonce) /\ Set(j, Poison(jn[j]))
    /\ Clocks

AttemptReconcile(j) ==
    LET r == Ratchet(jn[j]) IN
    /\ Attempting(jn[j]) /\ jn[j].reconcileAt <= now
    /\ IF r.maxDeadline <= now THEN DropLease(r.nonce) /\ Set(j, Poison(r))
       ELSE Set(j, r) /\ UNCHANGED <<outstanding, spent>>
    /\ Clocks

\* Another registration, an unanswered client or the drain retires the journal
\* (its shutdown ends the carrier later); or the carrier ends by itself.
Retire(j) ==
    /\ Supervised(jn[j]) /\ ~jn[j].retired
    /\ Set(j, [jn[j] EXCEPT !.retired = TRUE])
    /\ UNCHANGED <<outstanding, spent>> /\ Clocks

CarrierEnds(j) ==
    /\ Supervised(jn[j]) /\ ~jn[j].gone
    /\ Set(j, [jn[j] EXCEPT !.gone = TRUE])
    /\ UNCHANGED <<outstanding, spent>> /\ Clocks

-----------------------------------------------------------------------------
(* The clocks *)

\* A timer of r that is due.
Due(r) ==
    \/ r.at = "serving" /\ Earlier(r.maxDeadline, Earlier(r.reconcileAt, r.attemptAt)) <= now
    \/ /\ Attempting(r)
       /\ Earlier(r.reconcileAt, Earlier(r.started + AttemptTimeout, r.maxDeadline)) <= now

\* Since when the published expiry has been reached by the system clock.
Lapse(r, m, w) ==
    [r EXCEPT !.lapsed = CASE ~Supervised(r) \/ w < r.current -> Far
                           [] Supervised(r) /\ w >= r.current /\ @ = Far -> m
                           [] OTHER -> @]

Tick ==
    /\ now < MaxTime /\ wall < MaxTime
    /\ \A j \in Journals : ~Due(jn[j])
    /\ now' = now + 1 /\ wall' = wall + 1
    /\ jn' = [j \in Journals |-> Lapse(jn[j], now + 1, wall + 1)]
    /\ UNCHANGED <<jumps, outstanding, spent>>

SetClock ==
    /\ jumps < MaxJumps
    /\ \E d \in Jumps, way \in {-1, 1} :
        /\ wall + way * d \in 0..MaxTime
        /\ wall' = wall + way * d
        /\ jn' = [j \in Journals |->
                    Lapse([jn[j] EXCEPT !.blamed = @ \/ Supervised(jn[j])], now, wall + way * d)]
    /\ jumps' = jumps + 1
    /\ UNCHANGED <<now, outstanding, spent>>

Next ==
    \/ \E j \in Journals :
        \/ Challenge(j) \/ Respond(j) \/ Commit(j) \/ GiveUp(j)
        \/ SeeGone(j) \/ Reconcile(j) \/ Expire(j) \/ StartAttempt(j)
        \/ Answer(j) \/ Renew(j) \/ AttemptFails(j) \/ AttemptReconcile(j)
        \/ Retire(j) \/ CarrierEnds(j)
    \/ Tick \/ SetClock

Spec == Init /\ [][Next]_vars

-----------------------------------------------------------------------------
(* Properties *)

\* A nonce slot is held only on behalf of an exchange that is still running: no
\* error path, cancellation, expiry or clock change leaves one behind, so the
\* bounded cache cannot fill up with slots nobody will redeem (NonceLease).
NoLeakedSlot ==
    /\ \A n \in DOMAIN outstanding : \E j \in Journals : jn[j].nonce = n
    /\ DOMAIN outstanding \cap DOMAIN spent = {}
    /\ Cardinality(DOMAIN outstanding) <= OutstandingLimit
    /\ Cardinality(DOMAIN spent) <= SpentLimit

\* A registration is not served past its expiry for longer than one
\* reconciliation interval, however the system clock is set and whatever an
\* attempt is doing at that moment (run_supervisor, run_attempt).
ExpiryEnforced ==
    \A j \in Journals :
        Supervised(jn[j]) /\ jn[j].lapsed # Far => now - jn[j].lapsed <= Reconciliation

\* A lease ends by expiry only when something went wrong: an attempt failed, the
\* clock was set, or a token too short to fit an attempt in was accepted.
LostForCause == \A j \in Journals : jn[j].at = "expired" => jn[j].blamed

\* What the admission and the supervision of a lease promise together.
LeaseIsKept == NoLeakedSlot /\ ExpiryEnforced /\ LostForCause

\* (A step.) A retired registration stays retired and its expiry is never extended, even by
\* a renewal that was already under way; an expiry only ever moves forward.
RetiredIsFinal ==
    \A j \in Journals :
        /\ jn[j].retired => jn'[j].retired /\ jn'[j].current = jn[j].current
        /\ jn'[j].current >= jn[j].current
=============================================================================
