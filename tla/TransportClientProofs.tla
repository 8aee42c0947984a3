------------------------ MODULE TransportClientProofs ------------------------
(***************************************************************************)
(* Proofs about TransportClient, for any number of calls, endpoints and    *)
(* tokens: a request that must not be repeated is written once, a refresh  *)
(* replaces only the token it started from, and what is live is stored.    *)
(***************************************************************************)
EXTENDS TransportClient, TLAPS

-----------------------------------------------------------------------------
(* The inductive invariant.                                                *)

Final == {"ok", "unsafe", "over"}
Points == Final \cup {"idle", "lan", "exchange", "fallback", "token", "loop", "dialing", "relayed",
                      "waiting", "refreshing", "publishing", "persisting"}
CallState ==
    [at : Points, kind : Kinds, pass : Nat, ep : Nat, lan : Nat, expected : Nat \cup {None},
     refreshed : BOOLEAN, transient : Nat, sent : Nat]
Task ==
    [at : {"none", "enter", "commit", "assign", "done"}, old : Nat \cup {None}, new : Nat \cup {None},
     action : {None, "denied", "unchanged", "indeterminate", "redial"}]

TypeOK ==
    /\ call \in [Calls -> CallState]
    /\ pub \in [Calls -> Task]
    /\ lock \in Calls \cup {None} /\ section \in Calls \cup {None}
    /\ token \in Nat /\ durable \in Nat /\ issued \in Nat
    /\ fence \in {"none", "allow", "disabled", "retired"}
    /\ ineligible \in BOOLEAN /\ published \in BOOLEAN

\* A call that is still under way has not written a request it may not repeat.
Unsent(r) == r.kind = "once" => r.sent <= 1 /\ (r.at \notin Final => r.sent = 0)

\* The publication of c is between its start and its result.
Publishing(c) == pub[c].at \in {"enter", "commit", "assign"}
Refreshing(c) == At(c, "refreshing") \/ At(c, "persisting")

\* The refresh lock is held by exactly the call that refreshes, or by the
\* publication it left behind.
LockHeld == \A c \in Calls : lock = c <=> Refreshing(c) \/ Publishing(c)

\* A publication belongs to a call that waits for it or was dropped.
TasksOwned ==
    \A c \in Calls :
        /\ pub[c].at # "none" => call[c].at \in {"publishing"} \cup Final
        /\ pub[c].at = "done" => At(c, "publishing")
        /\ At(c, "publishing") => pub[c].at # "none"

\* Whoever holds the lock holds it for the live token; the token to be
\* published is newer, and durable once its transaction has succeeded.
Replacing ==
    \A c \in Calls :
        /\ At(c, "refreshing") => call[c].expected = token
        /\ At(c, "persisting") => ~published
        /\ Publishing(c) => /\ published /\ pub[c].old = token
                         /\ pub[c].new \in Nat /\ token < pub[c].new /\ pub[c].new <= issued
        /\ pub[c].at = "assign" => pub[c].new = durable

\* Between the permit and the assignment the consumer cannot move the fence.
InSection ==
    /\ ~published => fence = "none"
    /\ \A c \in Calls : pub[c].at \in {"commit", "assign"} =>
          fence = "none" \/ (fence = "allow" /\ section = c)

IInv ==
    /\ TypeOK /\ LockHeld /\ TasksOwned /\ Replacing /\ InSection
    /\ \A c \in Calls : Unsent(call[c])
    /\ token <= issued
    /\ LiveIsDurable

-----------------------------------------------------------------------------
(* What the operators on calls return.                                     *)

Busy == {"refreshing", "persisting", "publishing"}

\* A call that has finished keeps its kind, if it may not be repeated, and its count.
LEMMA OverIs ==
  ASSUME NEW r \in CallState, NEW why \in Final
  PROVE  /\ Over(r, why) \in CallState /\ Over(r, why).at = why
         /\ Over(r, why).kind = "once" <=> r.kind = "once"
         /\ Over(r, why).sent = r.sent
BY DEF Over, Idle, CallState, Points, Final, Kinds

\* After a failed endpoint the call goes on or is over, with the same kind and count.
LEMMA FailedIs ==
  ASSUME ClientConstants, NEW r \in CallState, NEW rank \in Nat
  PROVE  /\ Failed(r, rank) \in CallState /\ Failed(r, rank).at \in {"lan", "fallback", "over"}
         /\ Failed(r, rank).kind = "once" <=> r.kind = "once"
         /\ Failed(r, rank).sent = r.sent
<1> DEFINE lan  == Prefer(r.lan, rank)
           ep   == r.ep + 1
           pass == r.pass + 1
<1>1. lan \in Nat /\ ep \in Nat /\ pass \in Nat
  BY DEF Prefer, CallState
<1>2. \/ Failed(r, rank) = [r EXCEPT !.at = "lan", !.ep = ep, !.lan = lan]
      \/ Failed(r, rank) = [r EXCEPT !.at = "lan", !.ep = 1, !.pass = pass, !.lan = lan]
      \/ Failed(r, rank) = [Idle EXCEPT !.at = "fallback", !.kind = r.kind, !.sent = r.sent]
      \/ Failed(r, rank) = Over(r, "over")
  BY DEF Failed, CallState
<1> HIDE DEF lan, ep, pass
<1>3. CASE Failed(r, rank) = [r EXCEPT !.at = "lan", !.ep = ep, !.lan = lan]
  <2> DEFINE q == [r EXCEPT !.at = "lan", !.ep = ep, !.lan = lan]
  <2>1. q \in CallState
    BY <1>1 DEF CallState, Points
  <2>2. q.at = "lan" /\ q.kind = r.kind /\ q.sent = r.sent
    BY DEF CallState
  <2> QED
    BY <1>3, <2>1, <2>2
<1>4. CASE Failed(r, rank) = [r EXCEPT !.at = "lan", !.ep = 1, !.pass = pass, !.lan = lan]
  <2> DEFINE q == [r EXCEPT !.at = "lan", !.ep = 1, !.pass = pass, !.lan = lan]
  <2>1. q \in CallState
    BY <1>1 DEF CallState, Points
  <2>2. q.at = "lan" /\ q.kind = r.kind /\ q.sent = r.sent
    BY DEF CallState
  <2> QED
    BY <1>4, <2>1, <2>2
<1>5. CASE Failed(r, rank) = [Idle EXCEPT !.at = "fallback", !.kind = r.kind, !.sent = r.sent]
  <2> DEFINE q == [Idle EXCEPT !.at = "fallback", !.kind = r.kind, !.sent = r.sent]
  <2>1. q \in CallState
    BY DEF CallState, Points, Idle
  <2>2. q.at = "fallback" /\ q.kind = r.kind /\ q.sent = r.sent
    BY DEF CallState, Idle
  <2> QED
    BY <1>5, <2>1, <2>2
<1>6. CASE Failed(r, rank) = Over(r, "over")
  BY <1>6, OverIs DEF Final
<1> QED
  BY <1>2, <1>3, <1>4, <1>5, <1>6

\* A retry after a transient relay error is counted, and the last one ends the call.
LEMMA TransientIs ==
  ASSUME ClientConstants, NEW r \in CallState
  PROVE  /\ Transient(r) \in CallState /\ Transient(r).at \in {"loop", "over"}
         /\ Transient(r).kind = "once" <=> r.kind = "once"
         /\ Transient(r).sent = r.sent
<1> DEFINE n == r.transient + 1
<1>1. n \in Nat
  BY DEF CallState
<1>2. \/ Transient(r) = [r EXCEPT !.at = "loop", !.transient = n]
      \/ Transient(r) = Over(r, "over")
  BY DEF Transient, CallState
<1> HIDE DEF n
<1>3. CASE Transient(r) = [r EXCEPT !.at = "loop", !.transient = n]
  BY <1>1, <1>3 DEF CallState, Points
<1>4. CASE Transient(r) = Over(r, "over")
  BY <1>4, OverIs DEF Final
<1> QED
  BY <1>2, <1>3, <1>4

\* After a refresh the call dials again or is over.
LEMMA AfterRefreshIs ==
  ASSUME NEW r \in CallState, NEW action
  PROVE  /\ AfterRefresh(r, action) \in CallState /\ AfterRefresh(r, action).at \in {"loop", "over"}
         /\ AfterRefresh(r, action).kind = "once" <=> r.kind = "once"
         /\ AfterRefresh(r, action).sent = r.sent
<1>1. \/ AfterRefresh(r, action) = [r EXCEPT !.at = "loop", !.expected = None]
      \/ AfterRefresh(r, action) = Over(r, "over")
  BY DEF AfterRefresh
<1>2. CASE AfterRefresh(r, action) = [r EXCEPT !.at = "loop", !.expected = None]
  BY <1>2 DEF CallState, Points
<1>3. CASE AfterRefresh(r, action) = Over(r, "over")
  BY <1>3, OverIs DEF Final
<1> QED
  BY <1>1, <1>2, <1>3

\* Only the write of a request that may not be repeated is counted.
LEMMA WrittenIs ==
  ASSUME NEW r \in CallState, NEW written \in BOOLEAN
  PROVE  /\ Written(r, written) \in CallState /\ Written(r, written).at = r.at
         /\ Written(r, written).kind = r.kind
         /\ Written(r, written).sent = IF written /\ r.kind = "once" THEN r.sent + 1 ELSE r.sent
BY DEF Written, CallState

-----------------------------------------------------------------------------
(* The steps.                                                              *)

LEMMA InitIInv == ASSUME ClientConstants, Init PROVE IInv
<1>1. Idle \in CallState
  BY DEF Idle, CallState, Points, Kinds
<1>2. NoTask \in Task
  BY DEF NoTask, Task
<1>3. TypeOK
  BY <1>1, <1>2 DEF Init, TypeOK
<1>4. \A c \in Calls : call[c].at = "idle" /\ call[c].sent = 0 /\ pub[c].at = "none"
  BY DEF Init, Idle, NoTask
<1> QED
  BY <1>3, <1>4 DEF Init, IInv, ClientConstants, LockHeld, TasksOwned, Replacing, InSection, Unsent,
                    Refreshing, Publishing, At, Final, LiveIsDurable

\* A step of a call that does not refresh, and touches nothing but the call.
LEMMA QuietStep ==
  ASSUME IInv, NEW c \in Calls, NEW r \in CallState, call' = [call EXCEPT ![c] = r], Quiet,
         call[c].at \notin Busy \cup Final, r.at \notin Busy, Unsent(r)
  PROVE  IInv'
<1>1. /\ call \in [Calls -> CallState] /\ call'[c] = r
      /\ \A k \in Calls : k # c => call'[k] = call[k]
  BY DEF IInv, TypeOK
<1>2. TypeOK'
  BY <1>1 DEF IInv, TypeOK, Quiet, shared
<1>3. pub[c].at = "none" /\ UNCHANGED <<pub, lock, token, durable, issued, section, fence, published>>
  BY DEF IInv, TasksOwned, Busy, Quiet, shared
<1>4. LockHeld'
  BY <1>1, <1>3 DEF IInv, LockHeld, Refreshing, Publishing, At, Busy
<1>5. TasksOwned'
  BY <1>1, <1>3 DEF IInv, TasksOwned, At, Busy
<1>6. Replacing'
  BY <1>1, <1>3 DEF IInv, Replacing, Publishing, At, Busy
<1>7. InSection' /\ LiveIsDurable' /\ (token <= issued)'
  BY <1>3 DEF IInv, InSection, LiveIsDurable
<1>8. \A k \in Calls : Unsent(call[k])'
  BY <1>1 DEF IInv, Unsent
<1> QED
  BY <1>2, <1>4, <1>5, <1>6, <1>7, <1>8 DEF IInv

\* The same, with the call gone to another point and nothing else.
LEMMA GoStep ==
  ASSUME IInv, NEW c \in Calls, NEW at \in Points \ (Busy \cup Final), Go(c, at), Quiet,
         call[c].at \notin Busy \cup Final
  PROVE  IInv'
<1> DEFINE r == [call[c] EXCEPT !.at = at]
<1>1. call[c] \in CallState /\ Unsent(call[c])
  BY DEF IInv, TypeOK
<1>2. r \in CallState /\ r.at = at /\ r.kind = call[c].kind /\ r.sent = call[c].sent
  BY <1>1 DEF CallState
<1>3. call' = [call EXCEPT ![c] = r]
  BY DEF Go
<1>4. Unsent(r)
  BY <1>1, <1>2 DEF Unsent
<1> HIDE DEF r
<1> QED
  BY <1>2, <1>3, <1>4, QuietStep

\* The same, with the call over.
LEMMA EndStep ==
  ASSUME IInv, NEW c \in Calls, NEW why \in Final, End(c, why), Quiet,
         call[c].at \notin Busy \cup Final
  PROVE  IInv'
<1> DEFINE r == Over(call[c], why)
<1>1. call[c] \in CallState /\ Unsent(call[c])
  BY DEF IInv, TypeOK
<1>2. r \in CallState /\ r.at = why /\ (r.kind = "once" <=> call[c].kind = "once") /\ r.sent = call[c].sent
  BY <1>1, OverIs
<1>3. call' = [call EXCEPT ![c] = r]
  BY DEF End
<1>4. Unsent(r)
  BY <1>1, <1>2 DEF Unsent
<1> HIDE DEF r
<1> QED
  BY <1>2, <1>3, <1>4, QuietStep DEF Busy, Final

LEMMA StartStep == ASSUME IInv, NEW c \in Calls, Start(c) PROVE IInv'
<1>1. PICK k \in Kinds : call' = [call EXCEPT ![c] =
          [Idle EXCEPT !.at = IF Endpoints = 0 THEN "fallback" ELSE "lan", !.kind = k]]
  BY DEF Start
<1> DEFINE r == [Idle EXCEPT !.at = IF Endpoints = 0 THEN "fallback" ELSE "lan", !.kind = k]
<1>2. r \in CallState /\ r.at \in {"fallback", "lan"} /\ r.sent = 0
  BY DEF Idle, CallState, Points
<1> HIDE DEF r
<1>3. Unsent(r) /\ r.at \notin Busy
  BY <1>2 DEF Unsent, Busy
<1>4. call' = [call EXCEPT ![c] = r]
  BY <1>1 DEF r
<1> QED
  BY <1>2, <1>3, <1>4, QuietStep DEF Start, At, Busy, Final

LEMMA DialDirectStep ==
  ASSUME ClientConstants, IInv, NEW c \in Calls, DialDirect(c) PROVE IInv'
<1>1. PICK seen \in {"none", "unknown", "ok"} :
        call' = [call EXCEPT ![c] =
                IF seen = "ok" THEN IF Request(c) THEN [@ EXCEPT !.at = "exchange"] ELSE Over(@, "ok")
                ELSE Failed(@, IF seen = "unknown" THEN 1 ELSE 0)]
  BY DEF DialDirect
<1>2. call[c] \in CallState /\ Unsent(call[c]) /\ call[c].at \notin Busy \cup Final /\ Quiet
  BY DEF IInv, TypeOK, DialDirect, At, Busy, Final
<1>3. CASE Go(c, "exchange")
  BY <1>2, <1>3, GoStep DEF Points, Busy, Final
<1>4. CASE End(c, "ok")
  BY <1>2, <1>4, EndStep DEF Final
<1>5. ASSUME NEW rank \in {0, 1}, call' = [call EXCEPT ![c] = Failed(call[c], rank)]
      PROVE  IInv'
  <2>1. Unsent(Failed(call[c], rank)) /\ Failed(call[c], rank).at \notin Busy
    BY <1>2, <1>5, FailedIs DEF Unsent, Busy, Final
  <2> QED
    BY <1>2, <1>5, <2>1, FailedIs, QuietStep
<1>6. \/ Go(c, "exchange") \/ End(c, "ok")
      \/ \E rank \in {0, 1} : call' = [call EXCEPT ![c] = Failed(call[c], rank)]
  BY <1>1 DEF Go, End
<1> QED
  BY <1>3, <1>4, <1>5, <1>6

LEMMA ExchangesAre == ASSUME NEW x \in Exchanges PROVE x.written \in BOOLEAN
<1>1. CASE x \in [written : {FALSE}, out : {"io", "answer"}]
  BY <1>1
<1>2. ASSUME NEW A, x \in [written : {TRUE}, out : A] PROVE x.written \in BOOLEAN
  BY <1>2
<1> QED
  BY <1>1, <1>2 DEF Exchanges

\* An exchange either ends the call, or has not put a request that may not be
\* repeated on the wire.
LEMMA ExchangeStep ==
  ASSUME ClientConstants, IInv, NEW c \in Calls, Quiet, call[c].at \in {"exchange", "relayed"},
         NEW written \in BOOLEAN, NEW out,
         NEW r, r = Written(call[c], written),
         \/ \E why \in Final : call' = [call EXCEPT ![c] = Over(r, why)]
         \/ /\ ~Ended(r, out, written)
            /\ \/ \E rank \in Nat : call' = [call EXCEPT ![c] = Failed(r, rank)]
               \/ call' = [call EXCEPT ![c] = Transient(r)]
  PROVE  IInv'
<1>1. call[c] \in CallState /\ Unsent(call[c]) /\ call[c].at \notin Busy \cup Final
  BY DEF IInv, TypeOK, Busy, Final
<1>2. /\ r \in CallState /\ r.kind = call[c].kind
      /\ r.sent = IF written /\ r.kind = "once" THEN call[c].sent + 1 ELSE call[c].sent
  BY <1>1, WrittenIs
<1>3. r.kind = "once" => r.sent <= 1
  BY <1>1, <1>2 DEF Unsent
<1>4. ~Ended(r, out, written) /\ r.kind = "once" => r.sent = 0
  BY <1>1, <1>2 DEF Unsent, Ended
<1>5. ASSUME NEW why \in Final, call' = [call EXCEPT ![c] = Over(r, why)] PROVE IInv'
  <2>1. Unsent(Over(r, why)) /\ Over(r, why).at \notin Busy
    BY <1>2, <1>3, OverIs DEF Unsent, Final, Busy
  <2> QED
    BY <1>1, <1>2, <1>5, <2>1, OverIs, QuietStep
<1>6. ASSUME ~Ended(r, out, written), NEW rank \in Nat, call' = [call EXCEPT ![c] = Failed(r, rank)]
      PROVE  IInv'
  <2>1. Unsent(Failed(r, rank)) /\ Failed(r, rank).at \notin Busy
    BY <1>2, <1>4, <1>6, FailedIs DEF Unsent, Busy, Final
  <2> QED
    BY <1>1, <1>2, <1>6, <2>1, FailedIs, QuietStep
<1>7. ASSUME ~Ended(r, out, written), call' = [call EXCEPT ![c] = Transient(r)]
      PROVE  IInv'
  <2>1. Unsent(Transient(r)) /\ Transient(r).at \notin Busy
    BY <1>2, <1>4, <1>7, TransientIs DEF Unsent, Busy
  <2> QED
    BY <1>1, <1>2, <1>7, <2>1, TransientIs, QuietStep
<1> QED
  BY <1>5, <1>6, <1>7

LEMMA VerdictIs == ASSUME NEW r, NEW out, NEW written PROVE Verdict(r, out, written) \in Final
BY DEF Verdict, Final

LEMMA ExchangeDirectStep ==
  ASSUME ClientConstants, IInv, NEW c \in Calls, ExchangeDirect(c) PROVE IInv'
<1>1. PICK x \in Exchanges :
        call' = [call EXCEPT ![c] =
            IF Ended(Written(call[c], x.written), x.out, x.written)
            THEN Over(Written(call[c], x.written), Verdict(Written(call[c], x.written), x.out, x.written))
            ELSE Failed(Written(call[c], x.written), IF x.out = "answer" THEN 3 ELSE 0)]
  BY DEF ExchangeDirect
<1> DEFINE r == Written(call[c], x.written)
<1>2. Quiet /\ call[c].at = "exchange" /\ x.written \in BOOLEAN
  BY ExchangesAre DEF ExchangeDirect, At
<1>3. Verdict(r, x.out, x.written) \in Final
  BY VerdictIs
<1>4. \/ call' = [call EXCEPT ![c] = Over(r, Verdict(r, x.out, x.written))]
      \/ /\ ~Ended(r, x.out, x.written)
         /\ \E rank \in Nat : call' = [call EXCEPT ![c] = Failed(r, rank)]
  BY <1>1
<1> HIDE DEF r
<1> QED
  BY <1>2, <1>3, <1>4, ExchangeStep DEF r

LEMMA ExchangeRelayStep ==
  ASSUME ClientConstants, IInv, NEW c \in Calls, ExchangeRelay(c) PROVE IInv'
<1>1. PICK x \in Exchanges, closed \in Closes \cup {None} :
        LET out == RelayCloseFirst(x.out, closed)
            r == Written(call[c], x.written)
        IN  call' = [call EXCEPT ![c] =
                IF Ended(r, out, x.written) THEN Over(r, Verdict(r, out, x.written))
                ELSE IF IsTransient(out) \/ (out = "io" /\ r.kind = "replay") THEN Transient(r)
                ELSE Over(r, "over")]
  BY DEF ExchangeRelay
<1> DEFINE r == Written(call[c], x.written)
           out == RelayCloseFirst(x.out, closed)
<1>2. Quiet /\ call[c].at = "relayed" /\ x.written \in BOOLEAN
  BY ExchangesAre DEF ExchangeRelay, At
<1>3. Verdict(r, out, x.written) \in Final /\ "over" \in Final
  BY VerdictIs DEF Final
<1>4. \/ call' = [call EXCEPT ![c] = Over(r, Verdict(r, out, x.written))]
      \/ call' = [call EXCEPT ![c] = Over(r, "over")]
      \/ ~Ended(r, out, x.written) /\ call' = [call EXCEPT ![c] = Transient(r)]
  BY <1>1
<1> HIDE DEF r, out
<1> QED
  BY <1>2, <1>3, <1>4, ExchangeStep DEF r

LEMMA FallbackStep == ASSUME IInv, NEW c \in Calls, Fallback(c) PROVE IInv'
<1>1. Quiet /\ call[c].at \notin Busy \cup Final
  BY DEF Fallback, At, Busy, Final
<1>2. CASE End(c, "over")
  BY <1>1, <1>2, EndStep DEF Final
<1>3. CASE Go(c, "token")
  BY <1>1, <1>3, GoStep DEF Points, Busy, Final
<1> QED
  BY <1>2, <1>3 DEF Fallback

\* A call goes to wait for the refresh lock, with the token it read.
LEMMA WaitStep ==
  ASSUME IInv, NEW c \in Calls, Quiet, call[c].at \notin Busy \cup Final,
         NEW b \in BOOLEAN,
         call' = [call EXCEPT ![c] = [@ EXCEPT !.at = "waiting", !.expected = token, !.refreshed = b]]
  PROVE  IInv'
<1> DEFINE r == [call[c] EXCEPT !.at = "waiting", !.expected = token, !.refreshed = b]
<1>1. call[c] \in CallState /\ Unsent(call[c]) /\ token \in Nat
  BY DEF IInv, TypeOK
<1>2. r \in CallState
  BY <1>1 DEF CallState, Points
<1>3. r.at = "waiting" /\ r.kind = call[c].kind /\ r.sent = call[c].sent
  BY <1>1 DEF CallState
<1>4. call' = [call EXCEPT ![c] = r]
  OBVIOUS
<1> HIDE DEF r
<1>5. Unsent(r) /\ r.at \notin Busy
  BY <1>1, <1>3 DEF Unsent, Busy
<1> QED
  BY <1>2, <1>4, <1>5, QuietStep

LEMMA ReadTokenStep == ASSUME IInv, NEW c \in Calls, ReadToken(c) PROVE IInv'
<1>1. Quiet /\ call[c].at \notin Busy \cup Final
  BY DEF ReadToken, At, Busy, Final
<1>2. CASE Go(c, "loop")
  BY <1>1, <1>2, GoStep DEF Points, Busy, Final
<1>3. CASE call' = [call EXCEPT ![c].at = "waiting", ![c].expected = token]
  <2> DEFINE r == [call[c] EXCEPT !.at = "waiting", !.expected = token]
  <2>1. call[c] \in CallState /\ call \in [Calls -> CallState]
    BY DEF IInv, TypeOK
  <2>2. r = [call[c] EXCEPT !.at = "waiting", !.expected = token, !.refreshed = call[c].refreshed]
    BY <2>1 DEF CallState
  <2>3. call' = [call EXCEPT ![c] = r]
    BY <1>3, <2>1
  <2>4. call[c].refreshed \in BOOLEAN
    BY <2>1 DEF CallState
  <2> QED
    BY <1>1, <2>2, <2>3, <2>4, WaitStep
<1> QED
  BY <1>2, <1>3 DEF ReadToken

LEMMA LoopTopStep == ASSUME IInv, NEW c \in Calls, LoopTop(c) PROVE IInv'
<1>1. Quiet /\ call[c].at \notin Busy \cup Final
  BY DEF LoopTop, At, Busy, Final
<1>2. CASE End(c, "over")
  BY <1>1, <1>2, EndStep DEF Final
<1>3. CASE Go(c, "dialing")
  BY <1>1, <1>3, GoStep DEF Points, Busy, Final
<1> QED
  BY <1>2, <1>3 DEF LoopTop

LEMMA DialRelayStep ==
  ASSUME ClientConstants, IInv, NEW c \in Calls, DialRelay(c) PROVE IInv'
<1>1. PICK seen \in CarrierDials :
        call' = [call EXCEPT ![c] =
                CASE seen = "ok" -> IF Request(c) THEN [@ EXCEPT !.at = "relayed"] ELSE Over(@, "ok")
                  [] seen = "Unauthorized" ->
                        IF @.refreshed THEN Over(@, "over")
                        ELSE [@ EXCEPT !.at = "waiting", !.expected = token, !.refreshed = TRUE]
                  [] IsTransient(seen) -> Transient(@)
                  [] OTHER -> Over(@, "over")]
  BY DEF DialRelay
<1>2. call[c] \in CallState /\ Unsent(call[c]) /\ call[c].at \notin Busy \cup Final /\ Quiet
  BY DEF IInv, TypeOK, DialRelay, At, Busy, Final
<1>3. \/ Go(c, "relayed") \/ End(c, "ok") \/ End(c, "over")
      \/ call' = [call EXCEPT ![c] = [@ EXCEPT !.at = "waiting", !.expected = token, !.refreshed = TRUE]]
      \/ call' = [call EXCEPT ![c] = Transient(call[c])]
  BY <1>1 DEF Go, End, IsTransient
<1>4. CASE Go(c, "relayed")
  BY <1>2, <1>4, GoStep DEF Points, Busy, Final
<1>5. CASE End(c, "ok") \/ End(c, "over")
  BY <1>2, <1>5, EndStep DEF Final
<1>6. CASE call' = [call EXCEPT ![c] = [@ EXCEPT !.at = "waiting", !.expected = token, !.refreshed = TRUE]]
  BY <1>2, <1>6, WaitStep
<1>7. CASE call' = [call EXCEPT ![c] = Transient(call[c])]
  <2>1. Unsent(Transient(call[c])) /\ Transient(call[c]).at \notin Busy
    BY <1>2, TransientIs DEF Unsent, Busy, Final
  <2> QED
    BY <1>2, <1>7, <2>1, TransientIs, QuietStep
<1> QED
  BY <1>3, <1>4, <1>5, <1>6, <1>7

-----------------------------------------------------------------------------
(* The steps under the refresh lock.                                       *)

Active == {"enter", "commit", "assign"}

\* What call c and its publication, r and t, owe to the shared state.
Owes(c, r, t, l, sec, tok, dur, iss) ==
    /\ l = c <=> r.at \in {"refreshing", "persisting"} \/ t.at \in Active
    /\ t.at # "none" => r.at \in {"publishing"} \cup Final
    /\ t.at = "done" => r.at = "publishing"
    /\ r.at = "publishing" => t.at # "none"
    /\ r.at = "refreshing" => r.expected = tok
    /\ r.at = "persisting" => ~published
    /\ t.at \in Active => published /\ t.old = tok /\ t.new \in Nat /\ tok < t.new /\ t.new <= iss
    /\ t.at = "assign" => t.new = dur
    /\ t.at \in {"commit", "assign"} => fence = "none" \/ (fence = "allow" /\ sec = c)
    /\ Unsent(r)

\* While one call holds the lock, or none does, nobody else refreshes.
LEMMA OthersIdle ==
  ASSUME IInv, NEW c \in Calls, lock \in {c, None}, None \notin Calls, NEW k \in Calls, k # c
  PROVE  call[k].at \notin {"refreshing", "persisting"} /\ pub[k].at \notin Active
BY DEF IInv, LockHeld, Refreshing, Publishing, At, Active

LEMMA Owed == ASSUME IInv, NEW c \in Calls
              PROVE  Owes(c, call[c], pub[c], lock, section, token, durable, issued)
BY DEF IInv, LockHeld, TasksOwned, Replacing, InSection, Refreshing, Publishing, At, Active, Owes

\* A step of the call that holds the lock, takes it or gives it back.
LEMMA HolderStep ==
  ASSUME ClientConstants, IInv, NEW c \in Calls, lock \in {c, None}, lock' \in {c, None},
         NEW r \in CallState, call' = [call EXCEPT ![c] = r],
         NEW t \in Task, pub' = [pub EXCEPT ![c] = t],
         section' \in Calls \cup {None}, ineligible' \in BOOLEAN, UNCHANGED <<fence, published>>,
         token' \in Nat, durable' \in Nat, issued' \in Nat, token' <= issued',
         published => token' <= durable',
         Owes(c, r, t, lock', section', token', durable', issued')
  PROVE  IInv'
<1>1. /\ call \in [Calls -> CallState] /\ call'[c] = r
      /\ \A k \in Calls : k # c => call'[k] = call[k]
  BY DEF IInv, TypeOK
<1>2. /\ pub \in [Calls -> Task] /\ pub'[c] = t
      /\ \A k \in Calls : k # c => pub'[k] = pub[k]
  BY DEF IInv, TypeOK
<1>3. None \notin Calls
  BY DEF ClientConstants
<1>4. \A k \in Calls : k # c => call[k].at \notin {"refreshing", "persisting"} /\ pub[k].at \notin Active
  BY <1>3, OthersIdle
<1>5. TypeOK'
  BY <1>1, <1>2 DEF IInv, TypeOK
<1>6. LockHeld'
  BY <1>1, <1>2, <1>3, <1>4 DEF Owes, LockHeld, Refreshing, Publishing, At, Active
<1>7. TasksOwned'
  BY <1>1, <1>2 DEF IInv, Owes, TasksOwned, At
<1>8. Replacing'
  BY <1>1, <1>2, <1>4 DEF Owes, Replacing, Publishing, At, Active
<1>9. InSection'
  BY <1>1, <1>2, <1>4 DEF IInv, Owes, InSection, Active
<1>10. \A k \in Calls : Unsent(call[k])'
  BY <1>1 DEF IInv, Owes, Unsent
<1> QED
  BY <1>5, <1>6, <1>7, <1>8, <1>9, <1>10 DEF IInv, LiveIsDurable

\* A step of a call that leaves the lock and the tokens alone.
LEMMA LoneStep ==
  ASSUME IInv, NEW c \in Calls, UNCHANGED <<shared, fence, published>>,
         NEW r \in CallState, call' = [call EXCEPT ![c] = r],
         NEW t \in Task, pub' = [pub EXCEPT ![c] = t],
         Owes(c, r, t, lock, section, token, durable, issued)
  PROVE  IInv'
<1>1. /\ call \in [Calls -> CallState] /\ call'[c] = r
      /\ \A k \in Calls : k # c => call'[k] = call[k]
  BY DEF IInv, TypeOK
<1>2. /\ pub \in [Calls -> Task] /\ pub'[c] = t
      /\ \A k \in Calls : k # c => pub'[k] = pub[k]
  BY DEF IInv, TypeOK
<1>3. UNCHANGED <<lock, token, durable, issued, section, ineligible, fence, published>>
  BY DEF shared
<1>4. TypeOK'
  BY <1>1, <1>2, <1>3 DEF IInv, TypeOK
<1>5. LockHeld'
  BY <1>1, <1>2, <1>3 DEF IInv, Owes, LockHeld, Refreshing, Publishing, At, Active
<1>6. TasksOwned'
  BY <1>1, <1>2 DEF IInv, Owes, TasksOwned, At
<1>7. Replacing'
  BY <1>1, <1>2, <1>3 DEF IInv, Owes, Replacing, Publishing, At, Active
<1>8. InSection' /\ LiveIsDurable' /\ (token <= issued)'
  BY <1>1, <1>2, <1>3 DEF IInv, Owes, InSection, LiveIsDurable
<1>9. \A k \in Calls : Unsent(call[k])'
  BY <1>1 DEF IInv, Owes, Unsent
<1> QED
  BY <1>4, <1>5, <1>6, <1>7, <1>8, <1>9 DEF IInv

LEMMA AcquireStep == ASSUME ClientConstants, IInv, NEW c \in Calls, Acquire(c) PROVE IInv'
<1>1. /\ call[c] \in CallState /\ Unsent(call[c]) /\ call[c].at = "waiting" /\ lock = None
      /\ pub[c] \in Task /\ pub' = [pub EXCEPT ![c] = pub[c]] /\ pub[c].at = "none"
      /\ UNCHANGED <<token, durable, issued, section, ineligible, fence, published>>
  BY DEF IInv, TypeOK, Acquire, At, TasksOwned, Final
<1>2. CASE token # call[c].expected
  <2> DEFINE r == AfterRefresh(call[c], "redial")
  <2>1. call' = [call EXCEPT ![c] = r] /\ UNCHANGED lock
    BY <1>2 DEF Acquire
  <2>2. r \in CallState /\ r.at \in {"loop", "over"} /\ Unsent(r)
    BY <1>1, AfterRefreshIs DEF Unsent, Final
  <2> HIDE DEF r
  <2> QED
    BY <1>1, <2>1, <2>2, QuietStep DEF Busy, Final, Quiet, shared, Acquire
<1>3. CASE token = call[c].expected
  <2> DEFINE r == [call[c] EXCEPT !.at = "refreshing"]
  <2>1. call' = [call EXCEPT ![c] = r] /\ lock' = c
    BY <1>3 DEF Acquire, Go
  <2>2. r \in CallState /\ r.at = "refreshing" /\ r.expected = token /\ Unsent(r)
    BY <1>1, <1>3 DEF CallState, Points, Unsent, Final
  <2> HIDE DEF r
  <2>3. Owes(c, r, pub[c], lock', section', token', durable', issued')
    BY <1>1, <2>1, <2>2 DEF Owes, Active, Final
  <2> QED
    BY <1>1, <2>1, <2>2, <2>3, HolderStep DEF IInv, TypeOK, LiveIsDurable
<1> QED
  BY <1>2, <1>3

LEMMA RefreshedStep == ASSUME ClientConstants, IInv, NEW c \in Calls, Refreshed(c) PROVE IInv'
<1>1. /\ call[c] \in CallState /\ Unsent(call[c]) /\ call[c].at = "refreshing"
      /\ lock = c /\ pub[c] \in Task /\ pub[c].at = "none" /\ call[c].expected = token
  BY DEF IInv, TypeOK, Refreshed, At, TasksOwned, Final, LockHeld, Refreshing, Replacing
<1>2. UNCHANGED <<durable, section, ineligible, fence, published>> /\ token \in Nat /\ issued \in Nat /\ token <= issued
  BY DEF Refreshed, IInv, TypeOK
<1>3. ASSUME NEW outcome, call' = [call EXCEPT ![c] = AfterRefresh(@, outcome)], lock' = None,
             UNCHANGED <<pub, token, issued>>
      PROVE  IInv'
  <2> DEFINE r == AfterRefresh(call[c], outcome)
  <2>1. call' = [call EXCEPT ![c] = r] /\ pub' = [pub EXCEPT ![c] = pub[c]]
    BY <1>3 DEF IInv, TypeOK
  <2>2. r \in CallState /\ r.at \in {"loop", "over"} /\ Unsent(r)
    BY <1>1, AfterRefreshIs DEF Unsent, Final
  <2> HIDE DEF r
  <2>3. Owes(c, r, pub[c], lock', section', token', durable', issued')
    BY <1>1, <1>3, <2>2 DEF Owes, Active, ClientConstants
  <2> QED
    BY <1>1, <1>2, <1>3, <2>1, <2>2, <2>3, HolderStep DEF IInv, TypeOK, LiveIsDurable
<1>4. ASSUME published, issued' = issued + 1, UNCHANGED <<lock, token>>, Go(c, "publishing"),
             pub' = [pub EXCEPT ![c] = [NoTask EXCEPT !.at = "enter", !.old = call[c].expected,
                                                      !.new = issued']]
      PROVE  IInv'
  <2> DEFINE r == [call[c] EXCEPT !.at = "publishing"]
             t == [NoTask EXCEPT !.at = "enter", !.old = call[c].expected, !.new = issued']
  <2>1. call' = [call EXCEPT ![c] = r] /\ pub' = [pub EXCEPT ![c] = t]
    BY <1>4 DEF Go
  <2>2. issued' \in Nat /\ issued' > token
    BY <1>2, <1>4
  <2>3. r \in CallState /\ r.at = "publishing" /\ Unsent(r)
    BY <1>1 DEF CallState, Points, Unsent, Final
  <2>4. t.at = "enter" /\ t.old = token /\ t.new = issued' /\ t.action = None
    BY <1>1 DEF NoTask
  <2>6. t \in Task
    BY <1>1, <1>2, <2>2 DEF NoTask, Task
  <2> HIDE DEF r, t
  <2>5. Owes(c, r, t, lock', section', token', durable', issued')
    BY <1>1, <1>4, <2>2, <2>3, <2>4 DEF Owes, Active, Final
  <2>7. /\ token' \in Nat /\ durable' \in Nat /\ issued' \in Nat /\ token' <= issued'
        /\ section' \in Calls \cup {None} /\ ineligible' \in BOOLEAN
        /\ published => token' <= durable'
    BY <1>2, <1>4, <2>2 DEF IInv, TypeOK, LiveIsDurable
  <2> QED
    BY <1>1, <1>2, <1>4, <2>1, <2>3, <2>5, <2>6, <2>7, HolderStep
<1>5. ASSUME ~published, issued' = issued + 1, UNCHANGED <<lock, pub>>, token' = issued', Go(c, "persisting")
      PROVE  IInv'
  <2> DEFINE r == [call[c] EXCEPT !.at = "persisting"]
  <2>1. call' = [call EXCEPT ![c] = r] /\ pub' = [pub EXCEPT ![c] = pub[c]]
    BY <1>5 DEF Go, IInv, TypeOK
  <2>2. r \in CallState /\ r.at = "persisting" /\ Unsent(r)
    BY <1>1 DEF CallState, Points, Unsent, Final
  <2> HIDE DEF r
  <2>3. Owes(c, r, pub[c], lock', section', token', durable', issued')
    BY <1>1, <1>5, <2>2 DEF Owes, Active, Final
  <2>4. /\ token' \in Nat /\ durable' \in Nat /\ issued' \in Nat /\ token' <= issued'
        /\ section' \in Calls \cup {None} /\ ineligible' \in BOOLEAN
    BY <1>2, <1>5 DEF IInv, TypeOK
  <2> QED
    BY <1>1, <1>2, <1>5, <2>1, <2>2, <2>3, <2>4, HolderStep
<1> QED
  BY <1>2, <1>3, <1>4, <1>5 DEF Refreshed

LEMMA PersistStep == ASSUME ClientConstants, IInv, NEW c \in Calls, Persist(c) PROVE IInv'
<1>1. /\ call[c] \in CallState /\ Unsent(call[c]) /\ call[c].at = "persisting" /\ ~published
      /\ lock = c /\ lock' = None /\ pub[c] \in Task /\ pub[c].at = "none"
      /\ pub' = [pub EXCEPT ![c] = pub[c]]
  BY DEF IInv, TypeOK, Persist, At, TasksOwned, Final, LockHeld, Refreshing, Replacing
<1> DEFINE r == AfterRefresh(call[c], "redial")
<1>2. call' = [call EXCEPT ![c] = r]
  BY DEF Persist
<1>3. r \in CallState /\ r.at \in {"loop", "over"} /\ Unsent(r)
  BY <1>1, AfterRefreshIs DEF Unsent, Final
<1> HIDE DEF r
<1>4. Owes(c, r, pub[c], lock', section', token', durable', issued')
  BY <1>1, <1>3 DEF Owes, Active, ClientConstants
<1>5. /\ token' \in Nat /\ durable' \in Nat /\ issued' \in Nat /\ token' <= issued'
      /\ section' \in Calls \cup {None} /\ ineligible' \in BOOLEAN /\ UNCHANGED <<fence, published>>
  BY DEF Persist, IInv, TypeOK
<1> QED
  BY <1>1, <1>2, <1>3, <1>4, <1>5, HolderStep

\* The publication of c ends, with the lock and the section given back.
LEMMA FinishStep ==
  ASSUME ClientConstants, IInv, NEW c \in Calls, pub[c].at \in Active,
         NEW action \in {"denied", "unchanged", "indeterminate", "redial"}, Finish(c, action),
         UNCHANGED <<call, issued, fence, published>>, ineligible' \in BOOLEAN,
         token' \in Nat, durable' \in Nat, token' <= issued, published => token' <= durable'
  PROVE  IInv'
<1>1. /\ call[c] \in CallState /\ Unsent(call[c]) /\ lock = c /\ call[c].at \in {"publishing"} \cup Final
      /\ call' = [call EXCEPT ![c] = call[c]] /\ issued \in Nat
  BY DEF IInv, TypeOK, LockHeld, Publishing, TasksOwned, Active
<1> DEFINE t == IF call[c].at = "publishing" THEN [NoTask EXCEPT !.at = "done", !.action = action]
                ELSE NoTask
<1>2. pub' = [pub EXCEPT ![c] = t] /\ lock' = None /\ section' = None
  BY DEF Finish
<1>3. t \in Task /\ t.at = IF call[c].at = "publishing" THEN "done" ELSE "none"
  BY DEF NoTask, Task
<1> HIDE DEF t
<1>4. Owes(c, call[c], t, lock', section', token', durable', issued')
  BY <1>1, <1>2, <1>3 DEF Owes, Active, Final, ClientConstants
<1>5. /\ issued' \in Nat /\ token' <= issued' /\ section' \in Calls \cup {None}
      /\ lock \in {c, None} /\ lock' \in {c, None}
  BY <1>1, <1>2
<1> QED
  BY <1>1, <1>2, <1>3, <1>4, <1>5, HolderStep

LEMMA PublishStep == ASSUME ClientConstants, IInv, NEW c \in Calls, Publish(c) PROVE IInv'
<1>1. /\ call[c] \in CallState /\ Unsent(call[c]) /\ lock = c /\ pub[c] \in Task
      /\ call' = [call EXCEPT ![c] = call[c]] /\ pub[c].at = "enter"
      /\ UNCHANGED <<call, token, durable, issued, ineligible, fence, published>>
      /\ Owes(c, call[c], pub[c], lock, section, token, durable, issued)
  BY Owed DEF IInv, TypeOK, LockHeld, Publishing, Publish
<1>2. /\ token' \in Nat /\ durable' \in Nat /\ issued' \in Nat /\ token' <= issued' /\ ineligible' \in BOOLEAN
      /\ published => token' <= durable'
  BY <1>1 DEF IInv, TypeOK, LiveIsDurable
<1>3. CASE Permitted
  <2> DEFINE t == [pub[c] EXCEPT !.at = "commit"]
  <2>1. /\ pub' = [pub EXCEPT ![c] = t] /\ UNCHANGED lock
        /\ section' = IF fence = "none" THEN None ELSE c
    BY <1>3 DEF Publish
  <2>2. t \in Task /\ t.at = "commit" /\ t.old = pub[c].old /\ t.new = pub[c].new
    BY <1>1 DEF Task
  <2> HIDE DEF t
  <2>3. Owes(c, call[c], t, lock', section', token', durable', issued')
    BY <1>1, <1>3, <2>1, <2>2 DEF Owes, Active, Permitted
  <2> QED
    BY <1>1, <1>2, <2>1, <2>2, <2>3, HolderStep
<1>4. CASE ~Permitted
  <2>1. Finish(c, "denied") /\ token' <= issued
    BY <1>1, <1>2, <1>4 DEF Publish
  <2> QED
    BY <1>1, <1>2, <2>1, FinishStep DEF Active
<1> QED
  BY <1>3, <1>4

LEMMA CommitStep == ASSUME ClientConstants, IInv, NEW c \in Calls, Commit(c) PROVE IInv'
<1>1. /\ call[c] \in CallState /\ Unsent(call[c]) /\ lock = c /\ pub[c] \in Task
      /\ call' = [call EXCEPT ![c] = call[c]] /\ pub[c].at = "commit"
      /\ UNCHANGED <<call, token, issued, fence, published>>
      /\ Owes(c, call[c], pub[c], lock, section, token, durable, issued)
  BY Owed DEF IInv, TypeOK, LockHeld, Publishing, Commit
<1>2. pub[c].new \in Nat /\ pub[c].new > token /\ published
  BY <1>1 DEF Owes, Active
<1>3. token' \in Nat /\ issued' \in Nat /\ token' <= issued' /\ token' <= issued
  BY <1>1 DEF IInv, TypeOK
<1>4. CASE durable' = pub[c].new /\ pub' = [pub EXCEPT ![c].at = "assign"] /\ UNCHANGED <<lock, section, ineligible>>
  <2> DEFINE t == [pub[c] EXCEPT !.at = "assign"]
  <2>1. pub' = [pub EXCEPT ![c] = t]
    BY <1>4 DEF IInv, TypeOK
  <2>2. t \in Task /\ t.at = "assign" /\ t.old = pub[c].old /\ t.new = pub[c].new
    BY <1>1 DEF Task
  <2> HIDE DEF t
  <2>3. Owes(c, call[c], t, lock', section', token', durable', issued')
    BY <1>1, <1>4, <2>2 DEF Owes, Active
  <2>4. durable' \in Nat /\ token' <= durable' /\ section' \in Calls \cup {None} /\ ineligible' \in BOOLEAN
    BY <1>1, <1>2, <1>3, <1>4 DEF IInv, TypeOK
  <2> QED
    BY <1>1, <1>3, <1>4, <2>1, <2>2, <2>3, <2>4, HolderStep
<1>5. CASE Finish(c, "unchanged") /\ UNCHANGED <<durable, ineligible>>
  <2>1. durable' \in Nat /\ token' <= durable' /\ ineligible' \in BOOLEAN
    BY <1>1, <1>2, <1>5 DEF IInv, TypeOK, LiveIsDurable
  <2> QED
    BY <1>1, <1>3, <1>5, <2>1, FinishStep DEF Active
<1>6. CASE /\ durable' \in {durable, pub[c].new} /\ ineligible' \in {ineligible, TRUE}
           /\ Finish(c, "indeterminate")
  <2>1. durable' \in Nat /\ token' <= durable'
    BY <1>1, <1>2, <1>6 DEF IInv, TypeOK, LiveIsDurable
  <2>2. ineligible' \in BOOLEAN
    BY <1>6, Zenon DEF IInv, TypeOK
  <2> QED
    BY <1>1, <1>3, <1>6, <2>1, <2>2, FinishStep DEF Active
<1> QED
  BY <1>4, <1>5, <1>6 DEF Commit

LEMMA AssignStep == ASSUME ClientConstants, IInv, NEW c \in Calls, Assign(c) PROVE IInv'
<1>1. /\ pub[c].at = "assign" /\ token' = pub[c].new /\ Finish(c, "redial")
      /\ UNCHANGED <<call, durable, issued, ineligible, fence, published>>
      /\ Owes(c, call[c], pub[c], lock, section, token, durable, issued)
  BY Owed DEF Assign
<1>2. token' \in Nat /\ token' <= issued /\ token' <= durable' /\ durable' \in Nat /\ ineligible' \in BOOLEAN
  BY <1>1 DEF Owes, Active, IInv, TypeOK
<1> QED
  BY <1>1, <1>2, FinishStep DEF Active

LEMMA JoinedStep == ASSUME ClientConstants, IInv, NEW c \in Calls, Joined(c) PROVE IInv'
<1>1. /\ call[c] \in CallState /\ Unsent(call[c]) /\ call[c].at = "publishing" /\ pub[c].at = "done"
      /\ Owes(c, call[c], pub[c], lock, section, token, durable, issued)
  BY Owed DEF IInv, TypeOK, Joined, At
<1> DEFINE r == AfterRefresh(call[c], pub[c].action)
<1>2. call' = [call EXCEPT ![c] = r] /\ pub' = [pub EXCEPT ![c] = NoTask] /\ UNCHANGED <<shared, fence, published>>
  BY DEF Joined
<1>3. r \in CallState /\ r.at \in {"loop", "over"} /\ Unsent(r)
  BY <1>1, AfterRefreshIs DEF Unsent, Final
<1>4. NoTask \in Task /\ NoTask.at = "none"
  BY DEF NoTask, Task
<1> HIDE DEF r
<1>5. Owes(c, r, NoTask, lock, section, token, durable, issued)
  BY <1>1, <1>3, <1>4 DEF Owes, Active
<1> QED
  BY <1>2, <1>3, <1>4, <1>5, LoneStep

LEMMA DropStep == ASSUME ClientConstants, IInv, NEW c \in Calls, Drop(c) PROVE IInv'
<1> DEFINE r == Over(call[c], "over")
           t == IF pub[c].at = "done" THEN NoTask ELSE pub[c]
<1>1. /\ call[c] \in CallState /\ Unsent(call[c]) /\ pub[c] \in Task
      /\ call[c].at \in {"lan", "exchange", "dialing", "relayed", "waiting", "refreshing", "publishing"}
      /\ Owes(c, call[c], pub[c], lock, section, token, durable, issued)
      /\ UNCHANGED <<token, durable, issued, section, ineligible, fence, published>>
  BY Owed DEF IInv, TypeOK, Drop
<1>2. call' = [call EXCEPT ![c] = r] /\ pub' = [pub EXCEPT ![c] = t]
  BY DEF Drop, End
<1>3. r \in CallState /\ r.at = "over" /\ Unsent(r)
  BY <1>1, OverIs DEF Unsent, Final
<1>4. t \in Task /\ (pub[c].at = "done" => t.at = "none") /\ (pub[c].at # "done" => t = pub[c])
  BY <1>1 DEF NoTask, Task
<1> HIDE DEF r, t
<1>5. CASE call[c].at = "refreshing"
  <2>1. lock = c /\ lock' = None /\ pub[c].at = "none"
    BY <1>1, <1>5 DEF Drop, At, Owes, Final
  <2>2. Owes(c, r, t, lock', section', token', durable', issued')
    BY <1>1, <1>3, <1>4, <2>1 DEF Owes, Active, Final, ClientConstants
  <2>3. /\ token' \in Nat /\ durable' \in Nat /\ issued' \in Nat /\ token' <= issued'
        /\ section' \in Calls \cup {None} /\ ineligible' \in BOOLEAN
        /\ published => token' <= durable'
    BY <1>1 DEF IInv, TypeOK, LiveIsDurable
  <2> QED
    BY <1>1, <1>2, <1>3, <1>4, <2>1, <2>2, <2>3, HolderStep
<1>6. CASE call[c].at # "refreshing"
  <2>1. UNCHANGED <<shared, fence, published>>
    BY <1>1, <1>6 DEF Drop, At, shared
  <2>2. Owes(c, r, t, lock, section, token, durable, issued)
    BY <1>1, <1>3, <1>4, <1>6 DEF Owes, Active, Final
  <2> QED
    BY <1>2, <1>3, <1>4, <2>1, <2>2, LoneStep
<1> QED
  BY <1>5, <1>6

\* The consumer cannot move the fence while a publication is in its section.
LEMMA SetFenceStep == ASSUME ClientConstants, IInv, SetFence PROVE IInv'
<1>1. /\ UNCHANGED <<call, pub, lock, token, durable, issued, section, ineligible, published>>
      /\ fence \in {"allow", "disabled"} /\ section = None
      /\ fence' \in {"allow", "disabled", "retired"}
  BY DEF SetFence, shared
<1>2. TypeOK' /\ LockHeld' /\ TasksOwned' /\ Replacing' /\ LiveIsDurable' /\ (token <= issued)'
  BY <1>1 DEF IInv, TypeOK, LockHeld, TasksOwned, Replacing, LiveIsDurable, Refreshing, Publishing, At
<1>3. InSection'
  BY <1>1 DEF IInv, InSection, ClientConstants
<1> QED
  BY <1>1, <1>2, <1>3 DEF IInv, Unsent

LEMMA StepIInv == ASSUME ClientConstants, IInv, [Next]_vars PROVE IInv'
<1>1. ASSUME NEW c \in Calls, CallStep(c) PROVE IInv'
  BY <1>1, DialDirectStep, ExchangeDirectStep, FallbackStep, ReadTokenStep, LoopTopStep, DialRelayStep,
     ExchangeRelayStep, AcquireStep, RefreshedStep, PersistStep, JoinedStep DEF CallStep
<1>2. ASSUME NEW c \in Calls, PublisherStep(c) PROVE IInv'
  BY <1>2, PublishStep, CommitStep, AssignStep DEF PublisherStep
<1>3. CASE UNCHANGED vars
  BY <1>3 DEF vars, shared, IInv, TypeOK, LockHeld, TasksOwned, Replacing, InSection, LiveIsDurable,
              Refreshing, Publishing, At, Unsent
<1> QED
  BY <1>1, <1>2, <1>3, StartStep, DropStep, SetFenceStep DEF Next

-----------------------------------------------------------------------------
(* The theorems.                                                           *)

\* The lock, the publications and the tokens stay as the invariant says.
THEOREM Inductive == ASSUME ClientConstants PROVE Spec => []IInv
<1>1. Init => IInv
  BY InitIInv
<1>2. IInv /\ [Next]_vars => IInv'
  BY StepIInv
<1> QED
  BY <1>1, <1>2, PTL DEF Spec

\* Whatever a call goes through, a request under ForbidAfterWrite is written at most once.
THEOREM WrittenOnce == ASSUME ClientConstants PROVE Spec => []NothingSentTwice
<1>1. IInv => NothingSentTwice
  BY DEF IInv, Unsent, NothingSentTwice
<1> QED
  BY <1>1, Inductive, PTL

\* With a publication, the live token is never newer than the stored one.
THEOREM LiveIsStored == ASSUME ClientConstants PROVE Spec => []LiveIsDurable
<1>1. IInv => LiveIsDurable
  BY DEF IInv
<1> QED
  BY <1>1, Inductive, PTL

\* At most one call refreshes or has a publication under way, cancelled calls
\* included, so that two refreshes never race (refresh_if_current).
SingleFlight ==
    \A c, k \in Calls : (Refreshing(c) \/ Publishing(c)) /\ (Refreshing(k) \/ Publishing(k)) => c = k

\* Refreshes are single-flight for any number of calls.
THEOREM RefreshesAreSingle == ASSUME ClientConstants PROVE Spec => []SingleFlight
<1>1. IInv => SingleFlight
  BY DEF IInv, LockHeld, SingleFlight
<1> QED
  BY <1>1, Inductive, PTL

\* Only these steps touch a token.
LEMMA TokensMove ==
  ASSUME [Next]_vars, token' # token \/ durable' # durable
  PROVE  \E c \in Calls : Refreshed(c) \/ Persist(c) \/ Commit(c) \/ Assign(c)
<1>1. ASSUME NEW c \in Calls, DialDirect(c) \/ ExchangeDirect(c) \/ Fallback(c) \/ ReadToken(c) \/ Start(c)
      PROVE  UNCHANGED <<token, durable>>
  BY <1>1 DEF DialDirect, ExchangeDirect, Fallback, ReadToken, Start, Quiet, shared
<1>2. ASSUME NEW c \in Calls, LoopTop(c) \/ DialRelay(c) \/ ExchangeRelay(c)
      PROVE  UNCHANGED <<token, durable>>
  BY <1>2 DEF LoopTop, DialRelay, ExchangeRelay, Quiet, shared
<1>3. ASSUME NEW c \in Calls, Acquire(c) \/ Joined(c) \/ Publish(c) \/ Drop(c)
      PROVE  UNCHANGED <<token, durable>>
  BY <1>3 DEF Acquire, Joined, Publish, Drop, shared
<1>4. SetFence \/ UNCHANGED vars => UNCHANGED <<token, durable>>
  BY DEF SetFence, vars, shared
<1> QED
  BY <1>1, <1>2, <1>3, <1>4 DEF Next, CallStep, PublisherStep

\* Nothing is committed or made live against the fence, and a token is replaced
\* only by the refresh that started from it, for any number of calls.
THEOREM FenceAndRefreshHold ==
  ASSUME ClientConstants PROVE Spec => [][PublicationIsFenced /\ NoLostRefresh]_vars
<1>1. ASSUME IInv, NEW c \in Calls, Refreshed(c) PROVE PublicationIsFenced /\ NoLostRefresh
  <2>1. UNCHANGED durable /\ (token' # token => ~published) /\ At(c, "refreshing") /\ call[c].expected = token
    BY <1>1 DEF Refreshed, IInv, Replacing
  <2> QED
    BY <1>1, <2>1 DEF IInv, InSection, PublicationIsFenced, NoLostRefresh, Permitted
<1>2. ASSUME IInv, NEW c \in Calls, Persist(c) PROVE PublicationIsFenced /\ NoLostRefresh
  <2>1. UNCHANGED token /\ ~published
    BY <1>2 DEF Persist, IInv, Replacing
  <2> QED
    BY <1>2, <2>1 DEF IInv, InSection, PublicationIsFenced, NoLostRefresh, Permitted
<1>3. ASSUME IInv, NEW c \in Calls, Commit(c) PROVE PublicationIsFenced /\ NoLostRefresh
  <2>1. UNCHANGED token /\ pub[c].at = "commit"
    BY <1>3 DEF Commit
  <2> QED
    BY <1>3, <2>1 DEF IInv, InSection, PublicationIsFenced, NoLostRefresh, Permitted
<1>4. ASSUME IInv, NEW c \in Calls, Assign(c) PROVE PublicationIsFenced /\ NoLostRefresh
  <2>1. pub[c].at = "assign" /\ pub[c].old = token
    BY <1>4 DEF Assign, IInv, Replacing, Publishing
  <2> QED
    BY <1>4, <2>1 DEF IInv, InSection, PublicationIsFenced, NoLostRefresh, Permitted
<1>5. IInv /\ [Next]_vars => [PublicationIsFenced /\ NoLostRefresh]_vars
  <2> SUFFICES ASSUME IInv, [Next]_vars PROVE PublicationIsFenced /\ NoLostRefresh
    OBVIOUS
  <2>1. CASE token' # token \/ durable' # durable
    BY <1>1, <1>2, <1>3, <1>4, <2>1, TokensMove
  <2>2. CASE token' = token /\ durable' = durable
    BY <2>2 DEF PublicationIsFenced, NoLostRefresh
  <2> QED
    BY <2>1, <2>2
<1> QED
  BY <1>5, Inductive, PTL DEF Spec
=============================================================================
