--------------------------- MODULE TransportClient ---------------------------
(***************************************************************************)
(* One paired credential's client (client.rs, request.rs, relay_token.rs): *)
(* concurrent calls of request, open_carrier and dial_carrier over direct  *)
(* endpoints or the relay, sharing the live device token, the refresh lock,*)
(* the consumer's durable token, its fence and the ineligible latch.  A    *)
(* call's future may be dropped at any await; a publication runs to its end*)
(* on a thread of its own.  Tokens are numbered in the order of issue.     *)
(***************************************************************************)
EXTENDS Naturals

CONSTANTS
    Calls,
    Endpoints,          \* number of direct endpoints of the credential
    MaxAttempts,        \* MAX_ATTEMPTS, passes over the endpoints
    MaxTransient,       \* RELAY_MAX_TRANSIENT_ATTEMPTS
    MaxToken,           \* bound: tokens the relay issues
    None

ClientConstants ==
    /\ Endpoints \in Nat /\ MaxAttempts \in Nat \ {0} /\ MaxTransient \in Nat \ {0} /\ MaxToken \in Nat
    /\ None \notin Calls

Kinds == {"once", "replay", "open", "dial"}     \* request by ReplayPolicy; Fenced; Legacy

VARIABLES call, pub, lock, token, durable, issued, fence, section, ineligible, published

shared == <<lock, token, durable, issued, section, ineligible>>
vars == <<call, pub, shared, fence, published>>

Idle == [at |-> "idle", kind |-> "dial", pass |-> 1, ep |-> 1, lan |-> 0, expected |-> None,
         refreshed |-> FALSE, transient |-> 0, sent |-> 0]
NoTask == [at |-> "none", old |-> None, new |-> None, action |-> None]

\* TransportClient::build, without and with a publication and its fence; pass is
\* over direct endpoints, if there are any.
Init ==
    /\ call = [c \in Calls |-> Idle] /\ pub = [c \in Calls |-> NoTask]
    /\ lock = None /\ token = 0 /\ durable = 0 /\ issued = 0
    /\ published \in BOOLEAN /\ fence \in (IF published THEN {"none", "allow"} ELSE {"none"})
    /\ section = None /\ ineligible = FALSE

At(c, at) == call[c].at = at
Go(c, at) == call' = [call EXCEPT ![c].at = at]
Request(c) == call[c].kind \in {"once", "replay"}
Fenced(c) == call[c].kind # "dial"
Quiet == UNCHANGED <<pub, shared, fence, published>>

\* A finished call keeps only what it did on the wire; of the errors only
\* ReplayUnsafe is told apart.
Over(r, why) == [Idle EXCEPT !.at = why, !.kind = IF r.kind = "once" THEN r.kind ELSE @, !.sent = r.sent]
End(c, why) == call' = [call EXCEPT ![c] = Over(@, why)]

\* relay_fence_permit
Permitted == fence \in {"none", "allow"}

-----------------------------------------------------------------------------
(* Direct endpoints *)

Start(c) ==
    /\ At(c, "idle")
    /\ \E k \in Kinds :
        call' = [call EXCEPT ![c] = [Idle EXCEPT !.at = IF Endpoints = 0 THEN "fallback" ELSE "lan",
                                                 !.kind = k]]
    /\ Quiet

\* prefer_refusal: the rank of what is known of the endpoints, 0 unreachable,
\* 1 another journal, 3 the journal's own answer.
Prefer(last, next) == IF last > next THEN last ELSE next

\* An endpoint has failed with this rank: the next one, another pass, or the
\* end of the direct attempts.
Failed(r, rank) ==
    LET lan == Prefer(r.lan, rank) IN
    CASE r.ep < Endpoints -> [r EXCEPT !.at = "lan", !.ep = @ + 1, !.lan = lan]
      [] r.ep = Endpoints /\ lan < 3 /\ r.pass < MaxAttempts ->
            [r EXCEPT !.at = "lan", !.ep = 1, !.pass = @ + 1, !.lan = lan]
      [] OTHER -> IF lan < 3 THEN [Idle EXCEPT !.at = "fallback", !.kind = r.kind, !.sent = r.sent]
                  ELSE Over(r, "over")

\* dial_tls and its outcome: unreachable (no connection, no handshake in time),
\* another journal's certificate, or a connection.
DialDirect(c) ==
    /\ At(c, "lan")
    /\ \E seen \in {"none", "unknown", "ok"} :
        call' = [call EXCEPT ![c] =
                IF seen = "ok" THEN IF Request(c) THEN [@ EXCEPT !.at = "exchange"] ELSE Over(@, "ok")
                ELSE Failed(@, IF seen = "unknown" THEN 1 ELSE 0)]
    /\ Quiet

\* stream_error, read_verdict: an alert is the journal's verdict on this device
\* only before its first data; "named" ones only the check of the certificate
\* raises (49 and 46).
Verdicts(accepted) == IF accepted THEN {} ELSE {"named", "refusal"}

\* run_request_over_stream_with_options: the frames the window allows are
\* written before anything is read.  The exchange ends with a response, an I/O
\* failure or timeout, a violation or early end of the response ("answer"), a
\* response over the cap, or a verdict.
Exchanges ==
    [written : {FALSE}, out : {"io", "answer"}]
        \cup UNION {[written : {TRUE}, out : Verdicts(accepted) \cup {"io", "answer"}
                                                \cup (IF accepted THEN {"ok", "cap"} ELSE {})] :
                     accepted \in BOOLEAN}

\* The count is of a request that may not be replayed.
Written(r, written) == [r EXCEPT !.sent = IF written /\ r.kind = "once" THEN @ + 1 ELSE @]

\* end_on_refusal, and the replay policy.
Ended(r, out, written) ==
    \/ out \in {"ok", "cap", "named", "refusal"}
    \/ written /\ r.kind = "once"
Verdict(r, out, written) ==
    CASE out = "ok" -> "ok"
      [] out \in {"cap", "named"} -> "over"
      [] OTHER -> IF written /\ r.kind = "once" THEN "unsafe" ELSE "over"

ExchangeDirect(c) ==
    /\ At(c, "exchange")
    /\ \E x \in Exchanges :
        LET r == Written(call[c], x.written) IN
            call' = [call EXCEPT ![c] =
                IF Ended(r, x.out, x.written) THEN Over(r, Verdict(r, x.out, x.written))
                ELSE Failed(r, IF x.out = "answer" THEN 3 ELSE 0)]
    /\ Quiet

-----------------------------------------------------------------------------
(* The relay *)

\* RelayError: the status of a refused upgrade, the close code of a tunnel (1006
\* stands for an abnormal end), and what a retry may recover.
RelayErrorFromUpgradeStatus(status) ==
    CASE status = 503 -> "HomeOffline"
      [] status = 401 -> "Unauthorized"
      [] status = 402 -> "Unpaid"
      [] status = 404 -> "UnknownInstance"
      [] OTHER -> "UpgradeRejected"
RelayErrorFromClose(code) ==
    CASE code = 4401 -> "Unauthorized"
      [] code = 4402 -> "Unpaid"
      [] code = 1009 -> "Overflow"
      [] OTHER -> "Abnormal"
IsTransient(e) == e \in {"HomeOffline", "Overflow", "Abnormal", "Stalled"}

Refusals == {RelayErrorFromUpgradeStatus(s) : s \in {503, 401, 402, 404, 500}}
Closes == {RelayErrorFromClose(n) : n \in {4401, 4402, 1009, 1006}}

\* dial_relay_ws: the upgrade succeeds, is refused, times out or fails.
Upgrade == {"ok", "Io", "Tls"} \cup Refusals

\* inner_handshake_error: the relay's close, another journal, or a TLS failure.
InnerHandshakeError(closed) == IF closed # None THEN {closed} ELSE {"UnknownJournal", "Tls"}

\* dial_relay_carrier
CarrierDials ==
    Upgrade \cup {"Stalled"} \cup UNION {InnerHandshakeError(closed) : closed \in Closes \cup {None}}

\* relay_close_first: a tunnel the relay has closed goes before a verdict read
\* through it.
RelayCloseFirst(out, closed) ==
    IF out \in {"named", "refusal"} /\ closed # None THEN closed ELSE out

\* No direct endpoint could be reached: the latch, the relay's configuration
\* and, for open_carrier, the fence decide whether the relay is tried.
Fallback(c) ==
    /\ At(c, "fallback")
    /\ \/ ineligible /\ End(c, "over")
       \/ End(c, "over")                         \* no relay in the credential
       \/ ~ineligible /\ call[c].kind = "open" /\ ~Permitted /\ End(c, "over")
       \/ ~ineligible /\ (call[c].kind = "open" => Permitted) /\ Go(c, "token")
    /\ Quiet

\* The token read now decides about a proactive refresh (should_refresh).
ReadToken(c) ==
    /\ At(c, "token")
    /\ \/ Go(c, "loop")
       \/ call' = [call EXCEPT ![c].at = "waiting", ![c].expected = token]
    /\ Quiet

\* The head of the loop: the fence, where the policy looks at it.
LoopTop(c) ==
    /\ At(c, "loop")
    /\ IF Fenced(c) /\ ~Permitted THEN End(c, "over") ELSE Go(c, "dialing")
    /\ Quiet

\* A transient relay error that is retried without counting it.
TransientUncounted(r) == [r EXCEPT !.at = "loop"]

Transient(r) ==
    IF r.transient + 1 >= MaxTransient THEN Over(r, "over")
    ELSE [r EXCEPT !.at = "loop", !.transient = @ + 1]

\* The carrier is dialed with the token read now.
DialRelay(c) ==
    /\ At(c, "dialing")
    /\ \E seen \in CarrierDials :
        call' = [call EXCEPT ![c] =
                CASE seen = "ok" -> IF Request(c) THEN [@ EXCEPT !.at = "relayed"] ELSE Over(@, "ok")
                  [] seen = "Unauthorized" ->
                        IF @.refreshed THEN Over(@, "over")
                        ELSE [@ EXCEPT !.at = "waiting", !.expected = token, !.refreshed = TRUE]
                  [] IsTransient(seen) -> Transient(@)
                  [] OTHER -> Over(@, "over")]
    /\ Quiet

\* The loop without its look at write_initiated: a relay fault is retried.
ExchangeRelayRetried(c) ==
    /\ At(c, "relayed")
    /\ \E x \in Exchanges, closed \in Closes \cup {None} :
        LET out == RelayCloseFirst(x.out, closed)
            r == Written(call[c], x.written)
        IN  call' = [call EXCEPT ![c] =
                CASE IsTransient(out) -> Transient(r)
                  [] Ended(r, out, x.written) -> Over(r, Verdict(r, out, x.written))
                  [] OTHER -> IF out = "io" /\ r.kind = "replay" THEN Transient(r) ELSE Over(r, "over")]
    /\ Quiet

\* The exchange over the relay: a transient relay error is retried, and so is
\* an I/O failure of a request that may be replayed.
ExchangeRelay(c) ==
    /\ At(c, "relayed")
    /\ \E x \in Exchanges, closed \in Closes \cup {None} :
        LET out == RelayCloseFirst(x.out, closed)
            r == Written(call[c], x.written)
        IN  call' = [call EXCEPT ![c] =
                IF Ended(r, out, x.written) THEN Over(r, Verdict(r, out, x.written))
                ELSE IF IsTransient(out) \/ (out = "io" /\ r.kind = "replay") THEN Transient(r)
                ELSE Over(r, "over")]
    /\ Quiet

-----------------------------------------------------------------------------
(* refresh_if_current *)

\* How the loop goes on after a refresh; `refreshed` tells the reactive refresh
\* from the proactive one.
AfterRefresh(r, action) ==
    CASE action = "redial" -> [r EXCEPT !.at = "loop", !.expected = None]
      [] action = "transient" /\ ~r.refreshed -> [r EXCEPT !.at = "loop", !.expected = None]
      [] action \in {"terminal", "transient"} -> Over(r, "over")
      [] OTHER -> IF r.kind # "dial" THEN Over(r, "over")
                  ELSE IF r.refreshed THEN Over(r, "over")
                  ELSE [r EXCEPT !.at = "loop", !.expected = None]

\* The lock is taken, and the token compared again.
Acquire(c) ==
    /\ At(c, "waiting") /\ lock = None
    /\ IF token # call[c].expected
       THEN call' = [call EXCEPT ![c] = AfterRefresh(@, "redial")] /\ UNCHANGED lock
       ELSE Go(c, "refreshing") /\ lock' = c
    /\ UNCHANGED <<pub, token, durable, issued, section, ineligible, fence, published>>

\* refresh_device_token: what the control plane's answer means; no answer, or
\* claims that do not fit the current token, is a transient error.
RefreshOutcome(status, expired, fits) ==
    CASE status = 200 /\ fits -> "refreshed"
      [] status \in {403, 404} \/ (status = 401 /\ expired) -> "terminal"
      [] OTHER -> "transient"

\* The refresh ends: transiently, with the need to pair again, or with a token,
\* which a client without publication makes live at once.
Refreshed(c) ==
    /\ At(c, "refreshing")
    /\ \E status \in {200, 401, 403, 404, 500}, expired \in BOOLEAN, fits \in BOOLEAN :
       LET outcome == RefreshOutcome(status, expired, fits) IN
       \/ /\ outcome # "refreshed"
          /\ call' = [call EXCEPT ![c] = AfterRefresh(@, outcome)]
          /\ lock' = None
          /\ UNCHANGED <<pub, token, issued>>
       \/ /\ outcome = "refreshed" /\ issued < MaxToken /\ issued' = issued + 1
          /\ UNCHANGED lock
          /\ IF published
             THEN /\ pub' = [pub EXCEPT ![c] = [NoTask EXCEPT !.at = "enter", !.old = call[c].expected,
                                                              !.new = issued']]
                  /\ Go(c, "publishing")
                  /\ UNCHANGED token
             ELSE token' = issued' /\ Go(c, "persisting") /\ UNCHANGED pub
    /\ UNCHANGED <<durable, section, ineligible, fence, published>>

\* persist_token calls the hook; only then is the lock released.
Persist(c) ==
    /\ At(c, "persisting")
    /\ durable' = token /\ lock' = None
    /\ call' = [call EXCEPT ![c] = AfterRefresh(@, "redial")]
    /\ UNCHANGED <<pub, token, issued, section, ineligible, fence, published>>

\* The blocking task has its result, with the lock and the section released.
Finish(c, action) ==
    /\ pub' = [pub EXCEPT ![c] = IF call[c].at = "publishing" THEN [NoTask EXCEPT !.at = "done", !.action = action]
                                 ELSE NoTask]
    /\ lock' = None /\ section' = None

\* The permit looked at outside with_publication.
PublishUnfenced(c) ==
    /\ pub[c].at = "enter"
    /\ IF Permitted
       THEN pub' = [pub EXCEPT ![c].at = "commit"] /\ UNCHANGED <<lock, section>>
       ELSE Finish(c, "denied")
    /\ UNCHANGED <<call, token, durable, issued, ineligible, fence, published>>

\* with_publication: the section is entered and the permit looked at.
Publish(c) ==
    /\ pub[c].at = "enter" /\ section = None
    /\ IF Permitted
       THEN /\ pub' = [pub EXCEPT ![c].at = "commit"] /\ UNCHANGED lock
            /\ section' = IF fence = "none" THEN None ELSE c
       ELSE Finish(c, "denied")
    /\ UNCHANGED <<call, token, durable, issued, ineligible, fence, published>>

\* A transaction whose refusal is taken for success.
CommitUnchecked(c) ==
    /\ pub[c].at = "commit"
    /\ durable' \in {durable, pub[c].new}
    /\ pub' = [pub EXCEPT ![c].at = "assign"]
    /\ UNCHANGED <<call, lock, section, ineligible, token, issued, fence, published>>

\* The consumer's transaction; an indeterminate one may have stored the token, and so
\* may one that panics, which leaves the latch alone.
Commit(c) ==
    /\ pub[c].at = "commit"
    /\ \/ /\ durable' = pub[c].new /\ pub' = [pub EXCEPT ![c].at = "assign"]
          /\ UNCHANGED <<lock, section, ineligible>>
       \/ Finish(c, "unchanged") /\ UNCHANGED <<durable, ineligible>>
       \/ /\ durable' \in {durable, pub[c].new} /\ ineligible' \in {ineligible, TRUE}
          /\ Finish(c, "indeterminate")
    /\ UNCHANGED <<call, token, issued, fence, published>>

Assign(c) ==
    /\ pub[c].at = "assign"
    /\ token' = pub[c].new
    /\ Finish(c, "redial")
    /\ UNCHANGED <<call, durable, issued, ineligible, fence, published>>

\* The caller sees the task's result.
Joined(c) ==
    /\ At(c, "publishing") /\ pub[c].at = "done"
    /\ call' = [call EXCEPT ![c] = AfterRefresh(@, pub[c].action)]
    /\ pub' = [pub EXCEPT ![c] = NoTask]
    /\ UNCHANGED <<shared, fence, published>>

\* The call's future is dropped at an await: a refresh in flight releases the
\* lock, a publication keeps it.
Drop(c) ==
    /\ call[c].at \in {"lan", "exchange", "dialing", "relayed", "waiting", "refreshing", "publishing"}
    /\ End(c, "over")
    /\ lock' = IF At(c, "refreshing") THEN None ELSE lock
    /\ pub' = [pub EXCEPT ![c] = IF @.at = "done" THEN NoTask ELSE @]
    /\ UNCHANGED <<token, durable, issued, section, ineligible, fence, published>>

\* The consumer closes the fence, for a while or for ever, outside the section.
SetFence ==
    /\ fence \in {"allow", "disabled"} /\ section = None
    /\ fence' \in {"allow", "disabled", "retired"} \ {fence}
    /\ UNCHANGED <<call, pub, shared, published>>

CallStep(c) ==
    \/ DialDirect(c) \/ ExchangeDirect(c) \/ Fallback(c) \/ ReadToken(c) \/ LoopTop(c) \/ DialRelay(c)
    \/ ExchangeRelay(c) \/ Acquire(c) \/ Refreshed(c) \/ Persist(c) \/ Joined(c)

PublisherStep(c) == Publish(c) \/ Commit(c) \/ Assign(c)

Next ==
    \/ \E c \in Calls : CallStep(c) \/ PublisherStep(c) \/ Start(c) \/ Drop(c)
    \/ SetFence

\* The awaits of a call have timeouts, but for the close of its connection after a
\* response (connection.rs 338), which is taken to complete; and the transaction
\* returns or panics.
Spec ==
    /\ Init /\ [][Next]_vars
    /\ \A c \in Calls : WF_vars(CallStep(c)) /\ WF_vars(PublisherStep(c))

-----------------------------------------------------------------------------
\* Under ForbidAfterWrite a request is put on the wire at most once, whatever
\* endpoints, passes, relay closes, refreshes and retries the call goes through.
NothingSentTwice == \A c \in Calls : call[c].kind = "once" => call[c].sent <= 1

\* (A step.) A live token is replaced only by the refresh of that very token: no result
\* of a refresh, late or of a cancelled call, overwrites a newer token.
NoLostRefresh ==
    token' # token => \E c \in Calls :
        \/ pub[c].at = "assign" /\ pub[c].old = token
        \/ At(c, "refreshing") /\ call[c].expected = token

\* (A step.) After the consumer has disabled or retired the client nothing is committed
\* and no token becomes live: the permit, the commit and the assignment are one
\* section with respect to the consumer.
PublicationIsFenced ==
    durable' # durable \/ token' # token => Permitted

\* With a publication, what the client dials with is never newer than what is
\* stored, so that a restart does not fall back behind a token already used.
LiveIsDurable == published => token <= durable

\* Every call that is not dropped returns: Called leads to Returned.
Called(c) == ~At(c, "idle")
Returned(c) == call[c].at \in {"ok", "unsafe", "over"}

\* The TokenPersistHook "is called after the refresh single-flight mutex has
\* been released".
HookAfterRelease == [][\A c \in Calls : At(c, "persisting") /\ call'[c].at # "persisting" => lock = None]_vars
=============================================================================
