----------------------------- MODULE RelayToken -----------------------------
(***************************************************************************)
(* The relay device token a paired device holds.  Enrolment obtains the    *)
(* first one for the instance the device paired with; a refresh sends the  *)
(* held token and takes a replacement.  The device cannot verify a token's *)
(* signature: it reads the claims, checks their shape against the instance *)
(* and the clock, and keeps or refuses the token.  An older relay answers  *)
(* without a protocol version and with the legacy claim shape.             *)
(*                                                                         *)
(* The relay is arbitrary.  A token is the claims the checks read: its     *)
(* version (None in the legacy shape, whose shape is otherwise taken as    *)
(* well formed or not through shape), its instance, iat and exp.  Times    *)
(* are signed integers of a small width standing for i64, and arithmetic   *)
(* on them is checked or saturating where the code's is.                   *)
(***************************************************************************)
EXTENDS Integers

CONSTANTS Instances,    \* instance ids, Home among them
          Home,         \* the instance the device paired with
          None,
          MaxInt,       \* the largest value of the integer type
          Skew,         \* the 60 seconds an iat may lie ahead of the clock
          Times,        \* bound: iat and exp a relay puts in a token
          Links,        \* bound: the relay origins a pair link names
          MaxNow        \* bound: the clock

VARIABLES now,          \* unix_now, which may be set back
          link,         \* the relay origin of the pair link
          token,        \* the token held, or None
          origin,       \* the relay origin kept with it
          outcome       \* of the last enrolment or refresh

vars == <<now, link, token, origin, outcome>>

Int64 == (-MaxInt - 1)..MaxInt
saturating_add(a, b) == IF a + b > MaxInt THEN MaxInt ELSE a + b

\* No token whose expiry is not after 0 is ever accepted: 0 stands for those.
Expiries == {t \in Times : t > 0}

Tokens ==
    [ver : {None, 2, 3}, instance : Instances, iat : Times, exp : Expiries \cup {0}, shape : BOOLEAN]

\* What a relay answers: a status and, on success, a token, the protocol
\* version it names and the expiry it reports beside it, which is not read without
\* a version.
Answers == [status : {200}, version : {2}, token : Tokens, expires_at : Expiries \cup {None}]
               \cup [status : {200}, version : {None}, token : Tokens, expires_at : {None}]
               \cup [status : {401, 403, 404, 500}, expired : BOOLEAN]

-----------------------------------------------------------------------------
(* relay_access.rs                                                         *)

Timely(t, at) == t.exp > at /\ t.exp > t.iat /\ t.iat <= saturating_add(at, Skew)

instance_claims(t, instance, at) ==
    t.ver = 2 /\ t.shape /\ t.instance = instance /\ Timely(t, at)

legacy_claims(t, instance, at) ==
    t.ver = None /\ t.shape /\ t.instance = instance /\ Timely(t, at)

negotiated_claims(version, t, expires_at, instance, at) ==
    version = 2 /\ instance_claims(t, instance, at) /\ expires_at = t.exp

\* renewal_identity: the shape checks with the clock put back to just before
\* the token's expiry, so that an expired token may still be renewed.
ShapeTime(t) == IF t.exp - 1 < now THEN t.exp - 1 ELSE now
renewable(t) ==
    /\ t.iat <= saturating_add(now, Skew)
    /\ t.exp - 1 \in Int64
    /\ \/ t.ver = 2 /\ instance_claims(t, t.instance, ShapeTime(t))
       \/ t.ver = None /\ legacy_claims(t, t.instance, ShapeTime(t))

-----------------------------------------------------------------------------
(* relay_http.rs: relay origins, as they are spelled.                      *)

Spellings == [scheme : {"https", "ws"}, host : {"relay", "RELAY", ""},
              port : {None, 0, 443}, bare : BOOLEAN]

Folded(host) == IF host = "RELAY" THEN "relay" ELSE host

\* parse_port.
PortOk(port) == port # 0

parse_relay_origin(o) == o.scheme \in {"http", "https"} /\ o.bare /\ o.host # "" /\ PortOk(o.port)

\* parse_authority: the default port where none is given.
PortOf(o) == IF o.port # None THEN o.port ELSE IF o.scheme = "https" THEN 443 ELSE 80

same_relay_origin(a, b) ==
    /\ parse_relay_origin(a) /\ parse_relay_origin(b)
    /\ a.scheme = b.scheme /\ Folded(a.host) = Folded(b.host) /\ PortOf(a) = PortOf(b)

\* The relay access a pair response carries.  Its token with the expiry beside it, its
\* origin and its other fields are checked apart, so one of them varies at a time.
Fit == [ver |-> 2, instance |-> Home, iat |-> 0, exp |-> MaxNow + 1, shape |-> TRUE]
Here == [scheme |-> "https", host |-> "RELAY", port |-> 443, bare |-> TRUE]
Access == [ready |-> TRUE, version |-> 2, instance |-> Home, token |-> Fit,
           expires_at |-> Fit.exp, origin |-> Here]
Accesses ==
    {[Access EXCEPT !.token = t, !.expires_at = e] : t \in Tokens, e \in Expiries}
        \cup {[Access EXCEPT !.origin = o] : o \in Spellings}
        \cup {[Access EXCEPT !.ready = r, !.version = v, !.instance = i] :
                  r \in BOOLEAN, v \in {2, 3}, i \in Instances}

\* RelayAccess::claims.
access_claims(x) ==
    x.ready /\ x.instance = Home /\ negotiated_claims(x.version, x.token, x.expires_at, Home, now)

-----------------------------------------------------------------------------
(* jwt.rs: past four fifths of the lifetime.  An overflow reads as "no".   *)

RefreshAtSwapped(t) == t.iat + (5 * (t.exp - t.iat)) \div 4
RefreshAt(t) == t.iat + (4 * (t.exp - t.iat)) \div 5
Computable(t) ==
    /\ t.exp - t.iat \in Int64
    /\ 4 * (t.exp - t.iat) \in Int64
should_refresh(t, at) ==
    Computable(t) /\ t.exp - t.iat > 0 /\ RefreshAt(t) \in Int64 /\ at > RefreshAt(t)

-----------------------------------------------------------------------------
(* Operations.                                                             *)

Init == now \in 0..MaxNow /\ link \in Links /\ token = None /\ origin = None /\ outcome = "none"

Tick == now' \in 0..MaxNow /\ UNCHANGED <<link, token, origin, outcome>>

Hold(t, o) == token' = t /\ origin' = o /\ outcome' = "held"
Keep(why) == UNCHANGED <<token, origin>> /\ outcome' = why

\* credential_from_direct_pair_response: access that does not check is left out.
PairDirect(x) ==
    /\ token = None
    /\ \/ parse_relay_origin(x.origin) /\ access_claims(x) /\ Hold(x.token, x.origin)
       \/ ~(parse_relay_origin(x.origin) /\ access_claims(x)) /\ Keep("without")
    /\ UNCHANGED <<now, link>>

AccessFitsAnywhere(x) == access_claims(x)

\* pair_over_relay_observed: access must be for the relay the link names.
AccessFits(x) == same_relay_origin(x.origin, link) /\ access_claims(x)

PairOverRelay(x) ==
    /\ token = None
    /\ \/ AccessFits(x) /\ Hold(x.token, link)
       \/ ~AccessFits(x) /\ Keep("malformed")
    /\ UNCHANGED <<now, link>>

\* enroll_device: the answer must name version 2 with matching expiry, or be
\* an older relay's legacy answer.
EnrollAnswer(a) ==
    \/ a.version = 2 /\ negotiated_claims(2, a.token, a.expires_at, Home, now)
    \/ a.version = None /\ legacy_claims(a.token, Home, now)

\* Without relay access the device enrols at the link's origin, if that parses.
Enroll(a) ==
    /\ token = None /\ parse_relay_origin(link)
    /\ \/ a.status = 200 /\ EnrollAnswer(a) /\ Hold(a.token, link)
       \/ a.status = 200 /\ ~EnrollAnswer(a) /\ Keep("malformed")
       \/ a.status # 200 /\ Keep("rejected")
    /\ UNCHANGED <<now, link>>

RefreshAnswerAny(a) ==
    \/ a.version = 2 /\ negotiated_claims(2, a.token, a.expires_at, token.instance, now)
    \/ a.version = None /\ legacy_claims(a.token, token.instance, now)

\* A legacy answer replaces only a legacy token.
RefreshAnswer(a) ==
    \/ a.version = 2 /\ negotiated_claims(2, a.token, a.expires_at, token.instance, now)
    \/ a.version = None /\ token.ver # 2 /\ legacy_claims(a.token, token.instance, now)

\* refresh_device_token: the held token is sent if it is renewable now.  The clock
\* is read again when the answer is there.
Ask ==
    /\ token # None /\ outcome # "asking"
    /\ Keep(IF renewable(token) THEN "asking" ELSE "transient")
    /\ UNCHANGED <<now, link>>

\* An answer that cannot be used is a transient error; only the relay's "expired",
\* "forbidden" or "unknown" asks for a new enrolment.
Refresh(a) ==
    /\ outcome = "asking"
    /\ \/ a.status = 200 /\ RefreshAnswer(a) /\ Hold(a.token, origin)
       \/ a.status = 200 /\ ~RefreshAnswer(a) /\ Keep("transient")
       \/ a.status = 401 /\ Keep(IF a.expired THEN "reconnect" ELSE "transient")
       \/ a.status \in {403, 404} /\ Keep("reconnect")
       \/ a.status = 500 /\ Keep("transient")
    /\ UNCHANGED <<now, link>>

\* The exchange fails without an answer.
Unanswered ==
    /\ token = None \/ outcome = "asking"
    /\ Keep(IF token = None THEN "failed" ELSE "transient")
    /\ UNCHANGED <<now, link>>

Next ==
    \/ Tick
    \/ token = None /\ \E x \in Accesses : PairDirect(x) \/ PairOverRelay(x)
    \/ \E a \in Answers : Enroll(a) \/ Refresh(a)
    \/ Ask \/ Unanswered

Spec == Init /\ [][Next]_vars

-----------------------------------------------------------------------------
(* Properties.                                                             *)

\* (A step.) Whatever a relay answers, and however the clock has moved, a device that
\* replaces its token takes one for the instance it paired with, not expired
\* by its clock, and of version 2 if the one before was; any other answer
\* leaves the token it holds.
TokenOnlyImproves ==
    token' # token =>
          /\ token'.instance = Home /\ token'.shape
          /\ token'.exp > now /\ token'.iat < token'.exp
          /\ token # None /\ token.ver = 2 => token'.ver = 2

\* A token that was accepted can always be presented for renewal once the
\* clock has reached its iat, expired or not, at a relay origin that parses;
\* and unless its lifetime is too long for the integer type its refresh falls
\* due no later than it expires.
RenewalIsPossible ==
    token # None =>
        /\ parse_relay_origin(origin)
        /\ now >= token.iat => renewable(token)
        /\ Computable(token) =>
              should_refresh(token, token.exp) /\ ~should_refresh(token, token.iat)
=============================================================================
