------------------------------ MODULE LocalGate ------------------------------
(***************************************************************************)
(* Who may use the loopback journal bridge, and what it lets through:      *)
(* request framing, the capability cookie, one-time browser links and the  *)
(* cookie namespace (spl-core/src/bridge.rs, and handle_conn and           *)
(* handle_bootstrap of spl-transport/src/journal_bridge.rs).  The bridge   *)
(* runs with the capability gate enabled and BootstrapMode::OneTimeToken.  *)
(* Cookie names are sequences, since prefixing them is what matters here;  *)
(* the journal gives each of its cookies its own name as value.            *)
(***************************************************************************)
EXTENDS Integers, Sequences, SequencesExt

CONSTANTS
    Browsers, Tokens,
    Life,       \* the thirty seconds a link is valid
    MaxTime,    \* bound on the clock
    MaxBody,    \* max_request_body_bytes
    Prefix,     \* upstream_cookie_prefix, which may be empty
    CapName,    \* capability_cookie_name
    Names,      \* the names of the journal's cookies
    Strays,     \* the names of cookies that other services of the loopback address set
    JournalHosts \* spl.local and the endpoint_hosts, as the consumer spells them

\* A journal cookie may have the capability cookie's name once it is prefixed; no stray
\* one has a prefixed name, unless the prefix is empty.
GateConstants ==
    /\ Life \in Nat /\ \A n \in Strays : n # CapName /\ n \notin Names
    /\ Prefix # <<>> => \A n \in Strays : ~IsPrefix(Prefix, n)

VARIABLES
    now,      \* elapsed milliseconds, in coarse ticks
    pending,  \* BootstrapTokens.pending
    jar,      \* the cookies each browser holds for the bridge's origin
    issued,   \* history: when each link was issued
    granted,  \* history: which browser redeemed which token, and when
    theirs,   \* history: the names of the cookies the journal set, by browser
    last      \* the latest request: what became of it, and its upstream cookies

vars == <<now, pending, jar, issued, granted, theirs, last>>

Capability == <<"cap">>
Cookie(name, value) == [name |-> name, value |-> value]
Stray(name) == Cookie(name, <<"stray">>)
Outcome(b, did) ==
    [by |-> b, did |-> did, sees |-> {}, page |-> <<>>, consumer |-> <<>>, headers |-> <<>>, led |-> <<>>]

Init ==
    /\ now = 0 /\ pending = <<>>
    /\ jar = [b \in Browsers |-> {Stray(n) : n \in Strays}]
    /\ issued = [t \in Tokens |-> -1]
    /\ granted = {}
    /\ theirs = [b \in Browsers |-> {}]
    /\ \E b \in Browsers : last = Outcome(b, "none")

------------------------------------------------------------------------------
(* BootstrapTokens.                                                         *)

Live(tokens) == SelectSeq(tokens, LAMBDA p : now < p.expires)

\* BrowserAuthorizer::issue_url mints a token nobody has seen.
Issue(t) ==
    /\ issued[t] = -1
    /\ issued' = [issued EXCEPT ![t] = now]
    /\ pending' = Append(Live(pending), [token |-> t, expires |-> now + Life])
    /\ UNCHANGED <<now, jar, granted, theirs, last>>

Matches(t, tokens) == {i \in DOMAIN tokens : tokens[i].token = t}

SpentKept(t, tokens) == tokens

\* A matching unexpired token is removed.
Spent(t, tokens) == SelectSeq(tokens, LAMBDA p : p.token # t)

------------------------------------------------------------------------------
(* One local request.                                                       *)

\* The framing fields of a head: -1 stands for a length that does not parse.
Framings == [te : BOOLEAN, expect : BOOLEAN, lengths : {<<>>, <<1>>, <<MaxBody + 1>>, <<-1>>, <<1, 1>>}]

\* parse_request_head: the first thing wrong with the framing, in its order.
FramingError(f) ==
    IF f.te THEN "TransferEncoding"
    ELSE IF Len(f.lengths) > 1 THEN "DuplicateContentLength"
    ELSE IF f.lengths = <<-1>> THEN "InvalidContentLength"
    ELSE IF f.expect THEN "Expectation" ELSE "none"

framing_error_status(error) == IF error = "Expectation" THEN 417 ELSE 400

\* The status a head is refused with, or 0 when it and its body length are acceptable.
FramingStatus(f) ==
    IF FramingError(f) # "none" THEN framing_error_status(FramingError(f))
    ELSE IF f.lengths # <<>> /\ f.lengths[1] > MaxBody THEN 413 ELSE 0

HoldsCapability(cookies) == Cookie(CapName, Capability) \in cookies

SetCookie(cookies, name, value) ==
    {c \in cookies : c.name # name} \cup {Cookie(name, value)}

UpstreamCookiesAll(cookies) ==
    {Cookie(SubSeq(c.name, Len(Prefix) + 1, Len(c.name)), c.value) :
        c \in {c \in cookies : IsPrefix(Prefix, c.name) \/ c.name = CapName}}

\* upstream_cookie_header: the capability stays here, and only prefixed names pass.
UpstreamCookies(cookies) ==
    {Cookie(SubSeq(c.name, Len(Prefix) + 1, Len(c.name)), c.value) :
        c \in {c \in cookies : c.name # CapName /\ IsPrefix(Prefix, c.name)}}

\* check_loopback_host: the first Host field decides, however many there are.
Hosts == {<<>>, <<"loopback">>, <<"other", "loopback">>}
LoopbackHost(hosts) == hosts # <<>> /\ hosts[1] = "loopback"

\* authorize.
Authorized(hosts, cookies) == LoopbackHost(hosts) /\ HoldsCapability(cookies)

\* A field and its value; names are compared without regard to case.
Header(name, value) == [name |-> name, value |-> value]
Named(headers, name) == SelectSeq(headers, LAMBDA h : h.name = name)

\* is_reserved_request_header; "reserved" stands for the fixed list.
Reserved(name) == name \in {"reserved", "observer"}

\* What the page puts on a request, and what the consumer's callback adds to it: fields
\* may be repeated, reserved, or unfit to be sent.
FieldNames == {"reserved", "observer", "tag", "other", "cookie", "malformed"}
Pages == {<<>>, <<Header("tag", "p1")>>, <<Header("reserved", "p1"), Header("other", "p2")>>,
          <<Header("tag", "p1"), Header("other", "p2"), Header("tag", "p3")>>}
Consumers == {<<>>, <<Header("observer", "c1"), Header("cookie", "c2"), Header("malformed", "c3")>>,
              <<Header("tag", "c1")>>, <<Header("tag", "c1"), Header("observer", "c2"), Header("tag", "c3")>>}

\* upstream_request_headers, for every field but the cookies.
UpstreamHeaders(headers) == SelectSeq(headers, LAMBDA h : ~Reserved(h.name))

\* filtered_attribution_headers and valid_attribution_header.
Attribution(headers) ==
    UpstreamHeaders(SelectSeq(headers, LAMBDA h : h.name \notin {"cookie", "malformed"}))

MergedKept(page, consumer) == UpstreamHeaders(page) \o Attribution(consumer)

\* handle_conn: the fields the consumer gives replace all of the page's of that name.
Merged(page, consumer) ==
    LET given == Attribution(consumer)
    IN  SelectSeq(UpstreamHeaders(page), LAMBDA h : Named(given, h.name) = <<>>) \o given

\* A location or a known host; no scheme is a relative reference or a bare authority.
Url(scheme, host, port) == [scheme |-> scheme, host |-> host, port |-> port]
NoPort == 0
Loopback == Url("http", "loopback", 1)
Locations ==
    {Url("", "", NoPort), Loopback, Url("other", "spl.local", NoPort)} \cup
    [scheme : {"http", "https"}, host : {"spl.local", "endpoint", "elsewhere"}, port : {NoPort, 443}]

\* split_http_url gives only http and https.
IsHttp(url) == url.scheme \in {"http", "https"}

\* default_port and split_authority's explicit one.
EffectivePort(url) ==
    IF url.port # NoPort THEN url.port
    ELSE CASE url.scheme = "http" -> 80 [] url.scheme = "https" -> 443 [] OTHER -> NoPort

AuthorityMatchesExactly(location, known) ==
    location.host = known.host /\ location.port = known.port

\* authority_matches: a known host without scheme and port stands for every port.
AuthorityMatches(location, known) ==
    /\ location.host = known.host
    /\ EffectivePort(known) = NoPort \/ EffectivePort(location) = EffectivePort(known)

\* An exchange varies in its fields, in the location it gives or in the cookie it sets:
\* none bears on the others.
Plain == [page |-> <<>>, consumer |-> <<>>, location |-> Url("", "", NoPort), sets |-> {}]
Exchanges ==
    {[Plain EXCEPT !.page = page, !.consumer = consumer] : page \in Pages, consumer \in Consumers}
        \cup {[Plain EXCEPT !.location = location] : location \in Locations}
        \cup {[Plain EXCEPT !.sets = {n}] : n \in Names}

\* rewrite_redirect.
RewriteRedirect(location) ==
    IF IsHttp(location) /\ \E known \in JournalHosts : AuthorityMatches(location, known)
    THEN Loopback
    ELSE location

\* handle_bootstrap: the token is spent even by a browser that has the cookie.
Bootstrap(b, t, get, hosts, cookies) ==
    LET live     == Live(pending)
        asked    == LoopbackHost(hosts) /\ get
        redeemed == asked /\ Matches(t, live) # {}
        admitted == asked /\ (redeemed \/ HoldsCapability(cookies))
    IN  /\ pending' = IF redeemed THEN Spent(t, live) ELSE IF asked THEN live ELSE pending
        /\ granted' = IF redeemed THEN granted \cup {[by |-> b, token |-> t, at |-> now]} ELSE granted
        /\ jar' = IF admitted THEN [jar EXCEPT ![b] = SetCookie(@, CapName, Capability)] ELSE jar
        /\ last' = Outcome(b, IF admitted THEN "admitted" ELSE "refused")
        /\ UNCHANGED <<now, issued, theirs>>

\* authorize, then local_response or forward_upstream; response_headers prefixes the
\* cookie the journal's answer may set and rewrites the location it may give.
Ordinary(b, hosts, cookies) ==
    /\ UNCHANGED <<now, pending, issued, granted>>
    /\ IF Authorized(hosts, cookies)
       THEN \/ /\ last' = Outcome(b, "local")
               /\ UNCHANGED <<jar, theirs>>
            \/ \E x \in Exchanges :
                  /\ last' = [Outcome(b, "forwarded") EXCEPT
                                 !.sees = UpstreamCookies(cookies),
                                 !.page = x.page, !.consumer = x.consumer,
                                 !.headers = Merged(x.page, x.consumer),
                                 !.led = <<x.location, RewriteRedirect(x.location)>>]
                  /\ theirs' = [theirs EXCEPT ![b] = @ \cup x.sets]
                  /\ \/ x.sets = {} /\ UNCHANGED jar
                     \/ \E n \in x.sets : jar' = [jar EXCEPT ![b] = SetCookie(@, Prefix \o n, n)]
       ELSE last' = Outcome(b, "refused") /\ UNCHANGED <<jar, theirs>>

\* handle_conn: a browser sends its jar, another local program sends no cookie.
Request(b) ==
    \/ /\ \E f \in Framings : FramingStatus(f) # 0
       /\ last' = Outcome(b, "refused")
       /\ UNCHANGED <<now, pending, jar, issued, granted, theirs>>
    \/ \E hosts \in Hosts, cookies \in {jar[b], {}} :
          \/ \E t \in Tokens, get \in BOOLEAN : Bootstrap(b, t, get, hosts, cookies)
          \/ Ordinary(b, hosts, cookies)

Tick ==
    /\ now < MaxTime
    /\ now' = now + 1
    /\ UNCHANGED <<pending, jar, issued, granted, theirs, last>>

Next == (\E t \in Tokens : Issue(t)) \/ (\E b \in Browsers : Request(b)) \/ Tick

Spec == Init /\ [][Next]_vars

------------------------------------------------------------------------------
(* Properties.                                                              *)

\* A link admits one browser, once, within its life, however often and from however
\* many browsers it is visited; and nobody else is given the capability.
LinkAdmitsOne ==
    /\ \A x, y \in granted : x.token = y.token => x = y
    /\ \A x \in granted : x.at >= issued[x.token] /\ x.at < issued[x.token] + Life
    /\ \A b \in Browsers : HoldsCapability(jar[b]) => \E x \in granted : x.by = b

\* What a browser brings back to the journal: the cookies the journal set for it, but
\* for one that takes the capability cookie's name; and, only when the prefix is empty,
\* the stray ones of the loopback address.
Returns(b) ==
    {Cookie(n, n) : n \in {m \in theirs[b] : Prefix \o m # CapName}}
        \cup (IF Prefix = <<>> THEN {Stray(n) : n \in Strays} ELSE {})

\* The journal sees its own cookies, under its own names, and never the capability, and
\* only from a browser that was admitted, for every prefix, the empty one included, and
\* even when it sets a cookie of the capability's name.
CookiesReturn ==
    last.did = "forwarded" =>
        /\ \E x \in granted : x.by = last.by
        /\ last.sees \subseteq Returns(last.by)
        /\ UpstreamCookies(jar[last.by]) = Returns(last.by)

\* What the journal is told about a request is what the consumer says where it says
\* anything: of each name it gets all the consumer's fields and none of the page's, or
\* all of the page's, every repetition and in order; nothing that is reserved, and
\* neither a cookie nor a malformed field of the consumer.
HeadersAreAttributed ==
    \A name \in FieldNames :
        LET given == IF name \in {"cookie", "malformed"} THEN <<>> ELSE Named(last.consumer, name)
        IN  Named(last.headers, name) =
                IF Reserved(name) THEN <<>> ELSE IF given # <<>> THEN given ELSE Named(last.page, name)

\* A redirect to an address of the journal leads back to the bridge, whichever way
\* scheme and port spell that address, and every other location stays as it is.
RedirectsComeBack ==
    last.led # <<>> =>
        LET here == \E k \in JournalHosts :
                        /\ IsHttp(last.led[1]) /\ k.host = last.led[1].host
                        /\ \/ k.scheme = "" /\ k.port = NoPort
                           \/ k.port = EffectivePort(last.led[1])
                           \/ k.port = NoPort /\ k.scheme = last.led[1].scheme /\ last.led[1].port = NoPort
                           \/ k.port = NoPort /\ last.led[1].port = EffectivePort(k)
        IN  last.led[2] = IF here THEN Loopback ELSE last.led[1]

==============================================================================
