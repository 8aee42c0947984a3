------------------------------ MODULE Pairing ------------------------------
(***************************************************************************)
(* The pairing ceremony: devices that type a pair link (spl-transport/src/ *)
(* pairing.rs over LAN candidates, relay_pairing.rs over the relay), the   *)
(* TLS verifiers that pin the journal's CA (tls.rs, spki_pin.rs), and the  *)
(* home's single-use window (spl-home/src/pair_window.rs).                 *)
(*                                                                         *)
(* A certificate is its key, the key that signed it, its serial number and *)
(* whether its dates and usage hold; a key is a number, and signatures and *)
(* hashes are perfect.  Who answers a dial, with which chain, and what the *)
(* response says are inputs.                                               *)
(***************************************************************************)
EXTENDS PairLink, FiniteSets

CONSTANTS
    Devices,
    Blobs,          \* pair links as issued, as bytes
    Typed(_),       \* the texts a user may enter for a blob
    Chains,         \* certificate chains a peer may present, leaf first
    Pems,           \* ca_chain values of a response: sequences of PEM bundles
    Keys,           \* journal keys
    WindowSecret,   \* the secret of the window the home has open
    None

VARIABLES
    issued,     \* Devices -> the blob the device was given
    dev,        \* Devices -> the state of the ceremony
    window,     \* PairWindow: [consumed, busy]; busy is the carrier that
                \* holds the exclusive borrow of admit()
    expired,    \* the window's expiry has passed
    admitted    \* history: carriers the window returned

vars == <<issued, dev, window, expired, admitted>>

(***************************************************************************)
(* Certificates                                                            *)
(***************************************************************************)
CertFp(cert) == <<cert.key + 16 * cert.serial>>     \* cert_matches_prefix
SpkiFp(cert) == <<cert.key>>                        \* spki_matches_prefix

JidFromSpki(spki) == [jid |-> spki]                 \* the journal ID of a key
JidOf(cert) == JidFromSpki(cert.key)                \* extract_spki_der, jid_from_spki

SignedBy(cert, ca) == cert.by = ca.key
SelfSigned(cert) == SignedBy(cert, cert)                        \* verify_ca_self_signed
LivePeerBinding(leaf, ca) == SignedBy(leaf, ca) /\ leaf.valid   \* verify_live_peer_binding

\* CaFpPinVerifier::verify_server_cert: the first certificate the pin names
\* is a self-signed CA that signed the leaf
CaFpPin(chain, fp) ==
    LET named == SelectSeq(chain, LAMBDA c : CertFp(c) = fp)
    IN  named # <<>> /\ SelfSigned(named[1]) /\ LivePeerBinding(chain[1], named[1])

\* CaSpkiPinVerifier::verify_server_cert
CaSpkiPin(chain, fp) ==
    LET named == SelectSeq(chain, LAMBDA c : SpkiFp(c) = fp)
    IN  named # <<>> /\ SelfSigned(named[1]) /\ LivePeerBinding(chain[1], named[1])

\* pinned_ca_jid: the journal a stored pairing is read as, later on
PinnedCaJid(pems, fp) ==
    IF /\ pems # <<>> /\ pems[1] # <<>>
       /\ CertFp(pems[1][1]) = fp
       /\ SelfSigned(pems[1][1])
    THEN JidOf(pems[1][1])
    ELSE None

(***************************************************************************)
(* A response of the journal, and what the device takes from it            *)
(***************************************************************************)
Responses ==
    [ok : BOOLEAN, instance : {JidFromSpki(k) : k \in Keys}, chain : Pems, key : Devices, fingerprint : BOOLEAN,
     access : {"none", "unfit", "good"}, attestation : BOOLEAN]

HeadCert(pems) == FlattenSeq(pems)[1]

\* the client certificate is the one its fingerprint says, for this device's key
CertIsMine(d, r) == r.fingerprint /\ r.key = d

Paired(pems, fp, instance, token) ==
    [pems |-> pems, fp |-> fp, instance |-> instance, token |-> token]

BindsPinnedCaLoosely(r, fp) ==
    /\ FlattenSeq(r.chain) # <<>>
    /\ \E i \in DOMAIN FlattenSeq(r.chain) : CertFp(FlattenSeq(r.chain)[i]) = fp
    /\ SelfSigned(HeadCert(r.chain))
    /\ r.instance = JidOf(HeadCert(r.chain))

\* verify_instance_binds_pinned_ca
BindsPinnedCa(r, fp) ==
    /\ FlattenSeq(r.chain) # <<>>
    /\ CertFp(HeadCert(r.chain)) = fp
    /\ SelfSigned(HeadCert(r.chain))
    /\ r.instance = JidOf(HeadCert(r.chain))

\* credential_from_direct_pair_response: relay access that does not check is
\* left out, any other failed check fails the ceremony
DirectAccepts(d, r, fp) == r.ok /\ BindsPinnedCa(r, fp) /\ CertIsMine(d, r)

\* pair_over_carrier_observed
RelayAccepts(d, r, fp, leaf) ==
    /\ r.ok
    /\ FlattenSeq(r.chain) # <<>>
    /\ SpkiFp(HeadCert(r.chain)) = fp
    /\ LivePeerBinding(leaf, HeadCert(r.chain))
    /\ SelfSigned(HeadCert(r.chain))
    /\ r.instance = JidOf(HeadCert(r.chain))
    /\ CertIsMine(d, r)

(***************************************************************************)
(* The ceremony of one device.  dev[d] is [at, link, next, peer, carrier,  *)
(* sent, result]: where it is, the parsed link, the index of the candidate *)
(* to try, the chain the TLS peer presented, whether the relay connected   *)
(* it to the window, the number of pair requests written, the credential.  *)
(***************************************************************************)
Fresh == [at |-> "typing", link |-> Error, next |-> 0, peer |-> <<>>,
          carrier |-> FALSE, sent |-> 0, result |-> None]

Init ==
    /\ issued \in [Devices -> Blobs]
    /\ dev = [d \in Devices |-> Fresh]
    /\ window = [consumed |-> FALSE, busy |-> None]
    /\ expired = FALSE
    /\ admitted = {}

HomeUnchanged == UNCHANGED <<issued, window, expired, admitted>>

\* the ceremony is over without a credential; what it was doing is forgotten
Failed(d) ==
    dev' = [dev EXCEPT ![d] = [@ EXCEPT !.at = "failed", !.next = 0, !.peer = <<>>, !.carrier = FALSE]]

\* pair_from_link_with_seam_observed
Enter(d) ==
    /\ dev[d].at = "typing"
    /\ \E text \in Typed(issued[d]) :
        LET link == Parse(text) IN
        IF link \in {Error, MissingFragment}
        THEN dev' = [dev EXCEPT ![d].at = "failed", ![d].link = link]
        ELSE dev' = [dev EXCEPT ![d].link = link,
                                ![d].at = IF link.form = "direct" THEN "prepare" ELSE "dial",
                                ![d].next = IF link.form = "direct" THEN 1 ELSE 0]
    /\ HomeUnchanged

\* pair_with_seam_observed: a candidate that cannot be prepared gives way to
\* the next; the first that can be is the last that is tried
Prepare(d) ==
    LET link == dev[d].link IN
    /\ dev[d].at = "prepare"
    /\ \/ \E chain \in Chains :
            /\ CaFpPin(chain, link.fp)
            /\ dev' = [dev EXCEPT ![d].at = "send", ![d].peer = chain]
       \/ IF dev[d].next < Len(link.candidates)
          THEN dev' = [dev EXCEPT ![d].next = @ + 1]
          ELSE Failed(d)
    /\ HomeUnchanged

\* pair_over_relay_observed: the relay refuses the dial, connects it to the
\* window's listener, or to some other peer
Dial(d) ==
    /\ dev[d].at = "dial"
    /\ \/ Failed(d)
       \/ \E toWindow \in BOOLEAN :
            dev' = [dev EXCEPT ![d].at = "hello", ![d].carrier = toWindow]
    /\ HomeUnchanged

\* the inner handshake: a carrier of the window answers only while admit()
\* drives it.  Client and server end it separately.
Handshake(d) ==
    /\ dev[d].at = "hello"
    /\ dev[d].carrier => window.busy = d
    /\ \E chain \in Chains :
        IF CaSpkiPin(chain, dev[d].link.fp)
        THEN dev' = [dev EXCEPT ![d].at = "send", ![d].peer = chain]
        ELSE Failed(d)
    /\ HomeUnchanged

\* the sole request is written ...
Send(d) ==
    /\ dev[d].at = "send"
    /\ dev' = [dev EXCEPT ![d].at = "await", ![d].sent = @ + 1]
    /\ HomeUnchanged

\* ... and its outcome is terminal, also when no response comes
NoResponseRetried(d) ==
    /\ dev[d].at = "await"
    /\ IF dev[d].link.form = "direct" /\ dev[d].next < Len(dev[d].link.candidates)
       THEN dev' = [dev EXCEPT ![d].at = "prepare", ![d].next = @ + 1, ![d].peer = <<>>]
       ELSE Failed(d)
    /\ HomeUnchanged

NoResponse(d) ==
    /\ dev[d].at \in {"await", "hello"}
    /\ Failed(d)
    /\ HomeUnchanged

Done(d, credential) ==
    dev' = [dev EXCEPT ![d] = [@ EXCEPT !.at = "paired", !.next = 0, !.peer = <<>>,
                                        !.carrier = FALSE, !.result = credential]]

RespondDirect(d, r) ==
    /\ dev[d].at = "await" /\ dev[d].link.form = "direct"
    /\ IF DirectAccepts(d, r, dev[d].link.fp)
       THEN Done(d, Paired(r.chain, dev[d].link.fp, r.instance, r.access = "good"))
       ELSE Failed(d)
    /\ HomeUnchanged

\* relay access that does not check, or is of another origin, fails the
\* ceremony; without relay access the attestation is exchanged, and no token is
\* no failure
RespondRelay(d, r) ==
    LET link == dev[d].link
        fp == CertFp(HeadCert(r.chain))
    IN  /\ dev[d].at = "await" /\ link.form = "relay"
        /\ dev[d].carrier => d \in admitted
        /\ IF RelayAccepts(d, r, link.fp, dev[d].peer[1]) /\ r.access # "unfit"
           THEN \E enrolled \in BOOLEAN :
                  Done(d, Paired(r.chain, fp, r.instance,
                                 r.access = "good" \/ (r.attestation /\ enrolled)))
           ELSE Failed(d)
        /\ HomeUnchanged

(***************************************************************************)
(* PairWindow::admit.  The exclusive borrow serialises admissions; the     *)
(* window is consumed when a handshake succeeds and by nothing else.       *)
(***************************************************************************)
DeriveRk(s) == [rk |-> s]
RelayKeyMatches(presented) == presented = DeriveRk(WindowSecret)

AdmissibleAgain(d) == RelayKeyMatches(DeriveRk(dev[d].link.secret)) /\ ~ expired

Admissible(d) ==
    /\ RelayKeyMatches(DeriveRk(dev[d].link.secret))
    /\ ~ expired
    /\ ~ window.consumed

Admit(d) ==
    /\ dev[d].at = "hello" /\ dev[d].carrier
    /\ window.busy = None
    /\ IF Admissible(d)
       THEN window' = [window EXCEPT !.busy = d] /\ UNCHANGED dev
       ELSE Failed(d) /\ UNCHANGED window       \* the carrier is dropped
    /\ UNCHANGED <<issued, expired, admitted>>

Admitted(d) ==
    /\ window.busy = d
    /\ dev[d].at = "send" \/ dev[d].sent > 0
    /\ window' = [consumed |-> TRUE, busy |-> None]
    /\ admitted' = admitted \cup {d}
    /\ UNCHANGED <<issued, dev, expired>>

\* the handshake failed, or the caller dropped the future of admit()
AdmitFails(d) ==
    /\ window.busy = d
    /\ window' = [window EXCEPT !.busy = None]
    /\ IF dev[d].at \in {"hello", "send", "await"} THEN Failed(d) ELSE UNCHANGED dev
    /\ UNCHANGED <<issued, expired, admitted>>

Expire ==
    /\ expired' = TRUE
    /\ UNCHANGED <<issued, dev, window, admitted>>

Next ==
    \/ \E d \in Devices :
        \/ Enter(d) \/ Prepare(d) \/ Dial(d) \/ Handshake(d) \/ Send(d) \/ NoResponse(d)
        \/ Admit(d) \/ Admitted(d) \/ AdmitFails(d)
        \/ dev[d].at = "await" /\ \E r \in Responses : RespondDirect(d, r) \/ RespondRelay(d, r)
    \/ Expire

Spec == Init /\ [][Next]_vars

-----------------------------------------------------------------------------

(***************************************************************************)
(* Whatever a user types for a link (the URL or its fragment, hyphens, I   *)
(* for 1, O for 0), the device works with the link that was issued, or     *)
(* refuses it when the blob itself is malformed; a URL without a fragment  *)
(* is refused as that (crockford.rs decode, pairlink.rs parse).            *)
(***************************************************************************)
ParsedIsIssued ==
    \A d \in Devices :
        dev[d].at # "typing" =>
            \/ dev[d].link = ParseBlob(issued[d])
            \/ dev[d].at = "failed" /\ dev[d].link = MissingFragment

(***************************************************************************)
(* A ceremony writes its request, which carries the one-time nonce and the *)
(* CSR, at most once over all candidates, and only to a peer whose leaf    *)
(* the journal named by the link signed (pairing.rs 209-245, tls.rs).      *)
(***************************************************************************)
PairRequestOnce ==
    \A d \in Devices :
        /\ dev[d].sent <= 1
        /\ dev[d].at = "await" => /\ dev[d].peer[1].by = dev[d].link.fp[1] % 16
                                  /\ dev[d].peer[1].valid

(***************************************************************************)
(* One window admits at most one carrier, and is consumed exactly when it  *)
(* has: a failed or dropped admission leaves it open (pair_window.rs       *)
(* admit).                                                                 *)
(***************************************************************************)
WindowOnce ==
    /\ Cardinality(admitted) <= 1
    /\ window.consumed <=> admitted # {}

(***************************************************************************)
(* A stored pairing names the journal of the link: the journal that later  *)
(* reads of the credential derive from its chain and pin (pinned_ca_jid)   *)
(* is its instance_id, and is the journal whose CA the link pinned, if the *)
(* first PEM bundle of the chain is not empty.                             *)
(***************************************************************************)
CredentialIsPinned ==
    \A d \in Devices :
        LET c == dev[d].result IN
        (c # None /\ c.pems[1] # <<>>) =>
            /\ PinnedCaJid(c.pems, c.fp) = c.instance
            /\ c.instance = JidFromSpki(dev[d].link.fp[1] % 16)
            /\ dev[d].sent = 1

(***************************************************************************)
(* The comment on verify_instance_binds_pinned_ca says that "every later   *)
(* read of the stored pairing takes" the head of the chain "as the CA".    *)
(* Violated when the first bundle is empty: the check flattens the bundles *)
(* and later reads look into the first one only.                           *)
(***************************************************************************)
LaterReadAgrees ==
    \A d \in Devices :
        LET c == dev[d].result IN c # None => PinnedCaJid(c.pems, c.fp) = c.instance

=============================================================================
