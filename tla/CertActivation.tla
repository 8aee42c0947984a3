--------------------------- MODULE CertActivation ---------------------------
(***************************************************************************)
(* The control certificate of the bridge: the activation tool              *)
(* (bin/spl-bridge-activate.rs) stages a generation on disk, points the    *)
(* `active` link at it, has the bridge reload and verifies what it serves; *)
(* the bridge (control_cert.rs, bin/spl-bridge.rs) reloads on SIGHUP       *)
(* through a coalescing coordinator that reads certificate and key one     *)
(* after the other through that same link.  Either process may be killed   *)
(* between any two steps; the tool runs at most once at a time (the renew  *)
(* wrapper holds a lock).                                                  *)
(***************************************************************************)
EXTENDS Naturals, FiniteSets

CONSTANTS
    Gens,       \* certificate generations that may be issued
    First,      \* the generation in use at the start, if there is one
    None

FirstIsAGeneration == First \in Gens /\ None \notin Gens

VARIABLES files, active, pending, tool, bridge, signalled, missed

vars == <<files, active, pending, tool, bridge, signalled, missed>>

\* `leaf`: prior_leaf is known, so that a rollback can be verified.
NoTool == [at |-> "off", retry |-> FALSE, gen |-> None, prior |-> None, leaf |-> FALSE, exit |-> None]

\* files[g] is what g's directory holds: "absent", "partial" (the certificate
\* only), "whole", or "spoiled" (it no longer validates).

\* ReloadState is `busy` and `rerun`; `stage` is where the loader stands, `cert` the
\* generation its first read found and `loaded` that of the key, once the pair validated.
Down == [up |-> FALSE, served |-> None, key |-> None, hup |-> FALSE, busy |-> FALSE, rerun |-> FALSE,
         stage |-> "idle", cert |-> None, loaded |-> None]

Init ==
    /\ active \in {None, First}
    /\ files = [g \in Gens |-> IF g = active THEN "whole" ELSE "absent"]
    /\ pending = None /\ tool = NoTool
    /\ bridge = IF active = None THEN Down ELSE [Down EXCEPT !.up = TRUE, !.served = active, !.key = active]
    /\ signalled = TRUE /\ missed = FALSE

-----------------------------------------------------------------------------
(* The bridge *)

\* A coordinator that takes a request during a reload as served by it.
HangupDropped ==
    /\ bridge.up /\ bridge.hup
    /\ bridge' = IF bridge.busy THEN [bridge EXCEPT !.hup = FALSE]
                 ELSE [bridge EXCEPT !.hup = FALSE, !.busy = TRUE, !.stage = "cert"]
    /\ UNCHANGED <<files, active, pending, tool, signalled, missed>>

\* handle_unix_signals: a SIGHUP starts request_reload, which either becomes the
\* running reload or marks the running one for another round.
Hangup ==
    /\ bridge.up /\ bridge.hup
    /\ bridge' = IF bridge.busy THEN [bridge EXCEPT !.hup = FALSE, !.rerun = TRUE]
                 ELSE [bridge EXCEPT !.hup = FALSE, !.busy = TRUE, !.stage = "cert"]
    /\ UNCHANGED <<files, active, pending, tool, signalled, missed>>

\* The loader's first read, through the active link.
LoadCert ==
    /\ bridge.up /\ bridge.stage = "cert"
    /\ bridge' = [bridge EXCEPT !.stage = "key", !.cert = active]
    /\ UNCHANGED <<files, active, pending, tool, signalled, missed>>

\* The round ends; another follows if one was requested meanwhile.
RoundOver(b) ==
    IF b.rerun THEN [b EXCEPT !.rerun = FALSE, !.stage = "cert", !.cert = None, !.loaded = None]
    ELSE [b EXCEPT !.busy = FALSE, !.stage = "idle", !.cert = None, !.loaded = None]

\* Without the check that the key belongs to the certificate.
ValidatesAnyKey(cert, key) == cert # None /\ files[cert] = "whole"

\* The certificate and key that were read form a valid pair.
Validates(cert, key) == cert = key /\ cert # None /\ files[cert] = "whole"

\* The second read and the validation, still on the blocking thread.
LoadKey ==
    /\ bridge.up /\ bridge.stage = "key"
    /\ \E readable \in BOOLEAN :
        LET ok == readable /\ Validates(bridge.cert, active) IN
        /\ bridge' = [bridge EXCEPT !.stage = "apply", !.loaded = IF ok THEN active ELSE None]
        /\ missed' = (missed \/ ~readable)
    /\ UNCHANGED <<files, active, pending, tool, signalled>>

\* The coordinator has the result: the resolver is updated; a failure keeps the prior
\* certificate.
Apply ==
    /\ bridge.up /\ bridge.stage = "apply"
    /\ bridge' = RoundOver(IF bridge.loaded = None THEN bridge
                        ELSE [bridge EXCEPT !.served = bridge.cert, !.key = bridge.loaded])
    /\ UNCHANGED <<files, active, pending, tool, signalled, missed>>

\* The process dies; systemd starts it again, and startup validates `active`.
BridgeDies ==
    /\ bridge.up
    /\ bridge' = Down
    /\ UNCHANGED <<files, active, pending, tool, signalled, missed>>

BridgeStarts ==
    /\ ~bridge.up /\ Validates(active, active)
    /\ bridge' = [Down EXCEPT !.up = TRUE, !.served = active, !.key = active]
    /\ UNCHANGED <<files, active, pending, tool, signalled, missed>>

-----------------------------------------------------------------------------
(* spl-bridge-activate *)

Exit(code) == tool' = [NoTool EXCEPT !.exit = [code |-> code, gen |-> tool.gen, prior |-> tool.prior]]

\* atomic_symlink_switch: the rename happens or it does not.
Point(g) == active' = g /\ signalled' = FALSE /\ missed' = FALSE
Pointless == UNCHANGED <<active, signalled, missed>>

\* run_activate up to the staging directory: the issued pair validates, and a
\* new generation directory is made and its certificate written.
Stage ==
    /\ tool.at = "off"
    /\ \E g \in Gens :
        /\ files[g] = "absent"
        /\ files' = [files EXCEPT ![g] = "partial"]
        /\ tool' = [NoTool EXCEPT !.at = "staging", !.gen = g]
    /\ UNCHANGED <<active, pending, bridge, signalled, missed>>

\* The link is moved before the key is in place.
StagedEarly ==
    /\ tool.at = "staging"
    /\ Point(tool.gen) /\ tool' = [tool EXCEPT !.at = "reload", !.prior = active]
    /\ UNCHANGED <<files, pending, bridge>>

\* prior_generation and prior_leaf: the certificate of the prior one may not be readable.
Priors(t) == {[t EXCEPT !.at = "switch", !.prior = active, !.leaf = leaf] :
                 leaf \in IF active = None THEN {FALSE} ELSE BOOLEAN}

\* write_generation_files completes, or fails and the directory is removed.
Staged ==
    /\ tool.at = "staging"
    /\ \/ /\ files' = [files EXCEPT ![tool.gen] = "whole"]
          /\ tool' \in Priors(tool)
       \/ /\ files' = [files EXCEPT ![tool.gen] = "absent"]
          /\ Exit("unstaged")
    /\ UNCHANGED <<active, pending, bridge, signalled, missed>>

\* retry_pending_flow: a pending generation that does not validate is put
\* aside, a valid one becomes the generation to activate.
Retry ==
    /\ tool.at = "off" /\ pending # None
    /\ IF Validates(pending, pending)
       THEN /\ tool' \in Priors([NoTool EXCEPT !.retry = TRUE, !.gen = pending])
            /\ UNCHANGED pending
       ELSE Exit("quarantined") /\ pending' = None
    /\ UNCHANGED <<files, active, bridge, signalled, missed>>

SwitchActive ==
    /\ tool.at = "switch"
    /\ \/ /\ Point(tool.gen) /\ tool' = [tool EXCEPT !.at = "reload"]
          /\ UNCHANGED files
       \/ /\ Pointless /\ Exit("unswitched")
          /\ files' = IF tool.retry THEN files ELSE [files EXCEPT ![tool.gen] = "absent"]
    /\ UNCHANGED <<pending, bridge>>

\* run_reload: the command signals a running bridge, and reports success or not.
Signal(next) ==
    /\ \/ bridge' = [bridge EXCEPT !.hup = bridge.up] /\ signalled' = TRUE
       \/ UNCHANGED <<bridge, signalled>>
    /\ tool' = [tool EXCEPT !.at = next]
    /\ UNCHANGED <<files, active, pending, missed>>

Reload == tool.at = "reload" /\ (Signal("verify") \/ Signal("failed"))

\* verify_generation: the poll sees the expected leaf before its deadline.
Verify ==
    /\ tool.at = "verify"
    /\ \/ /\ bridge.up /\ bridge.served = tool.gen
          /\ Exit("ok")
          /\ pending' = IF tool.retry THEN None ELSE pending
       \/ tool' = [tool EXCEPT !.at = "failed"] /\ UNCHANGED pending
    /\ UNCHANGED <<files, active, bridge, signalled, missed>>

\* A fresh generation is retained as pending (both removals and the switch may
\* fail unnoticed); a retried one already is.
SavePending ==
    /\ tool.at = "failed"
    /\ pending' \in IF tool.retry THEN {pending} ELSE {pending, None, tool.gen}
    /\ IF tool.prior = None THEN Exit("rolledback") ELSE tool' = [tool EXCEPT !.at = "rollback"]
    /\ UNCHANGED <<files, active, bridge, signalled, missed>>

Rollback ==
    /\ tool.at = "rollback"
    /\ Point(tool.prior) \/ Pointless
    /\ tool' = [tool EXCEPT !.at = "rereload"]
    /\ UNCHANGED <<files, pending, bridge>>

Rereload ==
    /\ tool.at = "rereload"
    /\ Signal("reverify") \/ Signal("rollbackfailed")

\* With the prior leaf unknown the rollback is not verified.  (A reload that failed is
\* followed by the verification too, whose result no longer matters.)
Reverify ==
    /\ tool.at \in {"reverify", "rollbackfailed"}
    /\ \/ /\ tool.at = "reverify" /\ (tool.leaf => bridge.up /\ bridge.served = tool.prior)
          /\ Exit("rolledback")
       \/ (tool.at = "rollbackfailed" \/ tool.leaf) /\ Exit("rollbackfailed")
    /\ UNCHANGED <<files, active, pending, bridge, signalled, missed>>

\* The tool is killed, or its overall deadline ends it.
ToolDies ==
    /\ tool.at # "off"
    /\ tool' = NoTool
    /\ UNCHANGED <<files, active, pending, bridge, signalled, missed>>

\* A pending generation expires or is damaged while it waits.
Spoil ==
    /\ tool.at = "off" /\ pending \notin {None, active}
    /\ files' = [files EXCEPT ![pending] = "spoiled"]
    /\ UNCHANGED <<active, pending, tool, bridge, signalled, missed>>

-----------------------------------------------------------------------------
Next ==
    \/ Hangup \/ LoadCert \/ LoadKey \/ Apply \/ BridgeDies \/ BridgeStarts
    \/ Stage \/ Staged \/ Retry \/ SwitchActive \/ Reload \/ Verify \/ SavePending
    \/ Rollback \/ Rereload \/ Reverify \/ ToolDies \/ Spoil

\* The bridge's tasks run; systemd restarts it.
Fairness == WF_vars(Hangup) /\ WF_vars(LoadCert) /\ WF_vars(LoadKey) /\ WF_vars(Apply)
            /\ WF_vars(BridgeStarts)

Spec == Init /\ [][Next]_vars /\ Fairness

-----------------------------------------------------------------------------
\* Once a generation is active, `active` names a complete, validated one at every
\* moment, so that a bridge killed at any point of any activation starts again; and
\* `pending` names one that was complete, so that a retry finds what it is to activate.
ActiveIsUsable ==
    /\ active # None => files[active] = "whole"
    /\ pending # None => files[pending] \in {"whole", "spoiled"}

\* The link may move between the loader's two reads; a certificate is never served
\* with the key of another generation (validate_control_certified_key).
ServedPairMatches == bridge.served = bridge.key

\* Once the dust has settled, no reload asked for or running, the bridge serves what
\* `active` names, if it was signalled after the last move of the link and could read
\* the files: neither a reload whose reads are older than that move, nor one that was
\* under way when the signal came, has the last word; and so what the tool saw served
\* when it reported success stays served.
Settled == bridge.up /\ ~bridge.hup /\ ~bridge.busy /\ signalled /\ ~missed
ReloadsSettle ==
    Settled =>
        /\ active # None => bridge.served = active
        /\ tool.exit # None => (tool.exit.code = "ok" => bridge.served = tool.exit.gen)

\* The reload that a SIGHUP asked for is not lost in one already under way: once
\* signalled after the last move of the link, the bridge comes to serve `active`
\* unless the link moves again or the files could not be read.  Signalled leads to
\* Reloaded.
Signalled == signalled /\ active # None
Reloaded == bridge.served = active \/ ~signalled \/ missed
=============================================================================
