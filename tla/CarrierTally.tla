---------------------------- MODULE CarrierTally -----------------------------
(***************************************************************************)
(* What the home's carrier driver publishes about itself while another     *)
(* thread asks (spl-home/src/connection.rs, CarrierTally and RefusalTally; *)
(* carrier_gaps and CarrierClose of mux.rs): how many pings it answered,   *)
(* how long ago, the longest silence, what it refused and why it stopped.  *)
(* The driver and the reader share atomics and no lock, so a snapshot is   *)
(* five loads with any of the driver's steps in between.                   *)
(*                                                                         *)
(* Every atomic is the sequence of the values it has had.  A load of the   *)
(* reader returns any of them that is not older than what it has seen of   *)
(* that atomic before, which is all Ordering::Relaxed promises.            *)
(***************************************************************************)
EXTENDS Integers, Sequences, SequencesExt, FiniteSetsExt

CONSTANTS
    MaxTime,     \* bound: the clock, in coarse milliseconds
    MaxAnswers,  \* bound: pings answered
    MaxRefusals  \* bound: streams refused

VARIABLES
    at,       \* where the accept call, then the driver is
    now,      \* started.elapsed()
    mem,      \* the atomics of CarrierTally, each as its history
    batch,    \* record_answers: now_ms and the answers it counts, while it runs
    stamps,   \* history: when each answer was recorded
    cause,    \* history: why the driver stopped, by what it met first
    refused,  \* the acceptor's refusals
    shown,    \* the refusals RefusalTally publishes
    rd        \* the reader: its step, its view of each atomic, what it has read

vars == <<at, now, mem, batch, stamps, cause, refused, shown, rd>>
driver == <<at, mem, batch, stamps, cause, refused, shown>>

Reasons == <<"PeerEof", "PeerEofTruncated", "PeerReadFailed", "AcceptorRefused",
             "WriteFailed", "OwnerGone", "LocalClose">>
Open == "Open"
code(reason) == IF reason = Open THEN 0 ELSE SelectInSeq(Reasons, LAMBDA r : r = reason)
from_code(n) == IF n \in DOMAIN Reasons THEN Reasons[n] ELSE Open

Atomics == {"pings", "last", "longest", "close"}
Latest(a) == Last(mem[a])
Stored(a, value) == [mem EXCEPT ![a] = Append(@, value)]

\* saturating_sub.
Minus(a, b) == IF a > b THEN a - b ELSE 0
NoGap == -1

carrier_gapsCompleted(pings, at_ms, last, longest) ==
    IF pings = 0 THEN [current |-> NoGap, longest |-> NoGap]
    ELSE [current |-> Minus(at_ms, last), longest |-> longest]

carrier_gaps(pings, at_ms, last, longest) ==
    IF pings = 0 THEN [current |-> NoGap, longest |-> NoGap]
    ELSE [current |-> Minus(at_ms, last), longest |-> Max({longest, Minus(at_ms, last)})]

\* record_answers is not running.
Idle == [ms |-> NoGap, answered |-> 0]

NoView == [a \in Atomics |-> 1]
Asleep(view) == [step |-> "none", view |-> view, pings |-> 0, clock |-> 0, last |-> 0, longest |-> 0,
                 close |-> 0, truth |-> NoGap, heard |-> 0]

Init ==
    /\ at = "handshaking" /\ now = 0
    /\ mem = [a \in Atomics |-> <<0>>]
    /\ batch = Idle /\ stamps = <<>> /\ cause = Open
    /\ refused = 0 /\ shown = 0
    /\ rd = Asleep(NoView)

------------------------------------------------------------------------------
(* HomeConnection::accept.                                                  *)

Settle(next) == at' = next /\ UNCHANGED <<now, mem, batch, stamps, cause, refused, shown, rd>>

\* The handshake ends: the driver starts, or the carrier lingers so that the dialer can
\* read why it is refused.
Accept == at = "handshaking" /\ \E next \in {"publish", "lingering"} : Settle(next)

\* close_after_refusal: the dialer hangs up, or REFUSAL_LINGER is over.
LingerEnds == at = "lingering" /\ Settle("refused")

------------------------------------------------------------------------------
(* The driver.                                                              *)

\* The top of the loop, before the driver waits.
Publish ==
    /\ at = "publish"
    /\ shown' = refused /\ at' = "parked"
    /\ UNCHANGED <<now, mem, batch, stamps, cause, refused, rd>>

\* The next input or command, up to deliver_output's flush: streams refused or not, pings
\* answered or not; the acceptor may refuse the whole of it, a frame may fail to be
\* written, and a stream the peer opened may find the owner gone.
Feed ==
    /\ at = "parked"
    /\ \E n \in {0, 1} : refused + n <= MaxRefusals /\ refused' = refused + n
    /\ at' \in {"publish", "acceptor_refused", "write_failed", "owner_gone"} \cup
              (IF Len(stamps) < MaxAnswers THEN {"answered"} ELSE {})
    /\ UNCHANGED <<now, mem, batch, stamps, cause, shown, rd>>

\* record_answers, one access to the shared state at a time.
TakeStamp ==
    /\ at = "answered"
    /\ \E n \in 1..(MaxAnswers - Len(stamps)) :
          batch' = [ms |-> now, answered |-> n] /\ stamps' = stamps \o [i \in 1..n |-> now]
    /\ at' = "gap"
    /\ UNCHANGED <<now, mem, cause, refused, shown, rd>>

RecordLast ==
    /\ at = "last"
    /\ mem' = Stored("last", batch.ms) /\ at' = "count"
    /\ UNCHANGED <<now, batch, stamps, cause, refused, shown, rd>>

\* The completed silence, before the new instant; the first answer completes none.
RecordGap ==
    /\ at = "gap"
    /\ mem' = IF Latest("pings") > 0
              THEN Stored("longest", Max({Latest("longest"), Minus(batch.ms, Latest("last"))})) ELSE mem
    /\ at' = "last"
    /\ UNCHANGED <<now, batch, stamps, cause, refused, shown, rd>>

\* ... then deliver_output goes on to the events, where it may find the owner gone, and
\* the turn ends with flush_ready, which may fail to write.
Count ==
    /\ at = "count"
    /\ mem' = Stored("pings", Latest("pings") + batch.answered)
    /\ batch' = Idle
    /\ at' \in {"publish", "owner_gone", "write_failed"}
    /\ UNCHANGED <<now, stamps, cause, refused, shown, rd>>

ClosedLatest(reason) ==
    /\ mem' = Stored("close", code(reason))
    /\ cause' = IF cause = Open THEN reason ELSE cause

\* CarrierTally::close keeps the first reason.
Closed(reason) ==
    /\ mem' = IF Latest("close") = code(Open) THEN Stored("close", code(reason)) ELSE mem
    /\ cause' = IF cause = Open THEN reason ELSE cause

\* run_driver's exits.  An owner that is gone is found inside deliver_output, whose
\* caller then reports a failed write.
Stop ==
    /\ \/ /\ at = "parked"
          /\ \E r \in {"PeerReadFailed", "PeerEof", "PeerEofTruncated", "LocalClose"} :
                Closed(r)
          /\ at' = "stopping"
       \/ at = "acceptor_refused" /\ Closed("AcceptorRefused") /\ at' = "stopping"
       \/ at = "owner_gone" /\ Closed("OwnerGone") /\ at' = "write_failed"
       \/ at = "write_failed" /\ Closed("WriteFailed") /\ at' = "stopping"
    /\ UNCHANGED <<now, batch, stamps, refused, shown, rd>>

\* After the loop.
Finish ==
    /\ at = "stopping"
    /\ shown' = refused /\ at' = "stopped"
    /\ UNCHANGED <<now, mem, batch, stamps, cause, refused, rd>>

------------------------------------------------------------------------------
(* The reader: CarrierTally::snapshot.                                      *)

\* The silences there have been, and the one open now.
TrueLongest ==
    Max({now - Last(stamps)} \cup {stamps[i + 1] - stamps[i] : i \in 1..(Len(stamps) - 1)})

\* What a load of a may return, as an index into its history.
Visible(a) == rd.view[a]..Len(mem[a])

\* A load of atomic a, which the reader keeps in field a of rd.
Load(a, next) ==
    \E i \in Visible(a) : rd' = [rd EXCEPT !.view[a] = i, ![a] = mem[a][i], !.step = next]

StartSnapshot ==
    /\ rd.step = "none" /\ at \notin {"handshaking", "lingering", "refused"}
    /\ \E i \in Visible("pings") :
          rd' = [rd EXCEPT !.view["pings"] = i, !.pings = mem["pings"][i], !.step = "clock",
                           !.truth = IF stamps = <<>> THEN NoGap ELSE TrueLongest,
                           !.heard = Len(stamps)]
    /\ UNCHANGED <<driver, now>>

ReadOn ==
    /\ \/ rd.step = "clock" /\ rd' = [rd EXCEPT !.clock = now, !.step = "last"]
       \/ rd.step = "last" /\ Load("last", "longest")
       \/ rd.step = "longest" /\ Load("longest", "close")
       \/ rd.step = "close" /\ Load("close", "done")
    /\ UNCHANGED <<driver, now>>

\* The result is used; the reader's view of each atomic stays.
Return ==
    /\ rd.step = "done"
    /\ rd' = Asleep(rd.view)
    /\ UNCHANGED <<driver, now>>

Gaps == carrier_gaps(rd.pings, rd.clock, rd.last, rd.longest)

Tick ==
    /\ now < MaxTime /\ now' = now + 1
    /\ UNCHANGED <<driver, rd>>

Next ==
    \/ Accept \/ LingerEnds
    \/ Publish \/ Feed \/ TakeStamp \/ RecordGap \/ RecordLast \/ Count \/ Stop \/ Finish
    \/ StartSnapshot \/ ReadOn \/ Return \/ Tick

Spec == Init /\ [][Next]_vars

------------------------------------------------------------------------------
(* Properties.                                                              *)

\* A reader racing record_answers "over-reports rather than under-reports": a snapshot
\* taken at any moment never reports a longest silence shorter than the longest there had
\* been when it was asked for.  Violated: relaxed loads may return the new instant and
\* the old high-water, whatever the order they were stored in.
NeverUnderReports ==
    rd.step = "done" /\ rd.pings > 0 => Gaps.longest >= rd.truth

\* A starved driver shows: a snapshot during which no ping was answered reports, as the
\* current and within the longest silence, at least the time since the last answer,
\* however old the values are that its loads return.
SilenceIsSeen ==
    rd.step = "done" /\ rd.pings > 0 /\ rd.heard = Len(stamps) =>
        Gaps.longest >= Gaps.current /\ Gaps.current >= rd.clock - Last(stamps)

\* A driver that has stopped leaves a complete account: it stopped for the first
\* thing it met, not for what followed from it, every answer is counted and every
\* refusal shown; a driver that waits has shown all its refusals too.
AccountIsFinal ==
    /\ from_code(Latest("close")) = cause
    /\ rd.step = "done" => from_code(rd.close) \in {Open, cause} /\ rd.pings <= Len(stamps)
    /\ at = "stopped" => cause # Open /\ shown = refused /\ Latest("pings") = Len(stamps)
    /\ at = "parked" => cause = Open /\ shown = refused
==============================================================================
