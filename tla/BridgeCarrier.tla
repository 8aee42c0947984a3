---------------------------- MODULE BridgeCarrier ----------------------------
(***************************************************************************)
(* The carrier slot of the loopback journal bridge                         *)
(* (spl-transport/src/journal_bridge_carrier.rs, journal_bridge.rs and     *)
(* handshake.rs).  Local requests share one carrier: whoever finds the     *)
(* slot empty or dead dials with the slot locked, and every carrier is run *)
(* by a writer task and a coordinator task whose guards report its end.    *)
(* The outcome of each dial attempt feeds the RefusalTracker, which may    *)
(* stop the bridge for good.  What a coordinator does with an open stream  *)
(* is in CarrierDialer; what a request does with it is in JournalForward.  *)
(***************************************************************************)
EXTENDS Naturals, FiniteSets, Sequences

CONSTANTS
    Reqs,          \* local requests, each one accepted connection
    RefusalLimit,  \* REFUSAL_LIMIT
    QueueCap,      \* COMMAND_QUEUE
    MaxCarriers    \* bound: only the first attempts can succeed

Carriers == 1..MaxCarriers

Failures == {"denied", "refused", "other"}   \* HandshakeFailure
Shutdown == "shutdown"                       \* CarrierCommand::Shutdown
Nobody   == "nobody"

CarrierConstants ==
    /\ RefusalLimit \in Nat \ {0} /\ QueueCap \in Nat \ {0} /\ MaxCarriers \in Nat \ {0}
    /\ Shutdown \notin Reqs /\ Nobody \notin Reqs

VARIABLES
    slot,      \* MuxCarrier.slot: the carrier handed to requests, or 0
    lock,      \* the request holding the slot across its dial
    rec,       \* StatusRecord: current carrier, stop, refusals, newest attempt
    car,       \* each carrier: its acceptance, its two tasks and its commands
    req,       \* each local request inside open_stream
    phase,     \* where accept_loop is in its shutdown
    taken,     \* the carrier that shutdown took from the slot
    blamed,    \* history: the attempts counted in rec.refusals
    accepted   \* history: the newest attempt whose acceptance was recorded

vars == <<slot, lock, rec, car, req, phase, taken, blamed, accepted>>

NoCarrier  == [verdict |-> "none", writer |-> "gone", coord |-> "gone", queue |-> <<>>]
NewCarrier == [verdict |-> "pending", writer |-> "run", coord |-> "run", queue |-> <<>>]

\* A call of open_stream: whether it is the second try, its carrier, the reply, and
\* how many coordinators have claimed its request (history).
Caller(pc, again, h, claims) ==
    [pc |-> pc, again |-> again, h |-> h, reply |-> "none", claims |-> claims]
Over == Caller("over", FALSE, 0, 0)

Init ==
    /\ slot = 0
    /\ lock = Nobody
    /\ rec = [current |-> 0, stop |-> "none", refusals |-> 0, attempt |-> 0]
    /\ car = [h \in Carriers |-> NoCarrier]
    /\ req = [r \in Reqs |-> Caller("new", FALSE, 0, 0)]
    /\ phase = "serving"
    /\ taken = 0
    /\ blamed = {}
    /\ accepted = 0

history == <<blamed, accepted>>
stopping == <<phase, taken>>

------------------------------------------------------------------------------
(* The status record and the refusal tracker.                              *)

Latch(s, why) == IF s.stop = "none" THEN [s EXCEPT !.stop = why] ELSE s

MarkDeadAny(s, h) == [s EXCEPT !.current = 0]

MarkDead(s, h) == IF s.current = h THEN [s EXCEPT !.current = 0] ELSE s

\* A refusal counts if none was counted yet or the last is REFUSAL_SPACING old.
Failed(s, f, spaced) ==
    IF f = "denied" THEN Latch(s, "denied")
    ELSE IF ~(f = "refused" /\ (s.refusals = 0 \/ spaced)) THEN s
    ELSE LET n == s.refusals + 1
             counted == [s EXCEPT !.refusals = n]
         IN  IF n >= RefusalLimit THEN Latch(counted, "exhausted") ELSE counted

NewestAny(a) == TRUE

\* An outcome counts only while no newer attempt has started.
Newest(a) == rec.attempt = a

\* record_carrier_failure(attempt, failure), from the record s.
RecordFailure(s, a, f) ==
    /\ \E spaced \in BOOLEAN : rec' = IF Newest(a) THEN Failed(s, f, spaced) ELSE s
    /\ blamed' = IF rec'.refusals > rec.refusals THEN blamed \cup {a} ELSE blamed
    /\ UNCHANGED accepted

\* The reader or the writer of carrier h saw the attempt end before the journal
\* answered, with the record in state s.  Access denied latches even when the
\* attempt is no longer the newest.
SettleFrom(s, h, f) ==
    IF car[h].verdict # "pending" THEN rec' = s /\ UNCHANGED history
    ELSE RecordFailure(IF f = "denied" THEN Latch(s, "denied") ELSE s, h, f)

Settle(h, f) == SettleFrom(rec, h, f)
SettleWriter(h, f) == SettleFrom(MarkDead(rec, h), h, f)

Settled(c) == IF c.verdict = "pending" THEN [c EXCEPT !.verdict = "failed"] ELSE c

\* The journal sent bytes: it accepted this device.
Accept(h) ==
    IF car[h].verdict = "pending" /\ Newest(h)
    THEN /\ rec' = [rec EXCEPT !.refusals = 0]
         /\ blamed' = {}
         /\ accepted' = h
    ELSE UNCHANGED <<rec, history>>

------------------------------------------------------------------------------
(* open_stream: get_or_dial, try_open, and one retry on a dead carrier.     *)

Arrive(r) ==
    /\ req[r].pc = "new" /\ phase = "serving"
    /\ req' = [req EXCEPT ![r].pc = "want"]
    /\ UNCHANGED <<slot, lock, rec, car, stopping, history>>

\* CarrierHandle.alive: lowered by the first guard dropped and by shutdown.
Alive(h) == car[h].writer = "run" /\ car[h].coord # "gone" /\ h # taken

Usable == slot # 0 /\ Alive(slot)

Acquire(r) ==
    /\ req[r].pc = "want" /\ lock = Nobody
    /\ UNCHANGED <<slot, car, stopping, history>>
    /\ \/ /\ rec.stop # "none"
          /\ req' = [req EXCEPT ![r] = Over]
          /\ UNCHANGED <<lock, rec>>
       \/ /\ rec.stop = "none" /\ Usable
          /\ req' = [req EXCEPT ![r].pc = "send", ![r].h = slot]
          /\ UNCHANGED <<lock, rec>>
       \/ /\ rec.stop = "none" /\ ~Usable
          /\ rec' = IF slot = 0 THEN rec ELSE MarkDead(rec, slot)
          /\ lock' = r
          /\ req' = [req EXCEPT ![r].pc = "begin"]

\* terminal_reason is read once more, then begin_carrier_attempt numbers the dial.
Begin(r) ==
    /\ req[r].pc = "begin"
    /\ UNCHANGED <<slot, car, stopping, history>>
    /\ IF rec.stop # "none"
       THEN req' = [req EXCEPT ![r] = Over] /\ lock' = Nobody /\ UNCHANGED rec
       ELSE /\ rec' = [rec EXCEPT !.attempt = @ + 1]
            /\ req' = [req EXCEPT ![r].pc = "dial", ![r].h = rec.attempt + 1]
            /\ UNCHANGED lock

\* The status stays locked from the last terminal check to the installation, so
\* no task of the new carrier can report its end before the carrier is current.
Install(r) ==
    /\ slot' = req[r].h
    /\ car' = [car EXCEPT ![req[r].h] = NewCarrier]
    /\ rec' = [rec EXCEPT !.current = req[r].h]
    /\ req' = [req EXCEPT ![r].pc = "send"]

PolledLate == TRUE

\* until_shutdown polls the shutdown flag before the future it wraps, so what was
\* pending resumes only while the flag is down.
Polled == phase = "serving"

DialedUnchecked(r) ==
    /\ req[r].pc = "dial" /\ Polled /\ req[r].h \in Carriers
    /\ lock' = Nobody
    /\ Install(r)
    /\ UNCHANGED <<stopping, history>>

Dialed(r) ==
    /\ req[r].pc = "dial" /\ Polled /\ req[r].h \in Carriers
    /\ lock' = Nobody
    /\ IF rec.stop # "none"
       THEN req' = [req EXCEPT ![r] = Over] /\ UNCHANGED <<slot, car, rec>>
       ELSE Install(r)
    /\ UNCHANGED <<stopping, history>>

DialFails(r, f) ==
    /\ req[r].pc = "dial" /\ Polled
    /\ lock' = Nobody
    /\ req' = [req EXCEPT ![r] = Over]
    /\ RecordFailure(rec, req[r].h, f)
    /\ UNCHANGED <<slot, car, stopping>>

\* A closed command queue hands the request back; a full one is waited for.
Send(r) ==
    /\ req[r].pc = "send"
    /\ LET h == req[r].h
       IN  \/ /\ car[h].coord = "gone"
              /\ req' = [req EXCEPT ![r].pc = "clear"]
              /\ UNCHANGED car
           \/ /\ car[h].coord # "gone" /\ Len(car[h].queue) < QueueCap
              /\ car' = [car EXCEPT ![h].queue = Append(@, r)]
              /\ req' = [req EXCEPT ![r].pc = "wait"]
    /\ UNCHANGED <<slot, lock, rec, stopping, history>>

Reply(r) ==
    /\ req[r].pc = "wait" /\ req[r].reply # "none" /\ Polled
    /\ req' = [req EXCEPT ![r] =
                  CASE @.reply = "ok"   -> Caller("served", FALSE, @.h, @.claims)
                    [] @.reply = "err"  -> Over
                    [] @.reply = "back" -> Caller("clear", @.again, @.h, @.claims)]
    /\ UNCHANGED <<slot, lock, rec, car, stopping, history>>

\* OpenFailure::Dead: clear_handle empties the slot if it still holds this carrier.
Clear(r) ==
    /\ req[r].pc = "clear" /\ lock = Nobody
    /\ IF slot = req[r].h
       THEN slot' = 0 /\ rec' = MarkDead(rec, req[r].h)
       ELSE UNCHANGED <<slot, rec>>
    /\ req' = [req EXCEPT ![r] = IF @.again THEN Over ELSE Caller("want", TRUE, 0, @.claims)]
    /\ UNCHANGED <<lock, car, stopping, history>>

Responded(r) ==
    /\ req[r].pc = "served"
    /\ req' = [req EXCEPT ![r] = Over]
    /\ UNCHANGED <<slot, lock, rec, car, stopping, history>>

\* Once the flag is up, a request's future is dropped wherever it waits.
Cancel(r) ==
    /\ phase # "serving" /\ req[r].pc \notin {"new", "begin", "over"}
    /\ req' = [req EXCEPT ![r] = Over]
    /\ lock' = IF lock = r THEN Nobody ELSE lock
    /\ UNCHANGED <<slot, rec, car, stopping, history>>

------------------------------------------------------------------------------
(* The two tasks of a carrier.                                              *)

Waits(r, h) == r \in Reqs /\ req[r].pc = "wait" /\ req[r].h = h

Heard(h) ==
    /\ car[h].coord = "run"
    /\ Accept(h)
    /\ \E next \in {"run", "verdict"} :   \* handle_read may find a violation
          car' = [car EXCEPT ![h].coord = next,
                             ![h].verdict = IF @ = "pending" THEN "accepted" ELSE @]
    /\ UNCHANGED <<slot, lock, req, stopping>>

\* The read half ends, with an alert that is a verdict or without one.
ReadEnds(h, f) ==
    /\ car[h].coord = "run"
    /\ Settle(h, f)
    /\ car' = [car EXCEPT ![h] = [Settled(@) EXCEPT !.coord = "ending"]]
    /\ UNCHANGED <<slot, lock, req, stopping>>

Claimed(c, pumps) ==
    [c EXCEPT !.queue = Tail(@), !.coord = IF pumps THEN "run" ELSE "verdict"]

ClaimReplyReturned(pumps) == IF pumps THEN "ok" ELSE "back"

ClaimReply(pumps) == IF pumps THEN "ok" ELSE "err"

\* PendingOpen::claim, then the first pump, which fails if the writer is gone.  A
\* stream whose caller no longer waits is reset.
TakeOpen(h) ==
    /\ car[h].coord = "run" /\ car[h].queue # <<>> /\ Head(car[h].queue) \in Reqs
    /\ LET r == Head(car[h].queue)
           pumps == car[h].writer = "run"
       IN  /\ req' = IF ~Waits(r, h) THEN req
                     ELSE [req EXCEPT ![r].reply = ClaimReply(pumps), ![r].claims = @ + 1]
           /\ car' = [car EXCEPT ![h] = Claimed(@, pumps)]
    /\ UNCHANGED <<slot, lock, rec, stopping, history>>

TakeShutdown(h) ==
    /\ car[h].coord = "run" /\ car[h].queue # <<>> /\ Head(car[h].queue) = Shutdown
    /\ car' = [car EXCEPT ![h].queue = Tail(@), ![h].coord = "ending"]
    /\ UNCHANGED <<slot, lock, rec, req, stopping, history>>

WriterStopped(h) ==
    /\ car[h].coord = "run" /\ car[h].writer = "gone"
    /\ car' = [car EXCEPT ![h].coord = "verdict"]
    /\ UNCHANGED <<slot, lock, rec, req, stopping, history>>

\* max_missed probes in a row went unanswered.
KeepaliveFails(h) ==
    /\ car[h].coord = "run"
    /\ car' = [car EXCEPT ![h].coord = "verdict"]
    /\ UNCHANGED <<slot, lock, rec, req, stopping, history>>

\* read_verdict_before_teardown: an unsettled attempt is settled by one last read.
ReadVerdict(h) ==
    /\ car[h].coord = "verdict"
    /\ \/ /\ \E f \in Failures : Settle(h, f)
          /\ car' = [car EXCEPT ![h] = [Settled(@) EXCEPT !.coord = "ending"]]
       \/ /\ car[h].verdict = "pending"
          /\ Accept(h)
          /\ car' = [car EXCEPT ![h].verdict = "accepted", ![h].coord = "ending"]
    /\ UNCHANGED <<slot, lock, req, stopping>>

ReturnedLost(h) == req

\* Dropping the command queue hands the requests nobody claimed back.
Returned(h) ==
    LET q == car[h].queue
    IN  [r \in Reqs |-> IF (\E i \in 1..Len(q) : q[i] = r) /\ Waits(r, h)
                        THEN [req[r] EXCEPT !.reply = "back"] ELSE req[r]]

\* The coordinator's guard is dropped, then its channels.
CoordinatorEnds(h) ==
    /\ car[h].coord = "ending"
    /\ car' = [car EXCEPT ![h] = [NoCarrier EXCEPT !.writer = car[h].writer]]
    /\ rec' = MarkDead(rec, h)
    /\ req' = Returned(h)
    /\ UNCHANGED <<slot, lock, stopping, history>>

\* A failed write settles the attempt only when it carries the journal's verdict;
\* the Stopped event is sent and the writer's guard is dropped.
WriteFails(h, f) ==
    /\ car[h].writer = "run" /\ car[h].coord # "gone"
    /\ UNCHANGED <<slot, lock, req, stopping>>
    /\ IF f = "other"
       THEN /\ rec' = MarkDead(rec, h)
            /\ car' = [car EXCEPT ![h].writer = "gone"]
            /\ UNCHANGED history
       ELSE /\ SettleWriter(h, f)
            /\ car' = [car EXCEPT ![h] = [Settled(@) EXCEPT !.writer = "gone"]]

\* The coordinator dropped the packet queue.
WriterEnds(h) ==
    /\ car[h].writer = "run" /\ car[h].coord = "gone"
    /\ car' = [car EXCEPT ![h].writer = "gone"]
    /\ rec' = MarkDead(rec, h)
    /\ UNCHANGED <<slot, lock, req, stopping, history>>

------------------------------------------------------------------------------
(* accept_loop's shutdown: the flag, MuxCarrier::shutdown, the join.        *)

BeginShutdown ==
    /\ phase = "serving"
    /\ phase' = "flagged"
    /\ UNCHANGED <<slot, lock, rec, car, req, taken, history>>

TakeSlot ==
    /\ phase = "flagged" /\ lock = Nobody
    /\ slot' = 0
    /\ IF slot = 0
       THEN phase' = "joining" /\ UNCHANGED <<rec, taken>>
       ELSE /\ phase' = "telling"
            /\ taken' = slot
            /\ rec' = MarkDead(rec, slot)
    /\ UNCHANGED <<lock, car, req, history>>

\* A closed queue is ignored, a full one is waited for.
TellShutdown ==
    /\ phase = "telling"
    /\ IF car[taken].coord = "gone" THEN UNCHANGED car
       ELSE /\ Len(car[taken].queue) < QueueCap
            /\ car' = [car EXCEPT ![taken].queue = Append(@, Shutdown)]
    /\ phase' = "aborting"
    /\ UNCHANGED <<slot, lock, rec, req, taken, history>>

\* Both tasks are aborted and awaited: their guards and channels drop.
Abort ==
    /\ phase = "aborting"
    /\ phase' = "joining"
    /\ req' = Returned(taken)
    /\ car' = [car EXCEPT ![taken] = NoCarrier]
    /\ rec' = MarkDead(rec, taken)
    /\ taken' = 0
    /\ UNCHANGED <<slot, lock, history>>

Join ==
    /\ phase = "joining" /\ \A r \in Reqs : req[r].pc \in {"new", "over"}
    /\ phase' = "over"
    /\ UNCHANGED <<slot, lock, rec, car, req, taken, history>>

------------------------------------------------------------------------------
CallerStep(r) ==
    Acquire(r) \/ Begin(r) \/ Dialed(r) \/ (\E f \in Failures : DialFails(r, f))
        \/ Send(r) \/ Reply(r) \/ Clear(r) \/ Cancel(r)

\* What a carrier's tasks do of themselves, whatever the journal does.
TaskStep(h) ==
    TakeOpen(h) \/ TakeShutdown(h) \/ WriterStopped(h) \/ ReadVerdict(h)
        \/ CoordinatorEnds(h)

StopStep == TakeSlot \/ TellShutdown \/ Abort \/ Join

Next ==
    \/ \E r \in Reqs : Arrive(r) \/ CallerStep(r) \/ Responded(r)
    \/ \E h \in Carriers :
          \/ TaskStep(h) \/ Heard(h) \/ KeepaliveFails(h) \/ WriterEnds(h)
          \/ \E f \in Failures : ReadEnds(h, f) \/ WriteFails(h, f)
    \/ BeginShutdown \/ StopStep

Spec == Init /\ [][Next]_vars

\* Each future makes the step it waits for: a dial returns, a coordinator serves
\* its queue, the verdict read times out.  The journal may stay silent for ever.
FairSpec ==
    /\ Spec
    /\ \A r \in Reqs : WF_vars(CallerStep(r))
    /\ \A h \in Carriers : WF_vars(TaskStep(h)) /\ WF_vars(WriterEnds(h))
    /\ WF_vars(StopStep)

------------------------------------------------------------------------------
(* Properties.                                                              *)

\* A request whose stream a coordinator claimed is never opened on a second
\* carrier: open_stream's retry takes back only what was never claimed.
NothingSentTwice == \A r \in Reqs : req[r].claims <= 1

Running(h) == car[h].writer # "gone" /\ car[h].coord # "gone"

\* carrier_live tells of the carrier that requests are given: no ended task of it
\* goes unreported, and a late end of a replaced carrier is not taken for its end.
StatusIsTrue ==
    /\ rec.current # 0 => Running(rec.current)
    /\ slot # 0 /\ Running(slot) => rec.current = slot

\* The refusal count is made of distinct attempts, all newer than the last one the
\* journal accepted: a late outcome of a replaced carrier adds nothing.
RefusalsAreJust ==
    /\ Cardinality(blamed) = rec.refusals
    /\ \A a \in blamed : a > accepted

\* (A step.) Once the tracker has stopped the bridge it stays stopped for that reason, and no
\* carrier is installed, not even one whose dial was already under way.
StopIsFinal ==
    rec.stop # "none" => rec'.stop = rec.stop /\ slot' \in {slot, 0}

\* shutdown_and_wait returns a quiescent status: no carrier is live, no request is
\* active, and no carrier can come alive any more.
FinalIsQuiescent ==
    phase = "over" =>
        /\ slot = 0 /\ rec.current = 0 /\ lock = Nobody
        /\ \A h \in Carriers : ~Alive(h)
        /\ \A r \in Reqs : req[r].pc \in {"new", "over"}

\* What the bridge's status says is true, of a carrier, of the refusals and at the end.
CarrierStatusIsTrue == StatusIsTrue /\ RefusalsAreJust /\ FinalIsQuiescent

\* open_stream always returns, whatever becomes of the carriers it meets (Wants leads to
\* Got), and a shutdown once begun is completed ("flagged" leads to "over").
Wants(r) == req[r].pc = "want"
Got(r) == req[r].pc \in {"served", "over"}
==============================================================================
