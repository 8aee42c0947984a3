---------------------------- MODULE MCCreditFlow -----------------------------
(***************************************************************************)
(* What goes into a stream comes out, for TLC, in one run over two         *)
(* instances under fairness: "credit" is one direction of one stream       *)
(* (CreditFlow, whose variables rest in the other part), and "link" is a   *)
(* dialer with a home that answers its request.                            *)
(***************************************************************************)
EXTENDS CreditFlow, Integers

VARIABLES
    part,
    nextId, demux, active, ready, inflight, turn, fedOut, delivery, app, consumes, cancels,
    toHome, toDialer,                  \* the dialer and the two channels
    streams, highWater, carrier, out,  \* the home's acceptor
    reply, body                        \* counts of MuxLink; body is its got

linkVars == <<nextId, demux, active, ready, inflight, turn, fedOut, delivery, app, consumes, cancels,
              toHome, toDialer, streams, highWater, carrier, out, reply, body>>
allVars == <<part, vars, linkVars>>

Link == INSTANCE MuxLink WITH
    Window <- 2, Threshold <- 2, Chunk <- 1, MaxCredit <- 2, MaxStreams <- 1, Ids <- {1},
    Bodies <- {0, 2}, RequestHead <- 1, ReplyHead <- 1, StreamQueue <- 1, WriterQueue <- 8,
    ControlReserve <- 6, ReadMax <- 2, MayGarble <- FALSE, MayCancel <- FALSE, MayStop <- TRUE,
    Reply <- 4, HomeWaits <- TRUE, HomeMayQuit <- FALSE, HomeMayReset <- TRUE,
    fed <- fedOut, got <- body

ASSUME LinkConstants == Link!DialerAssumption /\ Link!ReplyAssumption

LinkUnused ==
    /\ nextId = "unused" /\ demux = "unused" /\ active = "unused" /\ ready = "unused"
    /\ inflight = "unused" /\ turn = "unused" /\ fedOut = "unused" /\ delivery = "unused"
    /\ app = "unused" /\ consumes = "unused" /\ cancels = "unused" /\ toHome = "unused"
    /\ toDialer = "unused" /\ streams = "unused" /\ highWater = "unused" /\ carrier = "unused"
    /\ out = "unused" /\ reply = "unused" /\ body = "unused"

MCInit ==
    \/ part = "credit" /\ Init /\ LinkUnused
    \/ part = "link" /\ Link!Init /\ Init /\ splits

InCredit(A) == part = "credit" /\ A /\ UNCHANGED <<part, linkVars>>
InLink(A) == part = "link" /\ A /\ UNCHANGED <<part, vars>>

MCNext == InCredit(Next) \/ InLink(Link!Next)

\* As the FairSpec of CreditFlow and of MuxLink.
MCSpec ==
    /\ MCInit /\ [][MCNext]_allVars
    /\ WF_allVars(InCredit(PollSend)) /\ WF_allVars(InCredit(TrySendData))
    /\ WF_allVars(InCredit(SendClose)) /\ WF_allVars(InCredit(ReceiveFrame))
    /\ WF_allVars(InCredit(ReceiveGrant)) /\ WF_allVars(InCredit(Consume))
    /\ WF_allVars(InLink(Link!WithinTurn)) /\ WF_allVars(InLink(Link!HomeEof))
    /\ WF_allVars(InLink(Link!Receives(1)))
    /\ SF_allVars(InLink(Link!Select(Link!BeginRead)))
    /\ SF_allVars(InLink(Link!Select(Link!TakeConsume)))
    /\ SF_allVars(InLink(Link!Select(Link!Drained)))
    /\ SF_allVars(InLink(Link!Select(\E n \in 1..2 : Link!BodyArrives(1, n))))
    /\ SF_allVars(InLink(Link!HomeReads)) /\ SF_allVars(InLink(Link!HomeConsumes(1)))
    /\ SF_allVars(InLink(Link!HomeSends(1))) /\ SF_allVars(InLink(Link!HomeCloses(1)))

------------------------------------------------------------------------------
\* Every request to a home that waits for all of it ends, and both ends are done with
\* it: the application sees the response close, or else the home's reset or the end of
\* the carrier, and the home gets the stream's slot back.
RequestsEnd ==
    /\ (part = "link" /\ Link!Started(1)) ~> (part = "link" /\ Link!Finished(1))
    /\ (part = "link" /\ Link!Known(1)) ~> (part = "link" /\ ~Link!Known(1))
==============================================================================
