----------------------------- MODULE MCHomePipe ------------------------------
(***************************************************************************)
(* The home's pipes for TLC, in one run over two instances: "any" has one  *)
(* stream that may fail in every way, and "live" two streams whose peers   *)
(* stay, under fairness.                                                   *)
(***************************************************************************)
EXTENDS Integers

VARIABLES
    part,
    streams, highWater, carrier, out,                             \* MuxAcceptor
    status, staged, waker, signals, commands, pending, ready,     \* HomeDriver
    closing, rounds, progress, turn, peer,
    pipe, readBuf, left, reply                                    \* HomePipe

allVars == <<part, streams, highWater, carrier, out, status, staged, waker, signals, commands,
             pending, ready, closing, rounds, progress, turn, peer, pipe, readBuf, left, reply>>

Any == INSTANCE HomePipe WITH
    Window <- 2, Threshold <- 1, Chunk <- 1, MaxCredit <- 4, MaxStreams <- 2, Ids <- {1},
    StageCap <- 2, Request <- 2, Reply <- 4, HalfCloses <- TRUE, MayFail <- TRUE,
    OneThread <- FALSE

Live == INSTANCE HomePipe WITH
    Window <- 1, Threshold <- 1, Chunk <- 1, MaxCredit <- 4, MaxStreams <- 2, Ids <- {1, 3},
    StageCap <- 2, Request <- 0, Reply <- 3, HalfCloses <- FALSE, MayFail <- FALSE,
    OneThread <- TRUE

ASSUME PipeConstants ==
    Any!StageAssumption /\ Any!PipeAssumption /\ Live!StageAssumption /\ Live!PipeAssumption

MCInit ==
    \/ part = "any" /\ Any!Init
    \/ part = "live" /\ Live!Init

InLive == part = "live" /\ UNCHANGED part

MCNext ==
    \/ part = "any" /\ UNCHANGED part /\ Any!Next
    \/ InLive /\ Live!Next

\* As FairSpec of HomePipe.
MCSpec ==
    /\ MCInit /\ [][MCNext]_allVars
    /\ WF_allVars(InLive /\ Live!DriverStep)
    /\ \A s \in {1, 3} :
          SF_allVars(InLive /\ Live!GrantsBack(s)) /\ WF_allVars(InLive /\ Live!PipeStep(s))

------------------------------------------------------------------------------
\* What the driver, its handles and the pipes hold agrees: staged bytes, held bytes and
\* their credit, and which streams are ready and why (connection.rs, home_relay.rs).
PipeAccounts ==
    part = "any" =>
        /\ Any!TypeOK /\ Any!StageIsAccounted /\ Any!ConsumedIsHeld
        /\ Any!ReadyMeansWake /\ Any!ReadyIsServable /\ Any!HeldBytesLackCredit

\* A stream ends cleanly: its CLOSE comes after the whole reply, and when both sides are
\* done its slot is free and nothing is kept for it.
PipeEnds == part = "any" => Any!CloseEndsReply /\ Any!SlotIsFreed

\* Every reply reaches its peer whole, and then its CLOSE, however much longer than the
\* stage and the window it is.
RepliesArrive ==
    \A s \in {1, 3} :
        (part = "live" /\ Live!Live(s)) ~> (part = "live" /\ Live!ReplyArrived(s))
==============================================================================
