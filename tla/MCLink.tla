------------------------------- MODULE MCLink --------------------------------
(***************************************************************************)
(* The carrier's two ends, for TLC, in one run over four instances:        *)
(* "acceptor" is a home against any peer (AcceptorAnyPeer, whose variables *)
(* rest in the other parts); "link" is a dialer and a home that answers    *)
(* it; "one" is a dialer of one stream against any peer; "two" is a dialer *)
(* whose two uploads compete for a smaller window.                         *)
(***************************************************************************)
EXTENDS AcceptorAnyPeer, Integers

VARIABLES
    part,
    nextId, demux, active, ready, inflight, turn, fed, delivery, app, consumes, cancels,
    toHome, toDialer,                       \* the dialer and the two channels
    streamsH, highWaterH, carrierH, outH,   \* the home's acceptor
    reply, got                              \* counts of MuxLink; got is DialerAnyPeer's wrote

dialer == <<nextId, demux, active, ready, inflight, turn, fed, delivery, app, consumes, cancels,
            toHome, toDialer, got>>
home == <<streamsH, highWaterH, carrierH, outH, reply>>
allVars == <<part, vars, dialer, home>>

Link == INSTANCE MuxLink WITH
    Window <- 3, Threshold <- 2, Chunk <- 2, MaxCredit <- 3, MaxStreams <- 1, Ids <- {1},
    Bodies <- {0, 2}, RequestHead <- 1, ReplyHead <- 1, StreamQueue <- 1, WriterQueue <- 4,
    ControlReserve <- 2, ReadMax <- 2, MayGarble <- FALSE, MayCancel <- TRUE, MayStop <- TRUE,
    Reply <- 4, HomeWaits <- FALSE, HomeMayQuit <- FALSE, HomeMayReset <- TRUE,
    streams <- streamsH, highWater <- highWaterH, carrier <- carrierH, out <- outH

One == INSTANCE DialerAnyPeer WITH
    Window <- 2, Threshold <- 1, Chunk <- 1, MaxCredit <- 2, Ids <- {1}, Bodies <- {1},
    RequestHead <- 1, ReplyHead <- 1, StreamQueue <- 1, WriterQueue <- 3, ControlReserve <- 1,
    ReadMax <- 2, MayGarble <- TRUE, MayCancel <- TRUE, MayStop <- TRUE, Lengths <- {1, 2},
    Credits <- {1}, wrote <- got

Two == INSTANCE DialerAnyPeer WITH
    Window <- 1, Threshold <- 1, Chunk <- 1, MaxCredit <- 1, Ids <- {1, 3}, Bodies <- {1},
    RequestHead <- 1, ReplyHead <- 1, StreamQueue <- 1, WriterQueue <- 2, ControlReserve <- 1,
    ReadMax <- 1, MayGarble <- FALSE, MayCancel <- FALSE, MayStop <- FALSE, Lengths <- {},
    Credits <- {1}, wrote <- got

ASSUME LinkConstants == One!PeerAssumption /\ Two!PeerAssumption /\ Link!DialerAssumption /\ Link!ReplyAssumption

\* A dialer against any peer has no home and no reply, an acceptor has no dialer.
HomeUnused ==
    /\ streamsH = "unused" /\ highWaterH = 0 /\ carrierH = "unused" /\ outH = "unused"
    /\ reply = "unused"
DialerUnused ==
    /\ nextId = "unused" /\ demux = "unused" /\ active = "unused" /\ ready = "unused"
    /\ inflight = "unused" /\ turn = "unused" /\ fed = "unused" /\ delivery = "unused"
    /\ app = "unused" /\ consumes = "unused" /\ cancels = "unused" /\ toHome = "unused"
    /\ toDialer = "unused" /\ got = "unused"

MCInit ==
    /\ Init
    /\ \/ part = "acceptor" /\ DialerUnused /\ HomeUnused
       \/ part = "link" /\ Link!Init
       \/ part = "one" /\ One!Init /\ HomeUnused
       \/ part = "two" /\ Two!Init /\ HomeUnused

MCNext ==
    \/ part = "acceptor" /\ Next /\ UNCHANGED <<part, dialer, home>>
    \/ part = "link" /\ UNCHANGED <<part, vars>> /\ Link!Next
    \/ part = "one" /\ UNCHANGED <<part, vars>> /\ One!Next /\ UNCHANGED home
    \/ part = "two" /\ UNCHANGED <<part, vars>> /\ Two!Next /\ UNCHANGED home

MCSpec == MCInit /\ [][MCNext]_allVars

------------------------------------------------------------------------------
\* The two ends of a carrier agree: with nothing in flight they have the same open
\* streams, every byte of either window is accounted for on a stream both have, and an
\* application that sees a response close has all of it.
LinkAgrees == part = "link" => Link!SlotsAgree /\ Link!LinkCredit /\ Link!ResponseIsWhole

\* The dialer's books agree whatever the peer sends: the demultiplexer's and the
\* coordinator's tables, the credit of each stream, what an application has been told
\* and in which order, and no upload that could go on is left out of `ready`.
DialerBooks ==
    CASE part \in {"acceptor", "link"} -> TRUE
      [] part = "one" -> /\ One!TypeOK /\ One!TablesAgree /\ One!CreditKept /\ One!OrderlyDelivery
                         /\ One!UnfinishedHearsNothing /\ One!NoUploadForgotten
      [] part = "two" -> Two!NoUploadForgotten

\* Two honest ends accuse each other of no error, whatever is in flight when a stream
\* ends.  Against any peer the frames the dialer writes on a stream are OPEN first,
\* nothing after CLOSE but RESET or WINDOW, nothing after RESET.
FramesAreSound ==
    [][CASE part = "link" -> Link!NoFalseError
         [] part = "one" -> One!OrderedStep
         [] part = "two" -> Two!OrderedStep
         [] OTHER -> TRUE]_allVars
==============================================================================
