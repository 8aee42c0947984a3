-------------------------- MODULE CreditFlowProofs --------------------------
(***************************************************************************)
(* Proofs, for every window, threshold, chunk and stage size and for both  *)
(* kinds of sender, of the safety properties of CreditFlow and of its      *)
(* refinement of BytePipe.                                                 *)
(***************************************************************************)
EXTENDS CreditFlow, TLAPS

\* The CLOSE frame is the last frame of its direction, and it follows every
\* byte the application supplied.
CloseIsLast ==
    /\ \A i \in 1..Len(wire) : wire[i].fin => i = Len(wire) /\ closed
    /\ closed => shut /\ sent = fed
    /\ eof => closed /\ wire = <<>>

\* Each end is ahead of the next along the path of a byte.
Ordered == sent <= fed /\ read <= got

\* The inductive invariant.
IInv == TypeOK /\ InOrder /\ Conservation /\ NoFlowControlError /\ CloseIsLast /\ Ordered

-----------------------------------------------------------------------------
(* The interval queues.                                                    *)

\* A queue of consecutive intervals never runs backwards.
LEMMA ConsecutiveBounds ==
    ASSUME NEW q \in Seq(Interval), NEW lo \in Nat, NEW hi \in Nat,
           Consecutive(q, lo, hi)
    PROVE  /\ lo <= hi
           /\ q # <<>> => /\ Head(q) \in Interval
                          /\ Head(q).from = lo
                          /\ lo <= Head(q).upto
                          /\ Head(q).upto <= hi
<1>1. CASE q = <<>>
  BY <1>1 DEF Consecutive
<1>2. CASE q # <<>>
  <2>1. Len(q) \in Nat /\ Len(q) >= 1 /\ 1 \in 1..Len(q) /\ Len(q) \in 1..Len(q)
    BY <1>2
  <2>2. Head(q) = q[1] /\ q[1] \in Interval /\ q[Len(q)] \in Interval
    BY <1>2, <2>1
  <2>3. /\ q[1].from = lo /\ q[Len(q)].upto = hi
        /\ q[1].from <= q[1].upto /\ q[Len(q)].from <= q[Len(q)].upto
        /\ 1 < Len(q) => q[1].upto <= q[Len(q)].from
    BY <1>2, <2>1 DEF Consecutive
  <2>4. /\ q[1].from \in Nat /\ q[1].upto \in Nat
        /\ q[Len(q)].from \in Nat /\ q[Len(q)].upto \in Nat
    BY <2>2 DEF Interval
  <2>5. Len(q) = 1 \/ 1 < Len(q)
    <3>1. \A n \in Nat : n >= 1 => n = 1 \/ 1 < n
      OBVIOUS
    <3> QED
      BY <2>1, <3>1
  <2>6. lo <= q[1].upto /\ q[1].upto <= hi /\ lo <= hi
    BY <2>3, <2>4, <2>5
  <2> QED
    BY <2>2, <2>3, <2>6
<1> QED
  BY <1>1, <1>2

\* Emitting the next interval keeps the queue consecutive.
LEMMA ConsecutiveAppend ==
    ASSUME NEW q \in Seq(Interval), NEW lo \in Nat, NEW hi \in Nat,
           Consecutive(q, lo, hi),
           NEW e \in Interval, e.from = hi, hi <= e.upto
    PROVE  Append(q, e) \in Seq(Interval) /\ Consecutive(Append(q, e), lo, e.upto)
<1> DEFINE r == Append(q, e)
<1>1. /\ r \in Seq(Interval) /\ r # <<>>
      /\ Len(r) = Len(q) + 1 /\ Len(q) \in Nat
      /\ r[Len(r)] = e
      /\ \A i \in 1..Len(q) : r[i] = q[i]
  OBVIOUS
<1>2. \A i \in 1..Len(r) : i \in 1..Len(q) \/ i = Len(r)
  BY <1>1
<1>3. \A i \in 1..Len(q) : q[i].from \in Nat /\ q[i].upto \in Nat
  <2>1. \A i \in 1..Len(q) : q[i] \in Interval
    OBVIOUS
  <2> QED
    BY <2>1 DEF Interval
<1>4. \A i \in 1..Len(q) : q[i].upto <= hi
  <2> SUFFICES ASSUME NEW i \in 1..Len(q) PROVE q[i].upto <= hi
    OBVIOUS
  <2>1. q # <<>> /\ Len(q) \in 1..Len(q)
    BY <1>1
  <2>2. q[Len(q)].upto = hi /\ q[Len(q)].from <= q[Len(q)].upto
    BY <2>1 DEF Consecutive
  <2>3. CASE i = Len(q)
    BY <2>2, <2>3
  <2>4. CASE i < Len(q)
    <3>1. q[i].upto <= q[Len(q)].from
      BY <2>1, <2>4 DEF Consecutive
    <3> QED
      BY <3>1, <2>1, <2>2, <1>3
  <2> QED
    BY <2>3, <2>4, <1>1
<1>5. r[1].from = lo /\ r[Len(r)].upto = e.upto
  <2>1. CASE q = <<>>
    BY <2>1, <1>1 DEF Consecutive
  <2>2. CASE q # <<>>
    BY <2>2, <1>1 DEF Consecutive
  <2> QED
    BY <2>1, <2>2
<1>6. \A i \in 1..Len(r) : r[i].from <= r[i].upto
  BY <1>1, <1>2 DEF Consecutive
<1>7. \A i \in 1..Len(r) : i < Len(r) => r[i].upto = r[i + 1].from
  <2> SUFFICES ASSUME NEW i \in 1..Len(r), i < Len(r) PROVE r[i].upto = r[i + 1].from
    OBVIOUS
  <2>1. i \in 1..Len(q) /\ r[i] = q[i]
    BY <1>1
  <2>2. CASE i = Len(q)
    BY <2>1, <2>2, <1>1 DEF Consecutive
  <2>3. CASE i < Len(q)
    <3>1. i + 1 \in 1..Len(q)
      BY <2>1, <2>3, <1>1
    <3> QED
      BY <3>1, <2>1, <2>3, <1>1 DEF Consecutive
  <2> QED
    BY <2>1, <2>2, <2>3, <1>1
<1>8. \A i, j \in 1..Len(r) : i < j => r[i].upto <= r[j].from
  <2> SUFFICES ASSUME NEW i \in 1..Len(r), NEW j \in 1..Len(r), i < j
               PROVE  r[i].upto <= r[j].from
    OBVIOUS
  <2>1. i \in 1..Len(q) /\ r[i] = q[i]
    BY <1>1
  <2>2. CASE j = Len(r)
    BY <2>1, <2>2, <1>1, <1>4
  <2>3. CASE j \in 1..Len(q)
    BY <2>1, <2>3, <1>1 DEF Consecutive
  <2> QED
    BY <2>2, <2>3, <1>2
<1> QED
  BY <1>1, <1>5, <1>6, <1>7, <1>8 DEF Consecutive

\* Taking the oldest interval keeps the queue consecutive.
LEMMA ConsecutiveTail ==
    ASSUME NEW q \in Seq(Interval), NEW lo \in Nat, NEW hi \in Nat,
           Consecutive(q, lo, hi), q # <<>>
    PROVE  Tail(q) \in Seq(Interval) /\ Consecutive(Tail(q), Head(q).upto, hi)
<1> DEFINE r == Tail(q)
<1>1. /\ r \in Seq(Interval) /\ Len(r) = Len(q) - 1
      /\ Len(q) \in Nat /\ Len(q) >= 1
      /\ \A i \in 1..Len(r) : r[i] = q[i + 1] /\ i + 1 \in 1..Len(q)
      /\ Head(q) = q[1]
  OBVIOUS
<1>2. r = <<>> => Head(q).upto = hi
  <2> SUFFICES ASSUME r = <<>> PROVE Head(q).upto = hi
    OBVIOUS
  <2>1. Len(<<>>) = 0
    OBVIOUS
  <2>2. Len(r) = 0
    BY <2>1, Zenon
  <2>3. Len(q) = 1
    BY <2>2, <1>1
  <2> QED
    BY <2>3, <1>1 DEF Consecutive
<1>3. r # <<>> => r[1].from = Head(q).upto /\ r[Len(r)].upto = hi
  <2> HAVE r # <<>>
  <2>1. Len(r) >= 1 /\ 1 \in 1..Len(r) /\ Len(r) \in 1..Len(r) /\ 1 < Len(q)
    BY <1>1
  <2>2. q[1].upto = q[1 + 1].from
    BY <2>1, <1>1 DEF Consecutive
  <2>3. r[1] = q[1 + 1] /\ r[Len(r)] = q[Len(q)]
    BY <2>1, <1>1
  <2> QED
    BY <2>2, <2>3, <1>1 DEF Consecutive
<1>4. \A i \in 1..Len(r) : r[i].from <= r[i].upto
  BY <1>1 DEF Consecutive
<1>5. \A i \in 1..Len(r) : i < Len(r) => r[i].upto = r[i + 1].from
  <2> SUFFICES ASSUME NEW i \in 1..Len(r), i < Len(r) PROVE r[i].upto = r[i + 1].from
    OBVIOUS
  <2>1. i + 1 \in 1..Len(r) /\ i + 1 \in 1..Len(q) /\ i + 1 < Len(q)
    BY <1>1
  <2>2. q[i + 1].upto = q[(i + 1) + 1].from
    BY <2>1 DEF Consecutive
  <2> QED
    BY <2>1, <2>2, <1>1
<1>6. \A i, j \in 1..Len(r) : i < j => r[i].upto <= r[j].from
  <2> SUFFICES ASSUME NEW i \in 1..Len(r), NEW j \in 1..Len(r), i < j
               PROVE  r[i].upto <= r[j].from
    OBVIOUS
  <2>1. i + 1 \in 1..Len(q) /\ j + 1 \in 1..Len(q) /\ i + 1 < j + 1
    BY <1>1
  <2>2. q[i + 1].upto <= q[j + 1].from
    BY <2>1 DEF Consecutive
  <2> QED
    BY <2>2, <1>1
<1> QED
  BY <1>1, <1>2, <1>3, <1>4, <1>5, <1>6 DEF Consecutive
-----------------------------------------------------------------------------
(* The inductive invariant.                                                *)

USE SizesAssumption DEF Lesser

\* The invariant holds initially.
LEMMA InitIInv == Init => IInv
<1> SUFFICES ASSUME Init PROVE IInv
  OBVIOUS
<1>1. TypeOK
  <2>1. <<>> \in Seq(Interval)
    OBVIOUS
  <2> QED
    BY <2>1 DEF Init, TypeOK
<1>2. InOrder
  BY DEF Init, InOrder, Consecutive
<1> QED
  BY <1>1, <1>2 DEF Init, IInv, Conservation, NoFlowControlError, CloseIsLast, Ordered

\* Putting bytes into the stage, or ending them, touches no frame and no
\* credit.
LEMMA FeedIInv == IInv /\ (FeedBody \/ Shutdown) => IInv'
<1>1. ASSUME IInv, FeedBody PROVE IInv'
  <2>1. PICK n \in 1..Lesser(Stage - (fed - sent), Total - fed) : fed' = fed + n
    BY <1>1 DEF FeedBody
  <2>2. n \in Nat
    BY <2>1
  <2>3. ~closed
    BY <1>1 DEF IInv, FeedBody, CloseIsLast
  <2> QED
    BY <1>1, <2>1, <2>2, <2>3
       DEF IInv, FeedBody, receiver, TypeOK, InOrder, Consecutive, Conservation,
           NoFlowControlError, CloseIsLast, Ordered
<1>2. ASSUME IInv, Shutdown PROVE IInv'
  BY <1>2 DEF IInv, Shutdown, receiver, TypeOK, InOrder, Consecutive, Conservation,
              NoFlowControlError, CloseIsLast, Ordered
<1> QED
  BY <1>1, <1>2

\* Emitting a DATA frame of n bytes, n within the stage and the credit:
\* what both kinds of sender do.
LEMMA SendIInv ==
    ASSUME IInv, NEW n \in Nat, n >= 1, n <= fed - sent, n <= credit,
           sent' = sent + n, credit' = credit - n,
           wire' = Append(wire, DataFrame(sent, sent + n)),
           UNCHANGED <<splits, fed, shut, closed, regained, receiver, grants, fault>>
    PROVE  IInv'
<1> DEFINE e == DataFrame(sent, sent + n)
<1>1. e \in Interval /\ e.from = sent /\ e.upto = sent + n /\ e.fin = FALSE
  BY DEF DataFrame, Interval, IInv, TypeOK
<1>2. ~closed
  BY DEF IInv, CloseIsLast, TypeOK
<1>3. wire' \in Seq(Interval) /\ Consecutive(wire', got, sent + n)
  BY <1>1, ConsecutiveAppend DEF IInv, TypeOK, InOrder
<1>4. TypeOK'
  BY <1>3 DEF IInv, TypeOK, receiver
<1>5. InOrder'
  BY <1>3 DEF IInv, InOrder, Consecutive, receiver
<1>6. CloseIsLast'
  <2>1. /\ Len(wire') = Len(wire) + 1 /\ Len(wire) \in Nat
        /\ wire'[Len(wire) + 1] = e
        /\ \A i \in 1..Len(wire) : wire'[i] = wire[i]
    BY DEF IInv, TypeOK
  <2>2. \A i \in 1..Len(wire) : ~wire[i].fin
    BY <1>2 DEF IInv, CloseIsLast
  <2>3. \A i \in 1..Len(wire') : ~wire'[i].fin
    BY <2>1, <2>2, <1>1
  <2> QED
    BY <2>3, <1>2 DEF IInv, CloseIsLast, receiver
<1> QED
  BY <1>4, <1>5, <1>6
     DEF IInv, TypeOK, Conservation, NoFlowControlError, Ordered, receiver

\* WindowedUpload::poll_send cuts its frame to the stage, the chunk and the
\* credit.
LEMMA PollSendIInv == IInv /\ PollSend => IInv'
<1> SUFFICES ASSUME IInv, PollSend PROVE IInv'
  OBVIOUS
<1> DEFINE n == Lesser(Lesser(fed - sent, Chunk), credit)
<1>1. n \in Nat /\ n >= 1 /\ n <= fed - sent /\ n <= credit
  BY DEF IInv, TypeOK, PollSend
<1>2. /\ sent' = sent + n /\ credit' = credit - n
      /\ wire' = Append(wire, DataFrame(sent, sent + n))
      /\ UNCHANGED <<splits, fed, shut, closed, regained, receiver, grants, fault>>
  BY DEF PollSend
<1> HIDE DEF n
<1> QED
  BY <1>1, <1>2, SendIInv

\* The home's sender emits a chunk only when the credit covers it.
LEMMA TrySendDataIInv == IInv /\ TrySendData => IInv'
<1> SUFFICES ASSUME IInv, TrySendData PROVE IInv'
  OBVIOUS
<1> DEFINE n == Lesser(fed - sent, Chunk)
<1>1. n \in Nat /\ n >= 1 /\ n <= fed - sent /\ n <= credit
  BY DEF IInv, TypeOK, TrySendData
<1>2. /\ sent' = sent + n /\ credit' = credit - n
      /\ wire' = Append(wire, DataFrame(sent, sent + n))
      /\ UNCHANGED <<splits, fed, shut, closed, regained, receiver, grants, fault>>
  BY DEF TrySendData
<1> HIDE DEF n
<1> QED
  BY <1>1, <1>2, SendIInv

\* The CLOSE frame is an empty interval at the end of the stream.
LEMMA SendCloseIInv == IInv /\ SendClose => IInv'
<1> SUFFICES ASSUME IInv, SendClose PROVE IInv'
  OBVIOUS
<1>1. /\ CloseFrame \in Interval /\ CloseFrame.from = sent
      /\ CloseFrame.upto = sent /\ CloseFrame.fin = TRUE
  BY DEF CloseFrame, Interval, IInv, TypeOK
<1>2. wire' \in Seq(Interval) /\ Consecutive(wire', got, sent)
  BY <1>1, ConsecutiveAppend DEF IInv, TypeOK, InOrder, SendClose
<1>3. TypeOK'
  BY <1>2 DEF IInv, TypeOK, SendClose, receiver
<1>4. InOrder'
  BY <1>2 DEF IInv, InOrder, Consecutive, SendClose, receiver
<1>5. CloseIsLast'
  <2>1. /\ Len(wire') = Len(wire) + 1 /\ Len(wire) \in Nat
        /\ \A i \in 1..Len(wire) : wire'[i] = wire[i]
    BY DEF IInv, TypeOK, SendClose
  <2>2. \A i \in 1..Len(wire) : ~wire[i].fin
    BY DEF IInv, CloseIsLast, SendClose
  <2>3. \A i \in 1..Len(wire') : wire'[i].fin => i = Len(wire')
    BY <2>1, <2>2
  <2> QED
    BY <2>3 DEF IInv, CloseIsLast, SendClose, receiver
<1> QED
  BY <1>3, <1>4, <1>5
     DEF IInv, TypeOK, Conservation, NoFlowControlError, Ordered, SendClose, receiver

\* A grant returns credit the sender has spent, so it never reaches the cap.
LEMMA ReceiveGrantIInv == IInv /\ ReceiveGrant => IInv'
<1> SUFFICES ASSUME IInv, ReceiveGrant PROVE IInv'
  OBVIOUS
<1> DEFINE g == Head(grants)
<1>1. /\ g \in Interval /\ g.from = regained
      /\ regained <= g.upto /\ g.upto <= granted
  BY ConsecutiveBounds DEF IInv, TypeOK, InOrder, ReceiveGrant
<1>2. g.upto \in Nat
  BY <1>1 DEF Interval
<1>3. got <= sent
  BY ConsecutiveBounds DEF IInv, TypeOK, InOrder
<1>4. credit + (g.upto - g.from) <= Window
  BY <1>1, <1>2, <1>3 DEF IInv, TypeOK, Conservation, Ordered
<1>5. ~(credit + (g.upto - g.from) > MaxCredit)
  BY <1>1, <1>2, <1>4, CapAssumption DEF IInv, TypeOK
<1>6. /\ credit' = credit + (g.upto - g.from)
      /\ regained' = regained + (g.upto - g.from)
      /\ fault' = fault
      /\ grants' = Tail(grants)
      /\ UNCHANGED <<splits, fed, shut, sent, closed, wire, receiver>>
  BY <1>5 DEF ReceiveGrant
<1>7. regained' = g.upto
  BY <1>1, <1>2, <1>6 DEF IInv, TypeOK
<1>8. grants' \in Seq(Interval) /\ Consecutive(grants', regained', granted)
  BY <1>6, <1>7, ConsecutiveTail DEF IInv, TypeOK, InOrder, ReceiveGrant
<1>9. TypeOK'
  BY <1>1, <1>2, <1>6, <1>7, <1>8 DEF IInv, TypeOK, receiver
<1>10. InOrder'
  BY <1>6, <1>8 DEF IInv, InOrder, Consecutive, receiver
<1>11. CloseIsLast'
  BY <1>6 DEF IInv, CloseIsLast, receiver
<1>12. Conservation'
  <2>1. UNCHANGED <<sent, rcredit, got, granted, unacked, read>>
    BY <1>6 DEF receiver
  <2>2. credit' + sent = Window + regained'
    <3>1. PICK b \in Nat : b = g.upto - g.from
      BY <1>1, <1>2 DEF IInv, TypeOK
    <3>2. credit' = credit + b /\ regained' = regained + b
      BY <3>1, <1>6
    <3> QED
      BY <3>2 DEF IInv, TypeOK, Conservation
  <2> QED
    BY <2>1, <2>2 DEF IInv, Conservation
<1> QED
  BY <1>6, <1>9, <1>10, <1>11, <1>12 DEF IInv, NoFlowControlError, Ordered, receiver

\* A frame from such a sender always fits the receive window.
LEMMA ReceiveFrameIInv == IInv /\ ReceiveFrame => IInv'
<1> SUFFICES ASSUME IInv, ReceiveFrame PROVE IInv'
  OBVIOUS
<1> DEFINE f == Head(wire)
<1>1. /\ f \in Interval /\ f.from = got
      /\ got <= f.upto /\ f.upto <= sent
  BY ConsecutiveBounds DEF IInv, TypeOK, InOrder, ReceiveFrame
<1>2. f.upto \in Nat /\ f.fin \in BOOLEAN
  BY <1>1 DEF Interval
<1>3. regained <= granted
  BY ConsecutiveBounds DEF IInv, TypeOK, InOrder
<1>4. ~(f.upto - f.from > rcredit)
  BY <1>1, <1>2, <1>3 DEF IInv, TypeOK, Conservation
<1>5. /\ rcredit' = rcredit - (f.upto - f.from)
      /\ got' = got + (f.upto - f.from)
      /\ eof' = (eof \/ f.fin)
      /\ fault' = fault
      /\ wire' = Tail(wire)
      /\ UNCHANGED <<sender, unacked, read, granted, grants>>
  BY <1>4 DEF ReceiveFrame
<1>6. got' = f.upto
  BY <1>1, <1>2, <1>5 DEF IInv, TypeOK
<1>7. wire' \in Seq(Interval) /\ Consecutive(wire', got', sent)
  BY <1>5, <1>6, ConsecutiveTail DEF IInv, TypeOK, InOrder, ReceiveFrame
<1>8. TypeOK'
  <2>1. rcredit' \in Nat
    BY <1>1, <1>2, <1>4, <1>5 DEF IInv, TypeOK
  <2>2. eof' \in BOOLEAN
    BY <1>5
  <2> QED
    BY <2>1, <2>2, <1>2, <1>5, <1>6, <1>7 DEF IInv, TypeOK, sender
<1>9. InOrder'
  BY <1>5, <1>7 DEF IInv, InOrder, Consecutive, sender
<1>10. CloseIsLast'
  <2>1. /\ Len(wire) \in Nat /\ Len(wire) >= 1 /\ f = wire[1]
        /\ Len(wire') = Len(wire) - 1
        /\ \A i \in 1..Len(wire') : wire'[i] = wire[i + 1]
    BY <1>5 DEF IInv, TypeOK, ReceiveFrame
  <2>2. \A i \in 1..Len(wire') : wire'[i].fin => i = Len(wire') /\ closed
    BY <2>1 DEF IInv, CloseIsLast
  <2>3. ~eof
    BY DEF IInv, CloseIsLast, ReceiveFrame
  <2>4. f.fin => closed /\ Len(wire) = 1
    BY <2>1 DEF IInv, CloseIsLast
  <2>5. f.fin => wire' = <<>>
    BY <2>1, <2>4, <1>7
  <2> QED
    BY <2>2, <2>3, <2>4, <2>5, <1>5 DEF IInv, CloseIsLast, sender
<1>11. Conservation'
  <2>1. rcredit' + got' = rcredit + got
    BY <1>1, <1>2, <1>5 DEF IInv, TypeOK
  <2>2. UNCHANGED <<sent, credit, regained, unacked, read, granted>>
    BY <1>5 DEF sender
  <2> QED
    BY <2>1, <2>2 DEF IInv, Conservation
<1>12. Ordered'
  BY <1>1, <1>2, <1>5, <1>6 DEF IInv, TypeOK, Ordered, sender
<1> QED
  BY <1>5, <1>8, <1>9, <1>10, <1>11, <1>12 DEF IInv, NoFlowControlError

\* Consuming moves bytes from unread to unacknowledged, and from there into
\* one grant once the threshold is reached.
LEMMA ConsumeIInv == IInv /\ Consume => IInv'
<1> SUFFICES ASSUME IInv, Consume PROVE IInv'
  OBVIOUS
<1>1. PICK n \in 1..(got - read) : ConsumeBytes(n)
  BY DEF Consume
<1>2. n \in Nat /\ n >= 1 /\ read + n <= got
  BY <1>1 DEF IInv, TypeOK
<1>3. /\ fault' = fault /\ read' = read + n
      /\ UNCHANGED <<sender, wire, got, eof>>
  BY <1>1 DEF ConsumeBytes
<1>4. CASE unacked + n < Threshold
  <2>1. unacked' = unacked + n /\ UNCHANGED <<rcredit, grants, granted>>
    BY <1>1, <1>4 DEF ConsumeBytes
  <2>2. InOrder' /\ CloseIsLast'
    BY <1>3, <2>1 DEF IInv, InOrder, Consecutive, CloseIsLast, sender
  <2> QED
    BY <1>2, <1>3, <1>4, <2>1, <2>2
       DEF IInv, TypeOK, Conservation, NoFlowControlError, Ordered, sender
<1>5. CASE ~(unacked + n < Threshold)
  <2> DEFINE e == WindowFrame(granted, granted + (unacked + n))
  <2>1. /\ unacked' = 0
        /\ rcredit' = rcredit + (unacked + n)
        /\ granted' = granted + (unacked + n)
        /\ grants' = Append(grants, e)
    BY <1>1, <1>5 DEF ConsumeBytes
  <2>2. e \in Interval /\ e.from = granted /\ e.upto = granted' /\ granted <= granted'
    BY <1>2, <2>1 DEF IInv, TypeOK, WindowFrame, Interval
  <2>3. granted \in Nat /\ granted' \in Nat
    BY <1>2, <2>1 DEF IInv, TypeOK
  <2> HIDE DEF e
  <2>4. grants' \in Seq(Interval) /\ Consecutive(grants', regained, granted')
    BY <2>1, <2>2, <2>3, ConsecutiveAppend DEF IInv, TypeOK, InOrder
  <2>5. InOrder'
    BY <1>3, <2>4 DEF IInv, InOrder, Consecutive, sender
  <2>6. TypeOK'
    BY <1>2, <1>3, <2>1, <2>3, <2>4 DEF IInv, TypeOK, sender
  <2>7. CloseIsLast'
    BY <1>3 DEF IInv, CloseIsLast, sender
  <2>8. Conservation'
    BY <1>2, <1>3, <2>1 DEF IInv, TypeOK, Conservation, sender
  <2> QED
    BY <1>2, <1>3, <2>5, <2>6, <2>7, <2>8 DEF IInv, NoFlowControlError, Ordered, sender
<1> QED
  BY <1>4, <1>5

\* A stuttering step changes nothing the invariant speaks of.
LEMMA StutterIInv == IInv /\ UNCHANGED vars => IInv'
BY DEF IInv, vars, TypeOK, InOrder, Consecutive, Conservation, NoFlowControlError,
       CloseIsLast, Ordered

\* Every step of the protocol preserves the invariant.
LEMMA StepIInv == IInv /\ [Next]_vars => IInv'
BY FeedIInv, PollSendIInv, TrySendDataIInv, SendCloseIInv, ReceiveGrantIInv,
   ReceiveFrameIInv, ConsumeIInv, StutterIInv DEF Next

\* The inductive invariant holds throughout.
THEOREM Inductive == Spec => []IInv
BY InitIInv, StepIInv, PTL DEF Spec

-----------------------------------------------------------------------------
(* What follows from it.                                                   *)

\* Every variable always has its type.
THEOREM TypeCorrect == Spec => []TypeOK
<1>1. IInv => TypeOK
  BY DEF IInv
<1> QED
  BY <1>1, Inductive, PTL

\* Bytes and grants cross the carrier in order and exactly once.
THEOREM DeliveredInOrder == Spec => []InOrder
<1>1. IInv => InOrder
  BY DEF IInv
<1> QED
  BY <1>1, Inductive, PTL

\* Credit is conserved, whatever the interleaving of sends, reads and grants.
THEOREM CreditConserved == Spec => []Conservation
<1>1. IInv => Conservation
  BY DEF IInv
<1> QED
  BY <1>1, Inductive, PTL

\* RecvWindow::debit and the credit cap never refuse a sender that keeps to
\* its credit.
THEOREM NeverRefused == Spec => []NoFlowControlError
<1>1. IInv => NoFlowControlError
  BY DEF IInv
<1> QED
  BY <1>1, Inductive, PTL

\* RecvWindow::consume never reaches its panic.
THEOREM ConsumeIsSafe == Spec => []ConsumeNeverPanics
<1>1. IInv => ConsumeNeverPanics
  BY DEF IInv, TypeOK, Conservation, Ordered, ConsumeNeverPanics
<1> QED
  BY <1>1, Inductive, PTL

\* End of stream is never reported early.
THEOREM EofAfterEveryByte == Spec => []EofIsComplete
<1>1. IInv => EofIsComplete
  BY DEF IInv, TypeOK, InOrder, Consecutive, CloseIsLast, EofIsComplete
<1> QED
  BY <1>1, Inductive, PTL

\* All of it together: the books of both ends of a direction stay sound.
THEOREM StreamSound == Spec => []StreamIsSound
<1>1. TypeOK /\ InOrder /\ Conservation /\ NoFlowControlError /\ ConsumeNeverPanics
        /\ EofIsComplete => StreamIsSound
  BY DEF StreamIsSound
<1> QED
  BY <1>1, TypeCorrect, DeliveredInOrder, CreditConserved, NeverRefused, ConsumeIsSafe,
     EofAfterEveryByte, PTL

\* One direction of a stream, with its credit and its two queues hidden, is
\* a byte pipe that holds at most Window bytes.
THEOREM ImplementsBytePipe == Spec => PipeSpec
<1>1. Init => Pipe!Init
  BY DEF Init, Pipe!Init
<1>2. IInv /\ IInv' /\ [Next]_vars => [Pipe!Next]_(Pipe!pipeVars)
  <2> SUFFICES ASSUME IInv, IInv', [Next]_vars PROVE [Pipe!Next]_(Pipe!pipeVars)
    OBVIOUS
  <2> USE DEF Pipe!Next, Pipe!pipeVars
  <2>1. ASSUME NEW n \in Nat, n >= 1, n <= credit, ~closed,
               sent' = sent + n, UNCHANGED <<closed, read>>
        PROVE  Pipe!Write
    <3>1. regained <= granted
      BY ConsecutiveBounds DEF IInv, TypeOK, InOrder
    <3>2. n <= Window /\ sent + n <= read + Window
      <4>1. got <= sent
        BY ConsecutiveBounds DEF IInv, TypeOK, InOrder
      <4>2. credit + sent <= Window + granted
        BY <3>1 DEF IInv, TypeOK, Conservation
      <4>3. granted <= read
        BY DEF IInv, TypeOK, Conservation
      <4>4. read <= sent
        BY <4>1 DEF IInv, TypeOK, Ordered
      <4> QED
        BY <2>1, <4>2, <4>3, <4>4 DEF IInv, TypeOK
    <3> QED
      BY <2>1, <3>2 DEF IInv, TypeOK, Pipe!Write
  <2>2. CASE FeedBody \/ Shutdown
    BY <2>2 DEF FeedBody, Shutdown, receiver
  <2>3. CASE PollSend
    <3> DEFINE n == Lesser(Lesser(fed - sent, Chunk), credit)
    <3>1. n \in Nat /\ n >= 1 /\ n <= credit
      BY <2>3 DEF IInv, TypeOK, PollSend
    <3>2. sent' = sent + n /\ UNCHANGED <<closed, read>> /\ fed > sent
      BY <2>3 DEF PollSend, receiver
    <3>3. ~closed
      BY <3>2 DEF IInv, TypeOK, CloseIsLast
    <3> HIDE DEF n
    <3> QED
      BY <2>1, <3>1, <3>2, <3>3
  <2>4. CASE TrySendData
    <3> DEFINE n == Lesser(fed - sent, Chunk)
    <3>1. n \in Nat /\ n >= 1 /\ n <= credit
      BY <2>4 DEF IInv, TypeOK, TrySendData
    <3>2. sent' = sent + n /\ UNCHANGED <<closed, read>> /\ fed > sent
      BY <2>4 DEF TrySendData, receiver
    <3>3. ~closed
      BY <3>2 DEF IInv, TypeOK, CloseIsLast
    <3> HIDE DEF n
    <3> QED
      BY <2>1, <3>1, <3>2, <3>3
  <2>5. CASE SendClose
    BY <2>5 DEF SendClose, receiver, Pipe!Close
  <2>6. CASE ReceiveGrant
    BY <2>6 DEF ReceiveGrant, receiver
  <2>7. CASE ReceiveFrame
    BY <2>7 DEF ReceiveFrame, sender
  <2>8. CASE Consume
    <3>1. PICK n \in 1..(got - read) : ConsumeBytes(n)
      BY <2>8 DEF Consume
    <3>2. got <= sent
      BY ConsecutiveBounds DEF IInv, TypeOK, InOrder
    <3>3. read' \in (read + 1)..sent
      BY <3>1, <3>2 DEF ConsumeBytes, IInv, TypeOK
    <3>4. UNCHANGED <<sent, closed>>
      BY <3>1 DEF ConsumeBytes, sender
    <3> QED
      BY <3>3, <3>4 DEF Pipe!Take
  <2>9. CASE UNCHANGED vars
    BY <2>9 DEF vars
  <2> QED
    BY <2>2, <2>3, <2>4, <2>5, <2>6, <2>7, <2>8, <2>9 DEF Next
<1> QED
  BY <1>1, <1>2, Inductive, PTL DEF Spec, PipeSpec, Pipe!Spec
=============================================================================
