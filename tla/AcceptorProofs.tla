--------------------------- MODULE AcceptorProofs ---------------------------
(***************************************************************************)
(* Proofs, for every window, threshold, chunk, stream limit and set of     *)
(* ids, of the properties of the listener's mux with a peer that may send  *)
(* any decodable frame.                                                    *)
(***************************************************************************)
EXTENDS AcceptorAnyPeer, FiniteSetTheorems, SequenceTheorems, TLAPS

\* An id that has not been opened has no history, and one that has been
\* opened is not above the largest id opened.
OpenedBelow ==
    \A s \in AllIds :
        \/ told[s] = {} /\ wrote[s] = {}
        \/ "Opened" \in told[s] /\ s # 0 /\ s <= highWater

\* The inductive invariant.
IInv ==
    /\ TypeOK /\ WindowAccounting /\ TableMatchesHistory /\ OpenedBelow
    /\ IsFiniteSet(DOMAIN streams) /\ WithinLimit

USE WindowAssumption, MaxStreamsAssumption, IdsAssumption

-----------------------------------------------------------------------------
(* The history of an output.                                               *)

\* An output without events adds nothing to what was told.
LEMMA KindsNone == Kinds(<<>>) = {}
BY DEF Kinds

\* One event adds its kind, if that kind lasts.
LEMMA KindsOne == ASSUME NEW e PROVE Kinds(<<e>>) = {e.kind} \cap Lasting
<1>1. Len(<<e>>) = 1 /\ <<e>>[1] = e /\ 1..1 = {1}
  OBVIOUS
<1> QED
  BY <1>1 DEF Kinds

Event == [kind : Lasting \cup {"Data"}, sid : Nat, len : Nat]

\* What two lists of events add together.
LEMMA KindsConcat ==
  ASSUME NEW p \in Seq(Event), NEW q \in Seq(Event)
  PROVE  Kinds(p \o q) = Kinds(p) \cup Kinds(q)
<1> DEFINE r == p \o q
<1>1. /\ Len(p) \in Nat /\ Len(q) \in Nat /\ Len(r) = Len(p) + Len(q)
      /\ \A i \in 1..Len(p) : r[i] = p[i]
      /\ \A i \in 1..Len(q) : r[Len(p) + i] = q[i]
  OBVIOUS
<1> HIDE DEF r
<1>2. \A i \in 1..Len(p) : i \in 1..Len(r)
  BY <1>1
<1>3. \A i \in 1..Len(q) : Len(p) + i \in 1..Len(r)
  BY <1>1
<1>4. \A i \in 1..Len(r) : i \in 1..Len(p) \/ i - Len(p) \in 1..Len(q)
  BY <1>1
<1>5. \A i \in 1..Len(r) : i - Len(p) \in 1..Len(q) => r[i] = q[i - Len(p)]
  <2> SUFFICES ASSUME NEW i \in 1..Len(r), i - Len(p) \in 1..Len(q)
               PROVE  r[i] = q[i - Len(p)]
    OBVIOUS
  <2>1. Len(p) + (i - Len(p)) = i
    BY <1>1
  <2> QED
    BY <1>1, <2>1
<1>6. {r[i].kind : i \in 1..Len(r)}
        = {p[i].kind : i \in 1..Len(p)} \cup {q[i].kind : i \in 1..Len(q)}
  <2> DEFINE P == {p[i].kind : i \in 1..Len(p)}
             Q == {q[i].kind : i \in 1..Len(q)}
             R == {r[i].kind : i \in 1..Len(r)}
  <2>1. P \subseteq R
    BY <1>1, <1>2
  <2>2. Q \subseteq R
    BY <1>1, <1>3
  <2>3. R \subseteq P \cup Q
    BY <1>1, <1>4, <1>5
  <2> HIDE DEF P, Q, R
  <2>4. R = P \cup Q
    BY <2>1, <2>2, <2>3
  <2> QED
    BY <2>4 DEF P, Q, R
<1>7. Kinds(r) = Kinds(p) \cup Kinds(q)
  BY <1>6 DEF Kinds
<1> QED
  BY <1>7 DEF r

\* An optional event.
LEMMA KindsOnlyIf ==
  ASSUME NEW c \in BOOLEAN, NEW e \in Event
  PROVE  /\ OnlyIf(c, e) \in Seq(Event)
         /\ Kinds(OnlyIf(c, e)) = IF c THEN {e.kind} \cap Lasting ELSE {}
<1>1. CASE c
  <2>1. OnlyIf(c, e) = <<e>>
    BY <1>1 DEF OnlyIf
  <2>2. <<e>> \in Seq(Event)
    OBVIOUS
  <2>3. Kinds(<<e>>) = {e.kind} \cap Lasting
    BY KindsOne
  <2> QED
    BY <1>1, <2>1, <2>2, <2>3
<1>2. CASE ~c
  <2>1. OnlyIf(c, e) = <<>>
    BY <1>2 DEF OnlyIf
  <2>2. <<>> \in Seq(Event)
    OBVIOUS
  <2> QED
    BY <1>2, <2>1, <2>2, KindsNone
<1> QED
  BY <1>1, <1>2

\* The events of DATA last only when they include the end of stream.
LEMMA DataKinds ==
  ASSUME NEW s \in Nat, NEW len \in Nat, NEW c \in BOOLEAN
  PROVE  Kinds(<<Data(s, len)>> \o OnlyIf(c, ReadClosed(s)))
           = IF c THEN {"ReadClosed"} ELSE {}
<1> DEFINE d == Data(s, len)
           e == ReadClosed(s)
<1>1. d \in Event /\ e \in Event /\ d.kind = "Data" /\ e.kind = "ReadClosed"
  BY DEF Data, ReadClosed, Event, Lasting
<1> HIDE DEF d, e
<1>2. <<d>> \in Seq(Event) /\ OnlyIf(c, e) \in Seq(Event)
  BY <1>1, KindsOnlyIf
<1>3. Kinds(<<d>> \o OnlyIf(c, e)) = Kinds(<<d>>) \cup Kinds(OnlyIf(c, e))
  BY <1>2, KindsConcat
<1>4. Kinds(<<d>>) = {}
  BY <1>1, KindsOne DEF Lasting
<1>5. Kinds(OnlyIf(c, e)) = IF c THEN {"ReadClosed"} ELSE {}
  BY <1>1, KindsOnlyIf DEF Lasting
<1> QED
  BY <1>3, <1>4, <1>5 DEF d, e

\* The events of OPEN.
LEMMA OpenKinds ==
  ASSUME NEW s \in Nat, NEW len \in Nat, NEW b \in BOOLEAN, NEW c \in BOOLEAN
  PROVE  Kinds(<<Opened(s)>> \o OnlyIf(b, Data(s, len)) \o OnlyIf(c, ReadClosed(s)))
           = IF c THEN {"Opened", "ReadClosed"} ELSE {"Opened"}
<1> DEFINE o == Opened(s)
           d == Data(s, len)
           e == ReadClosed(s)
<1>1. /\ o \in Event /\ d \in Event /\ e \in Event
      /\ o.kind = "Opened" /\ d.kind = "Data" /\ e.kind = "ReadClosed"
  BY DEF Opened, Data, ReadClosed, Event, Lasting
<1> HIDE DEF o, d, e
<1>2. <<o>> \in Seq(Event) /\ OnlyIf(b, d) \in Seq(Event) /\ OnlyIf(c, e) \in Seq(Event)
  BY <1>1, KindsOnlyIf
<1>3. <<o>> \o OnlyIf(b, d) \in Seq(Event)
  BY <1>2
<1>4. Kinds(<<o>> \o OnlyIf(b, d) \o OnlyIf(c, e))
        = Kinds(<<o>>) \cup Kinds(OnlyIf(b, d)) \cup Kinds(OnlyIf(c, e))
  BY <1>2, <1>3, KindsConcat
<1>5. Kinds(<<o>>) = {"Opened"}
  BY <1>1, KindsOne DEF Lasting
<1>6. Kinds(OnlyIf(b, d)) = {}
  BY <1>1, KindsOnlyIf DEF Lasting
<1>7. Kinds(OnlyIf(c, e)) = IF c THEN {"ReadClosed"} ELSE {}
  BY <1>1, KindsOnlyIf DEF Lasting
<1> QED
  BY <1>4, <1>5, <1>6, <1>7 DEF o, d, e

\* An output without frames adds nothing to what was written.
LEMMA WrittenNone == Written(<<>>) = {}
BY DEF Written

\* One frame adds its terminal flags.
LEMMA WrittenOne == ASSUME NEW f PROVE Written(<<f>>) = f.flags \cap {"CLOSE", "RESET"}
<1>1. Len(<<f>>) = 1 /\ <<f>>[1] = f /\ 1..1 = {1}
  OBVIOUS
<1> DEFINE F == {<<f>>[i].flags : i \in 1..Len(<<f>>)}
<1>2. F = {f.flags}
  BY <1>1
<1> HIDE DEF F
<1>3. UNION F = f.flags
  BY <1>2
<1> QED
  BY <1>3 DEF Written, F

-----------------------------------------------------------------------------
(* The history after a step.                                               *)

\* Record changes the history of the stream of the output only.
LEMMA HistoryStep ==
  ASSUME TypeOK, Record, NEW s \in AllIds, out'.sid = s
  PROVE  /\ told' \in [AllIds -> SUBSET Lasting]
         /\ wrote' \in [AllIds -> SUBSET {"CLOSE", "RESET"}]
         /\ told'[s] = told[s] \cup Kinds(out'.events)
         /\ wrote'[s] = IF "Opened" \in told[s] THEN wrote[s] \cup Written(out'.frames)
                        ELSE wrote[s]
         /\ \A t \in AllIds : t # s => told'[t] = told[t] /\ wrote'[t] = wrote[t]
<1>1. Kinds(out'.events) \subseteq Lasting /\ Written(out'.frames) \subseteq {"CLOSE", "RESET"}
  BY DEF Kinds, Written
<1> QED
  BY <1>1 DEF Record, TypeOK

-----------------------------------------------------------------------------
(* The ways a step can change the table.                                   *)

\* A stream is removed, and the history says why; or it was not there.
LEMMA RemoveIInv ==
  ASSUME IInv, Record, carrier = "up", carrier' = "up",
         NEW s \in AllIds, out'.sid = s, streams' = Without(s),
         highWater' \in AllIds, highWater' >= highWater,
         Known(s) => "Reset" \in Kinds(out'.events) \/ "RESET" \in Written(out'.frames),
         ~Known(s) => Kinds(out'.events) = {}
  PROVE  IInv'
<1>1. /\ DOMAIN streams' = DOMAIN streams \ {s}
      /\ \A t \in DOMAIN streams' : streams'[t] = streams[t]
  BY DEF Without
<1>2. /\ told' \in [AllIds -> SUBSET Lasting]
      /\ wrote' \in [AllIds -> SUBSET {"CLOSE", "RESET"}]
      /\ told'[s] = told[s] \cup Kinds(out'.events)
      /\ wrote'[s] = IF "Opened" \in told[s] THEN wrote[s] \cup Written(out'.frames)
                     ELSE wrote[s]
      /\ \A t \in AllIds : t # s => told'[t] = told[t] /\ wrote'[t] = wrote[t]
  BY HistoryStep DEF IInv
<1>3. TypeOK'
  <2>1. streams' \in [DOMAIN streams' -> StreamState]
    BY DEF Without, IInv, TypeOK
  <2> QED
    BY <1>1, <1>2, <2>1 DEF IInv, TypeOK
<1>4. WindowAccounting'
  BY <1>1 DEF IInv, WindowAccounting
<1>5. TableMatchesHistory'
  <2> SUFFICES ASSUME NEW t \in Ids
               PROVE  /\ Known(t)' <=> "Opened" \in told'[t] /\ ~Over(told'[t], wrote'[t])
                      /\ Known(t)' => /\ streams'[t].peerClosed <=> "ReadClosed" \in told'[t]
                                      /\ streams'[t].localClosed <=> "CLOSE" \in wrote'[t]
    BY DEF TableMatchesHistory
  <2>1. /\ Known(t) <=> "Opened" \in told[t] /\ ~Over(told[t], wrote[t])
        /\ Known(t) => /\ streams[t].peerClosed <=> "ReadClosed" \in told[t]
                       /\ streams[t].localClosed <=> "CLOSE" \in wrote[t]
    BY DEF IInv, TableMatchesHistory
  <2>2. CASE t # s
    <3>1. t \in AllIds
      BY DEF AllIds
    <3> QED
      BY <1>1, <1>2, <2>1, <2>2, <3>1 DEF Known
  <2>3. CASE t = s
    <3>1. ~Known(t)'
      BY <1>1, <2>3 DEF Known
    <3>2. ~("Opened" \in told'[t] /\ ~Over(told'[t], wrote'[t]))
      BY <1>2, <2>1, <2>3 DEF Over
    <3> QED
      BY <3>1, <3>2
  <2> QED
    BY <2>2, <2>3
<1>6. OpenedBelow'
  <2>1. Known(s) => "Opened" \in told[s]
    BY DEF IInv, TypeOK, TableMatchesHistory, Known
  <2> QED
    BY <1>2, <2>1 DEF IInv, OpenedBelow, TypeOK, AllIds
<1>7. IsFiniteSet(DOMAIN streams') /\ WithinLimit'
  <2>1. /\ IsFiniteSet(DOMAIN streams')
        /\ Cardinality(DOMAIN streams') <= Cardinality(DOMAIN streams)
    BY <1>1, FS_Subset DEF IInv
  <2>2. Cardinality(DOMAIN streams) \in Nat /\ Cardinality(DOMAIN streams') \in Nat
    BY <2>1, FS_CardinalityType DEF IInv
  <2> QED
    BY <2>1, <2>2 DEF IInv, WithinLimit
<1> QED
  BY <1>3, <1>4, <1>5, <1>6, <1>7 DEF IInv

\* A live stream changes, and is removed when both sides have closed.
LEMMA UpdateIInv ==
  ASSUME IInv, Record, carrier = "up", carrier' = "up", highWater' = highWater,
         NEW s \in Ids, out'.sid = s, Known(s),
         NEW st \in StreamState, streams' = Settle(s, st),
         st.window.credit + st.window.unacked + st.held = Window,
         Kinds(out'.events) \subseteq {"ReadClosed"}, Written(out'.frames) \subseteq {"CLOSE"},
         st.peerClosed <=> streams[s].peerClosed \/ "ReadClosed" \in Kinds(out'.events),
         st.localClosed <=> streams[s].localClosed \/ "CLOSE" \in Written(out'.frames)
  PROVE  IInv'
<1>1. /\ DOMAIN streams' = IF st.peerClosed /\ st.localClosed THEN DOMAIN streams \ {s}
                           ELSE DOMAIN streams
      /\ \A t \in DOMAIN streams' : streams'[t] = IF t = s THEN st ELSE streams[t]
  BY DEF Settle, With, Without, Known
<1>2. /\ told' \in [AllIds -> SUBSET Lasting]
      /\ wrote' \in [AllIds -> SUBSET {"CLOSE", "RESET"}]
      /\ told'[s] = told[s] \cup Kinds(out'.events)
      /\ wrote'[s] = IF "Opened" \in told[s] THEN wrote[s] \cup Written(out'.frames)
                     ELSE wrote[s]
      /\ \A t \in AllIds : t # s => told'[t] = told[t] /\ wrote'[t] = wrote[t]
  BY HistoryStep DEF IInv, AllIds
<1>3. TypeOK'
  <2>1. streams' \in [DOMAIN streams' -> StreamState]
    <3>1. CASE st.peerClosed /\ st.localClosed
      BY <3>1 DEF Settle, Without, IInv, TypeOK
    <3>2. CASE ~(st.peerClosed /\ st.localClosed)
      BY <3>2 DEF Settle, With, IInv, TypeOK
    <3> QED
      BY <3>1, <3>2
  <2> QED
    BY <1>1, <1>2, <2>1 DEF IInv, TypeOK
<1>4. WindowAccounting'
  BY <1>1 DEF IInv, WindowAccounting
<1>5. TableMatchesHistory'
  <2> SUFFICES ASSUME NEW t \in Ids
               PROVE  /\ Known(t)' <=> "Opened" \in told'[t] /\ ~Over(told'[t], wrote'[t])
                      /\ Known(t)' => /\ streams'[t].peerClosed <=> "ReadClosed" \in told'[t]
                                      /\ streams'[t].localClosed <=> "CLOSE" \in wrote'[t]
    BY DEF TableMatchesHistory
  <2>1. /\ Known(t) <=> "Opened" \in told[t] /\ ~Over(told[t], wrote[t])
        /\ Known(t) => /\ streams[t].peerClosed <=> "ReadClosed" \in told[t]
                       /\ streams[t].localClosed <=> "CLOSE" \in wrote[t]
    BY DEF IInv, TableMatchesHistory
  <2>2. CASE t # s
    <3>1. t \in AllIds
      BY DEF AllIds
    <3> QED
      BY <1>1, <1>2, <2>1, <2>2, <3>1 DEF Known
  <2>3. CASE t = s
    <3>1. "Opened" \in told'[s] /\ "Reset" \notin told'[s] /\ "RESET" \notin wrote'[s]
      BY <1>2, <2>1, <2>3 DEF Over
    <3>2. /\ st.peerClosed <=> "ReadClosed" \in told'[s]
          /\ st.localClosed <=> "CLOSE" \in wrote'[s]
      BY <1>2, <2>1, <2>3
    <3>3. Known(s)' <=> ~(st.peerClosed /\ st.localClosed)
      BY <1>1 DEF Known
    <3>4. Known(s)' => streams'[s] = st
      BY <1>1 DEF Known
    <3> QED
      BY <2>3, <3>1, <3>2, <3>3, <3>4 DEF Over
  <2> QED
    BY <2>2, <2>3
<1>6. OpenedBelow'
  <2>1. "Opened" \in told[s]
    BY DEF IInv, TableMatchesHistory
  <2> QED
    BY <1>2, <2>1 DEF IInv, OpenedBelow, TypeOK, AllIds
<1>7. IsFiniteSet(DOMAIN streams') /\ WithinLimit'
  <2>1. /\ IsFiniteSet(DOMAIN streams')
        /\ Cardinality(DOMAIN streams') <= Cardinality(DOMAIN streams)
    BY <1>1, FS_Subset DEF IInv
  <2>2. Cardinality(DOMAIN streams) \in Nat /\ Cardinality(DOMAIN streams') \in Nat
    BY <2>1, FS_CardinalityType DEF IInv
  <2> QED
    BY <2>1, <2>2 DEF IInv, WithinLimit
<1> QED
  BY <1>3, <1>4, <1>5, <1>6, <1>7 DEF IInv

\* A new id is opened.
LEMMA OpenIInv ==
  ASSUME IInv, Record, carrier = "up", carrier' = "up",
         NEW s \in Ids, out'.sid = s, s > highWater, highWater' = s, ~AtLimit,
         NEW st \in StreamState, streams' = With(s, st), ~st.localClosed,
         st.window.credit + st.window.unacked + st.held = Window,
         Kinds(out'.events) = IF st.peerClosed THEN {"Opened", "ReadClosed"} ELSE {"Opened"}
  PROVE  IInv'
<1>1. /\ DOMAIN streams' = DOMAIN streams \cup {s}
      /\ \A t \in DOMAIN streams' : streams'[t] = IF t = s THEN st ELSE streams[t]
  BY DEF With
<1>2. /\ told' \in [AllIds -> SUBSET Lasting]
      /\ wrote' \in [AllIds -> SUBSET {"CLOSE", "RESET"}]
      /\ told'[s] = told[s] \cup Kinds(out'.events)
      /\ wrote'[s] = IF "Opened" \in told[s] THEN wrote[s] \cup Written(out'.frames)
                     ELSE wrote[s]
      /\ \A t \in AllIds : t # s => told'[t] = told[t] /\ wrote'[t] = wrote[t]
  BY HistoryStep DEF IInv, AllIds
<1>3. told[s] = {} /\ wrote[s] = {}
  BY DEF IInv, TypeOK, OpenedBelow, AllIds
<1>4. TypeOK'
  <2>1. streams' \in [DOMAIN streams' -> StreamState]
    BY DEF With, IInv, TypeOK
  <2> QED
    BY <1>1, <1>2, <2>1 DEF IInv, TypeOK, AllIds
<1>5. WindowAccounting'
  BY <1>1 DEF IInv, WindowAccounting
<1>6. TableMatchesHistory'
  <2> SUFFICES ASSUME NEW t \in Ids
               PROVE  /\ Known(t)' <=> "Opened" \in told'[t] /\ ~Over(told'[t], wrote'[t])
                      /\ Known(t)' => /\ streams'[t].peerClosed <=> "ReadClosed" \in told'[t]
                                      /\ streams'[t].localClosed <=> "CLOSE" \in wrote'[t]
    BY DEF TableMatchesHistory
  <2>1. /\ Known(t) <=> "Opened" \in told[t] /\ ~Over(told[t], wrote[t])
        /\ Known(t) => /\ streams[t].peerClosed <=> "ReadClosed" \in told[t]
                       /\ streams[t].localClosed <=> "CLOSE" \in wrote[t]
    BY DEF IInv, TableMatchesHistory
  <2>2. CASE t # s
    <3>1. t \in AllIds
      BY DEF AllIds
    <3> QED
      BY <1>1, <1>2, <2>1, <2>2, <3>1 DEF Known
  <2>3. CASE t = s
    <3>1. Known(s)' /\ streams'[s] = st
      BY <1>1 DEF Known
    <3>2. wrote'[s] = {} /\ told'[s] = Kinds(out'.events)
      BY <1>2, <1>3
    <3>3. "Opened" \in told'[s] /\ ~Over(told'[s], wrote'[s])
      BY <3>2 DEF Over
    <3>4. /\ st.peerClosed <=> "ReadClosed" \in told'[s]
          /\ st.localClosed <=> "CLOSE" \in wrote'[s]
      BY <3>2
    <3> QED
      BY <2>3, <3>1, <3>3, <3>4
  <2> QED
    BY <2>2, <2>3
<1>7. OpenedBelow'
  <2>1. "Opened" \in told'[s] /\ s # 0
    BY <1>2
  <2>2. ASSUME NEW t \in AllIds, t # s
        PROVE  \/ told'[t] = {} /\ wrote'[t] = {}
               \/ "Opened" \in told'[t] /\ t # 0 /\ t <= s
    <3>1. told'[t] = told[t] /\ wrote'[t] = wrote[t]
      BY <1>2, <2>2
    <3>2. highWater \in Nat /\ t \in Nat /\ highWater < s
      BY DEF IInv, TypeOK, AllIds
    <3> QED
      BY <3>1, <3>2 DEF IInv, OpenedBelow
  <2> QED
    BY <2>1, <2>2 DEF OpenedBelow
<1>8. IsFiniteSet(DOMAIN streams') /\ WithinLimit'
  <2>1. Cardinality(DOMAIN streams) \in Nat
    BY FS_CardinalityType DEF IInv
  <2>2. /\ IsFiniteSet(DOMAIN streams')
        /\ Cardinality(DOMAIN streams') <= Cardinality(DOMAIN streams) + 1
    BY <1>1, <2>1, FS_AddElement DEF IInv
  <2>3. Cardinality(DOMAIN streams') \in Nat
    BY <2>2, FS_CardinalityType
  <2> QED
    BY <2>1, <2>2, <2>3 DEF AtLimit, WithinLimit
<1> QED
  BY <1>4, <1>5, <1>6, <1>7, <1>8 DEF IInv

\* The table stays as it is, and nothing lasting is said of any stream.
LEMMA KeepIInv ==
  ASSUME IInv, Record, carrier = "up", carrier' \in {"up", "failed"},
         NEW s \in AllIds, out'.sid = s, UNCHANGED <<streams, highWater>>,
         Kinds(out'.events) = {}, Written(out'.frames) = {}
  PROVE  IInv'
<1>1. /\ told' \in [AllIds -> SUBSET Lasting]
      /\ wrote' \in [AllIds -> SUBSET {"CLOSE", "RESET"}]
      /\ told'[s] = told[s] \cup Kinds(out'.events)
      /\ wrote'[s] = IF "Opened" \in told[s] THEN wrote[s] \cup Written(out'.frames)
                     ELSE wrote[s]
      /\ \A t \in AllIds : t # s => told'[t] = told[t] /\ wrote'[t] = wrote[t]
  BY HistoryStep DEF IInv, AllIds
<1>2. told' = told /\ wrote' = wrote
  BY <1>1 DEF IInv, TypeOK
<1>3. TypeOK'
  BY <1>2 DEF IInv, TypeOK
<1>4. TableMatchesHistory'
  BY <1>2 DEF IInv, TableMatchesHistory, Known
<1> QED
  BY <1>2, <1>3, <1>4 DEF IInv, WindowAccounting, OpenedBelow, WithinLimit

\* The carrier ends, and the table with it.
LEMMA EndIInv == ASSUME IInv, Record, FinishEof PROVE IInv'
<1>1. out'.sid = 0 /\ out'.events = <<>> /\ out'.frames = <<>>
  BY DEF FinishEof, Output
<1>2. told' = told /\ wrote' = wrote
  <2>1. /\ told' \in [AllIds -> SUBSET Lasting]
        /\ wrote' \in [AllIds -> SUBSET {"CLOSE", "RESET"}]
        /\ told'[0] = told[0] /\ wrote'[0] = wrote[0]
        /\ \A t \in AllIds : t # 0 => told'[t] = told[t] /\ wrote'[t] = wrote[t]
    <3>1. 0 \in AllIds /\ TypeOK
      BY DEF AllIds, IInv
    <3>2. Kinds(out'.events) = {} /\ Written(out'.frames) = {}
      BY <1>1, KindsNone, WrittenNone
    <3>3. /\ told' \in [AllIds -> SUBSET Lasting]
          /\ wrote' \in [AllIds -> SUBSET {"CLOSE", "RESET"}]
          /\ told'[0] = told[0] \cup Kinds(out'.events)
          /\ wrote'[0] = IF "Opened" \in told[0] THEN wrote[0] \cup Written(out'.frames)
                         ELSE wrote[0]
          /\ \A t \in AllIds : t # 0 => told'[t] = told[t] /\ wrote'[t] = wrote[t]
      BY <1>1, <3>1, HistoryStep
    <3> QED
      BY <3>2, <3>3
  <2> QED
    BY <2>1 DEF IInv, TypeOK
<1>3. DOMAIN streams' = {} /\ carrier' = "ended" /\ highWater' = highWater
  BY DEF FinishEof
<1>4. TypeOK'
  BY <1>2, <1>3 DEF FinishEof, IInv, TypeOK
<1>5. IsFiniteSet(DOMAIN streams') /\ WithinLimit'
  BY <1>3, FS_EmptySet DEF WithinLimit
<1> QED
  BY <1>2, <1>3, <1>4, <1>5 DEF IInv, WindowAccounting, TableMatchesHistory, OpenedBelow

-----------------------------------------------------------------------------
(* The handlers.                                                           *)

\* Stream ids are numbers.
LEMMA IdsAreNumbers == AllIds \subseteq Nat
BY DEF AllIds

\* The state of a stream once n bytes are debited, or consumed.
Debited(st, n, c) == [st EXCEPT !.window = Debit(@, n), !.held = @ + n, !.peerClosed = c]
Consumed(st, n)   == [st EXCEPT !.window = ConsumeBytes(@, n), !.held = @ - n]

\* Debiting a frame keeps the sum: what leaves the credit is held.
LEMMA DebitedStream ==
  ASSUME NEW st \in StreamState, NEW n \in Nat, n <= st.window.credit, NEW c \in BOOLEAN,
         st.window.credit + st.window.unacked + st.held = Window,
         NEW new, new = Debited(st, n, c)
  PROVE  /\ new \in StreamState /\ new.peerClosed = c /\ new.localClosed = st.localClosed
         /\ new.window.credit + new.window.unacked + new.held = Window
<1>1. /\ st.window.credit \in 0..Window /\ st.window.unacked \in 0..(Threshold - 1)
      /\ st.held \in 0..Window
  BY DEF StreamState
<1> DEFINE w == [st.window EXCEPT !.credit = @ - n]
<1>2. w \in [credit : 0..Window, unacked : 0..(Threshold - 1)]
      /\ w.credit = st.window.credit - n /\ w.unacked = st.window.unacked
  BY <1>1 DEF StreamState
<1>3. st.held + n \in 0..Window
  BY <1>1
<1>4. new = [st EXCEPT !.window = w, !.held = @ + n, !.peerClosed = c]
  BY DEF Debited, Debit
<1> HIDE DEF w
<1>5. new \in StreamState
  BY <1>2, <1>3, <1>4 DEF StreamState
<1>6. new.window = w /\ new.held = st.held + n /\ new.peerClosed = c
      /\ new.localClosed = st.localClosed
  BY <1>4 DEF StreamState
<1> QED
  BY <1>1, <1>2, <1>5, <1>6

\* Send credit that fits leaves the receive side alone.
LEMMA CreditedStream ==
  ASSUME NEW st \in StreamState, NEW n \in Nat, st.send + n <= MaxCredit,
         NEW new, new = [st EXCEPT !.send = @ + n]
  PROVE  /\ new \in StreamState /\ new.window = st.window /\ new.held = st.held
         /\ new.peerClosed = st.peerClosed /\ new.localClosed = st.localClosed
<1>1. st.send \in 0..MaxCredit
  BY DEF StreamState
<1>2. st.send + n \in 0..MaxCredit
  BY <1>1
<1> QED
  BY <1>2 DEF StreamState

\* Consumed bytes leave those held and return to the credit, at once or later.
LEMMA ConsumedStream ==
  ASSUME NEW st \in StreamState, NEW n \in Nat, n <= st.held,
         st.window.credit + st.window.unacked + st.held = Window,
         NEW new, new = Consumed(st, n)
  PROVE  /\ new \in StreamState
         /\ new.peerClosed = st.peerClosed /\ new.localClosed = st.localClosed
         /\ new.window.credit + new.window.unacked + new.held = Window
<1>1. /\ st.window.credit \in 0..Window /\ st.window.unacked \in 0..(Threshold - 1)
      /\ st.held \in 0..Window
      /\ st.window \in [credit : 0..Window, unacked : 0..(Threshold - 1)]
  BY DEF StreamState
<1> DEFINE w == ConsumeBytes(st.window, n)
<1>2. /\ w \in [credit : 0..Window, unacked : 0..(Threshold - 1)]
      /\ w.credit + w.unacked = st.window.credit + st.window.unacked + n
  <2>1. CASE GrantDue(st.window, n)
    BY <1>1, <2>1 DEF ConsumeBytes, Grant
  <2>2. CASE ~GrantDue(st.window, n)
    BY <1>1, <2>2 DEF ConsumeBytes, GrantDue
  <2> QED
    BY <2>1, <2>2
<1>3. st.held - n \in 0..Window
  BY <1>1
<1>4. new = [st EXCEPT !.window = w, !.held = @ - n]
  BY DEF Consumed
<1> HIDE DEF w
<1>5. new \in StreamState
  BY <1>2, <1>3, <1>4 DEF StreamState
<1>6. new.window = w /\ new.held = st.held - n /\ new.peerClosed = st.peerClosed
      /\ new.localClosed = st.localClosed
  BY <1>4 DEF StreamState
<1>7. w.credit \in Nat /\ w.unacked \in Nat
  BY <1>2
<1> QED
  BY <1>1, <1>2, <1>5, <1>6, <1>7
\* A frame of the peer is for a stream of the peer or for stream zero.
LEMMA FrameTypes ==
  ASSUME NEW f \in PeerFrames
  PROVE  f.sid \in AllIds /\ f.len \in Nat /\ f.credit \in Nat
<1>1. CASE f \in PayloadFrames
  BY <1>1 DEF PayloadFrames, Frame, AllIds
<1>2. CASE f \in WindowFrames
  <2>1. PICK s \in Ids, c \in Credits : f = WindowFrame(s, c)
    BY <1>2 DEF WindowFrames
  <2>2. f.sid = s /\ f.len = 0 /\ f.credit = c
    BY <2>1 DEF WindowFrame, Frame
  <2> QED
    BY <2>2 DEF AllIds
<1>3. CASE f \in ShortFrames \cup IllegalFrames
  BY <1>3 DEF ShortFrames, IllegalFrames, Frame, AllIds
<1>4. CASE f \in BadFrames
  <2>1. PICK s \in AllIds, flags \in {{"RESET"}, {"WINDOW"}, {"PING"}, {"PONG"}} :
            f = [Frame(s, flags, 0) EXCEPT !.bad = TRUE]
    BY <1>4 DEF BadFrames
  <2>2. f.sid = s /\ f.len = 0 /\ f.credit = 0
    BY <2>1 DEF Frame
  <2> QED
    BY <2>2
<1> QED
  BY <1>1, <1>2, <1>3, <1>4 DEF PeerFrames

\* Refusing a frame removes its stream and says so.
LEMMA RefuseIInv ==
  ASSUME IInv, Record, carrier = "up", carrier' = "up",
         NEW f \in PeerFrames, NEW reason, Refuse(f, reason),
         highWater' \in AllIds, highWater' >= highWater
  PROVE  IInv'
<1> DEFINE s == f.sid
           e == ResetEvent(s)
           r == ResetFrame(s, reason)
<1>1. s \in AllIds /\ s \in Nat
  <2>1. s \in AllIds
    BY FrameTypes
  <2> HIDE DEF s
  <2> QED
    BY <2>1, IdsAreNumbers
<1>2. /\ out'.sid = s /\ streams' = Without(s)
      /\ out'.frames = <<r>> /\ out'.events = OnlyIf(Known(s), e)
  BY DEF Refuse, Output
<1>3. e \in Event /\ e.kind = "Reset" /\ r.flags = {"RESET"}
  BY <1>1 DEF ResetEvent, Event, Lasting, ResetFrame, Frame
<1> HIDE DEF s, e, r
<1>4. "RESET" \in Written(out'.frames)
  BY <1>2, <1>3, WrittenOne
<1>5. ~Known(s) => Kinds(out'.events) = {}
  BY <1>2, KindsNone DEF OnlyIf
<1> QED
  BY <1>1, <1>2, <1>4, <1>5, RemoveIInv

\* Stream zero, and frames with illegal flags.
LEMMA ControlIInv ==
  ASSUME IInv, Record, carrier = "up", NEW f \in PeerFrames, HandleControl(f)
  PROVE  IInv'
<1>1. /\ UNCHANGED <<streams, highWater>> /\ carrier' \in {"up", "failed"}
      /\ out'.sid = 0 /\ out'.events = <<>>
      /\ out'.frames = <<>> \/ out'.frames = <<PongFrame>>
  BY DEF HandleControl, Fatal, Output, acceptorState
<1>2. PongFrame.flags = {"PONG"}
  BY DEF PongFrame, Frame
<1>3. Written(out'.frames) = {}
  BY <1>1, <1>2, WrittenNone, WrittenOne
<1>4. Kinds(out'.events) = {}
  BY <1>1, KindsNone
<1> QED
  BY <1>1, <1>3, <1>4, KeepIInv DEF AllIds

\* What the invariant says of one live stream.
LEMMA LiveStream ==
  ASSUME IInv, carrier = "up", NEW s, Known(s)
  PROVE  /\ s \in Ids /\ s \in Nat /\ streams[s] \in StreamState
         /\ streams[s].window.credit + streams[s].window.unacked + streams[s].held = Window
         /\ ~(streams[s].peerClosed /\ streams[s].localClosed)
<1>1. s \in Ids /\ streams[s] \in StreamState
  BY DEF IInv, TypeOK, Known
<1>2. ~(streams[s].peerClosed /\ streams[s].localClosed)
  BY <1>1 DEF IInv, TableMatchesHistory, Over
<1> QED
  BY <1>1, <1>2 DEF IInv, WindowAccounting, Known

\* An OPEN is refused, or its id becomes live.
LEMMA HandleOpenIInv ==
  ASSUME IInv, Record, carrier = "up", NEW f \in PeerFrames, HandleOpen(f)
  PROVE  IInv'
<1>1. f.sid \in Ids /\ f.sid \in Nat /\ f.len \in Nat /\ highWater \in AllIds /\ highWater \in Nat
  BY FrameTypes DEF HandleOpen, IInv, TypeOK, AllIds
<1>2. carrier' = "up" /\ highWater' = IF ValidId(f.sid) THEN f.sid ELSE highWater
  BY DEF HandleOpen
<1>3. highWater' \in AllIds /\ highWater' >= highWater
  BY <1>1, <1>2 DEF ValidId, AllIds
<1>4. CASE \E reason \in Reasons : Refuse(f, reason)
  BY <1>2, <1>3, <1>4, RefuseIInv
<1>5. CASE /\ ValidId(f.sid) /\ ~AtLimit /\ CanDebit(FreshWindow(Window), f.len)
           /\ streams' = With(f.sid, OpenedStream(f))
           /\ Output(f.sid, <<>>,
                  <<Opened(f.sid)>>
                  \o OnlyIf(f.len > 0 \/ "DATA" \in f.flags, Data(f.sid, f.len))
                  \o OnlyIf("CLOSE" \in f.flags, ReadClosed(f.sid)))
  <2> DEFINE st == OpenedStream(f)
             c  == "CLOSE" \in f.flags
             b  == f.len > 0 \/ "DATA" \in f.flags
  <2>1. f.len <= Window
    BY <1>5 DEF CanDebit, FreshWindow
  <2>2. /\ st \in StreamState /\ ~st.localClosed /\ st.peerClosed = c
        /\ st.window.credit + st.window.unacked + st.held = Window
    BY <1>1, <2>1 DEF OpenedStream, StreamState, Debit, FreshWindow
  <2>3. out'.sid = f.sid /\ streams' = With(f.sid, st)
    BY <1>5 DEF Output
  <2>4. Kinds(out'.events) = IF c THEN {"Opened", "ReadClosed"} ELSE {"Opened"}
    <3>1. out'.events = <<Opened(f.sid)>> \o OnlyIf(b, Data(f.sid, f.len))
                        \o OnlyIf(c, ReadClosed(f.sid))
      BY <1>5 DEF Output
    <3>2. b \in BOOLEAN /\ c \in BOOLEAN
      OBVIOUS
    <3> HIDE DEF b, c
    <3> QED
      BY <1>1, <3>1, <3>2, OpenKinds
  <2>5. highWater' = f.sid /\ f.sid > highWater /\ ~AtLimit
    BY <1>1, <1>2, <1>5 DEF ValidId
  <2> HIDE DEF st
  <2> QED
    BY <1>1, <1>2, <2>2, <2>3, <2>4, <2>5, OpenIInv
<1> QED
  BY <1>4, <1>5 DEF HandleOpen, Reasons

\* A frame for a stream that is not live.
LEMMA HandleUnknownIInv ==
  ASSUME IInv, Record, carrier = "up", NEW f \in PeerFrames, HandleUnknown(f)
  PROVE  IInv'
<1>1. carrier' = "up" /\ highWater' = highWater /\ highWater \in AllIds /\ highWater' >= highWater
  BY DEF HandleUnknown, IInv, TypeOK, AllIds
<1>2. CASE Refuse(f, "PROTOCOL_ERROR")
  BY <1>1, <1>2, RefuseIInv
<1>3. CASE UNCHANGED streams /\ Output(f.sid, <<>>, <<>>)
  <2>1. out'.sid = f.sid /\ out'.events = <<>> /\ out'.frames = <<>>
    BY <1>3 DEF Output
  <2>2. Kinds(out'.events) = {} /\ Written(out'.frames) = {}
    BY <2>1, KindsNone, WrittenNone
  <2> QED
    BY <1>1, <1>3, <2>1, <2>2, FrameTypes, KeepIInv
<1> QED
  BY <1>2, <1>3 DEF HandleUnknown

\* DATA is refused, or held until it is consumed.
LEMMA HandleDataIInv ==
  ASSUME IInv, Record, carrier = "up", NEW f \in PeerFrames, HandleData(f)
  PROVE  IInv'
<1> DEFINE s  == f.sid
           st == streams[s]
           c  == "CLOSE" \in f.flags
<1>1. carrier' = "up" /\ highWater' = highWater /\ highWater \in AllIds /\ highWater' >= highWater
  BY DEF HandleData, IInv, TypeOK, AllIds
<1>2. f.len \in Nat /\ Known(s)
  BY FrameTypes DEF HandleData
<1>3. CASE \E reason \in Reasons : Refuse(f, reason)
  BY <1>1, <1>3, RefuseIInv
<1>4. CASE /\ MayReceive(s) /\ CanDebit(st.window, f.len)
           /\ streams' = Settle(s, [st EXCEPT !.window = Debit(@, f.len),
                                              !.held = @ + f.len,
                                              !.peerClosed = c])
           /\ Output(s, <<>>, <<Data(s, f.len)>> \o OnlyIf(c, ReadClosed(s)))
  <2> DEFINE new == [st EXCEPT !.window = Debit(@, f.len), !.held = @ + f.len, !.peerClosed = c]
  <2>1. /\ s \in Ids /\ s \in Nat /\ st \in StreamState
        /\ st.window.credit + st.window.unacked + st.held = Window
    BY <1>2, LiveStream
  <2>2. f.len <= st.window.credit /\ ~st.peerClosed
    BY <1>4 DEF CanDebit, MayReceive
  <2>3. /\ new \in StreamState /\ new.peerClosed = c /\ new.localClosed = st.localClosed
        /\ new.window.credit + new.window.unacked + new.held = Window
    <3>1. c \in BOOLEAN
      OBVIOUS
    <3>2. new = Debited(st, f.len, c)
      BY DEF Debited
    <3> HIDE DEF c, st, new
    <3> QED
      BY <1>2, <2>1, <2>2, <3>1, <3>2, DebitedStream
  <2>4. out'.sid = s /\ out'.frames = <<>> /\ streams' = Settle(s, new)
    BY <1>4 DEF Output
  <2>5. Kinds(out'.events) = IF c THEN {"ReadClosed"} ELSE {}
    <3>1. out'.events = <<Data(s, f.len)>> \o OnlyIf(c, ReadClosed(s))
      BY <1>4 DEF Output
    <3>2. c \in BOOLEAN
      OBVIOUS
    <3> HIDE DEF c, s
    <3> QED
      BY <1>2, <2>1, <3>1, <3>2, DataKinds
  <2>6. Written(out'.frames) = {}
    BY <2>4, WrittenNone
  <2>7. /\ Kinds(out'.events) \subseteq {"ReadClosed"} /\ Written(out'.frames) \subseteq {"CLOSE"}
        /\ new.peerClosed <=> st.peerClosed \/ "ReadClosed" \in Kinds(out'.events)
        /\ new.localClosed <=> st.localClosed \/ "CLOSE" \in Written(out'.frames)
    BY <2>2, <2>3, <2>5, <2>6
  <2> HIDE DEF new
  <2> QED
    BY <1>1, <1>2, <2>1, <2>3, <2>4, <2>7, UpdateIInv
<1> QED
  BY <1>3, <1>4 DEF HandleData, Reasons

\* A CLOSE without payload closes the peer's side.
LEMMA HandleCloseIInv ==
  ASSUME IInv, Record, carrier = "up", NEW f \in PeerFrames, HandleClose(f)
  PROVE  IInv'
<1> DEFINE s   == f.sid
           st  == streams[s]
           new == [st EXCEPT !.peerClosed = TRUE]
           e   == ReadClosed(s)
<1>1. /\ carrier' = "up" /\ highWater' = highWater /\ Known(s) /\ streams' = Settle(s, new)
      /\ out'.sid = s /\ out'.frames = <<>> /\ out'.events = <<e>>
  BY DEF HandleClose, Output
<1>2. /\ s \in Ids /\ st \in StreamState
      /\ st.window.credit + st.window.unacked + st.held = Window
  BY <1>1, LiveStream
<1>3. /\ new \in StreamState /\ new.peerClosed /\ new.localClosed = st.localClosed
      /\ new.window.credit + new.window.unacked + new.held = Window
  BY <1>2 DEF StreamState
<1>4. e.kind = "ReadClosed"
  BY DEF ReadClosed
<1>5. Kinds(out'.events) = {"ReadClosed"} /\ Written(out'.frames) = {}
  <2> HIDE DEF e
  <2> QED
    BY <1>1, <1>4, KindsOne, WrittenNone DEF Lasting
<1>6. /\ Kinds(out'.events) \subseteq {"ReadClosed"} /\ Written(out'.frames) \subseteq {"CLOSE"}
      /\ new.peerClosed <=> st.peerClosed \/ "ReadClosed" \in Kinds(out'.events)
      /\ new.localClosed <=> st.localClosed \/ "CLOSE" \in Written(out'.frames)
  BY <1>3, <1>5
<1> HIDE DEF new, e
<1> QED
  BY <1>1, <1>2, <1>3, <1>6, UpdateIInv

\* A RESET removes the stream.
LEMMA HandleResetIInv ==
  ASSUME IInv, Record, carrier = "up", NEW f \in PeerFrames, HandleReset(f)
  PROVE  IInv'
<1> DEFINE s == f.sid
           e == ResetEvent(s)
<1>1. carrier' = "up" /\ highWater' = highWater /\ highWater \in AllIds /\ highWater' >= highWater
  BY DEF HandleReset, IInv, TypeOK, AllIds
<1>2. CASE Refuse(f, "PROTOCOL_ERROR")
  BY <1>1, <1>2, RefuseIInv
<1>3. CASE streams' = Without(s) /\ Output(s, <<>>, <<e>>)
  <2>1. out'.sid = s /\ out'.events = <<e>> /\ s \in AllIds /\ Known(s)
    BY <1>3, FrameTypes DEF Output, HandleReset
  <2>2. e.kind = "Reset"
    BY DEF ResetEvent
  <2>3. "Reset" \in Kinds(out'.events)
    <3> HIDE DEF e
    <3> QED
      BY <2>1, <2>2, KindsOne DEF Lasting
  <2> QED
    BY <1>1, <1>3, <2>1, <2>3, RemoveIInv
<1> QED
  BY <1>2, <1>3 DEF HandleReset

\* What a change of a live stream that neither closes a side nor tells the
\* application anything needs: the accounting of the new state.
LEMMA AdjustIInv ==
  ASSUME IInv, Record, carrier = "up", carrier' = "up", highWater' = highWater,
         NEW s \in Ids, out'.sid = s, Known(s),
         NEW st \in StreamState, streams' = [streams EXCEPT ![s] = st],
         st.window.credit + st.window.unacked + st.held = Window,
         st.peerClosed = streams[s].peerClosed, st.localClosed = streams[s].localClosed,
         Kinds(out'.events) = {}, Written(out'.frames) = {}
  PROVE  IInv'
<1>1. ~(st.peerClosed /\ st.localClosed)
  BY LiveStream
<1>2. With(s, st) = [streams EXCEPT ![s] = st]
  <2>1. DOMAIN With(s, st) = DOMAIN streams
    BY DEF With, Known
  <2>2. \A t \in DOMAIN streams : With(s, st)[t] = IF t = s THEN st ELSE streams[t]
    BY DEF With, Known
  <2> QED
    BY <2>1, <2>2 DEF With, Known
<1>3. streams' = Settle(s, st)
  BY <1>1, <1>2 DEF Settle
<1> QED
  BY <1>3, UpdateIInv

\* WINDOW adds credit, or is refused.
LEMMA HandleWindowIInv ==
  ASSUME IInv, Record, carrier = "up", NEW f \in PeerFrames, HandleWindow(f)
  PROVE  IInv'
<1> DEFINE s == f.sid
           new == [streams[s] EXCEPT !.send = @ + f.credit]
<1>1. carrier' = "up" /\ highWater' = highWater /\ highWater \in AllIds /\ highWater' >= highWater
  BY DEF HandleWindow, IInv, TypeOK, AllIds
<1>2. CASE \E reason \in Reasons : Refuse(f, reason)
  BY <1>1, <1>2, RefuseIInv
<1>3. CASE /\ CreditFits(s, f.credit)
           /\ streams' = [streams EXCEPT ![s].send = @ + f.credit]
           /\ Output(s, <<>>, <<>>)
  <2>1. Known(s) /\ out'.sid = s /\ out'.events = <<>> /\ out'.frames = <<>>
    BY <1>3 DEF HandleWindow, Output
  <2>2. /\ s \in Ids /\ streams[s] \in StreamState /\ f.credit \in Nat
        /\ streams[s].window.credit + streams[s].window.unacked + streams[s].held = Window
    BY <2>1, LiveStream, FrameTypes
  <2>3. /\ new \in StreamState /\ streams' = [streams EXCEPT ![s] = new]
        /\ new.peerClosed = streams[s].peerClosed /\ new.localClosed = streams[s].localClosed
        /\ new.window.credit + new.window.unacked + new.held = Window
    <3>1. /\ new \in StreamState
          /\ new.peerClosed = streams[s].peerClosed /\ new.localClosed = streams[s].localClosed
          /\ new.window.credit + new.window.unacked + new.held = Window
      BY <1>3, <2>2, CreditedStream DEF CreditFits
    <3>2. streams' = [streams EXCEPT ![s] = new]
      BY <1>3, <2>1 DEF Known
    <3> QED
      BY <3>1, <3>2
  <2>4. Kinds(out'.events) = {} /\ Written(out'.frames) = {}
    BY <2>1, KindsNone, WrittenNone
  <2> HIDE DEF new
  <2> QED
    BY <1>1, <2>1, <2>2, <2>3, <2>4, AdjustIInv
<1> QED
  BY <1>2, <1>3 DEF HandleWindow, Reasons

\* Every frame the peer can send leaves the invariant true.
LEMMA HandleFrameIInv ==
  ASSUME IInv, Record, NEW f \in PeerFrames, HandleFrame(f)
  PROVE  IInv'
<1>1. carrier = "up" /\ highWater \in AllIds /\ highWater \in Nat
  BY DEF HandleFrame, IInv, TypeOK, AllIds
<1>2. CASE HandleInvalid(f)
  BY <1>1, <1>2, RefuseIInv DEF HandleInvalid
<1> QED
  BY <1>1, <1>2, ControlIInv, HandleOpenIInv, HandleUnknownIInv, HandleDataIInv,
     HandleCloseIInv, HandleResetIInv, HandleWindowIInv DEF HandleFrame

-----------------------------------------------------------------------------
(* The calls of the driver.                                                *)

\* A WINDOW or DATA frame says nothing of the end of a stream.
LEMMA PlainWritten ==
  ASSUME NEW s, NEW n
  PROVE  Written(<<WindowFrame(s, n)>>) = {} /\ Written(<<DataFrame(s, n)>>) = {}
<1> DEFINE w == WindowFrame(s, n)
           d == DataFrame(s, n)
<1>1. w.flags = {"WINDOW"} /\ d.flags = {"DATA"}
  BY DEF WindowFrame, DataFrame, Frame
<1> HIDE DEF w, d
<1>2. Written(<<w>>) = {} /\ Written(<<d>>) = {}
  BY <1>1, WrittenOne
<1> QED
  BY <1>2 DEF w, d

\* Consuming moves bytes from those held to the credit, at once or later.
LEMMA ConsumeIInv ==
  ASSUME IInv, Record, NEW s \in Ids, NEW n \in 1..Window, Consume(s, n)
  PROVE  IInv'
<1> DEFINE st  == streams[s]
           new == [st EXCEPT !.window = ConsumeBytes(@, n), !.held = @ - n]
<1>1. /\ carrier = "up" /\ carrier' = "up" /\ highWater' = highWater /\ Known(s)
      /\ out'.sid = s /\ out'.events = <<>>
      /\ out'.frames = IF GrantDue(st.window, n)
                       THEN <<WindowFrame(s, Grant(st.window, n))>> ELSE <<>>
  BY DEF Consume, Output
<1>2. /\ st \in StreamState /\ st.window.credit + st.window.unacked + st.held = Window
      /\ n <= st.held
  BY <1>1, LiveStream DEF Consume, MayConsume
<1>3. /\ new \in StreamState
      /\ new.window.credit + new.window.unacked + new.held = Window
  <2>1. new = Consumed(st, n) /\ n \in Nat
    BY DEF Consumed
  <2> HIDE DEF st, new
  <2> QED
    BY <1>2, <2>1, ConsumedStream
<1>4. new.peerClosed = st.peerClosed /\ new.localClosed = st.localClosed
  BY <1>2 DEF StreamState
<1>5. streams' = [streams EXCEPT ![s] = new]
  BY <1>1 DEF Consume, Known
<1>6. Kinds(out'.events) = {} /\ Written(out'.frames) = {}
  BY <1>1, KindsNone, WrittenNone, PlainWritten
<1> HIDE DEF new
<1> QED
  BY <1>1, <1>2, <1>3, <1>4, <1>5, <1>6, AdjustIInv

\* Sending spends credit.
LEMMA TrySendDataIInv ==
  ASSUME IInv, Record, NEW s \in Ids, NEW n \in 1..Chunk, TrySendData(s, n)
  PROVE  IInv'
<1> DEFINE st  == streams[s]
           new == [st EXCEPT !.send = @ - n]
<1>1. /\ carrier = "up" /\ carrier' = "up" /\ highWater' = highWater /\ Known(s)
      /\ out'.sid = s /\ out'.events = <<>> /\ out'.frames = <<DataFrame(s, n)>>
  BY DEF TrySendData, Output
<1>2. /\ st \in StreamState /\ st.window.credit + st.window.unacked + st.held = Window
      /\ n <= st.send
  BY <1>1, LiveStream DEF TrySendData, MaySend
<1>3. /\ new \in StreamState
      /\ new.window.credit + new.window.unacked + new.held = Window
      /\ new.peerClosed = st.peerClosed /\ new.localClosed = st.localClosed
  BY <1>2 DEF StreamState
<1>4. streams' = [streams EXCEPT ![s] = new]
  BY <1>1 DEF TrySendData, Known
<1>5. Kinds(out'.events) = {} /\ Written(out'.frames) = {}
  BY <1>1, KindsNone, PlainWritten
<1> HIDE DEF new
<1> QED
  BY <1>1, <1>2, <1>3, <1>4, <1>5, AdjustIInv

\* Closing the local side writes CLOSE.
LEMMA CloseWriteIInv ==
  ASSUME IInv, Record, NEW s \in Ids, CloseWrite(s)
  PROVE  IInv'
<1> DEFINE st  == streams[s]
           new == [st EXCEPT !.localClosed = TRUE]
           f   == CloseFrame(s)
<1>1. /\ carrier = "up" /\ carrier' = "up" /\ highWater' = highWater /\ Known(s)
      /\ out'.sid = s /\ out'.events = <<>> /\ out'.frames = <<f>>
      /\ streams' = Settle(s, new)
  BY DEF CloseWrite, Output
<1>2. /\ st \in StreamState /\ st.window.credit + st.window.unacked + st.held = Window
  BY <1>1, LiveStream
<1>3. /\ new \in StreamState
      /\ new.window.credit + new.window.unacked + new.held = Window
      /\ new.peerClosed = st.peerClosed /\ new.localClosed
  BY <1>2 DEF StreamState
<1>4. f.flags = {"CLOSE"}
  BY DEF CloseFrame, Frame
<1>5. Kinds(out'.events) = {} /\ Written(out'.frames) = {"CLOSE"}
  <2> HIDE DEF f
  <2> QED
    BY <1>1, <1>4, KindsNone, WrittenOne
<1>6. /\ Kinds(out'.events) \subseteq {"ReadClosed"} /\ Written(out'.frames) \subseteq {"CLOSE"}
      /\ new.peerClosed <=> st.peerClosed \/ "ReadClosed" \in Kinds(out'.events)
      /\ new.localClosed <=> st.localClosed \/ "CLOSE" \in Written(out'.frames)
  BY <1>3, <1>5
<1> HIDE DEF new, f
<1> QED
  BY <1>1, <1>2, <1>3, <1>6, UpdateIInv

\* Resetting a stream writes RESET and forgets it.
LEMMA ResetStreamIInv ==
  ASSUME IInv, Record, NEW s \in Ids, ResetStream(s, "CANCEL")
  PROVE  IInv'
<1> DEFINE f == ResetFrame(s, "CANCEL")
<1>1. /\ carrier = "up" /\ carrier' = "up" /\ highWater' = highWater /\ Known(s)
      /\ out'.sid = s /\ out'.frames = <<f>> /\ streams' = Without(s)
  BY DEF ResetStream, Output
<1>2. highWater \in AllIds /\ highWater' >= highWater /\ s \in AllIds
  BY <1>1 DEF IInv, TypeOK, AllIds
<1>3. f.flags = {"RESET"}
  BY DEF ResetFrame, Frame
<1>4. "RESET" \in Written(out'.frames)
  <2> HIDE DEF f
  <2> QED
    BY <1>1, <1>3, WrittenOne
<1> QED
  BY <1>1, <1>2, <1>4, RemoveIInv

-----------------------------------------------------------------------------
(* The invariant.                                                          *)

\* A new acceptor satisfies the invariant.
LEMMA InitIInv == Init => IInv
<1> SUFFICES ASSUME Init PROVE IInv
  OBVIOUS
<1>1. DOMAIN streams = {} /\ highWater = 0 /\ carrier = "up"
  BY DEF Init, AcceptorInit
<1>2. \A s \in AllIds : told[s] = {} /\ wrote[s] = {}
  BY DEF Init
<1>3. streams \in [DOMAIN streams -> StreamState]
  BY <1>1 DEF Init, AcceptorInit
<1>4. TypeOK
  BY <1>1, <1>2, <1>3 DEF Init, TypeOK, AllIds
<1>5. IsFiniteSet(DOMAIN streams) /\ Cardinality(DOMAIN streams) = 0
  BY <1>1, FS_EmptySet
<1>6. TableMatchesHistory /\ OpenedBelow
  BY <1>1, <1>2 DEF TableMatchesHistory, OpenedBelow, Known, AllIds
<1> QED
  BY <1>1, <1>4, <1>5, <1>6 DEF IInv, WindowAccounting, WithinLimit

\* A step that changes nothing preserves the invariant.
LEMMA StutterIInv == ASSUME IInv, UNCHANGED vars PROVE IInv'
BY DEF IInv, TypeOK, WindowAccounting, TableMatchesHistory, OpenedBelow, WithinLimit, Known,
       vars, acceptorVars

\* Every step preserves the invariant.
LEMMA StepIInv == ASSUME IInv, [Next]_vars PROVE IInv'
<1>1. CASE PeerSends /\ Record
  BY <1>1, HandleFrameIInv DEF PeerSends
<1>2. CASE AppReads /\ Record
  BY <1>2, ConsumeIInv DEF AppReads
<1>3. CASE AppWrites /\ Record
  BY <1>3, TrySendDataIInv DEF AppWrites
<1>4. CASE AppCloses /\ Record
  BY <1>4, CloseWriteIInv DEF AppCloses
<1>5. CASE AppResets /\ Record
  BY <1>5, ResetStreamIInv DEF AppResets
<1>6. CASE CarrierEnds /\ Record
  BY <1>6, EndIInv DEF CarrierEnds
<1>7. CASE UNCHANGED vars
  BY <1>7, StutterIInv
<1> QED
  BY <1>1, <1>2, <1>3, <1>4, <1>5, <1>6, <1>7 DEF Next, Step

\* The invariant holds of every reachable state.
THEOREM Inductive == Spec => []IInv
<1>1. Init => IInv
  BY InitIInv
<1>2. IInv /\ [Next]_vars => IInv'
  BY StepIInv
<1> QED
  BY <1>1, <1>2, PTL DEF Spec

\* The acceptor's variables keep their types, so no counter of the receive
\* window wraps below zero or above one window.
THEOREM TypeCorrect == Spec => []TypeOK
BY Inductive, PTL DEF IInv

\* Credit, bytes not yet granted and bytes held add up to one window for
\* every live stream, whatever the peer sends.
THEOREM AccountingHolds == Spec => []WindowAccounting
BY Inductive, PTL DEF IInv

\* The table holds exactly the streams that were opened and are not over.
THEOREM TableIsHistory == Spec => []TableMatchesHistory
BY Inductive, PTL DEF IInv

\* The number of live streams never passes the configured limit.
THEOREM LimitHolds == Spec => []WithinLimit
BY Inductive, PTL DEF IInv

-----------------------------------------------------------------------------
(* What a step may not do.                                                 *)

\* A step adds no stream at or below the largest id opened.
LEMMA StepAdds ==
  ASSUME IInv, [Next]_vars, NEW s \in Ids, s <= highWater, ~Known(s)
  PROVE  s \notin DOMAIN streams'
<1>1. ASSUME NEW f, HandleFrame(f) PROVE s \notin DOMAIN streams'
  <2>1. CASE HandleControl(f)
    BY <2>1 DEF HandleControl, Fatal, acceptorState, Known
  <2>2. CASE HandleOpen(f)
    <3>1. CASE streams' = Without(f.sid)
      BY <3>1 DEF Without, Known
    <3>2. CASE ValidId(f.sid) /\ streams' = With(f.sid, OpenedStream(f))
      <4>1. f.sid # s
        BY <3>2 DEF ValidId, IInv, TypeOK, AllIds
      <4> QED
        BY <3>2, <4>1 DEF With, Known
    <3> QED
      BY <2>2, <3>1, <3>2 DEF HandleOpen, Refuse
  <2>3. CASE HandleInvalid(f) \/ HandleUnknown(f)
    BY <2>3 DEF HandleInvalid, HandleUnknown, Refuse, Without, Known
  <2>4. CASE HandleData(f) \/ HandleClose(f)
    BY <2>4 DEF HandleData, HandleClose, Refuse, Settle, With, Without, Known
  <2>5. CASE HandleReset(f) \/ HandleWindow(f)
    BY <2>5 DEF HandleReset, HandleWindow, Refuse, Without, Known
  <2> QED
    BY <1>1, <2>1, <2>2, <2>3, <2>4, <2>5 DEF HandleFrame
<1>2. CASE AppReads \/ AppWrites
  BY <1>2 DEF AppReads, AppWrites, Consume, TrySendData, Known
<1>3. CASE AppCloses \/ AppResets
  BY <1>3 DEF AppCloses, AppResets, CloseWrite, ResetStream, Settle, With, Without, Known
<1>4. CASE CarrierEnds
  BY <1>4 DEF CarrierEnds, FinishEof
<1>5. CASE UNCHANGED vars
  BY <1>5 DEF vars, acceptorVars, Known
<1> QED
  BY <1>1, <1>2, <1>3, <1>4, <1>5 DEF Next, Step, PeerSends

\* An id that was opened, or refused by a limit, never becomes live again.
THEOREM IdsNotReused == Spec => NeverReopened
<1>1. IInv /\ [Next]_vars
        => [\A s \in Ids : s <= highWater /\ ~Known(s) => s \notin DOMAIN streams']_vars
  BY StepAdds
<1> QED
  BY <1>1, Inductive, PTL DEF Spec, NeverReopened

\* An output without events, or with one that is allowed, is in order.
LEMMA OneEvent ==
  ASSUME NEW s \in AllIds
  PROVE  /\ EventsAllowed(s, <<>>)
         /\ \A e : e.sid = s /\ EventAllowed(e.kind, told[s], wrote[s]) => EventsAllowed(s, <<e>>)
<1>1. EventsAllowed(s, <<>>)
  BY DEF EventsAllowed
<1>2. ASSUME NEW e, e.sid = s, EventAllowed(e.kind, told[s], wrote[s])
      PROVE  EventsAllowed(s, <<e>>)
  <2> DEFINE p == <<e>>
  <2>1. Len(p) = 1 /\ p[1] = e
    OBVIOUS
  <2> HIDE DEF p
  <2>2. \A i \in 1..Len(p) : i = 1 /\ {p[j].kind : j \in 1..(i - 1)} = {}
    BY <2>1
  <2>3. told[s] \cup {} = told[s]
    OBVIOUS
  <2>4. EventsAllowed(s, p)
    BY <1>2, <2>1, <2>2, <2>3 DEF EventsAllowed
  <2> QED
    BY <2>4 DEF p
<1> QED
  BY <1>1, <1>2

\* Two events are in order when the second may follow the first.
LEMMA TwoEvents ==
  ASSUME NEW s \in AllIds, NEW d, NEW e, d.sid = s, e.sid = s,
         EventAllowed(d.kind, told[s], wrote[s]),
         EventAllowed(e.kind, told[s] \cup {d.kind}, wrote[s])
  PROVE  EventsAllowed(s, <<d, e>>)
<1> DEFINE p == <<d, e>>
<1>1. Len(p) = 2 /\ p[1] = d /\ p[2] = e
  OBVIOUS
<1> HIDE DEF p
<1>2. {p[j].kind : j \in 1..(1 - 1)} = {} /\ {p[j].kind : j \in 1..(2 - 1)} = {d.kind}
  BY <1>1
<1>3. told[s] \cup {} = told[s]
  OBVIOUS
<1>4. \A i \in 1..Len(p) : i = 1 \/ i = 2
  BY <1>1
<1>5. EventsAllowed(s, p)
  BY <1>1, <1>2, <1>3, <1>4 DEF EventsAllowed
<1> QED
  BY <1>5 DEF p

\* Likewise three.
LEMMA ThreeEvents ==
  ASSUME NEW s \in AllIds, NEW c, NEW d, NEW e, c.sid = s, d.sid = s, e.sid = s,
         EventAllowed(c.kind, told[s], wrote[s]),
         EventAllowed(d.kind, told[s] \cup {c.kind}, wrote[s]),
         EventAllowed(e.kind, told[s] \cup {c.kind, d.kind}, wrote[s])
  PROVE  EventsAllowed(s, <<c, d, e>>)
<1> DEFINE p == <<c, d, e>>
<1>1. Len(p) = 3 /\ p[1] = c /\ p[2] = d /\ p[3] = e
  OBVIOUS
<1> HIDE DEF p
<1>2. /\ {p[j].kind : j \in 1..(1 - 1)} = {}
      /\ {p[j].kind : j \in 1..(2 - 1)} = {c.kind}
      /\ {p[j].kind : j \in 1..(3 - 1)} = {c.kind, d.kind}
  BY <1>1
<1>3. told[s] \cup {} = told[s]
  OBVIOUS
<1>4. \A i \in 1..Len(p) : i = 1 \/ i = 2 \/ i = 3
  BY <1>1
<1>5. EventsAllowed(s, p)
  BY <1>1, <1>2, <1>3, <1>4 DEF EventsAllowed
<1> QED
  BY <1>5 DEF p

\* An output without frames, or with one that is allowed, is in order.
LEMMA OneFrame ==
  ASSUME NEW s \in AllIds
  PROVE  /\ FramesAllowed(s, <<>>)
         /\ \A f : f.sid = s /\ FrameAllowed(f, told[s], wrote[s]) => FramesAllowed(s, <<f>>)
<1>1. FramesAllowed(s, <<>>)
  BY DEF FramesAllowed
<1>2. ASSUME NEW f, f.sid = s, FrameAllowed(f, told[s], wrote[s])
      PROVE  FramesAllowed(s, <<f>>)
  <2> DEFINE p == <<f>>
  <2>1. Len(p) = 1 /\ p[1] = f
    OBVIOUS
  <2> HIDE DEF p
  <2>2. FramesAllowed(s, p)
    BY <1>2, <2>1 DEF FramesAllowed
  <2> QED
    BY <2>2 DEF p
<1> QED
  BY <1>1, <1>2

\* Short lists joined.
LEMMA Joins ==
  ASSUME NEW a, NEW b, NEW c
  PROVE  /\ <<a>> \o <<>> = <<a>> /\ <<a>> \o <<b>> = <<a, b>>
         /\ <<a, b>> \o <<>> = <<a, b>> /\ <<a, b>> \o <<c>> = <<a, b, c>>
<1> DEFINE T == {a, b, c}
<1>1. /\ <<>> \in Seq(T) /\ <<a>> \in Seq(T) /\ <<b>> \in Seq(T) /\ <<c>> \in Seq(T)
      /\ <<a, b>> \in Seq(T) /\ <<a, b, c>> \in Seq(T)
  OBVIOUS
<1>2. <<a>> \o <<>> = <<a>> /\ <<a, b>> \o <<>> = <<a, b>>
  BY <1>1
<1>3. <<a>> \o <<b>> = <<a, b>>
  <2> DEFINE p == <<a>> \o <<b>>
             q == <<a, b>>
  <2>1. p \in Seq(T) /\ q \in Seq(T) /\ Len(p) = 2 /\ Len(q) = 2
    BY <1>1
  <2>2. p[1] = a /\ p[2] = b /\ q[1] = a /\ q[2] = b
    BY <1>1
  <2> HIDE DEF p, q, T
  <2>3. \A i \in 1..Len(p) : p[i] = q[i]
    <3>1. \A i \in 1..2 : i = 1 \/ i = 2
      OBVIOUS
    <3> QED
      BY <2>1, <2>2, <3>1
  <2>4. p = q
    BY <2>1, <2>3, SeqEqual
  <2> QED
    BY <2>4 DEF p, q
<1>4. <<a, b>> \o <<c>> = <<a, b, c>>
  <2> DEFINE p == <<a, b>> \o <<c>>
             q == <<a, b, c>>
  <2>1. p \in Seq(T) /\ q \in Seq(T) /\ Len(p) = 3 /\ Len(q) = 3
    BY <1>1
  <2>2. p[1] = a /\ p[2] = b /\ p[3] = c /\ q[1] = a /\ q[2] = b /\ q[3] = c
    BY <1>1
  <2> HIDE DEF p, q, T
  <2>3. \A i \in 1..Len(p) : p[i] = q[i]
    <3>1. \A i \in 1..3 : i = 1 \/ i = 2 \/ i = 3
      OBVIOUS
    <3> QED
      BY <2>1, <2>2, <3>1
  <2>4. p = q
    BY <2>1, <2>3, SeqEqual
  <2> QED
    BY <2>4 DEF p, q
<1> QED
  BY <1>2, <1>3, <1>4

\* The events and frames of this step are in order.
Orderly == EventsAllowed(out'.sid, out'.events) /\ FramesAllowed(out'.sid, out'.frames)

\* What a live stream may be told next.
LEMMA LiveOrder ==
  ASSUME IInv, carrier = "up", NEW s, Known(s)
  PROVE  /\ s \in AllIds
         /\ "Opened" \in told[s] /\ ~Over(told[s], wrote[s])
         /\ EventAllowed("Reset", told[s], wrote[s])
         /\ EventAllowed("ReadClosed", told[s], wrote[s])
         /\ ~streams[s].peerClosed =>
                /\ EventAllowed("Data", told[s], wrote[s])
                /\ EventAllowed("ReadClosed", told[s] \cup {"Data"}, wrote[s])
         /\ ~streams[s].localClosed => "CLOSE" \notin wrote[s]
<1>1. s \in Ids /\ s \in AllIds
  BY LiveStream DEF AllIds
<1>2. /\ "Opened" \in told[s] /\ ~Over(told[s], wrote[s])
      /\ streams[s].peerClosed <=> "ReadClosed" \in told[s]
      /\ streams[s].localClosed <=> "CLOSE" \in wrote[s]
  BY <1>1 DEF IInv, TableMatchesHistory
<1> QED
  BY <1>1, <1>2 DEF EventAllowed, Over

\* A refusal tells the handle of a live stream only that it was reset.
LEMMA RefuseOrderly ==
  ASSUME IInv, carrier = "up", NEW f \in PeerFrames, NEW reason, Refuse(f, reason)
  PROVE  Orderly
<1> DEFINE s == f.sid
           e == ResetEvent(s)
           r == ResetFrame(s, reason)
<1>1. s \in AllIds
  BY FrameTypes
<1>2. out'.sid = s /\ out'.frames = <<r>> /\ out'.events = IF Known(s) THEN <<e>> ELSE <<>>
  BY DEF Refuse, Output, OnlyIf
<1>3. e.sid = s /\ e.kind = "Reset" /\ r.sid = s /\ r.flags = {"RESET"}
  BY DEF ResetEvent, ResetFrame, Frame
<1> HIDE DEF e, r, s
<1>4. FramesAllowed(s, <<r>>)
  BY <1>1, <1>3, OneFrame DEF FrameAllowed
<1>5. Known(s) => EventsAllowed(s, <<e>>)
  BY <1>1, <1>3, OneEvent, LiveOrder
<1> QED
  BY <1>1, <1>2, <1>4, <1>5, OneEvent DEF Orderly

\* A stream opens once, and its handle hears of it first.
LEMMA OpenOrderly ==
  ASSUME IInv, carrier = "up", NEW f \in PeerFrames, HandleOpen(f)
  PROVE  Orderly
<1> DEFINE s == f.sid
           o == Opened(s)
           d == Data(s, f.len)
           e == ReadClosed(s)
           b == f.len > 0 \/ "DATA" \in f.flags
           c == "CLOSE" \in f.flags
<1>1. s \in AllIds
  BY FrameTypes
<1>2. CASE \E reason : Refuse(f, reason)
  BY <1>2, RefuseOrderly
<1>3. CASE /\ ValidId(s)
           /\ Output(s, <<>>, <<o>> \o OnlyIf(b, d) \o OnlyIf(c, e))
  <2>1. told[s] = {} /\ wrote[s] = {}
    <3>1. s > highWater /\ highWater \in Nat /\ s \in Nat
      BY <1>1, <1>3, IdsAreNumbers DEF ValidId, IInv, TypeOK
    <3> QED
      BY <1>1, <3>1 DEF IInv, OpenedBelow
  <2>2. /\ o.sid = s /\ d.sid = s /\ e.sid = s
        /\ o.kind = "Opened" /\ d.kind = "Data" /\ e.kind = "ReadClosed"
    BY DEF Opened, Data, ReadClosed
  <2>3. out'.sid = s /\ out'.frames = <<>> /\ out'.events = <<o>> \o OnlyIf(b, d) \o OnlyIf(c, e)
    BY <1>3 DEF Output
  <2> HIDE DEF s, o, d, e, b, c
  <2>4. /\ EventAllowed("Opened", told[s], wrote[s])
        /\ EventAllowed("Data", told[s] \cup {"Opened"}, wrote[s])
        /\ EventAllowed("ReadClosed", told[s] \cup {"Opened"}, wrote[s])
        /\ EventAllowed("ReadClosed", told[s] \cup {"Opened", "Data"}, wrote[s])
    BY <2>1 DEF EventAllowed, Over
  <2>5. \/ out'.events = <<o>> \/ out'.events = <<o, d>>
        \/ out'.events = <<o, e>> \/ out'.events = <<o, d, e>>
    <3>1. CASE b /\ c
      BY <2>3, <3>1, Joins DEF OnlyIf
    <3>2. CASE b /\ ~c
      BY <2>3, <3>2, Joins DEF OnlyIf
    <3>3. CASE ~b /\ c
      BY <2>3, <3>3, Joins DEF OnlyIf
    <3>4. CASE ~b /\ ~c
      BY <2>3, <3>4, Joins DEF OnlyIf
    <3> QED
      BY <3>1, <3>2, <3>3, <3>4
  <2>6. /\ EventsAllowed(s, <<o>>) /\ EventsAllowed(s, <<o, d>>)
        /\ EventsAllowed(s, <<o, e>>) /\ EventsAllowed(s, <<o, d, e>>)
    BY <1>1, <2>2, <2>4, OneEvent, TwoEvents, ThreeEvents
  <2> QED
    BY <1>1, <2>3, <2>5, <2>6, OneFrame DEF Orderly
<1> QED
  BY <1>2, <1>3 DEF HandleOpen

\* A handle gets bytes only before its end of stream.
LEMMA DataOrderly ==
  ASSUME IInv, carrier = "up", NEW f \in PeerFrames, HandleData(f)
  PROVE  Orderly
<1> DEFINE s == f.sid
           d == Data(s, f.len)
           e == ReadClosed(s)
           c == "CLOSE" \in f.flags
<1>1. CASE \E reason : Refuse(f, reason)
  BY <1>1, RefuseOrderly
<1>2. CASE MayReceive(s) /\ Output(s, <<>>, <<d>> \o OnlyIf(c, e))
  <2>1. Known(s) /\ ~streams[s].peerClosed
    BY <1>2 DEF HandleData, MayReceive
  <2>2. /\ d.sid = s /\ e.sid = s /\ d.kind = "Data" /\ e.kind = "ReadClosed"
    BY DEF Data, ReadClosed
  <2>3. out'.sid = s /\ out'.frames = <<>> /\ out'.events = <<d>> \o OnlyIf(c, e)
    BY <1>2 DEF Output
  <2> HIDE DEF s, d, e, c
  <2>4. out'.events = <<d>> \/ out'.events = <<d, e>>
    <3>1. CASE c
      BY <2>3, <3>1, Joins DEF OnlyIf
    <3>2. CASE ~c
      BY <2>3, <3>2, Joins DEF OnlyIf
    <3> QED
      BY <3>1, <3>2
  <2>5. s \in AllIds /\ EventsAllowed(s, <<d>>) /\ EventsAllowed(s, <<d, e>>)
    BY <2>1, <2>2, LiveOrder, OneEvent, TwoEvents
  <2> QED
    BY <2>3, <2>4, <2>5, OneFrame DEF Orderly
<1> QED
  BY <1>1, <1>2 DEF HandleData

\* Every frame of the peer has an orderly output.
LEMMA FrameOrderly ==
  ASSUME IInv, NEW f \in PeerFrames, HandleFrame(f)
  PROVE  Orderly
<1> DEFINE s == f.sid
<1>1. s \in AllIds /\ 0 \in AllIds /\ carrier = "up"
  BY FrameTypes DEF AllIds, HandleFrame
<1>2. CASE \E reason : Refuse(f, reason)
  BY <1>1, <1>2, RefuseOrderly
<1>3. CASE \E t \in AllIds : Output(t, <<>>, <<>>)
  BY <1>3, OneEvent, OneFrame DEF Orderly, Output
<1>4. CASE Output(0, <<PongFrame>>, <<>>)
  <2> DEFINE p == PongFrame
  <2>1. p.sid = 0
    BY DEF PongFrame, Frame
  <2>2. out'.sid = 0 /\ out'.frames = <<p>> /\ out'.events = <<>>
    BY <1>4 DEF Output
  <2> HIDE DEF p
  <2> QED
    BY <1>1, <2>1, <2>2, OneEvent, OneFrame DEF Orderly, FrameAllowed
<1>5. ASSUME Known(s), NEW kind \in {"Reset", "ReadClosed"}, NEW e, e.sid = s, e.kind = kind,
             Output(s, <<>>, <<e>>)
      PROVE  Orderly
  <2>1. out'.sid = s /\ out'.frames = <<>> /\ out'.events = <<e>>
    BY <1>5 DEF Output
  <2>2. EventAllowed(e.kind, told[s], wrote[s])
    BY <1>1, <1>5, LiveOrder
  <2> QED
    BY <1>1, <1>5, <2>1, <2>2, OneEvent, OneFrame DEF Orderly
<1>6. CASE HandleControl(f)
  BY <1>1, <1>3, <1>4, <1>6 DEF HandleControl, Fatal
<1>7. CASE HandleInvalid(f) \/ HandleUnknown(f) \/ HandleWindow(f)
  BY <1>1, <1>2, <1>3, <1>7 DEF HandleInvalid, HandleUnknown, HandleWindow
<1>8. CASE HandleClose(f)
  <2> DEFINE e == ReadClosed(s)
  <2>1. Known(s) /\ Output(s, <<>>, <<e>>)
    BY <1>8 DEF HandleClose
  <2>2. e.sid = s /\ e.kind = "ReadClosed"
    BY DEF ReadClosed
  <2> HIDE DEF e
  <2> QED
    BY <1>5, <2>1, <2>2
<1>9. CASE HandleReset(f)
  <2> DEFINE e == ResetEvent(s)
  <2>1. (\E reason : Refuse(f, reason)) \/ (Known(s) /\ Output(s, <<>>, <<e>>))
    BY <1>9 DEF HandleReset
  <2>2. e.sid = s /\ e.kind = "Reset"
    BY DEF ResetEvent
  <2> HIDE DEF e
  <2> QED
    BY <1>2, <1>5, <2>1, <2>2
<1> QED
  BY <1>1, <1>6, <1>7, <1>8, <1>9, OpenOrderly, DataOrderly DEF HandleFrame

\* A call writes a frame that the stream's history allows.
LEMMA CallOrderly ==
  ASSUME IInv, AppReads \/ AppWrites \/ AppCloses \/ AppResets
  PROVE  Orderly
<1>1. ASSUME NEW s, Known(s), carrier = "up", NEW f, f.sid = s,
             \/ f.flags \in {{"RESET"}, {"WINDOW"}}
             \/ ~streams[s].localClosed,
             Output(s, <<f>>, <<>>)
      PROVE  Orderly
  <2>1. out'.sid = s /\ out'.frames = <<f>> /\ out'.events = <<>> /\ s \in AllIds
    BY <1>1, LiveOrder DEF Output
  <2>2. FrameAllowed(f, told[s], wrote[s])
    BY <1>1, LiveOrder DEF FrameAllowed
  <2> QED
    BY <1>1, <2>1, <2>2, OneEvent, OneFrame DEF Orderly
<1>2. CASE AppReads
  <2>1. PICK s \in Ids, n \in 1..Window : Consume(s, n)
    BY <1>2 DEF AppReads
  <2> DEFINE f == WindowFrame(s, Grant(streams[s].window, n))
  <2>2. /\ Known(s) /\ carrier = "up"
        /\ Output(s, <<f>>, <<>>) \/ Output(s, <<>>, <<>>)
    BY <2>1 DEF Consume
  <2>3. f.sid = s /\ f.flags = {"WINDOW"}
    BY DEF WindowFrame, Frame
  <2> HIDE DEF f
  <2>4. CASE Output(s, <<>>, <<>>)
    BY <2>4, OneEvent, OneFrame DEF Orderly, Output, AllIds
  <2> QED
    BY <1>1, <2>2, <2>3, <2>4
<1>3. CASE AppWrites
  <2>1. PICK s \in Ids, n \in 1..Chunk : TrySendData(s, n)
    BY <1>3 DEF AppWrites
  <2> DEFINE f == DataFrame(s, n)
  <2>2. Known(s) /\ carrier = "up" /\ ~streams[s].localClosed /\ Output(s, <<f>>, <<>>)
    BY <2>1 DEF TrySendData, MaySend
  <2>3. f.sid = s
    BY DEF DataFrame, Frame
  <2> HIDE DEF f
  <2> QED
    BY <1>1, <2>2, <2>3
<1>4. CASE AppCloses
  <2>1. PICK s \in Ids : CloseWrite(s)
    BY <1>4 DEF AppCloses
  <2> DEFINE f == CloseFrame(s)
  <2>2. Known(s) /\ carrier = "up" /\ ~streams[s].localClosed /\ Output(s, <<f>>, <<>>)
    BY <2>1 DEF CloseWrite
  <2>3. f.sid = s
    BY DEF CloseFrame, Frame
  <2> HIDE DEF f
  <2> QED
    BY <1>1, <2>2, <2>3
<1>5. CASE AppResets
  <2>1. PICK s \in Ids : ResetStream(s, "CANCEL")
    BY <1>5 DEF AppResets
  <2> DEFINE f == ResetFrame(s, "CANCEL")
  <2>2. Known(s) /\ carrier = "up" /\ Output(s, <<f>>, <<>>)
    BY <2>1 DEF ResetStream
  <2>3. f.sid = s /\ f.flags = {"RESET"}
    BY DEF ResetFrame, Frame
  <2> HIDE DEF f
  <2> QED
    BY <1>1, <2>2, <2>3
<1> QED
  BY <1>2, <1>3, <1>4, <1>5

\* Whatever the peer sends, every stream lives in order: one Opened, bytes,
\* an end of stream, at most a reset, and no frame the peer must not see.
THEOREM LivesInOrder == Spec => OrderlyLife
<1>1. ASSUME IInv, Next PROVE Orderly
  <2>1. CASE CarrierEnds
    BY <2>1, OneEvent, OneFrame DEF CarrierEnds, FinishEof, Output, Orderly, AllIds
  <2> QED
    BY <1>1, <2>1, FrameOrderly, CallOrderly DEF Next, Step, PeerSends
<1>2. IInv /\ [Next]_vars
        => [EventsAllowed(out'.sid, out'.events) /\ FramesAllowed(out'.sid, out'.frames)]_vars
  BY <1>1 DEF Orderly
<1> QED
  BY <1>2, Inductive, PTL DEF Spec, OrderlyLife

-----------------------------------------------------------------------------
(* All of it together.                                                     *)

\* Whatever the peer sends, the acceptor's books hold.
THEOREM BooksHold == Spec => []AcceptorBooks
<1>1. TypeOK /\ TableMatchesHistory /\ WindowAccounting /\ WithinLimit => AcceptorBooks
  BY DEF AcceptorBooks
<1> QED
  BY <1>1, TypeCorrect, TableIsHistory, AccountingHolds, LimitHolds, PTL

\* Whatever the peer sends, no step breaks the life of a stream or revives an id.
THEOREM StepsHold == Spec => AcceptorSteps
BY LivesInOrder, IdsNotReused DEF AcceptorSteps

=============================================================================
