------------------------------ MODULE BytePipe ------------------------------
(***************************************************************************)
(* What one direction of a mux stream promises its two ends: a reliable    *)
(* byte pipe that never holds more than Window unread bytes.  Bytes are    *)
(* named by their offset in the stream, so the state is three numbers and  *)
(* a flag: how many bytes the writer has put into the pipe, how many the   *)
(* reader has taken out, and whether the writer has closed its end.        *)
(***************************************************************************)
EXTENDS Naturals

CONSTANT Window     \* the most bytes the pipe may hold

VARIABLES written,  \* bytes put in so far
          taken,    \* bytes taken out so far
          closed    \* the writer has closed its end

pipeVars == <<written, taken, closed>>

Init ==
    /\ written = 0
    /\ taken = 0
    /\ closed = FALSE

Write ==
    /\ ~closed
    /\ \E n \in 1..Window :
           /\ written + n <= taken + Window
           /\ written' = written + n
    /\ UNCHANGED <<taken, closed>>

Take ==
    /\ taken' \in (taken + 1)..written
    /\ UNCHANGED <<written, closed>>

Close ==
    /\ ~closed
    /\ closed' = TRUE
    /\ UNCHANGED <<written, taken>>

Next == Write \/ Take \/ Close

Spec == Init /\ [][Next]_pipeVars
=============================================================================
