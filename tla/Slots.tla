------------------------------- MODULE Slots ---------------------------------
(***************************************************************************)
(* One run of TLC over several components that share no state.  A          *)
(* behaviour is a behaviour of the one component that `part` names; the    *)
(* component's variables are the first of the slots, and the others stay   *)
(* unused.                                                                 *)
(***************************************************************************)
VARIABLES part, s1, s2, s3, s4, s5, s6, s7, s8, s9, s10, s11, s12, s13

slots == <<part, s1, s2, s3, s4, s5, s6, s7, s8, s9, s10, s11, s12, s13>>

Unused == "unused"

\* The component's name and the unused slots, at the start: the component has 5, 6, 7, 8,
\* 9, 10, 11, 12 or 13 variables.
Part13(name) == part = name
Part12(name) == part = name /\ s13 = Unused
Part11(name) == Part12(name) /\ s12 = Unused
Part10(name) == Part11(name) /\ s11 = Unused
Part9(name) == Part10(name) /\ s10 = Unused
Part8(name) == Part9(name) /\ s9 = Unused
Part7(name) == Part8(name) /\ s8 = Unused
Part6(name) == Part7(name) /\ s7 = Unused
Part5(name) == Part6(name) /\ s6 = Unused

\* P, in the behaviours of one component.
In(name, P) == part = name /\ P

\* A step of the component.
Of13(name) == part = name /\ UNCHANGED part
Of12(name) == part = name /\ UNCHANGED <<part, s13>>
Of11(name) == part = name /\ UNCHANGED <<part, s12, s13>>
Of10(name) == part = name /\ UNCHANGED <<part, s11, s12, s13>>
Of9(name) == part = name /\ UNCHANGED <<part, s10, s11, s12, s13>>
Of8(name) == part = name /\ UNCHANGED <<part, s9, s10, s11, s12, s13>>
Of7(name) == part = name /\ UNCHANGED <<part, s8, s9, s10, s11, s12, s13>>
Of6(name) == part = name /\ UNCHANGED <<part, s7, s8, s9, s10, s11, s12, s13>>
Of5(name) == part = name /\ UNCHANGED <<part, s6, s7, s8, s9, s10, s11, s12, s13>>
==============================================================================
