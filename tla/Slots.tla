------------------------------- MODULE Slots --------------------------------
(***************************************************************************)
(* The state of a suite: a module that checks several components that      *)
(* share nothing in one run.  A suite is their disjoint sum: `part` names  *)
(* a component once and for all, its variables live in the first slots,    *)
(* the slots it does not need stay empty, and a behaviour of the suite is  *)
(* a behaviour of that one component.                                      *)
(***************************************************************************)
VARIABLES part, s1, s2, s3, s4, s5, s6, s7, s8, s9, s10, s11, s12, s13, s14

slots == <<part, s1, s2, s3, s4, s5, s6, s7, s8, s9, s10, s11, s12, s13, s14>>

Empty == "empty"

\* A component uses no slot from the nth on.
EmptyFrom14 == s14 = Empty
EmptyFrom13 == s13 = Empty /\ EmptyFrom14
EmptyFrom12 == s12 = Empty /\ EmptyFrom13
EmptyFrom11 == s11 = Empty /\ EmptyFrom12
EmptyFrom10 == s10 = Empty /\ EmptyFrom11
EmptyFrom9 == s9 = Empty /\ EmptyFrom10
EmptyFrom8 == s8 = Empty /\ EmptyFrom9
EmptyFrom7 == s7 = Empty /\ EmptyFrom8
EmptyFrom6 == s6 = Empty /\ EmptyFrom7
EmptyFrom5 == s5 = Empty /\ EmptyFrom6
EmptyFrom4 == s4 = Empty /\ EmptyFrom5
EmptyFrom1 == s1 = Empty /\ s2 = Empty /\ s3 = Empty /\ EmptyFrom4

\* A step of it leaves them, and the choice of the component, alone.
KeepFrom15 == UNCHANGED part
KeepFrom14 == UNCHANGED s14 /\ KeepFrom15
KeepFrom13 == UNCHANGED s13 /\ KeepFrom14
KeepFrom12 == UNCHANGED s12 /\ KeepFrom13
KeepFrom11 == UNCHANGED s11 /\ KeepFrom12
KeepFrom10 == UNCHANGED s10 /\ KeepFrom11
KeepFrom9 == UNCHANGED s9 /\ KeepFrom10
KeepFrom8 == UNCHANGED s8 /\ KeepFrom9
KeepFrom7 == UNCHANGED s7 /\ KeepFrom8
KeepFrom6 == UNCHANGED s6 /\ KeepFrom7
KeepFrom5 == UNCHANGED s5 /\ KeepFrom6
=============================================================================
