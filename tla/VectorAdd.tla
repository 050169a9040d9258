----------------------------- MODULE VectorAdd ------------------------------
(***************************************************************************)
(* What a program that launches add kernels one after the other promises:  *)
(* every element of z is written once, with the sum of the elements of x   *)
(* and y at its place, in any order and any number at a time; all of them  *)
(* are, eventually, and before the next launch.  A kernel that is not      *)
(* trusted may store anything.                                             *)
(***************************************************************************)
EXTENDS Naturals, Sequences

CONSTANTS
  Length,       \* the lengths of the vectors, launch after launch
  Trusted,      \* the launches the promise is made for
  Unwritten,    \* a place nothing was stored to
  Sum(_)        \* the sum of the inputs at an index

VARIABLES launch, z

vars == <<launch, z>>

Pending == {i \in DOMAIN z : z[i] = Unwritten}

Blank(l) == [i \in 0 .. (Length[l] - 1) |-> Unwritten]

Init == launch = 1 /\ z = Blank(1)

Store == \E S \in (SUBSET Pending) \ {{}} :
  /\ z' = [i \in DOMAIN z |-> IF i \in S THEN Sum(i) ELSE z[i]]
  /\ UNCHANGED launch

Spoil == launch \notin Trusted /\ DOMAIN z' = DOMAIN z /\ UNCHANGED launch

\* A launch of its own starts with a result vector of its own.
Relaunch ==
  /\ launch \in Trusted => Pending = {}
  /\ launch' = launch + 1
  /\ launch' \in DOMAIN Length
  /\ z' = Blank(launch')

Next == Store \/ Spoil \/ Relaunch

Spec == Init /\ [][Next]_vars /\ WF_vars(Store)
=============================================================================
