------------------------------- MODULE HaltLog -------------------------------
(***************************************************************************)
(* What the halt rows promise their readers: a flag per row and a log that  *)
(* holds every change of the flag, in order, and nothing else.             *)
(***************************************************************************)
EXTENDS Sequences

CONSTANTS Rows        \* the halt rows

VARIABLES flag,       \* is the row halted
          log         \* the changes of the flag so far

Init ==
  /\ flag = [r \in Rows |-> FALSE]
  /\ log = [r \in Rows |-> <<>>]

\* The flag changes and the log says so.
Flip(r) ==
  /\ flag' = [flag EXCEPT ![r] = ~@]
  /\ log' = [log EXCEPT ![r] = Append(@, ~flag[r])]

Spec == Init /\ [][\E r \in Rows : Flip(r)]_<<flag, log>>
==============================================================================
