----------------------------- MODULE BoundedLog -----------------------------
(***************************************************************************)
(* What the aesd circular buffer promises its callers: it is a log of the  *)
(* last N entries added to it.  Adding to a full log drops the oldest      *)
(* entry and hands its memory back to the caller, who owns it.             *)
(***************************************************************************)
EXTENDS Naturals, Sequences

CONSTANTS N,      \* how many entries the log keeps
          Entry,  \* the entries a caller may add
          NULL    \* "nothing was dropped"

VARIABLES log,    \* the entries kept, oldest first
          value   \* the memory handed back by the last operation

Init ==
  /\ log = << >>
  /\ value = NULL

Add(e) ==
  \/ /\ Len(log) < N
     /\ log' = Append(log, e)
     /\ value' = NULL
  \/ /\ Len(log) = N
     /\ log' = Append(Tail(log), e)
     /\ value' = Head(log).buffptr

Clear ==
  /\ log' = << >>
  /\ value' = NULL

Next == (\E e \in Entry : Add(e)) \/ Clear

Spec == Init /\ [][Next]_<<log, value>>
=============================================================================
