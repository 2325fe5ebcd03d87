----------------------------- MODULE MCAesdChar -----------------------------
(***************************************************************************)
(* Instances of AesdChar for TLC.  Clients and addresses are               *)
(* interchangeable: no action or property tells two of them apart.         *)
(***************************************************************************)
EXTENDS AesdChar, TLC

\* Every command up to N, at its start and one byte further.
MCSeekCmds == (0..N) \X (0..1)

\* Two bytes into the first slot, and one slot past the array.
MCSeekEdges == {<<0, 2>>, <<N, 0>>}

MCSeekOffsets == {-1, 0}

Symmetry == Permutations(Clients) \cup Permutations(Ptr)

PtrSymmetry == Permutations(Ptr)

(***************************************************************************)
(* A second initial state, the driver after N writes of one newline each:  *)
(* the first write that ends a command evicts one.  CallsSpec starts from  *)
(* both.                                                                   *)
(***************************************************************************)
FullInit ==
  LET ptr == CHOOSE f \in [Slots -> Ptr] : \A i, j \in Slots : f[i] = f[j] => i = j
  IN
  /\ loaded = TRUE
  /\ cb = [entry |-> [i \in Slots |-> [buffptr |-> ptr[i], size |-> 1]],
           in_offs |-> 0, out_offs |-> 0, full |-> TRUE]
  /\ heap = [p \in Ptr |-> IF \E i \in Slots : ptr[i] = p THEN 1 ELSE 0]
  /\ buffer_size = N
  /\ mx_lock = NULL
  /\ tmp_buf = NULL /\ tmp_size = 0 /\ tmp_nl = FALSE
  /\ pc = [c \in Clients |-> "closed"]
  /\ f_pos = [c \in Clients |-> 0]
  /\ frame = [c \in Clients |-> NULL]
  /\ ret = [c \in Clients |-> NULL]
  /\ writes = 0
  /\ nomem = FALSE

CallsSpec == (Init \/ FullInit) /\ [][Next]_vars /\ Fairness
=============================================================================
