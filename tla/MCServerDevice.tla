--------------------------- MODULE MCServerDevice ---------------------------
(***************************************************************************)
(* An instance of ServerDevice for TLC.  Threads and addresses are         *)
(* interchangeable.                                                        *)
(***************************************************************************)
EXTENDS ServerDevice, TLC

Line(n) == [seek |-> FALSE, len |-> n, newline |-> TRUE]

SeekText(args) == [seek |-> TRUE, args |-> args]

\* Commands of two lengths, a byte without a newline, nothing; seeks that are
\* complete, at the end of a command, out of range, negative, and cut short.
MCPackets ==
  {Line(1), Line(3), [Line(1) EXCEPT !.newline = FALSE], [Line(0) EXCEPT !.newline = FALSE]}
  \cup {SeekText(args) : args \in {<<1, 0>>, <<0, 1>>, <<2, 0>>, <<0, -1>>, <<1>>, << >>}}

\* Every pair of values of type uint32_t.
MCSeekCmds == (0..(UINT_MOD - 1)) \X (0..(UINT_MOD - 1))

MCSymmetry == Permutations(Clients) \cup Permutations(Ptr)
=============================================================================
