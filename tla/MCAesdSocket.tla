---------------------------- MODULE MCAesdSocket ----------------------------
(***************************************************************************)
(* Instances of AesdSocket for TLC.  Connections and nodes are             *)
(* interchangeable.                                                        *)
(***************************************************************************)
EXTENDS AesdSocket, TLC

Packet(chunks) == [chunks |-> chunks, seek |-> FALSE]

SeekRequest == [chunks |-> <<"line">>, seek |-> TRUE]

\* One packet in one chunk.
MCLines == {Packet(<<"line">>)}

\* A packet in two chunks, bytes without a newline, nothing, and a seek.
MCKinds == {Packet(<<"part", "line">>), Packet(<<"part">>), Packet(<< >>), SeekRequest}

Symmetry == Permutations(Conns) \cup Permutations(Nodes)
=============================================================================
