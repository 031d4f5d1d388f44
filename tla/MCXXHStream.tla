----------------------------- MODULE MCXXHStream -----------------------------
(* An instance of XXHStream for TLC. *)
EXTENDS XXHStream

MCData == Tuple([i \in 1..1400 |-> (i * i * 7 + i * 31 + (i \div 8) * 113) % 256])
MCSeeds == {Zero(8), <<\hEF, \hCD, \hAB, \h89, \h67, \h45, \h23, \h01>>, <<1, 0, 0, 0, 0, 0, 0, \h80>>}
MCSecrets == {Bytes(MCData, 300, XXH3_SECRET_SIZE_MIN)}
MCShortSecrets == {Bytes(MCData, 500, 100)}
MCJunk == Tuple([i \in 1..XXH_SECRET_DEFAULT_SIZE |-> 205])
\* Around the 16, 32 and 256 bytes of the buffers.
MCPieces == [XXH32 |-> {1, 5, 15, 17}, XXH64 |-> {3, 16, 31, 33}, XXH3 |-> {3, 41, 215, 600}]
=============================================================================
