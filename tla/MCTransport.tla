---------------------------- MODULE MCTransport ----------------------------
(* Instances of Transport for TLC.  Bytes are small numbers, 0 is Junk.    *)
EXTENDS Transport, TLC

(* A hash of 16 bits without collisions on the buffers of these instances. *)
MCXXHM(bytes) ==
  LET h[i \in 0..Len(bytes)] ==
        IF i = 0 THEN 5 ELSE (h[i - 1] * 7 + bytes[i] + 1) % 65536
  IN h[Len(bytes)]

(* A fragment carries one byte, so the payloads make one to three fragments. *)
OneAndTwo == {<<1>>, <<1, 2>>}
EmptyOneThree == {<<>>, <<1>>, <<1, 2, 3>>}

SenderSymmetry == Permutations(Senders)
============================================================================
