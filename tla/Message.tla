------------------------------ MODULE Message ------------------------------
(***************************************************************************)
(* The framing of message.h as operators without state: how WritePayload   *)
(* cuts a payload into fragments and how ReadSequence puts the fragments   *)
(* of interleaved messages back together in the receiver's Storage.        *)
(*                                                                         *)
(* A byte is a Unit.  Bytes of memory that nothing has written are Junk or *)
(* what an earlier buffer left behind (operator Memory).                   *)
(***************************************************************************)
EXTENDS Integers, Sequences

CONSTANTS
  MAX_SIZE,      (* bytes of a fragment, header included                   *)
  sizeofheader,  (* bytes of a fragment's header                           *)
  BUFFER_SIZE,   (* bytes that one recvfrom may return                     *)
  timeout_secs,  (* age at which a partial message was meant to expire     *)
  Units,         (* the bytes payloads are made of                         *)
  Junk,          (* a byte of uninitialised memory                         *)
  Payloads,      (* the payloads that threads send                         *)
  Sizes,         (* the numbers that fit a uint32_t                        *)
  MemoryReused,  (* new memory may show old payloads: not in a Debug build *)
  XXHM(_)        (* the XXH32 hash of a sequence of bytes                  *)

ASSUME SizesAssumption ==
  /\ sizeofheader \in Nat \ {0}
  /\ MAX_SIZE \in Nat /\ MAX_SIZE > sizeofheader
  /\ BUFFER_SIZE \in Nat /\ BUFFER_SIZE >= MAX_SIZE
  /\ timeout_secs \in Nat

ASSUME PayloadsAssumption ==
  /\ Payloads \subseteq Seq(Units)
  /\ Junk \notin Units
  /\ MemoryReused \in BOOLEAN

(* A number of which the first bytes were read anew over those of another.  *)
Mixed(new, old) ==
  {new} \cup {(new % b) + (old \div b) * b : b \in {1, 256, 65536, 16777216}}

ASSUME UintAssumption ==
  /\ Sizes \subseteq Nat /\ 1 \in Sizes
  /\ \A p \in Payloads : Len(p) \in Sizes
  /\ \A m, n \in Sizes : Mixed(m, n) \subseteq Sizes

(* What a byte of a buffer may be. *)
Byte == Units \cup {Junk}

(* A buffer has the hash of a payload only if it is the payload: the XXH32  *)
(* collisions that could make it lie are left out.                          *)
ASSUME CollisionFreeAssumption ==
  \A p \in Payloads : \A n \in Sizes :
    \A b \in [1..n -> Byte] : XXHM(b) = XXHM(p) => b = p

----------------------------------------------------------------------------
(* enum Message::Type *)
TypeFirst == 2
TypeNext  == 3

Lesser(a, b) == IF a <= b THEN a ELSE b

Smallest(S) == CHOOSE i \in S : \A j \in S : i <= j

(* The sequence s without its i-th element: vector::erase. *)
Without(s, i) == [j \in 1..(Len(s) - 1) |-> IF j < i THEN s[j] ELSE s[j + 1]]

(* What n bytes fresh from operator new, or of a stack array, may hold. *)
Memory(n) ==
  {[i \in 1..n |-> Junk]} \cup
  IF MemoryReused
  THEN UNION {{SubSeq(p, i, i + n - 1) : i \in 1..(Len(p) - n + 1)} : p \in Payloads}
  ELSE {}

----------------------------------------------------------------------------
(* Mutant: the hash is that of the first half of the bytes. *)
NewMessageHalfHashed(kind, payload) ==
  [data |-> kind, hash |-> XXHM(SubSeq(payload, 1, Len(payload) \div 2)), type |-> TypeFirst,
   total_length |-> Len(payload), offset |-> 0, length |-> 0]

(* The message SendSequence hands to SendSingle; length starts at zero. *)
NewMessage(kind, payload) ==
  [data |-> kind, hash |-> XXHM(payload), type |-> TypeFirst,
   total_length |-> Len(payload), offset |-> 0, length |-> 0]

(* The payload bytes that fit one fragment. *)
Fragment == MAX_SIZE - sizeofheader

(* Mutant: the header is forgotten in the size of a portion. *)
PortionWithHeader(m) == Lesser(m.total_length - m.offset, MAX_SIZE)

Portion(m) == Lesser(m.total_length - m.offset, Fragment)

(* Mutant: the length of the previous portion is not looked at. *)
CopiesAlways(m) == m.total_length > 0

(* The condition under which WritePayload copies payload bytes: length is   *)
(* the length of the PREVIOUS portion, zero before the first.              *)
Copies(m) == m.total_length > 0 /\ m.length > 0

(***************************************************************************)
(* One call of WritePayload on message m of payload source; heap is what   *)
(* the new buffer holds before anything is copied into it.  size is the    *)
(* value returned, copied the number of payload bytes really written.      *)
(***************************************************************************)
WritePayload(source, m, heap) ==
  LET m_offset == Lesser(m.offset, m.total_length)
      isSeekEnd == m_offset < m.total_length
      isOverflowed == m.length + sizeofheader > MAX_SIZE
      isBroadcastException == m_offset = 0 /\ m.total_length = 0
      built == isBroadcastException \/ (isSeekEnd /\ ~isOverflowed)
      size == IF built THEN Portion(m) ELSE 0
  IN [built   |-> built,
      header  |-> [m EXCEPT !.offset = m_offset, !.length = size],
      body    |-> IF Copies(m) THEN SubSeq(source, m.offset + 1, m.offset + size)
                               ELSE heap,
      message |-> [m EXCEPT !.length = size, !.offset = @ + size],
      size    |-> size,
      copied  |-> IF built /\ Copies(m) THEN size ELSE 0]

----------------------------------------------------------------------------
(* The hash in bytes that are no message's header: it is nobody's.          *)
NobodysHash == XXHM(<<Junk>>)

(***************************************************************************)
(* The header in a buffer that held old when a read of k bytes, too few    *)
(* for a header, brought the first k of new: data comes first, then the    *)
(* hash, type, total_length, offset and length.  A hash read in part is    *)
(* nobody's unless the bytes it lacks are the same.                        *)
(***************************************************************************)
Overlaid(new, old, k) ==
  IF k = 1
  THEN {[old EXCEPT !.data = new.data]}
  ELSE {[old EXCEPT !.data = new.data, !.hash = h] :
          h \in {old.hash, new.hash, NobodysHash}}
       \cup {[new EXCEPT !.total_length = n, !.offset = old.offset, !.length = old.length] :
          n \in Mixed(new.total_length, old.total_length)}
       \cup {[new EXCEPT !.offset = n, !.length = old.length] :
          n \in Mixed(new.offset, old.offset)}
       \cup {[new EXCEPT !.length = n] : n \in Mixed(new.length, old.length)}

(* Mutant: the age is now - timestamp. *)
ExpiredByAge(cell, time) == time - cell.timestamp > timeout_secs

(* A StorageCell has aged out: the subtraction is the one in the code. *)
Expired(cell, time) == cell.timestamp - time > timeout_secs

(* Mutant: the search stops at any cell. *)
PositionOfAny(cells, hash, from) == Lesser(from, Len(cells) + 1)

(* The first position, from from on, of a cell with hash; else Len + 1. *)
Position(cells, hash, from) ==
  LET hits == {i \in from..Len(cells) : cells[i].header.hash = hash}
  IN IF hits = {} THEN Len(cells) + 1 ELSE Smallest(hits)

(* The copy of a fragment's bytes into the buffer of its cell. *)
Filled(cell, header, bytes) ==
  [cell EXCEPT !.body =
     [i \in 1..Len(cell.body) |->
        IF i \in (header.offset + 1)..(header.offset + header.length)
        THEN bytes[i - header.offset] ELSE cell.body[i]]]

(* Mutant: the comparison is strict. *)
FinalStrictly(header) == header.total_length < header.offset + header.length

(* The fragment reaches the end of its message. *)
Final(header) == header.total_length <= header.offset + header.length

(* Mutant: the hash is not compared. *)
Unchecked(cell) == TRUE

Intact(cell) == XXHM(cell.body) = cell.header.hash

(***************************************************************************)
(* One call of ReadSequence that received a header and the bytes behind    *)
(* it.  fill is what the buffer allocated for a First fragment holds.  The *)
(* search erases an expired cell it passes, and then misses the next one.  *)
(* status is the value returned, pivot the iterator handed back with TRUE. *)
(***************************************************************************)
ReadSequence(storage, header, bytes, fill, time) ==
  LET cells == IF header.type = TypeFirst
               THEN Append(storage, [header |-> header, timestamp |-> time, body |-> fill])
               ELSE storage
      stop  == Position(cells, header.hash, 1)
      aged  == {i \in 1..(stop - 1) : Expired(cells[i], time)}
      kept  == IF aged = {} THEN cells ELSE Without(cells, Smallest(aged))
      pivot == IF aged = {} THEN stop
               ELSE Position(kept, header.hash, Smallest(aged) + 1)
      found == pivot <= Len(kept)
      read  == IF found
               THEN [kept EXCEPT ![pivot] = Filled(@, header, bytes)] ELSE kept
      good  == found /\ Final(header) /\ Intact(read[pivot])
      bad   == found /\ Final(header) /\ ~Intact(read[pivot])
  IN [status  |-> good,
      storage |-> IF bad THEN Without(read, pivot) ELSE read,
      pivot   |-> pivot]
============================================================================
