-------------------------- MODULE TransportProofs --------------------------
(***************************************************************************)
(* Theorems about one connection, for every number of threads, every size  *)
(* of fragment and buffer, every set of payloads and every bound.          *)
(*                                                                         *)
(* IInv is inductive: the types, what every header and buffer on the way   *)
(* says about the call it belongs to, and what was accepted so far.        *)
(***************************************************************************)
EXTENDS Transport, SequenceTheorems, FiniteSetTheorems, WellFoundedInduction, TLAPS

----------------------------------------------------------------------------
(* What the operators of Message return, for every value of the constants.  *)

(* A non-empty set of naturals has a least element, and Smallest is it. *)
LEMMA SmallestProperties ==
  ASSUME NEW S \in SUBSET Nat, S # {}
  PROVE  Smallest(S) \in S /\ \A k \in S : Smallest(S) <= k
<1> DEFINE lt == {ss \in Nat \X Nat : ss[1] < ss[2]}
<1>1. OpToRel(<, Nat) = lt
  BY DEF OpToRel
<1>2. PICK x \in S : \A y \in S : ~ (<<y, x>> \in lt)
  <2> HIDE DEF lt
  <2> QED BY <1>1, WFMin, NatLessThanWellFounded
<1>3. \A y \in S : y < x => <<y, x>> \in lt
  OBVIOUS
<1>4. \A y \in S : ~ (y < x)
  <2> HIDE DEF lt
  <2> QED BY <1>2, <1>3, Zenon
<1>5. \A y \in S : x <= y
  BY <1>4
<1> QED BY <1>5 DEF Smallest

(* Without removes one element and moves those behind it up. *)
LEMMA WithoutProperties ==
  ASSUME NEW C, NEW s \in Seq(C), NEW i \in 1..Len(s)
  PROVE  /\ Without(s, i) \in Seq(C)
         /\ Len(Without(s, i)) = Len(s) - 1
         /\ \A j \in 1..(Len(s) - 1) : Without(s, i)[j] = IF j < i THEN s[j] ELSE s[j + 1]
<1>1. Without(s, i) \in [1..(Len(s) - 1) -> C]
  BY DEF Without
<1>2. Len(s) - 1 \in Nat
  OBVIOUS
<1> QED BY <1>1, <1>2 DEF Without

(* Fresh memory is made of bytes. *)
LEMMA MemoryProperties ==
  ASSUME NEW n \in Nat, NEW b \in Memory(n)
  PROVE  b \in [1..n -> Byte]
<1>1. CASE b = [i \in 1..n |-> Junk]
  BY <1>1 DEF Byte
<1>2. CASE \E p \in Payloads : \E i \in 1..(Len(p) - n + 1) : b = SubSeq(p, i, i + n - 1)
  <2>0. PICK p \in Payloads : \E i \in 1..(Len(p) - n + 1) : b = SubSeq(p, i, i + n - 1)
    BY <1>2
  <2>1. PICK i \in 1..(Len(p) - n + 1) : b = SubSeq(p, i, i + n - 1)
    BY <2>0
  <2>2. p \in Seq(Units)
    BY PayloadsAssumption
  <2>3. i \in Int /\ i + n - 1 \in Int /\ \A j \in i..(i + n - 1) : p[j] \in Units
    BY <2>2
  <2>4. /\ SubSeq(p, i, i + n - 1) \in Seq(Units)
        /\ Len(SubSeq(p, i, i + n - 1)) = IF i <= i + n - 1 THEN n ELSE 0
    BY <2>3, SubSeqProperties
  <2>5. b \in Seq(Units) /\ Len(b) = n
    BY <2>1, <2>4
  <2> QED BY <2>5 DEF Byte
<1> QED BY <1>1, <1>2 DEF Memory

(* Position finds a cell with the hash, at from or behind it, or none. *)
LEMMA PositionProperties ==
  ASSUME NEW C, NEW cells \in Seq(C), NEW hash, NEW from \in Nat \ {0}
  PROVE  /\ Position(cells, hash, from) \in 1..(Len(cells) + 1)
         /\ Position(cells, hash, from) <= Len(cells) =>
              cells[Position(cells, hash, from)].header.hash = hash
<1> DEFINE hits == {i \in from..Len(cells) : cells[i].header.hash = hash}
<1>1. CASE hits = {}
  BY <1>1 DEF Position
<1>2. CASE hits # {}
  <2>1. hits \in SUBSET Nat
    OBVIOUS
  <2>2. Smallest(hits) \in hits
    <3> HIDE DEF hits
    <3> QED BY <1>2, <2>1, SmallestProperties
  <2> QED BY <1>2, <2>2 DEF Position
<1> QED BY <1>1, <1>2

(* A fragment that WritePayload builds fits a fragment, stays within its   *)
(* message and, unless the message is empty, moves it on.                  *)
LEMMA WritePayloadProperties ==
  ASSUME NEW source \in Payloads, NEW m,
         m.total_length = Len(source), m.offset \in 0..m.total_length,
         NEW heap \in [1..Portion(m) -> Byte],
         WritePayload(source, m, heap).built
  PROVE  LET w == WritePayload(source, m, heap)
         IN /\ w.size = Portion(m)
            /\ w.size \in 0..Fragment /\ m.offset + w.size <= m.total_length
            /\ w.size = 0 <=> m.total_length = 0
            /\ w.header = [m EXCEPT !.offset = m.offset, !.length = w.size]
            /\ w.message = [m EXCEPT !.length = w.size, !.offset = @ + w.size]
            /\ w.body \in [1..w.size -> Byte]
<1> DEFINE w == WritePayload(source, m, heap)
<1>1. Fragment \in Nat \ {0} /\ Fragment + sizeofheader = MAX_SIZE
  BY SizesAssumption DEF Fragment
<1>2. source \in Seq(Units)
  BY PayloadsAssumption
<1>3. Lesser(m.offset, m.total_length) = m.offset
  BY <1>2 DEF Lesser
<1>4. m.offset < m.total_length \/ m.total_length = 0
  BY <1>3 DEF WritePayload
<1>5. /\ Portion(m) \in 0..Fragment /\ m.offset + Portion(m) <= m.total_length
      /\ Portion(m) = 0 <=> m.total_length = 0
  BY <1>1, <1>4 DEF Portion, Lesser
<1>6. w.size = Portion(m) /\ w.header = [m EXCEPT !.offset = m.offset, !.length = Portion(m)]
      /\ w.message = [m EXCEPT !.length = Portion(m), !.offset = @ + Portion(m)]
  BY <1>3 DEF WritePayload
<1>7. w.body \in [1..Portion(m) -> Byte]
  <2>1. CASE ~Copies(m)
    BY <2>1 DEF WritePayload
  <2>2. CASE Copies(m)
    <3>1. w.body = SubSeq(source, m.offset + 1, m.offset + Portion(m))
      BY <2>2, <1>6 DEF WritePayload
    <3>2. \A j \in (m.offset + 1)..(m.offset + Portion(m)) : source[j] \in Units
      BY <1>2, <1>5
    <3>3. /\ SubSeq(source, m.offset + 1, m.offset + Portion(m)) \in Seq(Units)
          /\ Len(SubSeq(source, m.offset + 1, m.offset + Portion(m))) =
               IF m.offset + 1 <= m.offset + Portion(m) THEN m.offset + Portion(m) - (m.offset + 1) + 1 ELSE 0
      BY <1>5, <3>2, SubSeqProperties
    <3>4. Len(SubSeq(source, m.offset + 1, m.offset + Portion(m))) = Portion(m)
      BY <1>5, <3>3
    <3>5. \A b \in Seq(Units) : b \in [1..Len(b) -> Byte]
      BY DEF Byte
    <3> HIDE DEF w
    <3> QED BY <3>1, <3>3, <3>4, <3>5, Zenon
  <2> QED BY <2>1, <2>2
<1> QED BY <1>5, <1>6, <1>7

(* Whatever ReadSequence does to a Storage of cells of C leaves cells of C, *)
(* and a cell it hands back has the fragment's hash, which is its body's.   *)
LEMMA ReadSequenceProperties ==
  ASSUME NEW C, NEW before \in Seq(C), NEW header, NEW bytes, NEW fill, NEW time,
         header.type = TypeFirst =>
           [header |-> header, timestamp |-> time, body |-> fill] \in C,
         \A c \in C : /\ Filled(c, header, bytes) \in C
                      /\ Filled(c, header, bytes).header = c.header,
         NEW r, r = ReadSequence(before, header, bytes, fill, time)
  PROVE  /\ r.storage \in Seq(C)
         /\ r.status \in BOOLEAN
         /\ r.status => /\ r.pivot \in 1..Len(r.storage)
                        /\ r.storage[r.pivot].header.hash = header.hash
                        /\ XXHM(r.storage[r.pivot].body) = header.hash
                        /\ Final(header)
<1> DEFINE cells == IF header.type = TypeFirst
                    THEN Append(before, [header |-> header, timestamp |-> time, body |-> fill])
                    ELSE before
           stop  == Position(cells, header.hash, 1)
           aged  == {i \in 1..(stop - 1) : Expired(cells[i], time)}
           kept  == IF aged = {} THEN cells ELSE Without(cells, Smallest(aged))
           pivot == IF aged = {} THEN stop
                    ELSE Position(kept, header.hash, Smallest(aged) + 1)
           found == pivot <= Len(kept)
           read  == IF found
                    THEN [kept EXCEPT ![pivot] = Filled(@, header, bytes)] ELSE kept
<1>1. cells \in Seq(C)
  BY AppendProperties
<1>2. stop \in 1..(Len(cells) + 1) /\ (stop <= Len(cells) => cells[stop].header.hash = header.hash)
  <2> HIDE DEF cells
  <2> QED BY <1>1, PositionProperties
<1>3. aged # {} => Smallest(aged) \in 1..(stop - 1)
  <2>1. aged \in SUBSET Nat
    BY <1>2
  <2>2. aged # {} => Smallest(aged) \in aged
    <3> HIDE DEF aged
    <3> QED BY <2>1, SmallestProperties
  <2> QED BY <2>2
<1>4. kept \in Seq(C)
  <2> HIDE DEF cells, stop
  <2>1. aged # {} => Smallest(aged) \in 1..Len(cells)
    BY <1>1, <1>2, <1>3
  <2> HIDE DEF aged
  <2> QED BY <1>1, <2>1, WithoutProperties
<1>5. pivot \in 1..(Len(kept) + 1) /\ (found => kept[pivot].header.hash = header.hash)
  <2>1. CASE aged = {}
    BY <2>1, <1>2
  <2>2. CASE aged # {}
    <3>1. Smallest(aged) + 1 \in Nat \ {0}
      <4> HIDE DEF cells, stop, aged
      <4> QED BY <2>2, <1>1, <1>2, <1>3
    <3> HIDE DEF aged, kept
    <3> QED BY <2>2, <3>1, <1>4, PositionProperties
  <2> QED BY <2>1, <2>2
<1> HIDE DEF kept, pivot
<1>6. found => /\ kept[pivot] \in C
               /\ Filled(kept[pivot], header, bytes) \in C
               /\ Filled(kept[pivot], header, bytes).header = kept[pivot].header
  BY <1>4, <1>5
<1>7. read \in Seq(C) /\ Len(read) = Len(kept)
      /\ (found => read[pivot].header.hash = header.hash)
  BY <1>4, <1>5, <1>6
<1> HIDE DEF read
<1>8. found => Without(read, pivot) \in Seq(C)
  BY <1>4, <1>5, <1>7, WithoutProperties
<1>9. /\ r.status = (found /\ Final(header) /\ Intact(read[pivot]))
      /\ r.pivot = pivot
      /\ r.storage = IF found /\ Final(header) /\ ~Intact(read[pivot]) THEN Without(read, pivot) ELSE read
  BY Zenon DEF ReadSequence, read, kept, pivot
<1>10. r.storage \in Seq(C) /\ r.status \in BOOLEAN
  BY <1>7, <1>8, <1>9
<1>11. r.status => found /\ Final(header) /\ XXHM(read[pivot].body) = read[pivot].header.hash /\ r.storage = read
  BY <1>9, Zenon DEF Intact
<1>12. r.status => r.pivot \in 1..Len(r.storage)
  BY <1>4, <1>5, <1>7, <1>9, <1>11
<1> QED BY <1>7, <1>9, <1>10, <1>11, <1>12

----------------------------------------------------------------------------
(* The fragments and the cells that IInv allows, as sets. *)
Buffers == {f \in [id : Nat, header : Reread, body : Seq(Byte)] : Held(f)}
Frames ==
  {f \in [id : Nat \ {0}, header : Header, body : Seq(Byte), at : Nat \ {0}] : Matches(f)}
Cells == {c \in [header : Reread, timestamp : Nat, body : Seq(Byte)] : Owned(c)}
Deliveries ==
  {d \in [id : Nat \ {0}, data : Kinds \cup {0}, body : Seq(Byte)] :
     /\ d.id \in 1..Len(sent)
     /\ d.body = sent[d.id].payload
     /\ conn # "reset" =>
          \E n \in 1..Len(sent) : sent[n] = [data |-> d.data, payload |-> d.body]}

(* A sequence over T is one over S all whose elements are in T. *)
LEMMA SubsetSeq ==
  ASSUME NEW S, NEW T \in SUBSET S, NEW s
  PROVE  s \in Seq(T) <=> s \in Seq(S) /\ \A i \in 1..Len(s) : s[i] \in T
  OBVIOUS

IInv ==
  /\ sent \in Seq([data : Kinds, payload : Payloads])
  /\ call \in [Senders -> {Idle} \cup [id : Nat \ {0}, message : Header]]
  /\ \A s \in Senders : call[s] # Idle =>
       /\ Describes(call[s].message, call[s].id)
       /\ call[s].message.offset <= call[s].message.total_length
  /\ sendproc \in {"running", "terminated"}
  /\ conn \in {"open", "closed", "reset"}
  /\ stream \in Seq(Frames)
  /\ recvproc \in {"running", "terminated"}
  /\ buffer \in Buffers
  /\ storage \in Seq(Cells)
  /\ delivered \in Seq(Deliveries)
  /\ now \in 0..MaxTime

(* IInv is the type invariant, Consistent and Integrity, one sequence at a  *)
(* time.                                                                    *)
LEMMA IInvImplies == IInv <=> TypeOK /\ Consistent /\ Integrity
<1>1. stream \in Seq(Frames) <=>
        /\ stream \in Seq([id : Nat \ {0}, header : Header, body : Seq(Byte), at : Nat \ {0}])
        /\ \A i \in 1..Len(stream) : Matches(stream[i])
  <2> DEFINE S == [id : Nat \ {0}, header : Header, body : Seq(Byte), at : Nat \ {0}]
  <2>1. Frames \subseteq S /\ \A f \in S : f \in Frames <=> Matches(f)
    BY DEF Frames
  <2> HIDE DEF S
  <2>2. stream \in Seq(Frames) <=> stream \in Seq(S) /\ \A i \in 1..Len(stream) : stream[i] \in Frames
    BY <2>1, SubsetSeq
  <2>3. stream \in Seq(S) => \A i \in 1..Len(stream) : stream[i] \in S
    OBVIOUS
  <2> QED BY <2>1, <2>2, <2>3, Zenon DEF S
<1>2. buffer \in Buffers <=>
        buffer \in [id : Nat, header : Reread, body : Seq(Byte)] /\ Held(buffer)
  BY DEF Buffers
<1>3. storage \in Seq(Cells) <=>
        /\ storage \in Seq([header : Reread, timestamp : Nat, body : Seq(Byte)])
        /\ \A i \in 1..Len(storage) : Owned(storage[i])
  <2> DEFINE S == [header : Reread, timestamp : Nat, body : Seq(Byte)]
  <2>1. Cells \subseteq S /\ \A c \in S : c \in Cells <=> Owned(c)
    BY DEF Cells
  <2> HIDE DEF S
  <2>2. storage \in Seq(Cells) <=> storage \in Seq(S) /\ \A i \in 1..Len(storage) : storage[i] \in Cells
    BY <2>1, SubsetSeq
  <2>3. storage \in Seq(S) => \A i \in 1..Len(storage) : storage[i] \in S
    OBVIOUS
  <2> QED BY <2>1, <2>2, <2>3, Zenon DEF S
<1>4. delivered \in Seq(Deliveries) <=>
        /\ delivered \in Seq([id : Nat \ {0}, data : Kinds \cup {0}, body : Seq(Byte)])
        /\ Integrity
  <2> DEFINE S == [id : Nat \ {0}, data : Kinds \cup {0}, body : Seq(Byte)]
             Right(d) == /\ d.id \in 1..Len(sent)
                         /\ d.body = sent[d.id].payload
                         /\ conn # "reset" =>
                              \E n \in 1..Len(sent) : sent[n] = [data |-> d.data, payload |-> d.body]
  <2>1. Deliveries \subseteq S /\ \A d \in S : d \in Deliveries <=> Right(d)
    BY DEF Deliveries
  <2>2. Integrity <=> \A i \in 1..Len(delivered) : Right(delivered[i])
    BY DEF Integrity
  <2> HIDE DEF S, Right
  <2>3. delivered \in Seq(Deliveries) <=>
          delivered \in Seq(S) /\ \A i \in 1..Len(delivered) : delivered[i] \in Deliveries
    BY <2>1, SubsetSeq
  <2>4. delivered \in Seq(S) => \A i \in 1..Len(delivered) : delivered[i] \in S
    OBVIOUS
  <2> QED BY <2>1, <2>2, <2>3, <2>4, Zenon DEF S
<1> QED BY <1>1, <1>2, <1>3, <1>4, Zenon DEF IInv, TypeOK, Consistent

(* What the assumption on the hash says of a payload. *)
LEMMA SameHashSameBytes ==
  ASSUME NEW p \in Payloads
  PROVE  /\ \A n \in Sizes : \A b \in [1..n -> Byte] : XXHM(b) = XXHM(p) => b = p
         /\ \A q \in Payloads : XXHM(q) = XXHM(p) => q = p
         /\ NobodysHash # XXHM(p)
<1>1. \A n \in Sizes : \A b \in [1..n -> Byte] : XXHM(b) = XXHM(p) => b = p
  BY CollisionFreeAssumption
<1>2. ASSUME NEW q \in Payloads PROVE Len(q) \in Sizes /\ q \in [1..Len(q) -> Byte]
  <2>1. q \in Seq(Units) /\ Len(q) \in Sizes
    BY PayloadsAssumption, UintAssumption
  <2> QED BY <2>1 DEF Byte
<1>3. <<Junk>> \in [1..1 -> Byte] /\ 1 \in Sizes
  BY UintAssumption DEF Byte
<1>4. p \in Seq(Units) /\ Junk \notin Units
  BY PayloadsAssumption
<1>5. <<Junk>> # p
  BY <1>4
<1>6. XXHM(<<Junk>>) = XXHM(p) => <<Junk>> = p
  BY <1>1, <1>3
<1> QED BY <1>1, <1>2, <1>5, <1>6 DEF NobodysHash

(* Bytes that are no header are held as they are. *)
LEMMA BlankHeld == NoHeader \in Reread /\ Blank \in Buffers
<1>1. NoHeader \in Reread
  BY UintAssumption DEF NoHeader, Reread, Hashes
<1>2. <<>> \in Seq(Byte) /\ <<>> \in [1..0 -> Byte]
  BY EmptySeq
<1>3. Held(Blank)
  BY <1>2 DEF Held, Blank, NoHeader
<1> QED BY <1>1, <1>2, <1>3 DEF Buffers, Blank

LEMMA InitIInv == Init => IInv
<1> SUFFICES ASSUME Init PROVE IInv
  OBVIOUS
<1>1. \A S : <<>> \in Seq(S)
  BY EmptySeq
<1> QED BY <1>1, BlankHeld, TransportAssumption DEF Init, IInv

----------------------------------------------------------------------------
(* The sender's side.                                                      *)

(* What a header says of a call stays true when another call is made. *)
LEMMA SentGrows ==
  ASSUME IInv, NEW m \in [data : Kinds, payload : Payloads], sent' = Append(sent, m),
         UNCHANGED conn
  PROVE  /\ sent' \in Seq([data : Kinds, payload : Payloads])
         /\ Len(sent') = Len(sent) + 1 /\ sent'[Len(sent) + 1] = m
         /\ \A h, n : Describes(h, n) => Describes(h, n)'
         /\ Frames \subseteq Frames' /\ Buffers \subseteq Buffers'
         /\ Cells \subseteq Cells' /\ Deliveries \subseteq Deliveries'
<1>1. /\ sent' \in Seq([data : Kinds, payload : Payloads])
      /\ Len(sent') = Len(sent) + 1 /\ sent'[Len(sent) + 1] = m
      /\ \A n \in 1..Len(sent) : n \in 1..Len(sent') /\ sent'[n] = sent[n]
  BY AppendProperties DEF IInv
<1>2. \A h, n : Describes(h, n) => Describes(h, n)'
  BY <1>1, Zenon DEF Describes
<1>3. \A f : Matches(f) => Matches(f)'
  BY <1>2, Zenon DEF Matches
<1>h. \A h, n : HashOf(h, n) => HashOf(h, n)'
  BY <1>1, Zenon DEF HashOf
<1>b. \A f : Held(f) => Held(f)'
  BY <1>h, Zenon DEF Held
<1>4. \A c : Owned(c) => Owned(c)'
  BY <1>1, <1>2, <1>h, Zenon DEF Owned
<1>5. Frames \subseteq Frames' /\ Buffers \subseteq Buffers' /\ Cells \subseteq Cells'
  BY <1>3, <1>4, <1>b, Zenon DEF Frames, Buffers, Cells
<1>6. Deliveries \subseteq Deliveries'
  BY <1>1, Zenon DEF Deliveries
<1> QED BY <1>1, <1>2, <1>5, <1>6

LEMMA SendSequenceStep ==
  ASSUME IInv, NEW s \in Senders, NEW kind \in Kinds, NEW payload \in Payloads,
         SendSequence(s, kind, payload)
  PROVE  IInv'
<1> DEFINE m == [data |-> kind, payload |-> payload]
           message == NewMessage(kind, payload)
<1>1. m \in [data : Kinds, payload : Payloads] /\ sent' = Append(sent, m) /\ UNCHANGED conn
  BY DEF SendSequence
<1>2. /\ sent' \in Seq([data : Kinds, payload : Payloads])
      /\ Len(sent') = Len(sent) + 1 /\ sent'[Len(sent) + 1] = m
      /\ \A h, n : Describes(h, n) => Describes(h, n)'
      /\ Frames \subseteq Frames' /\ Buffers \subseteq Buffers'
      /\ Cells \subseteq Cells' /\ Deliveries \subseteq Deliveries'
  <2> HIDE DEF m
  <2> QED BY <1>1, SentGrows
<1>3. PICK id \in Nat \ {0} : id = Len(sent) + 1
  BY DEF IInv
<1>4. message \in Header /\ message.offset <= message.total_length
  <2>1. Fragment \in Nat
    BY SizesAssumption DEF Fragment
  <2>2. payload \in Seq(Units)
    BY PayloadsAssumption
  <2> QED BY <2>1, <2>2 DEF NewMessage, Header, Hashes
<1>5. Describes(message, id)'
  BY <1>2, <1>3 DEF Describes, NewMessage
<1>6. call' = [call EXCEPT ![s] = [id |-> id, message |-> message]]
  BY <1>3 DEF SendSequence
<1> HIDE DEF m, message
<1>7. call' \in [Senders -> {Idle} \cup [id : Nat \ {0}, message : Header]]
  BY <1>4, <1>6 DEF IInv
<1>8. \A t \in Senders : call'[t] # Idle =>
        /\ Describes(call[t].message, call[t].id)'
        /\ call'[t].message.offset <= call'[t].message.total_length
  <2> TAKE t \in Senders
  <2>1. CASE t = s
    <3>1. call'[t] = [id |-> id, message |-> message]
      BY <2>1, <1>6 DEF IInv
    <3> QED BY <3>1, <1>4, <1>5, <1>6 DEF Describes
  <2>2. CASE t # s
    <3>1. call'[t] = call[t]
      BY <2>2, <1>6 DEF IInv
    <3> QED BY <3>1, <1>2 DEF IInv
  <2> QED BY <2>1, <2>2
<1>9. UNCHANGED <<sendproc, conn, stream, recvproc, buffer, storage, delivered, now>>
  BY DEF SendSequence, recvVars
<1>10. /\ stream' \in Seq(Frames') /\ buffer' \in Buffers'
       /\ storage' \in Seq(Cells') /\ delivered' \in Seq(Deliveries')
  BY <1>2, <1>9, SubsetSeq DEF IInv
<1>11. sendproc' \in {"running", "terminated"} /\ conn' \in {"open", "closed", "reset"}
       /\ recvproc' \in {"running", "terminated"} /\ now' \in 0..MaxTime
  BY <1>9 DEF IInv
<1> QED BY <1>2, <1>7, <1>8, <1>10, <1>11, Zenon DEF IInv, Idle

(* IInv speaks of sent and of a failed socket only through these. *)
LEMMA SentUnchanged ==
  ASSUME UNCHANGED sent
  PROVE  /\ Frames' = Frames /\ Buffers' = Buffers
         /\ \A h, n : Describes(h, n)' <=> Describes(h, n)
         /\ UNCHANGED conn => Cells' = Cells /\ Deliveries' = Deliveries
         /\ (conn = "reset" => conn' = "reset") => Cells \subseteq Cells' /\ Deliveries \subseteq Deliveries'
<1>1. \A h, n : (Describes(h, n)' <=> Describes(h, n)) /\ (HashOf(h, n)' <=> HashOf(h, n))
                /\ (Describes(h, n) => HashOf(h, n))
  BY DEF Describes, HashOf
<1>2. \A f : (Matches(f)' <=> Matches(f)) /\ (Held(f)' <=> Held(f))
  BY <1>1, Zenon DEF Matches, Held
<1>3. UNCHANGED conn => \A c : Owned(c)' <=> Owned(c)
  BY <1>1, Zenon DEF Owned
<1>4. (conn = "reset" => conn' = "reset") => \A c : Owned(c) => Owned(c)'
  BY <1>1, Zenon DEF Owned
<1>5. Frames' = Frames /\ Buffers' = Buffers
  BY <1>2, Zenon DEF Frames, Buffers
<1>6. UNCHANGED conn => Cells' = Cells /\ Deliveries' = Deliveries
  BY <1>3, Zenon DEF Cells, Deliveries
<1>7. (conn = "reset" => conn' = "reset") => Cells \subseteq Cells' /\ Deliveries \subseteq Deliveries'
  BY <1>4, Zenon DEF Cells, Deliveries
<1> QED BY <1>1, <1>5, <1>6, <1>7

(* A step that only ends the connection keeps cells and deliveries. *)
LEMMA ConnectionEnds ==
  ASSUME IInv, UNCHANGED <<sent, storage, delivered>>, conn = "reset" => conn' = "reset"
  PROVE  storage' \in Seq(Cells') /\ delivered' \in Seq(Deliveries')
<1>1. Cells \subseteq Cells' /\ Deliveries \subseteq Deliveries'
  BY SentUnchanged
<1> QED BY <1>1, SubsetSeq DEF IInv

(* What a call on the way may look like. *)
CallOK(c) ==
  /\ c \in {Idle} \cup [id : Nat \ {0}, message : Header]
  /\ c # Idle => /\ Describes(c.message, c.id)
                 /\ c.message.offset <= c.message.total_length

(* A step that leaves sent alone and replaces at most one call preserves    *)
(* what IInv says of sent and call.                                         *)
LEMMA OneCallChanges ==
  ASSUME IInv, UNCHANGED sent, NEW s \in Senders, NEW c, CallOK(c),
         call' = [call EXCEPT ![s] = c]
  PROVE  /\ call' \in [Senders -> {Idle} \cup [id : Nat \ {0}, message : Header]]
         /\ \A t \in Senders : call'[t] # Idle =>
              /\ Describes(call[t].message, call[t].id)'
              /\ call'[t].message.offset <= call'[t].message.total_length
<1>1. \A h, n : Describes(h, n)' <=> Describes(h, n)
  BY SentUnchanged
<1>2. call' \in [Senders -> {Idle} \cup [id : Nat \ {0}, message : Header]]
  BY DEF IInv, CallOK
<1>3. ASSUME NEW t \in Senders, call'[t] # Idle
      PROVE  /\ Describes(call[t].message, call[t].id)'
             /\ call'[t].message.offset <= call'[t].message.total_length
  <2>1. CASE t = s
    <3>1. call'[t] = c
      BY <2>1 DEF IInv
    <3> QED BY <3>1, <1>1, <1>3 DEF CallOK
  <2>2. CASE t # s
    <3>1. call'[t] = call[t]
      BY <2>2 DEF IInv
    <3> QED BY <3>1, <1>1, <1>3 DEF IInv
  <2> QED BY <2>1, <2>2
<1> QED BY <1>2, <1>3

(* A fragment that describes its call makes a sequence of frames. *)
LEMMA FrameOfFragment ==
  ASSUME NEW id \in Nat \ {0}, NEW header \in Header, NEW body,
         Describes(header, id),
         header.offset + header.length <= header.total_length,
         body \in [1..header.length -> Byte]
  PROVE  Frame(id, header, body) \in Seq(Frames)
<1>1. header.length \in Nat
  BY SizesAssumption DEF Header, Fragment
<1>2. body \in Seq(Byte)
  BY <1>1
<1>3. ASSUME NEW i \in 1..(sizeofheader + header.length)
      PROVE  [id |-> id, header |-> header, body |-> body, at |-> i] \in Frames
  <2>1. i \in Nat \ {0}
    BY <1>1, SizesAssumption
  <2> DEFINE f == [id |-> id, header |-> header, body |-> body, at |-> i]
  <2>2. Matches(f)
    BY DEF Matches
  <2> QED BY <1>2, <2>1, <2>2 DEF Frames
<1>4. sizeofheader + header.length \in Nat
  BY <1>1, SizesAssumption
<1> QED BY <1>3, <1>4 DEF Frame

LEMMA SendFragmentStep ==
  ASSUME IInv, NEW s \in Senders, SendFragment(s)
  PROVE  IInv'
<1> DEFINE m == call[s].message
           id == call[s].id
<1>1. /\ call[s] # Idle /\ id \in Nat \ {0} /\ m \in Header
      /\ Describes(m, id) /\ m.offset <= m.total_length
  BY DEF IInv, SendFragment, Idle
<1>2. sent[id].payload \in Payloads
  <2>1. sent \in Seq([data : Kinds, payload : Payloads]) /\ id \in 1..Len(sent)
    BY <1>1 DEF IInv, Describes
  <2>2. sent[id] \in [data : Kinds, payload : Payloads]
    <3> HIDE DEF id
    <3> QED BY <2>1, ElementOfSeq
  <2> QED BY <2>2
<1>3. PICK heap \in Memory(Portion(m)) :
        LET w == WritePayload(sent[id].payload, m, heap)
        IN /\ w.built
           /\ \/ /\ stream' = stream \o Frame(id, w.header, w.body)
                 /\ call' = [call EXCEPT ![s] = Continued(id, w)]
              \/ /\ call' = [call EXCEPT ![s] = Idle]
                 /\ UNCHANGED stream
  BY Zenon DEF SendFragment
<1> DEFINE w == WritePayload(sent[id].payload, m, heap)
<1>4. Portion(m) \in Nat
  BY <1>1, SizesAssumption DEF Portion, Lesser, Fragment, Header
<1>5. heap \in [1..Portion(m) -> Byte]
  BY <1>4, MemoryProperties
<1>6. /\ w.size \in 0..Fragment /\ m.offset + w.size <= m.total_length
      /\ w.header = [m EXCEPT !.offset = m.offset, !.length = w.size]
      /\ w.message = [m EXCEPT !.length = w.size, !.offset = @ + w.size]
      /\ w.body \in [1..w.size -> Byte]
  <2>1. m.total_length = Len(sent[id].payload) /\ m.offset \in 0..m.total_length
    BY <1>1 DEF Describes, Header
  <2>2. w.built
    BY <1>3
  <2> HIDE DEF m, id
  <2> QED BY <1>1, <1>2, <1>5, <2>1, <2>2, WritePayloadProperties
<1>m. /\ \/ /\ stream' = stream \o Frame(id, w.header, w.body)
            /\ call' = [call EXCEPT ![s] = Continued(id, w)]
         \/ /\ call' = [call EXCEPT ![s] = Idle]
            /\ UNCHANGED stream
  BY <1>3
<1> HIDE DEF w
<1>7. /\ w.header \in Header /\ Describes(w.header, id)
      /\ w.header.length = w.size
      /\ w.header.offset + w.header.length <= w.header.total_length
  BY <1>1, <1>6 DEF Header, Describes
<1>8. Frame(id, w.header, w.body) \in Seq(Frames)
  <2> HIDE DEF id, m
  <2> QED BY <1>1, <1>6, <1>7, FrameOfFragment
<1>9. CallOK(Continued(id, w))
  <2>0. m.offset + w.size \in Nat
    <3> HIDE DEF m
    <3> QED BY <1>1, <1>6, SizesAssumption DEF Header, Fragment
  <2>1. [w.message EXCEPT !.type = TypeNext] \in Header
    <3> HIDE DEF m
    <3> QED BY <1>1, <1>6, <2>0 DEF Header
  <2>2. Describes([w.message EXCEPT !.type = TypeNext], id)
    BY <1>1, <1>6 DEF Describes, Header
  <2>3. [w.message EXCEPT !.type = TypeNext].offset <=
          [w.message EXCEPT !.type = TypeNext].total_length
    BY <1>1, <1>6 DEF Header
  <2> QED BY <1>1, <2>1, <2>2, <2>3 DEF CallOK, Continued
<1>10. CallOK(Idle)
  BY DEF CallOK
<1>11. stream' \in Seq(Frames)
  <2>1. stream \in Seq(Frames)
    BY DEF IInv
  <2> HIDE DEF id
  <2> QED BY <1>m, <1>8, <2>1, ConcatProperties
<1>12. UNCHANGED <<sent, sendproc, conn, recvproc, buffer, storage, delivered, now>>
  BY DEF SendFragment, recvVars
<1>13. /\ call' \in [Senders -> {Idle} \cup [id : Nat \ {0}, message : Header]]
       /\ \A t \in Senders : call'[t] # Idle =>
            /\ Describes(call[t].message, call[t].id)'
            /\ call'[t].message.offset <= call'[t].message.total_length
  <2> HIDE DEF id, m
  <2> QED BY <1>m, <1>9, <1>10, <1>12, OneCallChanges
<1> QED BY <1>11, <1>12, <1>13, SentUnchanged DEF IInv

----------------------------------------------------------------------------
(* The receiver's side.                                                    *)

(* The payload of a call is one of the payloads. *)
LEMMA PayloadOfCall ==
  ASSUME IInv, NEW n \in 1..Len(sent)
  PROVE  sent[n].payload \in Payloads /\ sent[n].data \in Kinds
         /\ sent[n] = [data |-> sent[n].data, payload |-> sent[n].payload]
<1>1. sent[n] \in [data : Kinds, payload : Payloads]
  BY ElementOfSeq DEF IInv
<1> QED BY <1>1

(* Copying bytes into a cell leaves it a cell. *)
LEMMA FilledCell ==
  ASSUME NEW c \in Cells, NEW header \in Reread,
         NEW bytes \in [1..header.length -> Byte]
  PROVE  Filled(c, header, bytes) \in Cells /\ Filled(c, header, bytes).header = c.header
<1> DEFINE body == [i \in 1..Len(c.body) |->
                      IF i \in (header.offset + 1)..(header.offset + header.length)
                      THEN bytes[i - header.offset] ELSE c.body[i]]
<1>1. c \in [header : Reread, timestamp : Nat, body : Seq(Byte)] /\ Owned(c)
  BY DEF Cells
<1>2. header.offset \in Nat /\ header.length \in Int
  BY DEF Reread
<1>3. c.header.total_length \in Nat /\ Len(c.body) = c.header.total_length
  <2>1. c.header.total_length \in Nat /\ c.body \in [1..c.header.total_length -> Byte]
    BY <1>1, UintAssumption DEF Owned, Reread
  <2> QED BY <2>1
<1>4. body \in [1..Len(c.body) -> Byte]
  <2>1. ASSUME NEW i \in 1..Len(c.body)
        PROVE  (IF i \in (header.offset + 1)..(header.offset + header.length)
                THEN bytes[i - header.offset] ELSE c.body[i]) \in Byte
    <3>1. CASE i \in (header.offset + 1)..(header.offset + header.length)
      <4>1. i - header.offset \in 1..header.length
        BY <1>2, <3>1
      <4> QED BY <3>1, <4>1
    <3>2. CASE i \notin (header.offset + 1)..(header.offset + header.length)
      BY <3>2, <1>1
    <3> QED BY <3>1, <3>2
  <2> QED BY <2>1
<1>5. Filled(c, header, bytes) = [c EXCEPT !.body = body]
  BY DEF Filled
<1> HIDE DEF body
<1>6. body \in Seq(Byte) /\ body \in [1..c.header.total_length -> Byte]
  BY <1>3, <1>4
<1>7. /\ [c EXCEPT !.body = body] \in [header : Reread, timestamp : Nat, body : Seq(Byte)]
      /\ [c EXCEPT !.body = body].header = c.header
      /\ [c EXCEPT !.body = body].body = body
  BY <1>1, <1>6
<1>8. Owned([c EXCEPT !.body = body])
  BY <1>1, <1>6, <1>7, Zenon DEF Owned
<1> QED BY <1>5, <1>7, <1>8 DEF Cells

(* A body with the hash of a call's payload is that payload, and the cell   *)
(* it is in was made by a call with the same payload if no socket error has *)
(* shown a header again.                                                    *)
LEMMA IntactCell ==
  ASSUME IInv, NEW c \in Cells, NEW id \in 1..Len(sent),
         c.header.hash = XXHM(sent[id].payload), XXHM(c.body) = c.header.hash
  PROVE  [id |-> id, data |-> c.header.data, body |-> c.body] \in Deliveries
<1> DEFINE p == sent[id].payload
<1>1. p \in Payloads
  BY PayloadOfCall
<1>2. c \in [header : Reread, timestamp : Nat, body : Seq(Byte)] /\ Owned(c)
  BY DEF Cells
<1>3. c.header.total_length \in Sizes /\ c.body \in [1..c.header.total_length -> Byte]
  BY <1>2 DEF Owned, Reread
<1>4. c.header.hash # NobodysHash
  <2> HIDE DEF p
  <2> QED BY <1>1, SameHashSameBytes DEF p
<1>5. c.body = p
  <2>1. XXHM(c.body) = XXHM(p)
    OBVIOUS
  <2> HIDE DEF p
  <2> QED BY <1>1, <1>3, <2>1, SameHashSameBytes
<1>6. ASSUME conn # "reset"
      PROVE  \E n \in 1..Len(sent) : sent[n] = [data |-> c.header.data, payload |-> c.body]
  <2>1. PICK n \in 1..Len(sent) : Describes(c.header, n)
    BY <1>2, <1>4, <1>6 DEF Owned
  <2>2. sent[n].payload \in Payloads
        /\ sent[n] = [data |-> sent[n].data, payload |-> sent[n].payload]
    BY PayloadOfCall
  <2>3. XXHM(sent[n].payload) = XXHM(p) /\ c.header.data = sent[n].data
    BY <2>1 DEF Describes
  <2>4. sent[n].payload = p
    <3> HIDE DEF p
    <3> QED BY <1>1, <2>2, <2>3, SameHashSameBytes
  <2> QED BY <1>5, <2>2, <2>3, <2>4
<1>7. [id |-> id, data |-> c.header.data, body |-> c.body]
         \in [id : Nat \ {0}, data : Kinds \cup {0}, body : Seq(Byte)]
  <2>1. id \in Nat \ {0}
    BY DEF IInv
  <2> QED BY <2>1, <1>2 DEF Reread
<1> QED BY <1>5, <1>6, <1>7 DEF Deliveries

(* What ReadSequence may parse: a fragment of the stream, or what reads     *)
(* left in the buffer when the socket has failed.                           *)
Parsed(f) ==
  /\ f.id \in Nat \ {0} /\ f.header \in Reread /\ HashOf(f.header, f.id)
  /\ conn # "reset" => Describes(f.header, f.id)

(* A fragment of the stream can be parsed. *)
LEMMA FrameParsed ==
  ASSUME IInv, NEW f, f.id \in Nat \ {0}, f.header \in Header, Matches(f)
  PROVE  Parsed(f) /\ f.header.length \in Nat /\ f.body \in [1..f.header.length -> Byte]
<1>1. Describes(f.header, f.id) /\ f.body \in [1..f.header.length -> Byte]
  BY DEF Matches
<1>2. f.id \in 1..Len(sent) /\ f.header.total_length = Len(sent[f.id].payload)
      /\ f.header.hash = XXHM(sent[f.id].payload)
  BY <1>1 DEF Describes
<1>3. f.header.total_length \in Sizes
  <2>1. sent[f.id].payload \in Payloads
    BY <1>2, PayloadOfCall
  <2> QED BY <1>2, <2>1, UintAssumption
<1>4. f.header \in Reread /\ f.header.length \in Nat
  BY <1>3, SizesAssumption DEF Header, Reread, Fragment
<1> QED BY <1>1, <1>2, <1>4 DEF Parsed, HashOf

(* ReadSequence on a fragment that IInv allows. *)
LEMMA ProcessStep ==
  ASSUME IInv, NEW f, Parsed(f), NEW bytes \in [1..f.header.length -> Byte],
         Process(f, bytes)
  PROVE  /\ storage' \in Seq(Cells) /\ delivered' \in Seq(Deliveries)
         /\ recvproc' \in {"running", "terminated"}
<1>1. PICK fill \in IF f.header.type = TypeFirst THEN Memory(f.header.total_length) ELSE {<<>>} :
        LET r == ReadSequence(storage, f.header, bytes, fill, now)
        IN \/ /\ r.status
              /\ delivered' = Append(delivered,
                                [id |-> f.id, data |-> r.storage[r.pivot].header.data,
                                 body |-> r.storage[r.pivot].body])
              /\ storage' = Without(r.storage, r.pivot)
              /\ UNCHANGED recvproc
           \/ /\ ~r.status
              /\ storage' = r.storage
              /\ Unfinished
              /\ UNCHANGED delivered
  BY Zenon DEF Process
<1> DEFINE r == ReadSequence(storage, f.header, bytes, fill, now)
<1>2. \/ /\ r.status
         /\ delivered' = Append(delivered,
                           [id |-> f.id, data |-> r.storage[r.pivot].header.data,
                            body |-> r.storage[r.pivot].body])
         /\ storage' = Without(r.storage, r.pivot)
         /\ UNCHANGED recvproc
      \/ /\ ~r.status
         /\ storage' = r.storage
         /\ Unfinished
         /\ UNCHANGED delivered
  BY <1>1
<1>3. storage \in Seq(Cells) /\ delivered \in Seq(Deliveries) /\ now \in Nat
      /\ recvproc \in {"running", "terminated"} /\ f.id \in 1..Len(sent)
      /\ f.header \in Reread /\ f.header.hash = XXHM(sent[f.id].payload)
  BY TransportAssumption DEF IInv, Parsed, HashOf
<1>4. f.header.type = TypeFirst =>
        [header |-> f.header, timestamp |-> now, body |-> fill] \in Cells
  <2> SUFFICES ASSUME f.header.type = TypeFirst
               PROVE  [header |-> f.header, timestamp |-> now, body |-> fill] \in Cells
    OBVIOUS
  <2>1. f.header.total_length \in Nat
    BY <1>3, UintAssumption DEF Reread
  <2>2. fill \in [1..f.header.total_length -> Byte]
    BY <2>1, MemoryProperties
  <2>3. fill \in Seq(Byte)
    BY <2>1, <2>2
  <2> DEFINE c == [header |-> f.header, timestamp |-> now, body |-> fill]
  <2>4. c \in [header : Reread, timestamp : Nat, body : Seq(Byte)]
    BY <1>3, <2>3
  <2>5. Owned(c)
    BY <1>3, <2>2 DEF Owned, Parsed
  <2> QED BY <2>4, <2>5 DEF Cells
<1>5. \A c \in Cells : /\ Filled(c, f.header, bytes) \in Cells
                       /\ Filled(c, f.header, bytes).header = c.header
  BY <1>3, FilledCell
<1>6. /\ r.storage \in Seq(Cells)
      /\ r.status \in BOOLEAN
      /\ r.status => /\ r.pivot \in 1..Len(r.storage)
                     /\ r.storage[r.pivot].header.hash = f.header.hash
                     /\ XXHM(r.storage[r.pivot].body) = f.header.hash
  <2>1. r = ReadSequence(storage, f.header, bytes, fill, now)
    OBVIOUS
  <2> HIDE DEF r
  <2>2. storage \in Seq(Cells)
    BY <1>3
  <2> QED BY <2>1, <2>2, <1>4, <1>5, ReadSequenceProperties
<1> HIDE DEF r
<1>7. CASE r.status
  <2>1. r.storage[r.pivot] \in Cells
    BY <1>6, <1>7, ElementOfSeq
  <2>2. [id |-> f.id, data |-> r.storage[r.pivot].header.data, body |-> r.storage[r.pivot].body]
          \in Deliveries
    BY <1>3, <1>6, <1>7, <2>1, IntactCell
  <2>3. delivered' \in Seq(Deliveries)
    <3> DEFINE d == [id |-> f.id, data |-> r.storage[r.pivot].header.data,
                     body |-> r.storage[r.pivot].body]
    <3>1. d \in Deliveries /\ delivered' = Append(delivered, d)
      BY <1>2, <1>7, <2>2, Zenon
    <3> HIDE DEF d
    <3> QED BY <1>3, <3>1, AppendProperties
  <2>4. storage' \in Seq(Cells)
    <3>1. r.storage \in Seq(Cells) /\ r.pivot \in 1..Len(r.storage)
      BY <1>6, <1>7
    <3>2. Without(r.storage, r.pivot) \in Seq(Cells)
      <4> DEFINE cells == r.storage
                 i == r.pivot
      <4>1. cells \in Seq(Cells) /\ i \in 1..Len(cells)
        BY <3>1
      <4> HIDE DEF cells, i
      <4>2. Without(cells, i) \in Seq(Cells)
        BY <4>1, WithoutProperties
      <4> QED BY <4>2 DEF cells, i
    <3>3. storage' = Without(r.storage, r.pivot)
      BY <1>2, <1>7, Zenon
    <3> QED BY <3>2, <3>3
  <2> QED BY <1>2, <1>3, <1>7, <2>3, <2>4
<1>8. CASE ~r.status
  BY <1>2, <1>3, <1>6, <1>8 DEF Unfinished
<1> QED BY <1>7, <1>8

LEMMA MisreadStep ==
  ASSUME IInv, Misread
  PROVE  /\ storage' \in Seq(Cells) /\ delivered' \in Seq(Deliveries)
         /\ recvproc' \in {"running", "terminated"}
<1>1. JunkCell \in Cells
  <2>1. now \in Nat
    BY TransportAssumption DEF IInv
  <2>3. JunkCell.header \in Reread
    BY BlankHeld DEF JunkCell
  <2>4. JunkCell.body \in Seq(Byte) /\ JunkCell.body \in [1..JunkCell.header.total_length -> Byte]
    BY DEF JunkCell, NoHeader, Byte
  <2>5. JunkCell \in [header : Reread, timestamp : Nat, body : Seq(Byte)]
    BY <2>1, <2>3, <2>4 DEF JunkCell
  <2>6. Owned(JunkCell)
    BY <2>4 DEF Owned, JunkCell, NoHeader
  <2> QED BY <2>5, <2>6 DEF Cells
<1>2. storage \in Seq(Cells) /\ delivered \in Seq(Deliveries)
      /\ recvproc \in {"running", "terminated"}
  BY DEF IInv
<1>3. Append(storage, JunkCell) \in Seq(Cells)
  BY <1>1, <1>2, AppendProperties
<1> QED BY <1>2, <1>3 DEF Misread, Unfinished

(* Bytes of one number over those of another make a number. *)
LEMMA MixedNumbers ==
  ASSUME NEW m \in Nat, NEW n \in Nat
  PROVE  Mixed(m, n) \subseteq Nat
<1>1. ASSUME NEW b \in {1, 256, 65536, 16777216}
      PROVE  (m % b) + (n \div b) * b \in Nat
  BY <1>1
<1> QED BY <1>1 DEF Mixed

(* A header read in part is still one, with a hash of the two or nobody's.  *)
LEMMA OverlaidHeader ==
  ASSUME NEW new \in Reread, NEW old \in Reread, NEW k, NEW h \in Overlaid(new, old, k)
  PROVE  h \in Reread /\ h.hash \in {new.hash, old.hash, NobodysHash}
<1>1. /\ Mixed(new.total_length, old.total_length) \subseteq Sizes
      /\ Mixed(new.offset, old.offset) \subseteq Nat
      /\ Mixed(new.length, old.length) \subseteq Nat
  BY UintAssumption, MixedNumbers DEF Reread
<1>2. CASE h = [old EXCEPT !.data = new.data]
  BY <1>2 DEF Reread
<1>3. CASE \E x \in {old.hash, new.hash, NobodysHash} : h = [old EXCEPT !.data = new.data, !.hash = x]
  BY <1>3 DEF Reread, Hashes
<1>4. CASE \E n \in Mixed(new.total_length, old.total_length) :
             h = [new EXCEPT !.total_length = n, !.offset = old.offset, !.length = old.length]
  BY <1>1, <1>4 DEF Reread
<1>5. CASE \E n \in Mixed(new.offset, old.offset) : h = [new EXCEPT !.offset = n, !.length = old.length]
  BY <1>1, <1>5 DEF Reread
<1>6. CASE \E n \in Mixed(new.length, old.length) : h = [new EXCEPT !.length = n]
  BY <1>1, <1>6 DEF Reread
<1> QED BY <1>2, <1>3, <1>4, <1>5, <1>6, Zenon DEF Overlaid

(* A short read leaves a buffer of which the same can be said, and whose    *)
(* owner is the one it had, the call that was being read, or nobody.        *)
LEMMA ShortRead ==
  ASSUME IInv, NEW f \in Frames, NEW k, NEW b \in Overwritten(f, k)
  PROVE  b \in Buffers /\ (b.id \in {buffer.id, 0} \/ (f.at = 1 /\ b.id = f.id))
<1>1. /\ buffer \in [id : Nat, header : Reread, body : Seq(Byte)] /\ Held(buffer)
      /\ f.id \in Nat \ {0} /\ Parsed(f)
  <2>1. f.id \in Nat \ {0} /\ f.header \in Header /\ Matches(f)
    BY DEF Frames
  <2> QED BY <2>1, FrameParsed DEF IInv, Buffers
<1>2. CASE /\ f.at = 1
           /\ \E h \in Overlaid(f.header, buffer.header, k) :
                \E rest \in Memory(h.length) : b = Patched(f, h, rest)
  <2>1. PICK h \in Overlaid(f.header, buffer.header, k) :
          \E rest \in Memory(h.length) : b = Patched(f, h, rest)
    BY <1>2
  <2>2. PICK rest \in Memory(h.length) : b = Patched(f, h, rest)
    BY <2>1
  <2>3. h \in Reread /\ h.hash \in {f.header.hash, buffer.header.hash, NobodysHash}
    BY <1>1, OverlaidHeader DEF Parsed
  <2>4. h.length \in Nat /\ rest \in [1..h.length -> Byte]
    BY <2>3, MemoryProperties DEF Reread
  <2> DEFINE body == [i \in 1..h.length |->
                        IF i <= Len(buffer.body) THEN buffer.body[i] ELSE rest[i]]
             id == IF h.hash = buffer.header.hash THEN buffer.id
                   ELSE IF h.hash = f.header.hash THEN f.id ELSE 0
  <2>5. b = [id |-> id, header |-> h, body |-> body]
    BY <2>2 DEF Patched
  <2>6. body \in [1..h.length -> Byte] /\ body \in Seq(Byte)
    <3>1. buffer.body \in Seq(Byte)
      BY <1>1
    <3>2. body \in [1..h.length -> Byte]
      BY <2>4, <3>1
    <3> QED BY <2>4, <3>2
  <2>7. id \in Nat /\ ((id = 0 /\ h.hash = NobodysHash) \/ HashOf(h, id))
        /\ (id \in {buffer.id, 0} \/ id = f.id)
    BY <1>1, <2>3 DEF Held, Parsed, HashOf
  <2> HIDE DEF body, id
  <2>8. b \in [id : Nat, header : Reread, body : Seq(Byte)]
    BY <2>3, <2>5, <2>6, <2>7
  <2>9. Held(b)
    BY <2>5, <2>6, <2>7 DEF Held
  <2> QED BY <1>2, <2>5, <2>7, <2>8, <2>9 DEF Buffers
<1>3. CASE \E d \in Kinds \cup {0} : b = [buffer EXCEPT !.header.data = d]
  <2>1. PICK d \in Kinds \cup {0} : b = [buffer EXCEPT !.header.data = d]
    BY <1>3
  <2>2. /\ b \in [id : Nat, header : Reread, body : Seq(Byte)]
        /\ b.id = buffer.id /\ b.body = buffer.body
        /\ b.header.hash = buffer.header.hash /\ b.header.length = buffer.header.length
    BY <1>1, <2>1 DEF Reread
  <2>3. Held(b)
    BY <1>1, <2>2 DEF Held, HashOf
  <2> QED BY <2>2, <2>3 DEF Buffers
<1>4. CASE b = Blank
  BY <1>4, BlankHeld DEF Blank
<1>5. CASE b = [buffer EXCEPT !.id = 0, !.header.hash = NobodysHash]
  <2>2. /\ b \in [id : Nat, header : Reread, body : Seq(Byte)]
        /\ b.id = 0 /\ b.body = buffer.body
        /\ b.header.hash = NobodysHash /\ b.header.length = buffer.header.length
    BY <1>1, <1>5 DEF Reread, Hashes
  <2>3. Held(b)
    BY <1>1, <2>2 DEF Held
  <2> QED BY <2>2, <2>3 DEF Buffers
<1> QED BY <1>2, <1>3, <1>4, <1>5 DEF Overwritten

LEMMA ReceiveStep ==
  ASSUME IInv, NEW k \in 1..BUFFER_SIZE, Receive(k)
  PROVE  IInv'
<1> DEFINE f == stream[1]
           Rest == IF k >= sizeofheader + f.header.length THEN {f.body} ELSE Memory(f.header.length)
           Got(rest) == [j \in 1..f.header.length |->
                           IF sizeofheader + j <= k THEN f.body[j] ELSE rest[j]]
<1>1. f \in Frames
  <2>1. stream \in Seq(Frames) /\ stream # <<>>
    BY DEF IInv, Receive
  <2> QED BY <2>1
<1>2. /\ f.id \in Nat \ {0} /\ f.header \in Header /\ Matches(f)
  BY <1>1 DEF Frames
<1>3. stream' \in Seq(Frames)
  <2>1. stream \in Seq(Frames) /\ stream' = SubSeq(stream, k + 1, Len(stream))
    BY DEF IInv, Receive
  <2>2. k + 1 \in Int /\ Len(stream) \in Int
        /\ \A i \in (k + 1)..Len(stream) : stream[i] \in Frames
    BY <2>1
  <2> QED BY <2>1, <2>2, SubSeqProperties
<1>4. UNCHANGED <<sent, call, sendproc, conn, now>>
  BY DEF Receive, sendVars
<1>5. /\ storage' \in Seq(Cells) /\ delivered' \in Seq(Deliveries)
      /\ recvproc' \in {"running", "terminated"}
      /\ buffer' \in Buffers
  <2>1. CASE \E rest \in Rest :
               /\ Process(f, Got(rest))
               /\ buffer' = [id |-> f.id, header |-> f.header, body |-> Got(rest)]
    <3>1. PICK rest \in Rest :
            /\ Process(f, Got(rest))
            /\ buffer' = [id |-> f.id, header |-> f.header, body |-> Got(rest)]
      BY <2>1
    <3>2. Parsed(f) /\ f.header.length \in Nat /\ f.body \in [1..f.header.length -> Byte]
      BY <1>2, FrameParsed
    <3>3. rest \in [1..f.header.length -> Byte]
      BY <3>2, MemoryProperties
    <3>4. Got(rest) \in [1..f.header.length -> Byte]
      BY <3>2, <3>3
    <3> HIDE DEF Got, Rest, f
    <3>5. /\ storage' \in Seq(Cells) /\ delivered' \in Seq(Deliveries)
          /\ recvproc' \in {"running", "terminated"}
      BY <3>1, <3>2, <3>4, ProcessStep
    <3>6. [id |-> f.id, header |-> f.header, body |-> Got(rest)] \in Buffers
      <4>1. Got(rest) \in Seq(Byte)
        BY <3>2, <3>4
      <4> QED BY <3>2, <3>4, <4>1 DEF Buffers, Held, Parsed
    <3> QED BY <3>1, <3>5, <3>6
  <2>2. CASE Misread /\ buffer' = Blank
    BY <2>2, MisreadStep, BlankHeld
  <2>3. CASE Unfinished /\ buffer' \in Overwritten(f, k) /\ UNCHANGED <<storage, delivered>>
    <3>1. buffer' \in Buffers
      BY <1>1, <2>3, ShortRead
    <3> QED BY <2>3, <3>1 DEF IInv, Unfinished
  <2> QED BY <2>1, <2>2, <2>3, Zenon DEF Receive
<1> QED BY <1>3, <1>4, <1>5, SentUnchanged DEF IInv

(* What the buffer holds can be parsed once the socket has failed. *)
LEMMA BufferParsed ==
  ASSUME IInv, conn = "reset", buffer.id # 0
  PROVE  Parsed(buffer) /\ buffer.body \in [1..buffer.header.length -> Byte]
BY DEF IInv, Buffers, Held, Parsed

LEMMA ReceiveErrorStep ==
  ASSUME IInv, ReceiveError
  PROVE  IInv'
<1>1. UNCHANGED <<sent, call, sendproc, conn, stream, buffer, now>>
  BY DEF ReceiveError, sendVars
<1>2. /\ storage' \in Seq(Cells) /\ delivered' \in Seq(Deliveries)
      /\ recvproc' \in {"running", "terminated"}
  <2>1. CASE buffer.id # 0 /\ Process(buffer, buffer.body)
    <3>1. Parsed(buffer) /\ buffer.body \in [1..buffer.header.length -> Byte]
      BY <2>1, BufferParsed DEF ReceiveError
    <3> QED BY <2>1, <3>1, ProcessStep
  <2>2. CASE Misread
    BY <2>2, MisreadStep
  <2> QED BY <2>1, <2>2 DEF ReceiveError
<1> QED BY <1>1, <1>2, SentUnchanged DEF IInv

----------------------------------------------------------------------------
LEMMA DisconnectStep ==
  ASSUME IInv, Disconnect
  PROVE  /\ sendproc' \in {"running", "terminated"}
         /\ conn' \in {"open", "closed", "reset"}
         /\ stream' \in Seq(Frames)
         /\ conn = "reset" => conn' = "reset"
<1>1. <<>> \in Seq(Frames)
  BY EmptySeq
<1> QED BY <1>1 DEF Disconnect, IInv

(* Each step of the connection preserves IInv. *)
LEMMA NextIInv == IInv /\ [Next]_vars => IInv'
<1> SUFFICES ASSUME IInv, [Next]_vars PROVE IInv'
  OBVIOUS
<1>1. ASSUME NEW s \in Senders, NEW kind \in Kinds, NEW payload \in Payloads,
             SendSequence(s, kind, payload)
      PROVE  IInv'
  BY <1>1, SendSequenceStep
<1>2. ASSUME NEW s \in Senders, SendFragment(s) PROVE IInv'
  BY <1>2, SendFragmentStep
<1>3. ASSUME NEW s \in Senders, SendEnd(s) PROVE IInv'
  <2>1. /\ sendproc' \in {"running", "terminated"} /\ conn' \in {"open", "closed", "reset"}
        /\ stream' \in Seq(Frames) /\ (conn = "reset" => conn' = "reset")
    BY <1>3, DisconnectStep DEF SendEnd, IInv
  <2>2. call' = [call EXCEPT ![s] = Idle] /\ UNCHANGED <<sent, recvproc, buffer, storage, delivered, now>>
    BY <1>3 DEF SendEnd, recvVars
  <2>3. CallOK(Idle)
    BY DEF CallOK
  <2>4. /\ call' \in [Senders -> {Idle} \cup [id : Nat \ {0}, message : Header]]
        /\ \A t \in Senders : call'[t] # Idle =>
             /\ Describes(call[t].message, call[t].id)'
             /\ call'[t].message.offset <= call'[t].message.total_length
    BY <2>2, <2>3, OneCallChanges
  <2> QED BY <2>1, <2>2, <2>4, SentUnchanged, ConnectionEnds DEF IInv
<1>4. CASE SenderExit
  <2>1. /\ sendproc' \in {"running", "terminated"} /\ conn' \in {"open", "closed", "reset"}
        /\ stream' \in Seq(Frames) /\ (conn = "reset" => conn' = "reset")
    BY <1>4, DisconnectStep DEF SenderExit
  <2>2. UNCHANGED <<sent, call, recvproc, buffer, storage, delivered, now>>
    BY <1>4 DEF SenderExit, recvVars
  <2> QED BY <2>1, <2>2, SentUnchanged, ConnectionEnds DEF IInv
<1>5. CASE NetworkReset
  <2>1. <<>> \in Seq(Frames)
    BY EmptySeq
  <2>2. conn' = "reset" /\ stream' = <<>>
        /\ UNCHANGED <<sent, call, sendproc, recvproc, buffer, storage, delivered, now>>
    BY <1>5 DEF NetworkReset, sendVars, recvVars
  <2> QED BY <2>1, <2>2, SentUnchanged, ConnectionEnds DEF IInv
<1>6. ASSUME NEW k \in 1..BUFFER_SIZE, Receive(k) PROVE IInv'
  BY <1>6, ReceiveStep
<1>7. CASE ReceiveEOF
  <2>1. recvproc' \in {"running", "terminated"}
        /\ UNCHANGED <<sent, call, sendproc, conn, stream, buffer, storage, delivered, now>>
    BY <1>7 DEF ReceiveEOF, Unfinished, sendVars, IInv
  <2> QED BY <2>1, SentUnchanged DEF IInv
<1>8. CASE ReceiveError
  BY <1>8, ReceiveErrorStep
<1>9. CASE Tick
  <2>1. now' \in 0..MaxTime
    BY <1>9, TransportAssumption DEF Tick, IInv
  <2>2. UNCHANGED <<sent, call, sendproc, conn, stream, recvproc, buffer, storage, delivered>>
    BY <1>9 DEF Tick, sendVars, recvVars
  <2> QED BY <2>1, <2>2, SentUnchanged DEF IInv
<1>10. CASE UNCHANGED vars
  <2>1. UNCHANGED <<sent, call, sendproc, conn, stream, recvproc, buffer, storage, delivered, now>>
    BY <1>10 DEF vars
  <2> QED BY <2>1, SentUnchanged DEF IInv
<1> QED BY <1>1, <1>2, <1>3, <1>4, <1>5, <1>6, <1>7, <1>8, <1>9, <1>10 DEF Next

(* The types and the descriptions of headers, fragments and cells last      *)
(* through every step of SendSequence and ReadSequence.                     *)
THEOREM Invariance == Spec => []IInv
<1> QED BY InitIInv, NextIInv, PTL DEF Spec

(* Every variable keeps its type: what WritePayload cuts always fits a      *)
(* fragment, and ReadSequence never leaves the cells it may index.          *)
THEOREM TypeCorrect == Spec => []TypeOK
<1> QED BY Invariance, IInvImplies, PTL

(* Headers and cells never lose the call they belong to. *)
THEOREM Consistency == Spec => []Consistent
<1> QED BY Invariance, IInvImplies, PTL

(* Nothing is accepted that was not sent, however the network and the heap  *)
(* behave: the checksum makes up for uninitialised fragments, split and     *)
(* merged reads and messages with the same hash.                            *)
THEOREM AcceptedWasSent == Spec => []Integrity
<1> QED BY Invariance, IInvImplies, PTL


----------------------------------------------------------------------------
(***************************************************************************)
(* Theorems about what a connection promises to the code above it, for all *)
(* values of the constants: no message is accepted twice while the socket  *)
(* is good, and Transport implements MessageChannel.                       *)
(*                                                                         *)
(* OrderInv follows the last fragment of a call: it is not sent yet, on    *)
(* its way with nothing of the call behind it, or read.                    *)
(***************************************************************************)

Accepted(n) == \E i \in 1..Len(delivered) : delivered[i].id = n

(* A SendSequence that has not sent its last fragment. *)
MoreToSend(c) ==
  c # Idle /\ (c.message.offset < c.message.total_length \/ c.message.total_length = 0)

(* The last fragment of call n is neither on its way nor read. *)
NoLast(n) ==
  /\ ~Accepted(n)
  /\ \A i \in 1..Len(stream) : stream[i].id = n => ~Final(stream[i].header)

ResetIsEmpty == conn = "reset" => stream = <<>>

OneThreadEach ==
  \A s, t \in Senders : call[s] # Idle /\ call[t] # Idle /\ call[s].id = call[t].id => s = t

LastIsLast ==
  conn # "reset" =>
    \A s \in Senders, n \in Nat : MoreToSend(call[s]) /\ call[s].id = n => NoLast(n)

(* Behind a byte of a last fragment no fragment of its call starts. *)
NothingBehind ==
  \A i, j \in 1..Len(stream) :
    i < j /\ stream[i].id = stream[j].id /\ Final(stream[i].header) => stream[j].at # 1

NotAcceptedYet == \A j \in 1..Len(stream) : stream[j].at = 1 => ~Accepted(stream[j].id)

(* What a failed recvfrom shows again is of no call accepted before the     *)
(* last.                                                                    *)
OnlyLastAgain ==
  Accepted(buffer.id) => delivered[Len(delivered)].id = buffer.id

OrderInv ==
  /\ ResetIsEmpty /\ OneThreadEach /\ LastIsLast
  /\ NothingBehind /\ NotAcceptedYet /\ OnlyLastAgain /\ AtMostOnce

----------------------------------------------------------------------------
(* Everything on the way belongs to a call that was made. *)
LEMMA IdsAreCalls ==
  ASSUME IInv
  PROVE  /\ Len(sent) \in Nat
         /\ \A i \in 1..Len(stream) : stream[i].id \in 1..Len(sent)
         /\ \A i \in 1..Len(delivered) : delivered[i].id \in 1..Len(sent)
         /\ buffer.id # 0 => buffer.id \in 1..Len(sent)
         /\ ~Accepted(0)
         /\ \A s \in Senders : call[s] # Idle => call[s].id \in 1..Len(sent)
<1>1. \A i \in 1..Len(stream) : stream[i].id \in 1..Len(sent)
  <2>1. \A f \in Frames : f.id \in 1..Len(sent)
    BY DEF Frames, Matches, Describes
  <2>2. \A i \in 1..Len(stream) : stream[i] \in Frames
    BY ElementOfSeq DEF IInv
  <2> QED BY <2>1, <2>2
<1>2. \A i \in 1..Len(delivered) : delivered[i].id \in 1..Len(sent)
  <2>1. \A d \in Deliveries : d.id \in 1..Len(sent)
    BY DEF Deliveries
  <2>2. \A i \in 1..Len(delivered) : delivered[i] \in Deliveries
    BY ElementOfSeq DEF IInv
  <2> QED BY <2>1, <2>2
<1>3. buffer.id # 0 => buffer.id \in 1..Len(sent)
  BY DEF IInv, Buffers, Held, HashOf
<1>0. ~Accepted(0)
  BY <1>2 DEF Accepted
<1>4. \A s \in Senders : call[s] # Idle => call[s].id \in 1..Len(sent)
  BY DEF IInv, Describes
<1>5. Len(sent) \in Nat
  BY DEF IInv
<1> QED BY <1>0, <1>1, <1>2, <1>3, <1>4, <1>5

(* Accepting is all that Process does to delivered, and only the last       *)
(* fragment of a call makes it.                                             *)
LEMMA ProcessAccepts ==
  ASSUME NEW f, NEW bytes, Process(f, bytes)
  PROVE  \/ delivered' = delivered
         \/ /\ Final(f.header)
            /\ \E d : d.id = f.id /\ delivered' = Append(delivered, d)
<1>1. PICK fill \in IF f.header.type = TypeFirst THEN Memory(f.header.total_length) ELSE {<<>>} :
        LET r == ReadSequence(storage, f.header, bytes, fill, now)
        IN \/ /\ r.status
              /\ delivered' = Append(delivered,
                                [id |-> f.id, data |-> r.storage[r.pivot].header.data,
                                 body |-> r.storage[r.pivot].body])
           \/ delivered' = delivered
  BY Zenon DEF Process
<1> DEFINE r == ReadSequence(storage, f.header, bytes, fill, now)
<1>2. CASE r.status
  <2>1. Final(f.header)
    BY <1>2, Zenon DEF ReadSequence
  <2> HIDE DEF r
  <2>2. QED BY <1>1, <2>1 DEF r
<1>3. CASE ~r.status
  BY <1>1, <1>3
<1> QED BY <1>2, <1>3

(* What a step that accepts at most its own fragment's call does to Accepted. *)
LEMMA AcceptedGrows ==
  ASSUME IInv, NEW id, NEW d, d.id = id, delivered' = Append(delivered, d)
  PROVE  /\ \A n : Accepted(n)' <=> Accepted(n) \/ n = id
         /\ Len(delivered') = Len(delivered) + 1 /\ delivered'[Len(delivered')].id = id
         /\ \A i \in 1..Len(delivered) : delivered'[i] = delivered[i]
<1>1. delivered \in Seq(Deliveries) /\ Len(delivered) \in Nat
  BY DEF IInv
<1>2. /\ Len(delivered') = Len(delivered) + 1 /\ delivered'[Len(delivered) + 1] = d
      /\ \A i \in 1..Len(delivered) : delivered'[i] = delivered[i]
  BY <1>1
<1>3. ASSUME NEW n PROVE Accepted(n)' <=> Accepted(n) \/ n = id
  <2>1. ASSUME Accepted(n)' PROVE Accepted(n) \/ n = id
    <3>1. PICK i \in 1..Len(delivered') : delivered'[i].id = n
      BY <2>1 DEF Accepted
    <3>2. i \in 1..Len(delivered) \/ i = Len(delivered) + 1
      BY <1>1, <1>2, <3>1
    <3> QED BY <1>2, <3>1, <3>2 DEF Accepted
  <2>2. ASSUME Accepted(n) PROVE Accepted(n)'
    <3>1. PICK i \in 1..Len(delivered) : delivered[i].id = n
      BY <2>2 DEF Accepted
    <3>2. i \in 1..Len(delivered') /\ delivered'[i].id = n
      BY <1>1, <1>2, <3>1
    <3> QED BY <3>2 DEF Accepted
  <2>3. ASSUME n = id PROVE Accepted(n)'
    <3>1. Len(delivered) + 1 \in 1..Len(delivered')
      BY <1>1, <1>2
    <3> QED BY <1>2, <2>3, <3>1 DEF Accepted
  <2> QED BY <2>1, <2>2, <2>3
<1> QED BY <1>2, <1>3

(* The stream loses its content or stays, calls end, nothing is accepted.   *)
LEMMA FewerCalls ==
  ASSUME IInv, OrderInv, UNCHANGED <<delivered, buffer>>,
         stream' = stream \/ stream' = <<>>,
         conn = "reset" => conn' = "reset",
         conn' = "reset" => stream' = <<>>,
         \A t \in Senders : call'[t] = call[t] \/ call'[t] = Idle
  PROVE  OrderInv'
<1>1. \A n : Accepted(n)' <=> Accepted(n)
  BY DEF Accepted
<1>2. \A i \in 1..Len(stream') : i \in 1..Len(stream) /\ stream'[i] = stream[i]
  OBVIOUS
<1>3. \A n : NoLast(n) => NoLast(n)'
  BY <1>1, <1>2 DEF NoLast
<1>4. \A t \in Senders : MoreToSend(call[t])' => call'[t] = call[t]
  BY DEF MoreToSend
<1>5. LastIsLast'
  <2> SUFFICES ASSUME conn' # "reset",
                      NEW t \in Senders, NEW n \in Nat, MoreToSend(call[t])', call'[t].id = n
               PROVE  NoLast(n)'
    BY DEF LastIsLast
  <2>1. call'[t] = call[t]
    BY <1>4
  <2>2. MoreToSend(call[t])
    BY <2>1 DEF MoreToSend
  <2> QED BY <1>3, <2>1, <2>2 DEF LastIsLast, OrderInv
<1>6. OneThreadEach'
  BY DEF OneThreadEach, OrderInv
<1>7. NothingBehind'
  BY <1>2 DEF NothingBehind, OrderInv
<1>8. NotAcceptedYet'
  <2> SUFFICES ASSUME NEW j \in 1..Len(stream'), stream'[j].at = 1
               PROVE  ~Accepted(stream[j].id)'
    BY DEF NotAcceptedYet
  <2>1. j \in 1..Len(stream) /\ stream'[j] = stream[j]
    BY <1>2
  <2>2. ~Accepted(stream[j].id)
    BY <2>1 DEF NotAcceptedYet, OrderInv
  <2> QED BY <2>1, <2>2 DEF Accepted
<1>9. OnlyLastAgain' /\ AtMostOnce'
  BY DEF OnlyLastAgain, AtMostOnce, Accepted, OrderInv
<1>10. ResetIsEmpty'
  BY DEF ResetIsEmpty
<1> QED BY <1>5, <1>6, <1>7, <1>8, <1>9, <1>10 DEF OrderInv

LEMMA SendSequenceOrder ==
  ASSUME IInv, OrderInv, NEW s \in Senders, NEW kind \in Kinds, NEW payload \in Payloads,
         SendSequence(s, kind, payload)
  PROVE  OrderInv'
<1> DEFINE new == Len(sent) + 1
           m == NewMessage(kind, payload)
<1>1. /\ call[s] = Idle /\ call' = [call EXCEPT ![s] = [id |-> new, message |-> m]]
      /\ UNCHANGED <<conn, stream, buffer, delivered>>
  BY DEF SendSequence, recvVars
<1>2. /\ new \in Nat /\ new \notin 1..Len(sent)
  BY IdsAreCalls
<1>3. NoLast(new)
  BY <1>2, IdsAreCalls DEF NoLast, Accepted
<1> HIDE DEF new, m
<1>4. /\ call'[s] = [id |-> new, message |-> m]
      /\ \A t \in Senders \ {s} : call'[t] = call[t]
  BY <1>1 DEF IInv
<1>5. \A n : Accepted(n)' <=> Accepted(n)
  BY <1>1 DEF Accepted
<1>6. \A n : NoLast(n) => NoLast(n)'
  BY <1>1, <1>5 DEF NoLast
<1>7. LastIsLast'
  <2> SUFFICES ASSUME conn # "reset",
                      NEW t \in Senders, NEW n \in Nat, MoreToSend(call[t])', call'[t].id = n
               PROVE  NoLast(n)'
    BY <1>1 DEF LastIsLast
  <2>1. CASE t = s
    BY <1>3, <1>4, <1>6, <2>1
  <2>2. CASE t # s
    <3>1. call'[t] = call[t]
      BY <1>4, <2>2
    <3>2. MoreToSend(call[t])
      BY <3>1 DEF MoreToSend, Idle
    <3> QED BY <1>6, <3>1, <3>2 DEF LastIsLast, OrderInv
  <2> QED BY <2>1, <2>2
<1>8. OneThreadEach'
  <2> SUFFICES ASSUME NEW t \in Senders, NEW u \in Senders, call'[t] # Idle, call'[u] # Idle,
                      call'[t].id = call'[u].id
               PROVE  t = u
    BY DEF OneThreadEach, Idle
  <2>1. \A v \in Senders \ {s} : call'[v] # Idle => call'[v].id # new
    BY <1>2, <1>4, IdsAreCalls
  <2>2. call'[s].id = new
    BY <1>4
  <2>3. CASE t # s /\ u # s
    BY <1>4, <2>3 DEF OneThreadEach, OrderInv
  <2> QED BY <2>1, <2>2, <2>3
<1>9. NothingBehind' /\ OnlyLastAgain' /\ AtMostOnce' /\ ResetIsEmpty'
  BY <1>1 DEF NothingBehind, OnlyLastAgain, AtMostOnce, ResetIsEmpty, Accepted, OrderInv, Final
<1>10. NotAcceptedYet'
  BY <1>1 DEF NotAcceptedYet, Accepted, OrderInv
<1> QED BY <1>7, <1>8, <1>9, <1>10 DEF OrderInv

(* The sender's next portion, as header, bytes and the call after it. *)
Portioned(s, header, body, c) ==
  LET m == call[s].message IN
  /\ MoreToSend(call[s])
  /\ header.length \in Nat
  /\ header = [m EXCEPT !.length = header.length]
  /\ ~Copies(m) => body \in Memory(Portion(m))
  /\ Portion(m) = header.length
  /\ \/ c = Idle
     \/ /\ c = [id |-> call[s].id,
                message |-> [m EXCEPT !.type = TypeNext, !.length = header.length,
                                      !.offset = @ + header.length]]
        /\ header.length > 0
  /\ MoreToSend(c) => ~Final(header)
  /\ call' = [call EXCEPT ![s] = c]
  /\ \/ /\ conn = "open"
        /\ stream' = stream \o Frame(call[s].id, header, body)
     \/ /\ c = Idle /\ conn # "open" /\ UNCHANGED stream

(* An iteration of SendSingle puts a described header with its portion on   *)
(* the stream, all of one call.                                             *)
LEMMA FragmentSent ==
  ASSUME IInv, NEW s \in Senders, SendFragment(s)
  PROVE  \E header, body, c : Portioned(s, header, body, c)
<1> DEFINE m == call[s].message
           id == call[s].id
<1>1. /\ call[s] # Idle /\ id \in 1..Len(sent) /\ m \in Header
      /\ Describes(m, id) /\ m.offset \in 0..m.total_length
      /\ m.total_length = Len(sent[id].payload)
      /\ call[s] = [id |-> id, message |-> m]
  <2>1. /\ call[s] # Idle /\ call[s] \in {Idle} \cup [id : Nat \ {0}, message : Header]
        /\ Describes(m, id) /\ m.offset <= m.total_length
    BY DEF IInv, SendFragment
  <2>2. call[s] \in [id : Nat \ {0}, message : Header]
    BY <2>1
  <2>3. m \in Header /\ call[s] = [id |-> id, message |-> m]
    BY <2>2
  <2> HIDE DEF m, id
  <2> QED BY <2>1, <2>3 DEF Describes, Header
<1>2. sent[id].payload \in Payloads
  <2> HIDE DEF id
  <2> QED BY <1>1, PayloadOfCall
<1>3. PICK heap \in Memory(Portion(m)) :
        LET w == WritePayload(sent[id].payload, m, heap)
        IN /\ w.built
           /\ \/ /\ conn = "open"
                 /\ stream' = stream \o Frame(id, w.header, w.body)
                 /\ call' = [call EXCEPT ![s] = Continued(id, w)]
              \/ /\ conn # "open"
                 /\ call' = [call EXCEPT ![s] = Idle]
                 /\ UNCHANGED stream
  BY Zenon DEF SendFragment
<1> DEFINE w == WritePayload(sent[id].payload, m, heap)
<1>4. /\ w.built
      /\ \/ /\ conn = "open"
            /\ stream' = stream \o Frame(id, w.header, w.body)
            /\ call' = [call EXCEPT ![s] = Continued(id, w)]
         \/ /\ conn # "open"
            /\ call' = [call EXCEPT ![s] = Idle]
            /\ UNCHANGED stream
  BY <1>3
<1>5. Portion(m) \in Nat
  BY <1>1, SizesAssumption DEF Portion, Lesser, Fragment, Header
<1>6. heap \in [1..Portion(m) -> Byte]
  BY <1>5, MemoryProperties
<1>7. /\ w.size = Portion(m)
      /\ w.size = 0 <=> m.total_length = 0
      /\ w.header = [m EXCEPT !.offset = m.offset, !.length = w.size]
      /\ w.message = [m EXCEPT !.length = w.size, !.offset = @ + w.size]
  <2>1. w.built
    BY <1>4
  <2> DEFINE p == sent[id].payload
  <2>2. /\ p \in Payloads /\ m.total_length = Len(p) /\ m.offset \in 0..m.total_length
        /\ heap \in [1..Portion(m) -> Byte] /\ WritePayload(p, m, heap).built
    BY <1>1, <1>2, <1>6, <2>1, Zenon
  <2>3. w = WritePayload(p, m, heap)
    OBVIOUS
  <2> HIDE DEF m, id, p, w
  <2>4. w.size = Portion(m)
    BY <2>2, <2>3, Zenon DEF WritePayload
  <2>5. w.size = 0 <=> m.total_length = 0
    <3>1. m.offset < m.total_length \/ m.total_length = 0
      <4>1. Lesser(m.offset, m.total_length) = m.offset
        BY <1>1 DEF Lesser, Header
      <4> QED BY <2>2, <4>1 DEF WritePayload
    <3> QED BY <1>1, <2>4, <3>1, SizesAssumption DEF Portion, Lesser, Fragment, Header
  <2>6. /\ w.header = [m EXCEPT !.offset = m.offset, !.length = w.size]
      /\ w.message = [m EXCEPT !.length = w.size, !.offset = @ + w.size]
    BY <2>2, <2>3, WritePayloadProperties
  <2> QED BY <2>4, <2>5, <2>6
<1>8. m.offset < m.total_length \/ m.total_length = 0
  <2>1. w.built
    BY <1>4
  <2> HIDE DEF m, id
  <2>2. Lesser(m.offset, m.total_length) = m.offset
    BY <1>1 DEF Lesser, Header
  <2> QED BY <1>1, <2>1, <2>2 DEF WritePayload
<1>9. ~Copies(m) => w.body = heap
  BY DEF WritePayload
<1>10. Continued(id, w) =
         IF w.size > 0 THEN [id |-> id, message |-> [w.message EXCEPT !.type = TypeNext]] ELSE Idle
  BY DEF Continued
<1> HIDE DEF w
<1>11. MoreToSend(call[s])
  BY <1>1, <1>8 DEF MoreToSend
<1> DEFINE h == w.header
           next == [id |-> id, message |-> [m EXCEPT !.type = TypeNext, !.length = w.size, !.offset = @ + w.size]]
<1>12. /\ h.length = w.size /\ h = [m EXCEPT !.length = w.size]
       /\ h.offset = m.offset /\ h.total_length = m.total_length
  BY <1>1, <1>7 DEF Header
<1>13. [w.message EXCEPT !.type = TypeNext] = next.message
  BY <1>1, <1>7 DEF Header
<1>14. MoreToSend(next) /\ w.size > 0 => ~Final(h)
  <2>1. next.message.offset = m.offset + w.size /\ next.message.total_length = m.total_length
    BY <1>1 DEF Header
  <2> HIDE DEF next, m
  <2> QED BY <1>1, <1>5, <1>7, <1>12, <2>1 DEF MoreToSend, Final, Header
<1>15. ~MoreToSend(Idle)
  BY DEF MoreToSend
<1>16. CASE conn = "open" /\ w.size > 0
  <2>1. call' = [call EXCEPT ![s] = next] /\ stream' = stream \o Frame(id, h, w.body)
    BY <1>4, <1>10, <1>13, <1>16
  <2>2. Portioned(s, h, w.body, next)
    <3> HIDE DEF h
    <3> QED BY <1>5, <1>7, <1>9, <1>11, <1>12, <1>14, <1>16, <2>1 DEF Portioned
  <2> QED BY <2>2
<1>17. CASE ~(conn = "open" /\ w.size > 0)
  <2>1. call' = [call EXCEPT ![s] = Idle]
        /\ \/ conn = "open" /\ stream' = stream \o Frame(id, h, w.body)
           \/ conn # "open" /\ UNCHANGED stream
    BY <1>4, <1>10, <1>17
  <2>2. Portioned(s, h, w.body, Idle)
    <3> HIDE DEF h
    <3> QED BY <1>5, <1>7, <1>9, <1>11, <1>12, <1>15, <2>1 DEF Portioned
  <2> QED BY <2>2
<1> QED BY <1>16, <1>17

(* The bytes of one send follow those already on the way. *)
LEMMA FrameAppended ==
  ASSUME IInv, NEW id, NEW header, NEW body, header.length \in Nat,
         stream' = stream \o Frame(id, header, body)
  PROVE  /\ Len(stream) \in Nat
         /\ Len(stream') = Len(stream) + sizeofheader + header.length
         /\ \A i \in 1..Len(stream) : stream'[i] = stream[i]
         /\ \A i \in 1..Len(stream') : i > Len(stream) =>
              stream'[i] = [id |-> id, header |-> header, body |-> body, at |-> i - Len(stream)]
<1> DEFINE n == sizeofheader + header.length
           frame == Frame(id, header, body)
           Made(i) == [id |-> id, header |-> header, body |-> body, at |-> i]
           S == {Made(i) : i \in 1..n}
<1>1. n \in Nat
  BY SizesAssumption
<1>2. frame = [i \in 1..n |-> Made(i)]
  BY DEF Frame
<1>3. Len(stream) \in Nat /\ stream \in Seq(Frames)
  BY DEF IInv
<1> HIDE DEF n, frame, Made
<1>4. frame \in Seq(S) /\ Len(frame) = n /\ \A i \in 1..n : frame[i] = Made(i)
  BY <1>1, <1>2
<1> HIDE DEF S
<1> DEFINE T == Frames \cup S
<1>5. stream \in Seq(T) /\ frame \in Seq(T)
  BY <1>3, <1>4
<1>6. /\ Len(stream') = Len(stream) + n
      /\ \A i \in 1..Len(stream) : stream'[i] = stream[i]
      /\ \A i \in 1..Len(stream') : i > Len(stream) => stream'[i] = frame[i - Len(stream)]
  <2>1. stream' = stream \o frame
    BY DEF frame
  <2> HIDE DEF T
  <2>2. /\ Len(stream \o frame) = Len(stream) + Len(frame)
        /\ \A i \in 1..(Len(stream) + Len(frame)) :
             (stream \o frame)[i] = IF i <= Len(stream) THEN stream[i] ELSE frame[i - Len(stream)]
    BY <1>5, ConcatProperties
  <2> QED BY <1>1, <1>3, <1>4, <2>1, <2>2
<1>7. ASSUME NEW i \in 1..Len(stream'), i > Len(stream)
      PROVE  stream'[i] = Made(i - Len(stream))
  <2>1. i - Len(stream) \in 1..n
    BY <1>1, <1>3, <1>6, <1>7
  <2> QED BY <1>4, <1>6, <1>7, <2>1
<1>8. Len(stream') = Len(stream) + sizeofheader + header.length
  BY <1>3, <1>6, SizesAssumption DEF n
<1> QED BY <1>3, <1>6, <1>7, <1>8 DEF Made

LEMMA SendFragmentOrder ==
  ASSUME IInv, OrderInv, NEW s \in Senders, SendFragment(s)
  PROVE  OrderInv'
<1>1. UNCHANGED <<conn, buffer, delivered>>
  BY DEF SendFragment, recvVars
<1>2. PICK header, body, c : Portioned(s, header, body, c)
  BY FragmentSent
<1> DEFINE n == call[s].id
<1>3. /\ MoreToSend(call[s]) /\ call[s] # Idle /\ header.length \in Nat
      /\ c # Idle => c.id = n
      /\ MoreToSend(c) => c # Idle /\ ~Final(header)
      /\ call'[s] = c /\ \A t \in Senders \ {s} : call'[t] = call[t]
  BY <1>2 DEF Portioned, MoreToSend, IInv, Idle
<1>4. n \in Nat /\ (conn # "reset" => NoLast(n))
  <2>1. n \in 1..Len(sent) /\ Len(sent) \in Nat
    BY <1>3, IdsAreCalls
  <2> QED BY <1>3, <2>1 DEF LastIsLast, OrderInv
<1>5. \A k : Accepted(k)' <=> Accepted(k)
  BY <1>1 DEF Accepted
<1>6. CASE conn # "open" /\ UNCHANGED stream /\ c = Idle
  BY <1>1, <1>3, <1>6, FewerCalls DEF OrderInv, ResetIsEmpty
<1>7. CASE conn = "open" /\ stream' = stream \o Frame(n, header, body)
  <2>1. /\ Len(stream) \in Nat
        /\ Len(stream') = Len(stream) + sizeofheader + header.length
        /\ \A i \in 1..Len(stream) : stream'[i] = stream[i]
        /\ \A i \in 1..Len(stream') : i > Len(stream) =>
             /\ stream'[i].id = n /\ stream'[i].header = header
             /\ stream'[i].at = i - Len(stream)
    <3> HIDE DEF n
    <3>1. /\ Len(stream) \in Nat
          /\ Len(stream') = Len(stream) + sizeofheader + header.length
          /\ \A i \in 1..Len(stream) : stream'[i] = stream[i]
          /\ \A i \in 1..Len(stream') : i > Len(stream) =>
               stream'[i] = [id |-> n, header |-> header, body |-> body, at |-> i - Len(stream)]
      BY <1>3, <1>7, FrameAppended
    <3> QED BY <3>1
  <2>2. Len(stream') \in Nat /\ \A i \in 1..Len(stream') : i \in 1..Len(stream) \/ i > Len(stream)
    BY <1>3, <2>1, SizesAssumption
  <2>3. ASSUME NEW k, NoLast(k), k = n => ~Final(header) PROVE NoLast(k)'
    <3>1. \A i \in 1..Len(stream') : stream'[i].id = k => ~Final(stream'[i].header)
      BY <2>1, <2>2, <2>3 DEF NoLast
    <3> QED BY <1>1, <1>5, <2>3, <3>1 DEF NoLast, Final
  <2>4. LastIsLast'
    <3> SUFFICES ASSUME NEW t \in Senders, NEW k \in Nat, MoreToSend(call[t])', call'[t].id = k
                 PROVE  NoLast(k)'
      BY DEF LastIsLast
    <3>1. CASE t = s
      <4>1. c # Idle /\ k = n /\ ~Final(header)
        BY <1>3, <3>1 DEF MoreToSend, Idle
      <4> QED BY <1>4, <1>7, <2>3, <4>1
    <3>2. CASE t # s
      <4>1. call'[t] = call[t] /\ call[t] # Idle /\ MoreToSend(call[t])
        BY <1>3, <3>2 DEF MoreToSend, Idle
      <4>2. k # n
        BY <1>3, <3>2, <4>1 DEF OneThreadEach, OrderInv
      <4>3. NoLast(k)
        BY <1>7, <4>1 DEF LastIsLast, OrderInv
      <4> QED BY <2>3, <4>2, <4>3
    <3> QED BY <3>1, <3>2
  <2>5. OneThreadEach'
    <3>1. \A t \in Senders : call'[t] # Idle => call[t] # Idle /\ call'[t].id = call[t].id
      BY <1>3
    <3> QED BY <3>1 DEF OneThreadEach, OrderInv, Idle
  <2>6. NothingBehind'
    <3> SUFFICES ASSUME NEW i \in 1..Len(stream'), NEW j \in 1..Len(stream'), i < j,
                        stream'[i].id = stream'[j].id, Final(stream[i].header)'
                 PROVE  stream'[j].at # 1
      BY DEF NothingBehind
    <3>0. Final(stream'[i].header)
      BY DEF Final
    <3>1. CASE j \in 1..Len(stream)
      <4>1. i \in 1..Len(stream)
        BY <2>1, <2>2, <3>1
      <4> QED BY <2>1, <3>0, <3>1, <4>1 DEF NothingBehind, OrderInv
    <3>2. CASE j > Len(stream) /\ i \in 1..Len(stream)
      <4>1. stream[i].id = n /\ Final(stream[i].header)
        BY <2>1, <3>0, <3>2
      <4> QED BY <1>4, <1>7, <3>2, <4>1 DEF NoLast
    <3>3. CASE j > Len(stream) /\ i > Len(stream)
      BY <2>1, <2>2, <3>3
    <3> QED BY <2>2, <3>1, <3>2, <3>3
  <2>7. NotAcceptedYet'
    <3> SUFFICES ASSUME NEW j \in 1..Len(stream'), stream'[j].at = 1
                 PROVE  ~Accepted(stream[j].id)'
      BY DEF NotAcceptedYet
    <3>1. CASE j \in 1..Len(stream)
      <4>1. ~Accepted(stream[j].id) /\ stream'[j] = stream[j]
        BY <2>1, <3>1 DEF NotAcceptedYet, OrderInv
      <4> QED BY <1>1, <4>1 DEF Accepted
    <3>2. CASE j > Len(stream)
      <4>1. stream'[j].id = n /\ ~Accepted(n)
        BY <1>4, <1>7, <2>1, <3>2 DEF NoLast
      <4> QED BY <1>1, <4>1 DEF Accepted
    <3> QED BY <2>2, <3>1, <3>2
  <2>8. OnlyLastAgain' /\ AtMostOnce' /\ ResetIsEmpty'
    BY <1>1, <1>7 DEF OnlyLastAgain, AtMostOnce, ResetIsEmpty, Accepted, OrderInv
  <2> QED BY <2>4, <2>5, <2>6, <2>7, <2>8 DEF OrderInv
<1> QED BY <1>2, <1>6, <1>7 DEF Portioned

(* Reading takes bytes off the front of the stream. *)
LEMMA StreamRead ==
  ASSUME IInv, NEW k \in 1..BUFFER_SIZE, Receive(k)
  PROVE  /\ stream[1] \in Frames /\ 1 \in 1..Len(stream)
         /\ \A i \in 1..Len(stream') :
              /\ k + i \in 1..Len(stream) /\ k + i > 1 /\ stream'[i] = stream[k + i]
         /\ \A i, j \in 1..Len(stream') : i < j => k + i < k + j
<1>1. stream \in Seq(Frames) /\ stream # <<>> /\ stream' = SubSeq(stream, k + 1, Len(stream))
      /\ k <= Len(stream) /\ k \in Nat \ {0} /\ Len(stream) \in Nat
  BY DEF IInv, Receive
<1>2. stream[1] \in Frames /\ 1 \in 1..Len(stream)
  BY <1>1
<1>3. k + 1 \in Int /\ Len(stream) \in Int
      /\ \A i \in (k + 1)..Len(stream) : stream[i] \in Frames
  BY <1>1
<1>4. /\ stream' \in Seq(Frames)
      /\ Len(stream') = IF k + 1 <= Len(stream) THEN Len(stream) - (k + 1) + 1 ELSE 0
      /\ \A i \in 1..(Len(stream) - (k + 1) + 1) : stream'[i] = stream[k + 1 + i - 1]
  BY <1>1, <1>3, SubSeqProperties
<1>5. Len(stream') = Len(stream) - k
  BY <1>1, <1>4
<1>6. \A i \in 1..Len(stream') : /\ i \in 1..(Len(stream) - (k + 1) + 1) /\ k + 1 + i - 1 = k + i
                                 /\ k + i \in 1..Len(stream) /\ k + i > 1
  BY <1>1, <1>5
<1>7. \A i \in 1..Len(stream') : stream'[i] = stream[k + i]
  BY <1>4, <1>6
<1>8. \A i, j \in 1..Len(stream') : i < j => k + i < k + j
  BY <1>1, <1>5
<1> QED BY <1>2, <1>6, <1>7, <1>8

(* What a read leaves in buffer, and what it may accept. *)
LEMMA ReceiveAccepts ==
  ASSUME IInv, NEW k \in 1..BUFFER_SIZE, Receive(k)
  PROVE  \/ /\ delivered' = delivered
            /\ buffer'.id \in {buffer.id, 0} \/ (stream[1].at = 1 /\ buffer'.id = stream[1].id)
         \/ /\ stream[1].at = 1 /\ buffer'.id = stream[1].id
            /\ Final(stream[1].header)
            /\ \E d : d.id = stream[1].id /\ delivered' = Append(delivered, d)
<1> DEFINE f == stream[1]
           Rest == IF k >= sizeofheader + f.header.length THEN {f.body} ELSE Memory(f.header.length)
           Got(rest) == [j \in 1..f.header.length |->
                           IF sizeofheader + j <= k THEN f.body[j] ELSE rest[j]]
<1>1. CASE /\ f.at = 1
           /\ \E rest \in Rest :
                 /\ Process(f, Got(rest))
                 /\ buffer' = [id |-> f.id, header |-> f.header, body |-> Got(rest)]
  <2>1. PICK rest \in Rest :
          /\ Process(f, Got(rest))
          /\ buffer' = [id |-> f.id, header |-> f.header, body |-> Got(rest)]
    BY <1>1
  <2> HIDE DEF f, Got, Rest
  <2>2. \/ delivered' = delivered
        \/ /\ Final(f.header)
           /\ \E d : d.id = f.id /\ delivered' = Append(delivered, d)
    BY <2>1, ProcessAccepts
  <2>3. buffer'.id = f.id
    BY <2>1
  <2> QED BY <1>1, <2>2, <2>3 DEF f
<1>2. CASE Misread /\ buffer' = Blank
  BY <1>2 DEF Misread, Blank
<1>3. CASE Unfinished /\ buffer' \in Overwritten(f, k) /\ UNCHANGED <<storage, delivered>>
  <2>1. f \in Frames
    BY StreamRead
  <2> HIDE DEF f
  <2> QED BY <1>3, <2>1, ShortRead DEF f
<1> QED BY <1>1, <1>2, <1>3, Zenon DEF Receive

LEMMA ReceiveOrder ==
  ASSUME IInv, OrderInv, NEW k \in 1..BUFFER_SIZE, Receive(k)
  PROVE  OrderInv'
<1> DEFINE n == stream[1].id
           h == stream[1].header
<1>1. UNCHANGED <<call, conn>> /\ conn # "reset" /\ 1 \in 1..Len(stream)
  BY StreamRead DEF Receive, sendVars
<1>2. /\ \A i \in 1..Len(stream') :
           /\ k + i \in 1..Len(stream) /\ k + i > 1 /\ stream'[i] = stream[k + i]
      /\ \A i, j \in 1..Len(stream') : i < j => k + i < k + j
  BY StreamRead
<1>3. \/ /\ delivered' = delivered
         /\ buffer'.id \in {buffer.id, 0} \/ (stream[1].at = 1 /\ buffer'.id = n)
      \/ /\ stream[1].at = 1 /\ buffer'.id = n
         /\ Final(h)
         /\ \E d : d.id = n /\ delivered' = Append(delivered, d)
  BY ReceiveAccepts
<1>4. \A m : NoLast(m) => n # m \/ ~Final(h)
  BY <1>1 DEF NoLast
<1> HIDE DEF n, h
<1>5. NothingBehind'
  <2> SUFFICES ASSUME NEW i \in 1..Len(stream'), NEW j \in 1..Len(stream'), i < j,
                      stream'[i].id = stream'[j].id, Final(stream[i].header)'
               PROVE  stream'[j].at # 1
    BY DEF NothingBehind
  <2>1. Final(stream'[i].header)
    BY DEF Final
  <2>2. /\ k + i \in 1..Len(stream) /\ k + j \in 1..Len(stream) /\ k + i < k + j
        /\ stream'[i] = stream[k + i] /\ stream'[j] = stream[k + j]
    BY <1>2
  <2> QED BY <2>1, <2>2 DEF NothingBehind, OrderInv
<1>6. \A j \in 1..Len(stream') : stream'[j].at = 1 => ~Accepted(stream'[j].id)
  BY <1>2 DEF NotAcceptedYet, OrderInv
<1>7. /\ \A m : NoLast(m) =>
           \A i \in 1..Len(stream') : stream'[i].id = m => ~Final(stream'[i].header)
      /\ OneThreadEach' /\ ResetIsEmpty'
  BY <1>1, <1>2 DEF NoLast, OneThreadEach, ResetIsEmpty, OrderInv, Idle
<1>8. ASSUME \A m : NoLast(m) => NoLast(m)' PROVE LastIsLast'
  <2> SUFFICES ASSUME NEW t \in Senders, NEW m \in Nat, MoreToSend(call[t])', call'[t].id = m
               PROVE  NoLast(m)'
    BY DEF LastIsLast
  <2>1. MoreToSend(call[t]) /\ call[t].id = m
    BY <1>1 DEF MoreToSend, Idle
  <2> QED BY <1>1, <1>8, <2>1 DEF LastIsLast, OrderInv
<1>9. CASE delivered' = delivered
  <2>1. \A m : Accepted(m)' <=> Accepted(m)
    BY <1>9 DEF Accepted
  <2>2. ASSUME NEW m, NoLast(m) PROVE NoLast(m)'
    BY <1>7, <2>1, <2>2 DEF NoLast, Final
  <2>3. NotAcceptedYet' /\ AtMostOnce'
    BY <1>1, <1>6, <1>9 DEF NotAcceptedYet, AtMostOnce, Accepted, OrderInv
  <2>4. OnlyLastAgain'
    <3>1. stream[1].at = 1 => ~Accepted(n)
      BY <1>1 DEF NotAcceptedYet, OrderInv, n
    <3>2. ~Accepted(0)
      BY IdsAreCalls
    <3>3. \/ buffer'.id \in {buffer.id, 0}
          \/ buffer'.id = n /\ ~Accepted(n)
      BY <1>3, <3>1
    <3>4. Accepted(buffer'.id) => delivered[Len(delivered)].id = buffer'.id
      BY <3>2, <3>3 DEF OnlyLastAgain, OrderInv
    <3> QED BY <1>9, <3>4 DEF OnlyLastAgain, Accepted
  <2> QED BY <1>5, <1>7, <1>8, <2>2, <2>3, <2>4 DEF OrderInv
<1>10. CASE /\ stream[1].at = 1 /\ Final(h)
            /\ buffer'.id = n
            /\ \E d : d.id = n /\ delivered' = Append(delivered, d)
  <2>1. /\ \A m : Accepted(m)' <=> Accepted(m) \/ m = n
        /\ Len(delivered') = Len(delivered) + 1 /\ delivered'[Len(delivered')].id = n
        /\ \A i \in 1..Len(delivered) : delivered'[i] = delivered[i]
        /\ Len(delivered) \in Nat
    <3>1. Len(delivered) \in Nat
      BY DEF IInv
    <3>2. /\ \A m : Accepted(m)' <=> Accepted(m) \/ m = n
          /\ Len(delivered') = Len(delivered) + 1 /\ delivered'[Len(delivered')].id = n
          /\ \A i \in 1..Len(delivered) : delivered'[i] = delivered[i]
      BY <1>10, AcceptedGrows
    <3> QED BY <3>1, <3>2
  <2>2. ~Accepted(n)
    BY <1>1, <1>10 DEF NotAcceptedYet, OrderInv, n
  <2>3. ASSUME NEW m, NoLast(m) PROVE NoLast(m)'
    <3>1. m # n /\ ~Accepted(m)'
      BY <1>4, <1>10, <2>1, <2>3 DEF NoLast
    <3> QED BY <1>7, <1>10, <2>3, <3>1 DEF NoLast, Final
  <2>4. NotAcceptedYet'
    <3> SUFFICES ASSUME NEW j \in 1..Len(stream'), stream'[j].at = 1
                 PROVE  ~Accepted(stream[j].id)'
      BY DEF NotAcceptedYet
    <3>1. stream'[j].id # n
      <4>1. /\ k + j \in 1..Len(stream) /\ 1 < k + j /\ stream'[j] = stream[k + j]
        BY <1>2
      <4> QED BY <1>1, <1>10, <4>1 DEF NothingBehind, OrderInv, n, h
    <3>2. DEFINE m == stream'[j].id
    <3>3. ~Accepted(m) /\ m # n
      BY <1>6, <3>1
    <3> HIDE DEF m
    <3>4. \A i \in 1..Len(delivered') : delivered'[i].id # m
      BY <2>1, <3>3 DEF Accepted
    <3> QED BY <3>4 DEF Accepted, m
  <2>5. OnlyLastAgain'
    BY <1>10, <2>1 DEF OnlyLastAgain
  <2>6. AtMostOnce'
    <3>1. \A i, j \in 1..Len(delivered) : delivered[i].id = delivered[j].id => i = j
      BY <1>1 DEF AtMostOnce, OrderInv
    <3>2. \A i \in 1..Len(delivered) : delivered[i].id # n
      BY <2>2 DEF Accepted
    <3>3. \A i \in 1..Len(delivered') : i \in 1..Len(delivered) \/ i = Len(delivered')
      BY <2>1
    <3>4. \A i, j \in 1..Len(delivered') : delivered'[i].id = delivered'[j].id => i = j
      BY <2>1, <3>1, <3>2, <3>3
    <3> QED BY <3>4 DEF AtMostOnce
  <2> QED BY <1>5, <1>7, <1>8, <2>3, <2>4, <2>5, <2>6 DEF OrderInv
<1> QED BY <1>3, <1>9, <1>10

(* A failed recvfrom shows the buffer again: the socket is bad already. *)
LEMMA ReceiveErrorAccepts ==
  ASSUME IInv, ReceiveError
  PROVE  \/ delivered' = delivered
         \/ /\ buffer.id # 0
            /\ \E d : d.id = buffer.id /\ delivered' = Append(delivered, d)
<1>1. CASE buffer.id # 0 /\ Process(buffer, buffer.body)
  BY <1>1, ProcessAccepts
<1>2. CASE Misread
  BY <1>2 DEF Misread
<1> QED BY <1>1, <1>2 DEF ReceiveError

LEMMA ReceiveErrorOrder ==
  ASSUME IInv, OrderInv, ReceiveError
  PROVE  OrderInv'
<1>1. /\ UNCHANGED <<call, conn, stream, buffer>> /\ conn = "reset" /\ stream = <<>>
  BY DEF ReceiveError, sendVars, OrderInv, ResetIsEmpty
<1>2. \/ delivered' = delivered
      \/ /\ buffer.id # 0
         /\ \E d : d.id = buffer.id /\ delivered' = Append(delivered, d)
  BY ReceiveErrorAccepts
<1>3. CASE delivered' = delivered
  <2>1. \A t \in Senders : call'[t] = call[t] \/ call'[t] = Idle
    BY <1>1
  <2> QED BY <1>1, <1>3, <2>1, FewerCalls
<1>4. CASE /\ buffer.id # 0
           /\ \E d : d.id = buffer.id /\ delivered' = Append(delivered, d)
  <2>1. /\ \A m : Accepted(m)' <=> Accepted(m) \/ m = buffer.id
        /\ Len(delivered') = Len(delivered) + 1 /\ delivered'[Len(delivered')].id = buffer.id
    BY <1>4, AcceptedGrows
  <2>3. LastIsLast'
    BY <1>1 DEF LastIsLast
  <2>4. OnlyLastAgain' /\ AtMostOnce' /\ OneThreadEach' /\ ResetIsEmpty'
    BY <1>1, <2>1 DEF OnlyLastAgain, AtMostOnce, OneThreadEach, ResetIsEmpty, OrderInv, Idle
  <2>5. NothingBehind' /\ NotAcceptedYet'
    <3>1. ~(\E i \in 1..Len(stream') : TRUE)
      BY <1>1
    <3> QED BY <3>1 DEF NothingBehind, NotAcceptedYet
  <2> QED BY <2>3, <2>4, <2>5 DEF OrderInv
<1> QED BY <1>2, <1>3, <1>4

LEMMA InitOrder == Init => OrderInv
<1> SUFFICES ASSUME Init PROVE OrderInv
  OBVIOUS
<1>1. /\ stream = <<>> /\ delivered = <<>> /\ buffer = Blank /\ conn = "open"
      /\ \A s \in Senders : call[s] = Idle
  BY DEF Init
<1>2. 1..Len(stream) = {} /\ 1..Len(delivered) = {}
  BY <1>1
<1> QED BY <1>1, <1>2
     DEF OrderInv, ResetIsEmpty, OneThreadEach, LastIsLast, MoreToSend, NothingBehind,
         NotAcceptedYet, OnlyLastAgain, Accepted, AtMostOnce

LEMMA NextOrder == IInv /\ OrderInv /\ [Next]_vars => OrderInv'
<1> SUFFICES ASSUME IInv, OrderInv, [Next]_vars PROVE OrderInv'
  OBVIOUS
<1>0. Disconnect => (stream' = stream \/ stream' = <<>>)
                    /\ (conn = "reset" => conn' = "reset") /\ (conn' = "reset" => stream' = <<>>)
  BY DEF Disconnect, OrderInv, ResetIsEmpty
<1>1. ASSUME NEW s \in Senders, NEW kind \in Kinds, NEW payload \in Payloads,
             SendSequence(s, kind, payload)
      PROVE  OrderInv'
  BY <1>1, SendSequenceOrder
<1>2. ASSUME NEW s \in Senders, SendFragment(s) PROVE OrderInv'
  BY <1>2, SendFragmentOrder
<1>3. ASSUME NEW s \in Senders, SendEnd(s) PROVE OrderInv'
  <2>1. UNCHANGED <<delivered, buffer>> /\ call' = [call EXCEPT ![s] = Idle]
        /\ (UNCHANGED <<conn, stream>> \/ Disconnect)
    BY <1>3 DEF SendEnd, recvVars
  <2>2. \A t \in Senders : call'[t] = call[t] \/ call'[t] = Idle
    BY <2>1 DEF IInv
  <2>3. /\ stream' = stream \/ stream' = <<>>
        /\ conn = "reset" => conn' = "reset"
        /\ conn' = "reset" => stream' = <<>>
    BY <1>0, <2>1 DEF OrderInv, ResetIsEmpty
  <2> QED BY <2>1, <2>2, <2>3, FewerCalls
<1>4. CASE SenderExit
  <2>1. UNCHANGED <<delivered, buffer, call>> /\ Disconnect
    BY <1>4 DEF SenderExit, recvVars
  <2> QED BY <1>0, <2>1, FewerCalls
<1>5. CASE NetworkReset
  BY <1>5, FewerCalls DEF NetworkReset, sendVars, recvVars
<1>6. ASSUME NEW k \in 1..BUFFER_SIZE, Receive(k) PROVE OrderInv'
  BY <1>6, ReceiveOrder
<1>7. CASE ReceiveEOF
  BY <1>7, FewerCalls DEF ReceiveEOF, sendVars
<1>8. CASE ReceiveError
  BY <1>8, ReceiveErrorOrder
<1>9. CASE Tick
  BY <1>9, FewerCalls DEF Tick, sendVars, recvVars, OrderInv, ResetIsEmpty
<1>10. CASE UNCHANGED vars
  BY <1>10, FewerCalls DEF vars, OrderInv, ResetIsEmpty
<1> QED BY <1>1, <1>2, <1>3, <1>4, <1>5, <1>6, <1>7, <1>8, <1>9, <1>10 DEF Next

(* The last fragment of a call is in one place only for ever: with the      *)
(* thread in SendSingle, on the stream with nothing of the call behind it,  *)
(* or read by ReadSequence.                                                 *)
THEOREM Ordered == Spec => []OrderInv
<1> QED BY InitIInv, NextIInv, InitOrder, NextOrder, PTL DEF Spec

(* As long as recvfrom has not failed no call of SendSequence is accepted   *)
(* twice: its last fragment is sent once and read once.                     *)
THEOREM AcceptedOnce == Spec => []AtMostOnce
<1>1. OrderInv => AtMostOnce
  BY DEF OrderInv
<1> QED BY <1>1, Ordered, PTL

----------------------------------------------------------------------------
(* Transport implements MessageChannel.                                    *)

(* What is delivered last has the type of a delivery. *)
LEMMA AppendedDelivery ==
  ASSUME IInv, IInv', UNCHANGED <<sent, conn>>, NEW d, delivered' = Append(delivered, d)
  PROVE  d \in Deliveries
<1>1. delivered \in Seq(Deliveries) /\ delivered' \in Seq(Deliveries)
  BY SentUnchanged DEF IInv
<1>2. Len(delivered') = Len(delivered) + 1 /\ delivered'[Len(delivered')] = d
      /\ Len(delivered') \in 1..Len(delivered')
  BY <1>1
<1> QED BY <1>1, <1>2, ElementOfSeq

(* An accepted message is a call's payload and, until the socket fails, of  *)
(* the kind of a call with the same payload.                                *)
LEMMA NewDelivery ==
  ASSUME IInv, IInv', UNCHANGED <<sent, conn>>, NEW d, delivered' = Append(delivered, d)
  PROVE  d.id \in 1..Len(sent) /\ Channel!Accept(d.id)
<1>2. d \in Deliveries
  BY AppendedDelivery
<1>3. /\ d.id \in 1..Len(sent) /\ d.body = sent[d.id].payload /\ d.data \in Kinds \cup {0}
      /\ d = [id |-> d.id, data |-> d.data, body |-> d.body]
  BY <1>2 DEF Deliveries
<1>4. d.data \in Channel!KindsOf(d.id)
  <2>1. CASE conn = "reset"
    BY <1>3, <2>1 DEF Channel!KindsOf
  <2>2. CASE conn # "reset"
    <3>1. PICK m \in 1..Len(sent) : sent[m] = [data |-> d.data, payload |-> d.body]
      BY <1>2, <2>2 DEF Deliveries
    <3>2. sent[m].payload = sent[d.id].payload /\ sent[m].data = d.data
      BY <1>3, <3>1
    <3> QED BY <2>2, <3>2 DEF Channel!KindsOf
  <2> QED BY <2>1, <2>2
<1>5. delivered' = Append(delivered, [id |-> d.id, data |-> d.data, body |-> sent[d.id].payload])
  BY <1>3
<1> QED BY <1>3, <1>4, <1>5 DEF Channel!Accept

LEMMA InitChannel == Init => Channel!Init
  BY DEF Init, Channel!Init

LEMMA NextChannel ==
  ASSUME IInv, IInv', OrderInv, [Next]_vars
  PROVE  [Channel!Next]_Channel!vars
<1>s. ASSUME UNCHANGED <<sent, delivered>>, conn = "reset" => conn' = "reset"
      PROVE  [Channel!Next]_Channel!vars
  <2>1. CASE conn' = "reset" <=> conn = "reset"
    BY <1>s, <2>1 DEF Channel!vars
  <2>2. CASE conn' = "reset" /\ conn # "reset"
    BY <1>s, <2>2 DEF Channel!Next, Channel!Break
  <2> QED BY <1>s, <2>1, <2>2
<1>0. Disconnect => (conn = "reset" => conn' = "reset")
  BY DEF Disconnect
<1>1. ASSUME NEW s \in Senders, NEW kind \in Kinds, NEW payload \in Payloads,
             SendSequence(s, kind, payload)
      PROVE  [Channel!Next]_Channel!vars
  <2>1. Channel!Send(kind, payload)
    BY <1>1 DEF SendSequence, recvVars, Channel!Send
  <2> QED BY <2>1 DEF Channel!Next
<1>2. ASSUME NEW s \in Senders, SendFragment(s) PROVE [Channel!Next]_Channel!vars
  BY <1>2, <1>s DEF SendFragment, recvVars
<1>3. ASSUME NEW s \in Senders, SendEnd(s) PROVE [Channel!Next]_Channel!vars
  BY <1>3, <1>s, <1>0 DEF SendEnd, recvVars
<1>4. CASE SenderExit
  BY <1>4, <1>s, <1>0 DEF SenderExit, recvVars
<1>5. CASE NetworkReset
  BY <1>5, <1>s DEF NetworkReset, sendVars, recvVars
<1>6. ASSUME NEW k \in 1..BUFFER_SIZE, Receive(k) PROVE [Channel!Next]_Channel!vars
  <2>1. UNCHANGED <<sent, conn>> /\ 1 \in 1..Len(stream)
    BY <1>6, StreamRead DEF Receive, sendVars
  <2>2. CASE delivered' = delivered
    BY <2>1, <2>2, <1>s
  <2>3. CASE /\ stream[1].at = 1
             /\ \E d : d.id = stream[1].id /\ delivered' = Append(delivered, d)
    <3>1. PICK d : d.id = stream[1].id /\ delivered' = Append(delivered, d)
      BY <2>3
    <3>2. ~Accepted(d.id)
      BY <2>1, <2>3, <3>1 DEF OrderInv, NotAcceptedYet
    <3>3. d.id \in 1..Len(sent) /\ Channel!Accept(d.id)
      BY <2>1, <3>1, NewDelivery
    <3>4. Channel!AcceptOnce(d.id)
      BY <3>2, <3>3 DEF Channel!AcceptOnce, Accepted
    <3> QED BY <3>3, <3>4 DEF Channel!Next
  <2> QED BY <1>6, <2>2, <2>3, ReceiveAccepts
<1>7. CASE ReceiveEOF
  BY <1>7, <1>s DEF ReceiveEOF, sendVars
<1>8. CASE ReceiveError
  <2>1. UNCHANGED <<sent, conn>> /\ conn = "reset"
    BY <1>8 DEF ReceiveError, sendVars
  <2>2. CASE delivered' = delivered
    BY <2>1, <2>2, <1>s
  <2>3. CASE /\ buffer.id # 0
             /\ \E d : d.id = buffer.id /\ delivered' = Append(delivered, d)
    <3>1. PICK d : d.id = buffer.id /\ delivered' = Append(delivered, d)
      BY <2>3
    <3>2. d.id \in 1..Len(sent) /\ Channel!Accept(d.id)
      BY <2>1, <3>1, NewDelivery
    <3>3. CASE ~Accepted(d.id)
      <4>1. Channel!AcceptOnce(d.id)
        BY <3>2, <3>3 DEF Channel!AcceptOnce, Accepted
      <4> QED BY <3>2, <4>1 DEF Channel!Next
    <3>4. CASE Accepted(d.id)
      <4>1. d.id = delivered[Len(delivered)].id
        BY <2>3, <3>1, <3>4 DEF OrderInv, OnlyLastAgain
      <4>2. delivered # <<>>
        BY <3>4 DEF Accepted
      <4>3. Channel!AcceptAgain
        BY <2>1, <3>2, <4>1, <4>2 DEF Channel!AcceptAgain
      <4> QED BY <4>3 DEF Channel!Next
    <3> QED BY <3>3, <3>4
  <2> QED BY <1>8, <2>2, <2>3, ReceiveErrorAccepts
<1>9. CASE Tick
  BY <1>9, <1>s DEF Tick, sendVars, recvVars
<1>10. CASE UNCHANGED vars
  BY <1>10, <1>s DEF vars
<1> QED BY <1>1, <1>2, <1>3, <1>4, <1>5, <1>6, <1>7, <1>8, <1>9, <1>10 DEF Next

(* Threads, fragments, partial reads, uninitialised memory and socket       *)
(* errors add up to a channel that loses messages and mixes their order but *)
(* alters none, and repeats only the last one once the socket is bad.       *)
THEOREM TransportImplementsChannel == Spec => ImplementsChannel
<1>1. IInv /\ IInv' /\ OrderInv /\ [Next]_vars => [Channel!Next]_Channel!vars
  BY NextChannel
<1> QED BY <1>1, InitChannel, Invariance, Ordered, PTL DEF Spec, ImplementsChannel, Channel!Spec


----------------------------------------------------------------------------
(***************************************************************************)
(* Theorems about the receiver's Storage, for all values of the constants: *)
(* what a Debug build and the server's receiver accept, and what makes a   *)
(* partial message leave.                                                  *)
(*                                                                         *)
(* StorageInv says of every fragment what the first iteration of           *)
(* SendSingle does to it: it carries no byte of the payload.               *)
(***************************************************************************)

(* The first iteration alone has type First, offset 0 and nothing copied. *)
Starting(m) ==
  /\ m.type = TypeFirst => m.offset = 0 /\ m.length = 0
  /\ m.type = TypeNext => m.offset > 0

Uncopied(header, body) ==
  /\ header.type = TypeFirst =>
       header.offset = 0 /\ (~MemoryReused => \A i \in 1..header.length : body[i] = Junk)
  /\ header.type = TypeNext => header.offset > 0

(* The server, which no short read leaves running, has a fragment or none in *)
(* its buffer.                                                              *)
Untorn(f) ==
  f.id # 0 => /\ f.header.total_length = Len(sent[f.id].payload)
              /\ f.header.length <= Fragment
              /\ Uncopied(f.header, f.body)

(* Time goes on, and in a Debug build no cell gets the byte it begins with. *)
Unstarted(c) ==
  /\ c.timestamp <= now
  /\ ~MemoryReused => c.body = <<>> \/ c.body[1] = Junk

StorageInv ==
  /\ \A s \in Senders : call[s] # Idle => Starting(call[s].message)
  /\ \A i \in 1..Len(stream) : Uncopied(stream[i].header, stream[i].body)
  /\ ServerSide /\ recvproc = "running" => Untorn(buffer)
  /\ \A i \in 1..Len(storage) : Unstarted(storage[i])
  /\ OnlyEmptyAccepted
  /\ ServerTakesSinglesOnly

UnstartedCells == {c \in Cells : Unstarted(c)}

----------------------------------------------------------------------------
(* In a Debug build new memory holds the fill byte alone. *)
LEMMA JunkMemory ==
  ASSUME NEW n \in Nat, ~MemoryReused, NEW b \in Memory(n)
  PROVE  b = [i \in 1..n |-> Junk]
BY DEF Memory

(* A fragment without the first byte leaves a cell without it. *)
LEMMA FilledUnstarted ==
  ASSUME NEW c \in UnstartedCells, NEW header \in Reread,
         NEW bytes \in [1..header.length -> Byte], MemoryReused \/ Uncopied(header, bytes)
  PROVE  Filled(c, header, bytes) \in UnstartedCells
         /\ Filled(c, header, bytes).header = c.header
<1> DEFINE g == Filled(c, header, bytes)
           body == [i \in 1..Len(c.body) |->
                      IF i \in (header.offset + 1)..(header.offset + header.length)
                      THEN bytes[i - header.offset] ELSE c.body[i]]
<1>1. c \in Cells /\ c \in [header : Reread, timestamp : Nat, body : Seq(Byte)] /\ Unstarted(c)
  BY DEF UnstartedCells, Cells
<1>2. g \in Cells /\ g.header = c.header
  BY <1>1, FilledCell
<1>3. g = [c EXCEPT !.body = body]
  BY DEF Filled
<1> HIDE DEF g
<1>4. g.timestamp = c.timestamp /\ g.body = body
  <2> HIDE DEF body
  <2> QED BY <1>1, <1>3
<1>5. ASSUME ~MemoryReused PROVE g.body = <<>> \/ g.body[1] = Junk
  <2>1. CASE c.body = <<>>
    BY <1>4, <2>1
  <2>2. CASE c.body # <<>>
    <3>1. 1 \in 1..Len(c.body) /\ c.body[1] = Junk
      BY <1>1, <1>5, <2>2 DEF Unstarted
    <3>2. header.offset \in Nat /\ header.length \in Nat
          /\ header.type \in {TypeFirst, TypeNext}
      BY DEF Reread
    <3>3. CASE 1 \in (header.offset + 1)..(header.offset + header.length)
      <4>1. header.offset = 0 /\ 1 \in 1..header.length
        BY <3>2, <3>3
      <4>2. bytes[1] = Junk
        BY <1>5, <3>2, <4>1 DEF Uncopied
      <4> QED BY <1>4, <3>1, <3>3, <4>1, <4>2
    <3>4. CASE 1 \notin (header.offset + 1)..(header.offset + header.length)
      BY <1>4, <3>1, <3>4
    <3> QED BY <3>3, <3>4
  <2> QED BY <2>1, <2>2
<1>6. Unstarted(g)
  BY <1>1, <1>4, <1>5 DEF Unstarted
<1> QED BY <1>2, <1>6 DEF UnstartedCells, g

(* With an empty Storage ReadSequence accepts whole messages only. *)
LEMMA EmptyStorageAccepts ==
  ASSUME NEW header, NEW bytes, NEW fill, NEW time,
         LET r == ReadSequence(<<>>, header, bytes, fill, time) IN r.status
  PROVE  LET r == ReadSequence(<<>>, header, bytes, fill, time)
         IN header.type = TypeFirst /\ Final(header) /\ Without(r.storage, r.pivot) = <<>>
<1> DEFINE cell == [header |-> header, timestamp |-> time, body |-> fill]
           cells == IF header.type = TypeFirst THEN Append(<<>>, cell) ELSE <<>>
           stop  == Position(cells, header.hash, 1)
           aged  == {i \in 1..(stop - 1) : Expired(cells[i], time)}
           kept  == IF aged = {} THEN cells ELSE Without(cells, Smallest(aged))
           pivot == IF aged = {} THEN stop
                    ELSE Position(kept, header.hash, Smallest(aged) + 1)
           found == pivot <= Len(kept)
           read  == IF found
                    THEN [kept EXCEPT ![pivot] = Filled(@, header, bytes)] ELSE kept
           r == ReadSequence(<<>>, header, bytes, fill, time)
<1>1. /\ r.status = (found /\ Final(header) /\ Intact(read[pivot]))
      /\ r.pivot = pivot
      /\ r.storage = IF found /\ Final(header) /\ ~Intact(read[pivot]) THEN Without(read, pivot) ELSE read
  BY Zenon DEF ReadSequence
<1>2. cells \in Seq({cell}) /\ stop \in 1..(Len(cells) + 1)
  <2>1. cells \in Seq({cell})
    <3>1. cell \in {cell} /\ <<>> \in Seq({cell})
      BY EmptySeq
    <3> HIDE DEF cell
    <3> QED BY <3>1, AppendProperties
  <2> HIDE DEF cells
  <2> QED BY <2>1, PositionProperties
<1>3. CASE header.type # TypeFirst
  <2>1. Len(cells) = 0
    BY <1>3
  <2> HIDE DEF cells
  <2>2. stop = 1
    BY <1>2, <2>1
  <2> HIDE DEF stop
  <2>3. aged = {}
    BY <2>2
  <2> HIDE DEF aged
  <2>4. ~found
    BY <2>1, <2>2, <2>3
  <2> QED BY <1>1, <2>4
<1>4. CASE header.type = TypeFirst
  <2>1. Len(cells) = 1 /\ cells[1].header.hash = header.hash
    BY <1>4
  <2> HIDE DEF cells
  <2>2. stop = 1
    <3> DEFINE hits == {i \in 1..Len(cells) : cells[i].header.hash = header.hash}
    <3>1. hits = {1}
      BY <2>1
    <3>2. Smallest({1}) = 1
      BY SmallestProperties
    <3> QED BY <3>1, <3>2 DEF Position
  <2> HIDE DEF stop
  <2>3. aged = {}
    BY <2>2
  <2> HIDE DEF aged
  <2>4. kept = cells /\ pivot = 1
    BY <2>2, <2>3
  <2> HIDE DEF kept, pivot
  <2>5. Len(read) = 1
    BY <1>2, <2>1, <2>4
  <2>6. Final(header) /\ r.pivot = 1 /\ r.storage = read
    BY <1>1, <2>4, Zenon
  <2> HIDE DEF read, r
  <2>7. Without(read, 1) = <<>>
    BY <2>5 DEF Without
  <2> QED BY <1>4, <2>6, <2>7 DEF r
<1> QED BY <1>3, <1>4

LEMMA UnstartedStorage ==
  ASSUME IInv, StorageInv
  PROVE  storage \in Seq(UnstartedCells)
<1>1. storage \in Seq(Cells)
  BY DEF IInv
<1>2. \A i \in 1..Len(storage) : storage[i] \in UnstartedCells
  BY <1>1, ElementOfSeq DEF StorageInv, UnstartedCells
<1>3. UnstartedCells \subseteq Cells
  BY DEF UnstartedCells
<1> QED BY <1>1, <1>2, <1>3, SubsetSeq

LEMMA NewCellUnstarted ==
  ASSUME IInv, NEW f, Parsed(f),
         NEW fill \in IF f.header.type = TypeFirst THEN Memory(f.header.total_length) ELSE {<<>>}
  PROVE  f.header.type = TypeFirst =>
           [header |-> f.header, timestamp |-> now, body |-> fill] \in UnstartedCells
<1> DEFINE h == f.header
<1> SUFFICES ASSUME h.type = TypeFirst
             PROVE  [header |-> h, timestamp |-> now, body |-> fill] \in UnstartedCells
  OBVIOUS
<1>1. h \in Reread /\ h.total_length \in Nat /\ now \in Nat /\ f.id \in 1..Len(sent)
  <2>1. now \in Nat
    BY TransportAssumption DEF IInv
  <2> QED BY <2>1, UintAssumption DEF Reread, Parsed, HashOf
<1>2. fill \in Memory(h.total_length) /\ fill \in [1..h.total_length -> Byte]
  BY <1>1, MemoryProperties
<1>3. ~MemoryReused => fill = <<>> \/ fill[1] = Junk
  BY <1>1, <1>2, JunkMemory
<1> DEFINE c == [header |-> h, timestamp |-> now, body |-> fill]
<1>4. c \in [header : Reread, timestamp : Nat, body : Seq(Byte)]
  BY <1>1, <1>2
<1>5. Owned(c)
  BY <1>1, <1>2 DEF Owned, Parsed
<1>6. Unstarted(c)
  BY <1>1, <1>3 DEF Unstarted
<1> QED BY <1>4, <1>5, <1>6 DEF Cells, UnstartedCells

(* What ReadSequence and the loop do with a fragment keeps StorageInv. *)
LEMMA ProcessStorage ==
  ASSUME IInv, IInv', StorageInv, UNCHANGED <<sent, conn, now>>,
         NEW f, Parsed(f), NEW bytes \in [1..f.header.length -> Byte],
         MemoryReused \/ Uncopied(f.header, bytes),
         ServerSide => Untorn([id |-> f.id, header |-> f.header, body |-> bytes]),
         recvproc = "running", Process(f, bytes)
  PROVE  /\ (\A i \in 1..Len(storage) : Unstarted(storage[i]))'
         /\ OnlyEmptyAccepted' /\ ServerTakesSinglesOnly'
<1> DEFINE h == f.header
<1>1. PICK fill \in IF h.type = TypeFirst THEN Memory(h.total_length) ELSE {<<>>} :
        LET r == ReadSequence(storage, h, bytes, fill, now)
        IN \/ /\ r.status
              /\ delivered' = Append(delivered,
                                [id |-> f.id, data |-> r.storage[r.pivot].header.data,
                                 body |-> r.storage[r.pivot].body])
              /\ storage' = Without(r.storage, r.pivot)
              /\ UNCHANGED recvproc
           \/ /\ ~r.status
              /\ storage' = r.storage
              /\ Unfinished
              /\ UNCHANGED delivered
  BY Zenon DEF Process
<1> DEFINE r == ReadSequence(storage, h, bytes, fill, now)
           d == [id |-> f.id, data |-> r.storage[r.pivot].header.data,
                 body |-> r.storage[r.pivot].body]
<1>2. \/ /\ r.status
         /\ delivered' = Append(delivered, d)
         /\ storage' = Without(r.storage, r.pivot)
         /\ UNCHANGED recvproc
      \/ /\ ~r.status
         /\ storage' = r.storage
         /\ Unfinished
         /\ UNCHANGED delivered
  BY <1>1
<1>3. storage \in Seq(UnstartedCells) /\ Len(delivered) \in Nat
  BY UnstartedStorage DEF IInv
<1>4. h.type = TypeFirst =>
        [header |-> h, timestamp |-> now, body |-> fill] \in UnstartedCells
  BY NewCellUnstarted
<1>5. \A c \in UnstartedCells : /\ Filled(c, h, bytes) \in UnstartedCells
                                /\ Filled(c, h, bytes).header = c.header
  <2>1. h \in Reread
    BY DEF Parsed
  <2> QED BY <2>1, FilledUnstarted
<1>6. /\ r.storage \in Seq(UnstartedCells)
      /\ r.status \in BOOLEAN
      /\ r.status => r.pivot \in 1..Len(r.storage)
  <2> HIDE DEF h
  <2> QED BY <1>3, <1>4, <1>5, ReadSequenceProperties
<1> HIDE DEF r
<1>7. storage' \in Seq(UnstartedCells)
  <2> DEFINE cells == r.storage
             i == r.pivot
  <2>1. r.status => Without(cells, i) \in Seq(UnstartedCells)
    <3>1. r.status => cells \in Seq(UnstartedCells) /\ i \in 1..Len(cells)
      BY <1>6
    <3> HIDE DEF cells, i
    <3> QED BY <3>1, WithoutProperties
  <2> QED BY <1>2, <1>6, <2>1, Zenon
<1>8. (\A i \in 1..Len(storage) : Unstarted(storage[i]))'
  <2>1. \A c \in UnstartedCells : Unstarted(c)'
    BY DEF UnstartedCells, Unstarted
  <2>2. \A i \in 1..Len(storage') : storage'[i] \in UnstartedCells
    BY <1>7, ElementOfSeq
  <2> QED BY <2>1, <2>2 DEF Unstarted
<1>9. r.status => /\ ~MemoryReused => d.body = <<>> \/ d.body[1] = Junk
                  /\ d \in Deliveries
  <2>1. r.status => r.storage[r.pivot] \in UnstartedCells
    BY <1>6, ElementOfSeq
  <2>2. r.status => d \in Deliveries
    <3> HIDE DEF d
    <3> QED BY <1>2, AppendedDelivery
  <2> QED BY <2>1, <2>2 DEF UnstartedCells, Unstarted
<1>10. r.status => d.id = f.id /\ d.body = sent[d.id].payload /\ d.body \in Seq(Units)
  <2> SUFFICES ASSUME r.status
               PROVE  d.id = f.id /\ d.body = sent[d.id].payload /\ d.body \in Seq(Units)
    OBVIOUS
  <2>1. d.id = f.id /\ d.id \in 1..Len(sent) /\ d.body = sent[d.id].payload
    BY <1>9 DEF Deliveries
  <2> HIDE DEF d, h
  <2>2. d.body \in Payloads
    BY <2>1, PayloadOfCall
  <2> QED BY <2>1, <2>2, PayloadsAssumption
<1> HIDE DEF d
<1>11. OnlyEmptyAccepted'
  <2> SUFFICES ASSUME ~MemoryReused, NEW i \in 1..Len(delivered') PROVE delivered'[i].body = <<>>
    BY DEF OnlyEmptyAccepted
  <2>0. delivered \in Seq(Deliveries)
    BY DEF IInv
  <2>1. CASE ~r.status
    BY <1>2, <2>1 DEF StorageInv, OnlyEmptyAccepted
  <2>2. CASE r.status
    <3>1. d.body = <<>>
      <4>1. d.body # <<>> => d.body[1] \in Units
        BY <1>10, <2>2
      <4> QED BY <1>9, <2>2, <4>1, PayloadsAssumption
    <3>2. delivered' = Append(delivered, d)
      BY <1>2, <2>2
    <3>3. delivered'[i] = d \/ (i \in 1..Len(delivered) /\ delivered'[i] = delivered[i])
      BY <2>0, <3>2, <1>3
    <3> QED BY <3>1, <3>3 DEF StorageInv, OnlyEmptyAccepted
  <2> QED BY <2>1, <2>2
<1>12. ServerTakesSinglesOnly'
  <2> SUFFICES ASSUME ServerSide PROVE ServerTakesSinglesOnly'
    BY DEF ServerTakesSinglesOnly
  <2>0. delivered \in Seq(Deliveries) /\ storage = <<>>
    BY DEF IInv, StorageInv, ServerTakesSinglesOnly
  <2>1. CASE ~r.status
    BY <1>2, <2>1 DEF Unfinished, StorageInv, ServerTakesSinglesOnly
  <2>2. CASE r.status
    <3>1. h.type = TypeFirst /\ Final(h) /\ storage' = <<>>
      <4>1. r = ReadSequence(<<>>, h, bytes, fill, now)
        BY <2>0 DEF r
      <4> HIDE DEF h
      <4>2. h.type = TypeFirst /\ Final(h) /\ Without(r.storage, r.pivot) = <<>>
        BY <2>2, <4>1, EmptyStorageAccepts
      <4> QED BY <1>2, <2>2, <4>2
    <3>u. /\ h.total_length = Len(sent[f.id].payload) /\ h.length <= Fragment
          /\ h.offset = 0 /\ h.length \in Nat /\ h.total_length \in Nat
      BY <3>1, UintAssumption DEF Parsed, Reread, Untorn, Uncopied
    <3>2. h.total_length <= Fragment
      BY <3>1, <3>u, SizesAssumption DEF Final, Fragment
    <3>3. Len(d.body) <= Fragment /\ delivered' = Append(delivered, d)
      BY <1>2, <1>10, <2>2, <3>2, <3>u
    <3>4. \A i \in 1..Len(delivered') :
            delivered'[i] = d \/ (i \in 1..Len(delivered) /\ delivered'[i] = delivered[i])
      BY <2>0, <3>3, <1>3
    <3> HIDE DEF h
    <3> QED BY <3>1, <3>3, <3>4 DEF StorageInv, ServerTakesSinglesOnly
  <2> QED BY <2>1, <2>2
<1> QED BY <1>8, <1>11, <1>12

LEMMA MisreadStorage ==
  ASSUME IInv, StorageInv, UNCHANGED <<sent, now>>, Misread
  PROVE  /\ (\A i \in 1..Len(storage) : Unstarted(storage[i]))'
         /\ OnlyEmptyAccepted' /\ ServerTakesSinglesOnly'
<1>1. storage \in Seq(Cells) /\ now \in Nat /\ UNCHANGED delivered
  BY TransportAssumption DEF IInv, Misread
<1>2. Unstarted(JunkCell)
  BY <1>1 DEF Unstarted, JunkCell
<1>3. \A i \in 1..Len(storage') : storage'[i] = JunkCell \/ (i \in 1..Len(storage) /\ storage'[i] = storage[i])
  BY <1>1 DEF Misread
<1>4. \A i \in 1..Len(storage') : Unstarted(storage'[i])
  BY <1>2, <1>3 DEF StorageInv
<1>5. (\A i \in 1..Len(storage) : Unstarted(storage[i]))'
  BY <1>4 DEF Unstarted
<1>6. ServerSide => recvproc' = "terminated"
  BY DEF Misread, Unfinished
<1> QED BY <1>1, <1>5, <1>6 DEF StorageInv, OnlyEmptyAccepted, ServerTakesSinglesOnly

LEMMA SendFragmentStorage ==
  ASSUME IInv, StorageInv, NEW s \in Senders, SendFragment(s)
  PROVE  StorageInv'
<1>1. UNCHANGED <<sent, buffer, storage, delivered, recvproc, now>>
  BY DEF SendFragment, recvVars
<1>2. PICK header, body, c : Portioned(s, header, body, c)
  BY FragmentSent
<1> DEFINE m == call[s].message
<1>3. m \in Header /\ Starting(m) /\ call[s] # Idle
  BY <1>2 DEF Portioned, MoreToSend, IInv, StorageInv, Idle
<1>4. header.length \in Nat /\ header = [m EXCEPT !.length = header.length]
      /\ Portion(m) = header.length
      /\ (~Copies(m) => body \in Memory(Portion(m)))
  BY <1>2 DEF Portioned
<1>5. header.type = m.type /\ header.offset = m.offset
  <2> HIDE DEF m
  <2> QED BY <1>3, <1>4 DEF Header
<1>6. Uncopied(header, body)
  <2>1. m.type = TypeFirst => m.offset = 0 /\ ~Copies(m)
    BY <1>3 DEF Starting, Copies
  <2> HIDE DEF m
  <2>2. ~Copies(m) /\ ~MemoryReused => body = [i \in 1..header.length |-> Junk]
    BY <1>4, JunkMemory
  <2> QED BY <1>3, <1>5, <2>1, <2>2 DEF Uncopied, Starting
<1>7. c # Idle => Starting(c.message)
  <2> SUFFICES ASSUME c # Idle PROVE Starting(c.message)
    OBVIOUS
  <2>1. c.message = [m EXCEPT !.type = TypeNext, !.length = header.length, !.offset = @ + header.length]
        /\ header.length > 0
    BY <1>2 DEF Portioned
  <2>2. c.message.type = TypeNext /\ c.message.offset = m.offset + header.length /\ m.offset \in Nat
    <3> HIDE DEF m
    <3> QED BY <1>3, <2>1 DEF Header
  <2> HIDE DEF m
  <2> QED BY <1>4, <2>1, <2>2 DEF Starting, TypeFirst, TypeNext
<1>8. \A t \in Senders : call'[t] = c \/ call'[t] = call[t]
  BY <1>2 DEF Portioned, IInv
<1>9. \A t \in Senders : call'[t] # Idle => Starting(call'[t].message)
  BY <1>7, <1>8 DEF StorageInv
<1>10. \A i \in 1..Len(stream') : Uncopied(stream'[i].header, stream'[i].body)
  <2>1. CASE stream' = stream
    BY <2>1 DEF StorageInv
  <2>2. CASE stream' = stream \o Frame(call[s].id, header, body)
    <3>1. /\ Len(stream) \in Nat
          /\ Len(stream') = Len(stream) + sizeofheader + header.length
          /\ \A i \in 1..Len(stream) : stream'[i] = stream[i]
          /\ \A i \in 1..Len(stream') : i > Len(stream) =>
               stream'[i] = [id |-> call[s].id, header |-> header, body |-> body, at |-> i - Len(stream)]
      <4> DEFINE n == call[s].id
      <4>1. stream' = stream \o Frame(n, header, body)
        BY <2>2
      <4>0. header.length \in Nat
        BY <1>4
      <4> HIDE DEF n, m
      <4>2. /\ Len(stream) \in Nat
            /\ Len(stream') = Len(stream) + sizeofheader + header.length
            /\ \A i \in 1..Len(stream) : stream'[i] = stream[i]
            /\ \A i \in 1..Len(stream') : i > Len(stream) =>
                 stream'[i] = [id |-> n, header |-> header, body |-> body, at |-> i - Len(stream)]
        BY <4>0, <4>1, FrameAppended
      <4> QED BY <4>2 DEF n
    <3>2. \A i \in 1..Len(stream') :
            \/ i \in 1..Len(stream)
            \/ stream'[i].header = header /\ stream'[i].body = body
      <4>1. \A i \in 1..Len(stream') : i \in 1..Len(stream) \/ i > Len(stream)
        BY <1>4, <3>1, SizesAssumption
      <4> QED BY <3>1, <4>1
    <3> HIDE DEF m
    <3> QED BY <1>6, <3>1, <3>2 DEF StorageInv
  <2> QED BY <1>2, <2>1, <2>2 DEF Portioned
<1>11. (ServerSide /\ recvproc = "running" => Untorn(buffer))'
       /\ (\A i \in 1..Len(storage) : Unstarted(storage[i]))'
       /\ OnlyEmptyAccepted' /\ ServerTakesSinglesOnly'
  BY <1>1 DEF StorageInv, Untorn, Uncopied, Unstarted, OnlyEmptyAccepted, ServerTakesSinglesOnly
<1> QED BY <1>9, <1>10, <1>11 DEF StorageInv, Starting, Uncopied, Idle

(* Bytes that recvfrom did not return are what the stack buffer held. *)
LEMMA GotUncopied ==
  ASSUME NEW f, f.header.length \in Nat, Uncopied(f.header, f.body), NEW k,
         NEW rest \in IF k >= sizeofheader + f.header.length THEN {f.body} ELSE Memory(f.header.length)
  PROVE  Uncopied(f.header, [j \in 1..f.header.length |->
                               IF sizeofheader + j <= k THEN f.body[j] ELSE rest[j]])
<1> DEFINE got == [j \in 1..f.header.length |->
                     IF sizeofheader + j <= k THEN f.body[j] ELSE rest[j]]
<1>1. ASSUME f.header.type = TypeFirst, ~MemoryReused, NEW j \in 1..f.header.length
      PROVE  got[j] = Junk
  <2>1. f.body[j] = Junk
    BY <1>1 DEF Uncopied
  <2>2. rest = f.body \/ rest = [i \in 1..f.header.length |-> Junk]
    BY <1>1, JunkMemory
  <2> QED BY <2>1, <2>2
<1> QED BY <1>1 DEF Uncopied

LEMMA ReceiveStorage ==
  ASSUME IInv, IInv', StorageInv, NEW k \in 1..BUFFER_SIZE, Receive(k)
  PROVE  StorageInv'
<1> DEFINE f == stream[1]
           Rest == IF k >= sizeofheader + f.header.length THEN {f.body} ELSE Memory(f.header.length)
           Got(rest) == [j \in 1..f.header.length |->
                           IF sizeofheader + j <= k THEN f.body[j] ELSE rest[j]]
<1>1. UNCHANGED <<sent, call, conn, now>> /\ recvproc = "running"
  BY DEF Receive, sendVars
<1>2. f.id \in Nat \ {0} /\ f.header \in Header /\ Matches(f) /\ Uncopied(f.header, f.body)
  <2>1. f \in Frames /\ 1 \in 1..Len(stream)
    BY StreamRead
  <2> QED BY <2>1 DEF Frames, StorageInv
<1>3. \A i \in 1..Len(stream') : Uncopied(stream'[i].header, stream'[i].body)
  <2>1. \A i \in 1..Len(stream') : k + i \in 1..Len(stream) /\ stream'[i] = stream[k + i]
    BY StreamRead
  <2> QED BY <2>1 DEF StorageInv
<1>4. \A t \in Senders : call'[t] # Idle => Starting(call'[t].message)
  BY <1>1 DEF StorageInv
<1> DEFINE Kept == /\ (\A i \in 1..Len(storage) : Unstarted(storage[i]))'
                   /\ OnlyEmptyAccepted' /\ ServerTakesSinglesOnly'
<1>5. Kept /\ (ServerSide /\ recvproc = "running" => Untorn(buffer))'
  <2>1. CASE \E rest \in Rest :
               /\ Process(f, Got(rest))
               /\ buffer' = [id |-> f.id, header |-> f.header, body |-> Got(rest)]
    <3>1. PICK rest \in Rest :
            /\ Process(f, Got(rest))
            /\ buffer' = [id |-> f.id, header |-> f.header, body |-> Got(rest)]
      BY <2>1
    <3>2. Parsed(f) /\ f.header.length \in Nat /\ f.body \in [1..f.header.length -> Byte]
      BY <1>2, FrameParsed
    <3>3. rest \in [1..f.header.length -> Byte]
      BY <3>2, MemoryProperties
    <3>4. Got(rest) \in [1..f.header.length -> Byte]
      BY <3>2, <3>3
    <3>5. Uncopied(f.header, Got(rest))
      BY <1>2, <3>2, GotUncopied
    <3>6. Untorn([id |-> f.id, header |-> f.header, body |-> Got(rest)])
      BY <1>2, <3>5 DEF Matches, Describes, Untorn, Header
    <3> HIDE DEF f, Got, Rest
    <3>7. Kept
      BY <1>1, <3>1, <3>2, <3>4, <3>5, <3>6, ProcessStorage
    <3>8. Untorn(buffer)'
      BY <1>1, <3>1, <3>6 DEF Untorn, Uncopied
    <3> QED BY <3>7, <3>8
  <2>2. CASE Misread /\ buffer' = Blank
    BY <1>1, <2>2, MisreadStorage DEF Untorn, Blank
  <2>3. CASE Unfinished /\ buffer' \in Overwritten(f, k) /\ UNCHANGED <<storage, delivered>>
    BY <1>1, <2>3 DEF Unfinished, StorageInv, OnlyEmptyAccepted, ServerTakesSinglesOnly, Unstarted
  <2> HIDE DEF Kept
  <2> QED BY <2>1, <2>2, <2>3, Zenon DEF Receive
<1> QED BY <1>3, <1>4, <1>5 DEF StorageInv, Starting, Uncopied, Idle

LEMMA InitStorage == Init => StorageInv
<1> SUFFICES ASSUME Init PROVE StorageInv
  OBVIOUS
<1>1. /\ stream = <<>> /\ delivered = <<>> /\ storage = <<>> /\ buffer = Blank
      /\ \A s \in Senders : call[s] = Idle
  BY DEF Init
<1> QED BY <1>1 DEF StorageInv, OnlyEmptyAccepted, ServerTakesSinglesOnly, Untorn, Blank

LEMMA NextStorage == IInv /\ IInv' /\ StorageInv /\ [Next]_vars => StorageInv'
<1> SUFFICES ASSUME IInv, IInv', StorageInv, [Next]_vars PROVE StorageInv'
  OBVIOUS
<1>0. ASSUME UNCHANGED <<buffer, storage, delivered, recvproc>>, now <= now',
             stream' = stream \/ stream' = <<>>,
             sent' = sent \/ \E m \in [data : Kinds, payload : Payloads] : sent' = Append(sent, m),
             \A t \in Senders : call'[t] = call[t] \/ call'[t] = Idle \/ Starting(call'[t].message)
      PROVE  StorageInv'
  <2>1. \A i \in 1..Len(stream') : Uncopied(stream'[i].header, stream'[i].body)
    BY <1>0 DEF StorageInv
  <2>2. \A t \in Senders : call'[t] # Idle => Starting(call'[t].message)
    BY <1>0 DEF StorageInv
  <2>3. (\A i \in 1..Len(storage) : Unstarted(storage[i]))'
    <3>1. now \in Nat /\ now' \in Nat
      BY TransportAssumption DEF IInv
    <3>2. \A i \in 1..Len(storage) : storage[i].timestamp \in Nat
      <4>1. \A c \in Cells : c.timestamp \in Nat
        BY DEF Cells
      <4> QED BY <4>1, ElementOfSeq DEF IInv
    <3>3. \A i \in 1..Len(storage) : storage[i].timestamp <= now'
      BY <1>0, <3>1, <3>2 DEF StorageInv, Unstarted
    <3> QED BY <1>0, <3>3 DEF StorageInv, Unstarted
  <2>4. OnlyEmptyAccepted' /\ ServerTakesSinglesOnly'
    BY <1>0 DEF StorageInv, OnlyEmptyAccepted, ServerTakesSinglesOnly
  <2>5. (ServerSide /\ recvproc = "running" => Untorn(buffer))'
    <3>1. ASSUME buffer.id # 0 PROVE sent'[buffer.id] = sent[buffer.id]
      <4>1. buffer.id \in 1..Len(sent)
        BY <3>1, IdsAreCalls
      <4> QED BY <1>0, <4>1 DEF IInv
    <3> QED BY <1>0, <3>1 DEF StorageInv, Untorn, Uncopied
  <2> QED BY <2>1, <2>2, <2>3, <2>4, <2>5 DEF StorageInv, Starting, Uncopied, Idle
<1>a. Disconnect => stream' = stream \/ stream' = <<>>
  BY DEF Disconnect
<1>b. now <= now /\ now <= now + 1
  BY TransportAssumption DEF IInv
<1>1. ASSUME NEW s \in Senders, NEW kind \in Kinds, NEW payload \in Payloads,
             SendSequence(s, kind, payload)
      PROVE  StorageInv'
  <2>1. Starting(NewMessage(kind, payload))
    BY DEF Starting, NewMessage, TypeFirst, TypeNext
  <2>2. \A t \in Senders : call'[t] = call[t] \/ Starting(call'[t].message)
    BY <1>1, <2>1 DEF SendSequence, IInv
  <2> QED BY <1>0, <1>1, <1>b, <2>2 DEF SendSequence, recvVars
<1>2. ASSUME NEW s \in Senders, SendFragment(s) PROVE StorageInv'
  BY <1>2, SendFragmentStorage
<1>3. ASSUME NEW s \in Senders, SendEnd(s) PROVE StorageInv'
  <2>1. \A t \in Senders : call'[t] = call[t] \/ call'[t] = Idle
    BY <1>3 DEF SendEnd, IInv
  <2> QED BY <1>0, <1>3, <1>a, <1>b, <2>1 DEF SendEnd, recvVars
<1>4. CASE SenderExit
  BY <1>0, <1>4, <1>a, <1>b DEF SenderExit, recvVars
<1>5. CASE NetworkReset
  BY <1>0, <1>5, <1>b DEF NetworkReset, sendVars, recvVars
<1>6. ASSUME NEW k \in 1..BUFFER_SIZE, Receive(k) PROVE StorageInv'
  BY <1>6, ReceiveStorage
<1>7. CASE ReceiveEOF
  BY <1>7 DEF ReceiveEOF, Unfinished, sendVars, StorageInv, OnlyEmptyAccepted, ServerTakesSinglesOnly,
     Starting, Uncopied, Unstarted, Untorn, Idle
<1>8. CASE ReceiveError
  <2>1. /\ UNCHANGED <<sent, call, conn, stream, buffer, now>>
        /\ conn = "reset" /\ recvproc = "running"
    BY <1>8 DEF ReceiveError, sendVars
  <2>2. /\ (\A i \in 1..Len(storage) : Unstarted(storage[i]))'
        /\ OnlyEmptyAccepted' /\ ServerTakesSinglesOnly'
    <3>1. CASE MemoryReused /\ buffer.id # 0 /\ Process(buffer, buffer.body)
      <4>1. Parsed(buffer) /\ buffer.body \in [1..buffer.header.length -> Byte]
        BY <2>1, <3>1, BufferParsed
      <4>2. ServerSide => Untorn([id |-> buffer.id, header |-> buffer.header, body |-> buffer.body])
        BY <2>1 DEF StorageInv, Untorn
      <4> QED BY <2>1, <3>1, <4>1, <4>2, ProcessStorage
    <3>2. CASE Misread
      BY <2>1, <3>2, MisreadStorage
    <3> QED BY <1>8, <3>1, <3>2 DEF ReceiveError
  <2>3. (ServerSide /\ recvproc = "running" => Untorn(buffer))'
    BY <2>1 DEF StorageInv, Untorn, Uncopied
  <2> QED BY <2>1, <2>2, <2>3 DEF StorageInv, Starting, Uncopied, Idle
<1>9. CASE Tick
  BY <1>0, <1>9, <1>b DEF Tick, sendVars, recvVars
<1>10. CASE UNCHANGED vars
  BY <1>0, <1>10, <1>b DEF vars
<1> QED BY <1>1, <1>2, <1>3, <1>4, <1>5, <1>6, <1>7, <1>8, <1>9, <1>10 DEF Next

(* The first fragment of a SendSequence never has a byte of the payload,    *)
(* and no cell begun by it ever gets its first byte, unless new memory      *)
(* happens to hold it (WritePayload, ReadSequence).                         *)
THEOREM StorageInvariance == Spec => []StorageInv
<1> QED BY InitIInv, NextIInv, InitStorage, NextStorage, PTL DEF Spec

(* A Debug build fills new memory, and the first iteration of SendSingle    *)
(* sends new memory: no message with a byte in it is ever accepted.         *)
THEOREM DebugAcceptsEmpty == Spec => []OnlyEmptyAccepted
<1>1. StorageInv => OnlyEmptyAccepted
  BY DEF StorageInv
<1> QED BY <1>1, StorageInvariance, PTL

(* The server's receiver erases through an unassigned iterator whenever a   *)
(* fragment does not complete a message: it outlives single fragments only. *)
THEOREM ServerTakesSingles == Spec => []ServerTakesSinglesOnly
<1>1. StorageInv => ServerTakesSinglesOnly
  BY DEF StorageInv
<1> QED BY <1>1, StorageInvariance, PTL

----------------------------------------------------------------------------
(* What makes a partial message leave.                                     *)

LEMMA CellsOfFinite ==
  ASSUME NEW C, NEW cells \in Seq(C), NEW h
  PROVE  IsFiniteSet(CellsOf(h, cells)) /\ Cardinality(CellsOf(h, cells)) \in Nat
<1>1. CellsOf(h, cells) \in SUBSET (1..Len(cells)) /\ Len(cells) \in Nat
  BY DEF CellsOf
<1>2. IsFiniteSet(1..Len(cells))
  BY <1>1, FS_Interval
<1> QED BY <1>1, <1>2, FS_Subset, FS_CardinalityType

(* Cells behind the others and new bytes in a cell take none away. *)
LEMMA CellsKept ==
  ASSUME NEW C, NEW old \in Seq(C), NEW new \in Seq(C), NEW h,
         \A i \in 1..Len(old) : i \in 1..Len(new) /\ new[i].header = old[i].header
  PROVE  Cardinality(CellsOf(h, old)) <= Cardinality(CellsOf(h, new))
<1>1. CellsOf(h, old) \in SUBSET CellsOf(h, new)
  BY DEF CellsOf
<1> QED BY <1>1, CellsOfFinite, FS_Subset

(* The cells with another hash survive the removal of a cell. *)
LEMMA OthersKept ==
  ASSUME NEW C, NEW cells \in Seq(C), NEW p \in 1..Len(cells), NEW h, cells[p].header.hash # h
  PROVE  Cardinality(CellsOf(h, cells)) <= Cardinality(CellsOf(h, Without(cells, p)))
<1> DEFINE S == CellsOf(h, cells)
           T == CellsOf(h, Without(cells, p))
           shift == [i \in S |-> IF i < p THEN i ELSE i - 1]
<1>1. /\ Without(cells, p) \in Seq(C) /\ Len(Without(cells, p)) = Len(cells) - 1
      /\ \A j \in 1..(Len(cells) - 1) :
           Without(cells, p)[j] = IF j < p THEN cells[j] ELSE cells[j + 1]
  BY WithoutProperties
<1>2. \A i \in S : i \in 1..Len(cells) /\ i # p /\ cells[i].header.hash = h
  BY DEF CellsOf
<1>3. ASSUME NEW i \in S PROVE shift[i] \in T
  <2>1. CASE i < p
    <3>1. i \in 1..(Len(cells) - 1) /\ Without(cells, p)[i] = cells[i]
      BY <1>1, <1>2, <2>1
    <3> QED BY <1>1, <1>2, <2>1, <3>1 DEF CellsOf
  <2>2. CASE ~(i < p)
    <3>1. i - 1 \in 1..(Len(cells) - 1) /\ ~(i - 1 < p) /\ (i - 1) + 1 = i
      BY <1>2, <2>2
    <3>2. Without(cells, p)[i - 1] = cells[i]
      BY <1>1, <3>1
    <3> QED BY <1>1, <1>2, <2>2, <3>1, <3>2 DEF CellsOf
  <2> QED BY <2>1, <2>2
<1>4. ASSUME NEW i \in S, NEW j \in S, shift[i] = shift[j] PROVE i = j
  BY <1>2, <1>4
<1>5. shift \in Injection(S, T)
  <2> HIDE DEF S, T
  <2>1. shift \in [S -> T]
    BY <1>3
  <2> HIDE DEF shift
  <2> QED BY <1>4, <2>1 DEF Injection, IsInjective
<1>6. IsFiniteSet(T)
  BY <1>1, CellsOfFinite
<1> HIDE DEF S, T, shift
<1>7. Cardinality(S) <= Cardinality(T)
  BY <1>5, <1>6, FS_Injection
<1> QED BY <1>7 DEF S, T

(* No cell is older than the clock, so none is younger than it by more than *)
(* timeout_secs: ReadSequence never erases for age.                         *)
LEMMA ReadSequenceRemoves ==
  ASSUME NEW C, NEW cells0 \in Seq(C), NEW header, NEW bytes, NEW fill, NEW time \in Nat,
         header.type = TypeFirst =>
           [header |-> header, timestamp |-> time, body |-> fill] \in C,
         \A c \in C : /\ Filled(c, header, bytes) \in C
                      /\ Filled(c, header, bytes).header = c.header
                      /\ c.timestamp \in Nat /\ c.timestamp <= time,
         NEW h, ~(h = header.hash /\ Final(header)),
         NEW r, r = ReadSequence(cells0, header, bytes, fill, time)
  PROVE  /\ Cardinality(CellsOf(h, cells0)) <= Cardinality(CellsOf(h, r.storage))
         /\ r.status =>
              Cardinality(CellsOf(h, cells0)) <= Cardinality(CellsOf(h, Without(r.storage, r.pivot)))
<1> DEFINE cells == IF header.type = TypeFirst
                    THEN Append(cells0, [header |-> header, timestamp |-> time, body |-> fill])
                    ELSE cells0
           stop  == Position(cells, header.hash, 1)
           aged  == {i \in 1..(stop - 1) : Expired(cells[i], time)}
           kept  == IF aged = {} THEN cells ELSE Without(cells, Smallest(aged))
           pivot == IF aged = {} THEN stop
                    ELSE Position(kept, header.hash, Smallest(aged) + 1)
           found == pivot <= Len(kept)
           read  == IF found
                    THEN [kept EXCEPT ![pivot] = Filled(@, header, bytes)] ELSE kept
<1>1. cells \in Seq(C) /\ \A i \in 1..Len(cells0) : i \in 1..Len(cells) /\ cells[i] = cells0[i]
  BY AppendProperties
<1>2. stop \in 1..(Len(cells) + 1) /\ (stop <= Len(cells) => cells[stop].header.hash = header.hash)
  <2> HIDE DEF cells
  <2> QED BY <1>1, PositionProperties
<1>3. aged = {}
  <2> HIDE DEF cells, stop
  <2>1. \A i \in 1..(stop - 1) : cells[i] \in C
    BY <1>1, <1>2
  <2>2. \A c \in C : ~Expired(c, time)
    BY SizesAssumption DEF Expired
  <2> QED BY <2>1, <2>2
<1> HIDE DEF cells, stop, aged
<1>4. kept = cells /\ pivot = stop
  BY <1>3
<1> HIDE DEF kept, pivot
<1>5. /\ read \in Seq(C) /\ Len(read) = Len(cells)
      /\ \A i \in 1..Len(cells) : read[i].header = cells[i].header
      /\ (found => pivot \in 1..Len(read) /\ read[pivot].header.hash = header.hash)
  BY <1>1, <1>2, <1>4
<1> HIDE DEF read
<1>6. Cardinality(CellsOf(h, cells0)) <= Cardinality(CellsOf(h, read))
  <2>1. \A i \in 1..Len(cells0) : i \in 1..Len(read) /\ read[i].header = cells0[i].header
    BY <1>1, <1>5
  <2> QED BY <1>5, <2>1, CellsKept
<1>7. /\ r.status = (found /\ Final(header) /\ Intact(read[pivot]))
      /\ r.pivot = pivot
      /\ r.storage = IF found /\ Final(header) /\ ~Intact(read[pivot]) THEN Without(read, pivot) ELSE read
  BY Zenon DEF ReadSequence, cells, stop, aged, kept, pivot, read
<1> HIDE DEF found
<1>8. found /\ Final(header) =>
        Cardinality(CellsOf(h, cells0)) <= Cardinality(CellsOf(h, Without(read, pivot)))
  <2> SUFFICES ASSUME found, Final(header)
               PROVE  Cardinality(CellsOf(h, cells0)) <= Cardinality(CellsOf(h, Without(read, pivot)))
    OBVIOUS
  <2>1. pivot \in 1..Len(read) /\ read[pivot].header.hash # h
    BY <1>5
  <2>2. Cardinality(CellsOf(h, read)) <= Cardinality(CellsOf(h, Without(read, pivot)))
    BY <1>5, <2>1, OthersKept
  <2>3. Without(read, pivot) \in Seq(C)
    BY <1>5, <2>1, WithoutProperties
  <2>4. /\ Cardinality(CellsOf(h, cells0)) \in Nat /\ Cardinality(CellsOf(h, read)) \in Nat
        /\ Cardinality(CellsOf(h, Without(read, pivot))) \in Nat
    BY <1>5, <2>3, CellsOfFinite
  <2> QED BY <1>6, <2>2, <2>4
<1>9. CASE found /\ Final(header) /\ ~Intact(read[pivot])
  BY <1>7, <1>8, <1>9
<1>10. CASE ~(found /\ Final(header) /\ ~Intact(read[pivot]))
  <2>1. r.storage = read /\ (r.status => found /\ Final(header)) /\ r.pivot = pivot
    BY <1>7, <1>10
  <2> QED BY <1>6, <1>8, <2>1
<1> QED BY <1>9, <1>10

LEMMA ProcessRemoves ==
  ASSUME IInv, StorageInv,
         NEW f, Parsed(f), NEW bytes \in [1..f.header.length -> Byte],
         MemoryReused \/ Uncopied(f.header, bytes),
         Process(f, bytes), NEW h, ~(h = f.header.hash /\ Final(f.header))
  PROVE  Cardinality(CellsOf(h, storage)) <= Cardinality(CellsOf(h, storage'))
<1>1. PICK fill \in IF f.header.type = TypeFirst THEN Memory(f.header.total_length) ELSE {<<>>} :
        LET r == ReadSequence(storage, f.header, bytes, fill, now)
        IN \/ r.status /\ storage' = Without(r.storage, r.pivot)
           \/ ~r.status /\ storage' = r.storage
  BY Zenon DEF Process
<1> DEFINE r == ReadSequence(storage, f.header, bytes, fill, now)
<1>2. now \in Nat
  BY TransportAssumption DEF IInv
<1>3. storage \in Seq(UnstartedCells)
  BY UnstartedStorage
<1>5. /\ f.header.type = TypeFirst =>
           [header |-> f.header, timestamp |-> now, body |-> fill] \in UnstartedCells
      /\ \A c \in UnstartedCells : /\ Filled(c, f.header, bytes) \in UnstartedCells
                                   /\ Filled(c, f.header, bytes).header = c.header
                                   /\ c.timestamp \in Nat /\ c.timestamp <= now
  <2>1. f.header.type = TypeFirst =>
           [header |-> f.header, timestamp |-> now, body |-> fill] \in UnstartedCells
    BY NewCellUnstarted
  <2>2. \A c \in UnstartedCells : c.timestamp \in Nat /\ c.timestamp <= now
    BY DEF UnstartedCells, Cells, Unstarted
  <2>3. f.header \in Reread
    BY DEF Parsed
  <2> QED BY <2>1, <2>2, <2>3, FilledUnstarted
<1>6. /\ Cardinality(CellsOf(h, storage)) <= Cardinality(CellsOf(h, r.storage))
      /\ r.status =>
           Cardinality(CellsOf(h, storage)) <= Cardinality(CellsOf(h, Without(r.storage, r.pivot)))
  BY <1>2, <1>3, <1>5, ReadSequenceRemoves
<1> HIDE DEF r
<1> QED BY <1>1, <1>6 DEF r

(* The fragment that a step of the reading loop looks at. *)
Read == IF conn = "reset" THEN buffer ELSE stream[1]

LEMMA NextRemoves ==
  ASSUME IInv, IInv', StorageInv, Next, NEW h, ~(h = Read.header.hash /\ Final(Read.header))
  PROVE  Cardinality(CellsOf(h, storage)) <= Cardinality(CellsOf(h, storage'))
<1>0. ASSUME UNCHANGED storage
      PROVE  Cardinality(CellsOf(h, storage)) <= Cardinality(CellsOf(h, storage'))
  <2>1. Cardinality(CellsOf(h, storage)) \in Nat
    BY CellsOfFinite DEF IInv
  <2> QED BY <1>0, <2>1
<1>m. ASSUME Misread
      PROVE  Cardinality(CellsOf(h, storage)) <= Cardinality(CellsOf(h, storage'))
  <2>1. CASE storage' = Append(storage, JunkCell)
    <3>1. storage \in Seq(Cells) /\ storage' \in Seq(Cells)
      BY <1>m, MisreadStep DEF IInv
    <3>2. \A i \in 1..Len(storage) : i \in 1..Len(storage') /\ storage'[i] = storage[i]
      BY <2>1, <3>1
    <3>3. \A i \in 1..Len(storage) : storage'[i].header = storage[i].header
      BY <3>2
    <3> DEFINE old == storage
               new == storage'
    <3>4. old \in Seq(Cells) /\ new \in Seq(Cells)
          /\ \A i \in 1..Len(old) : i \in 1..Len(new) /\ new[i].header = old[i].header
      BY <3>1, <3>2, <3>3
    <3> HIDE DEF old, new
    <3>5. Cardinality(CellsOf(h, old)) <= Cardinality(CellsOf(h, new))
      BY <3>4, CellsKept
    <3> QED BY <3>5 DEF old, new
  <2>2. CASE UNCHANGED storage
    BY <1>0, <2>2
  <2> QED BY <1>m, <2>1, <2>2 DEF Misread
<1>1. ASSUME NEW k \in 1..BUFFER_SIZE, Receive(k)
      PROVE  Cardinality(CellsOf(h, storage)) <= Cardinality(CellsOf(h, storage'))
  <2> DEFINE f == stream[1]
             Rest == IF k >= sizeofheader + f.header.length THEN {f.body} ELSE Memory(f.header.length)
             Got(rest) == [j \in 1..f.header.length |->
                             IF sizeofheader + j <= k THEN f.body[j] ELSE rest[j]]
  <2>1. Read = f
    BY <1>1 DEF Read, Receive
  <2>2. f.id \in Nat \ {0} /\ f.header \in Header /\ Matches(f) /\ Uncopied(f.header, f.body)
    <3>1. f \in Frames /\ 1 \in 1..Len(stream)
      BY <1>1, StreamRead
    <3> QED BY <3>1 DEF Frames, StorageInv
  <2>3. CASE \E rest \in Rest : Process(f, Got(rest))
    <3>1. PICK rest \in Rest : Process(f, Got(rest))
      BY <2>3
    <3>2. Parsed(f) /\ f.header.length \in Nat /\ f.body \in [1..f.header.length -> Byte]
      BY <2>2, FrameParsed
    <3>3. rest \in [1..f.header.length -> Byte]
      BY <3>2, MemoryProperties
    <3>4. Got(rest) \in [1..f.header.length -> Byte]
      BY <3>2, <3>3
    <3>5. Uncopied(f.header, Got(rest))
      BY <2>2, <3>2, GotUncopied
    <3> HIDE DEF f, Got, Rest
    <3> QED BY <2>1, <3>1, <3>2, <3>4, <3>5, ProcessRemoves
  <2>4. CASE Misread
    BY <1>m, <2>4
  <2>5. CASE UNCHANGED storage
    BY <1>0, <2>5
  <2> QED BY <1>1, <2>3, <2>4, <2>5, Zenon DEF Receive
<1>2. CASE ReceiveError
  <2>1. Read = buffer
    BY <1>2 DEF Read, ReceiveError
  <2>2. CASE MemoryReused /\ buffer.id # 0 /\ Process(buffer, buffer.body)
    <3>1. Parsed(buffer) /\ buffer.body \in [1..buffer.header.length -> Byte]
      BY <1>2, <2>2, BufferParsed DEF ReceiveError
    <3> QED BY <2>1, <2>2, <3>1, ProcessRemoves
  <2> QED BY <1>2, <1>m, <2>2 DEF ReceiveError
<1>3. ASSUME NEW s \in Senders, NEW kind \in Kinds, NEW payload \in Payloads,
             SendSequence(s, kind, payload)
      PROVE  UNCHANGED storage
  BY <1>3 DEF SendSequence, recvVars
<1>4. ASSUME NEW s \in Senders, SendFragment(s) \/ SendEnd(s) PROVE UNCHANGED storage
  BY <1>4 DEF SendFragment, SendEnd, recvVars
<1>5. SenderExit \/ NetworkReset \/ ReceiveEOF \/ Tick => UNCHANGED storage
  BY DEF SenderExit, NetworkReset, ReceiveEOF, Tick, recvVars
<1> QED BY <1>0, <1>1, <1>2, <1>3, <1>4, <1>5 DEF Next

(* A partial message leaves the Storage only when the last fragment with    *)
(* its hash is read.  The age that ReadSequence computes is never positive: *)
(* time removes nothing, and a message that lost a fragment stays.          *)
THEOREM CompletionRemoves == Spec => OnlyCompletionRemoves
<1> DEFINE A == \A i \in 1..Len(storage) :
                  LET h == storage[i].header.hash
                      f == IF conn = "reset" THEN buffer ELSE stream[1]
                  IN Cardinality(CellsOf(h, storage')) < Cardinality(CellsOf(h, storage))
                     => f.header.hash = h /\ Final(f.header)
<1>1. IInv /\ IInv' /\ StorageInv /\ [Next]_vars => [A]_vars
  <2> SUFFICES ASSUME IInv, IInv', StorageInv, Next, NEW i \in 1..Len(storage)
               PROVE  LET h == storage[i].header.hash
                          f == IF conn = "reset" THEN buffer ELSE stream[1]
                      IN Cardinality(CellsOf(h, storage')) < Cardinality(CellsOf(h, storage))
                         => f.header.hash = h /\ Final(f.header)
    OBVIOUS
  <2> DEFINE h == storage[i].header.hash
  <2>1. Cardinality(CellsOf(h, storage)) \in Nat /\ Cardinality(CellsOf(h, storage')) \in Nat
    <3>1. storage \in Seq(Cells) /\ storage' \in Seq(Cells')
      BY DEF IInv
    <3> HIDE DEF h
    <3> QED BY <3>1, CellsOfFinite
  <2>2. ~(h = Read.header.hash /\ Final(Read.header)) =>
          Cardinality(CellsOf(h, storage)) <= Cardinality(CellsOf(h, storage'))
    <3> HIDE DEF h
    <3> QED BY NextRemoves
  <2>3. ~(Cardinality(CellsOf(h, storage')) < Cardinality(CellsOf(h, storage)))
        \/ (h = Read.header.hash /\ Final(Read.header))
    <3> HIDE DEF h
    <3> QED BY <2>1, <2>2
  <2> QED BY <2>3 DEF Read
<1> HIDE DEF A
<1>2. Spec => [][A]_vars
  BY <1>1, Invariance, StorageInvariance, PTL DEF Spec
<1> QED BY <1>2 DEF OnlyCompletionRemoves, A
============================================================================
