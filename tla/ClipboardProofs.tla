-------------------------- MODULE ClipboardProofs --------------------------
(***************************************************************************)
(* Theorems about the clipboard worker, for all contents, whatever memory  *)
(* holds behind an image, and any number of copies and failures.           *)
(***************************************************************************)
EXTENDS Clipboard, FiniteSetTheorems, TLAPS

State == [status : {"OK", "NotAvaible", "Changed"}, format : Formats \cup {"F_NONE"},
          lpdata : Seq(Nat) \cup {NULL}, length : Nat, hash : Seq(Nat) \cup {NULL}]

\* A text that GetCBData has just found changed fills the buffer it is read from.
Filled(s) == s.lpdata # NULL /\ Len(s.lpdata) = s.length * sizeof[s.format]

IInv ==
  /\ clip \in Content
  /\ state \in State
  /\ state.lpdata = NULL <=> state.hash = NULL
  /\ pc \in {"sleep", "send"} /\ proc \in {"running", "crashed"}
  /\ Send \in {"default", "assigned", "set"}
  /\ failedReads \in Nat
  /\ pc = "send" /\ failedReads = 0 => Filled(state)

-----------------------------------------------------------------------------
(***************************************************************************)
(* What the operators of GetCBData return                                  *)
(***************************************************************************)

(* The memory of a format is bytes, as many as its length says, twice as    *)
(* many for a Unicode text.                                                 *)
LEMMA MemoryType ==
  ASSUME NEW c \in Content, NEW f \in Formats, c[f] # NULL
  PROVE  /\ Memory(c, f) \in Seq(Nat)
         /\ GetClipboardDataLength(c, f) \in Nat
         /\ f \in Texts => Len(Memory(c, f)) = GetClipboardDataLength(c, f) * sizeof[f]
         /\ ~(f \in Texts) => Len(Memory(c, f)) + sizeofHEADER = GetClipboardDataLength(c, f)
<1>1. c[f] \in Seq(Nat) /\ sizeofHEADER \in Nat
  BY ClipboardAssumption DEF Content
<1>2. CASE f = "F_TEXT"
  BY <1>1, <1>2 DEF Memory, GetClipboardDataLength, Texts, sizeof
<1>3. CASE f = "F_UNICODE"
  <2> DEFINE n == Len(c[f])
             b == [i \in 1..(2 * n + 2) |-> IF i % 2 = 1 /\ i <= 2 * n THEN c[f][(i + 1) \div 2] ELSE 0]
  <2>1. n \in Nat /\ Memory(c, f) = b
    BY <1>1, <1>3 DEF Memory
  <2>2. ASSUME NEW i \in 1..(2 * n + 2) PROVE b[i] \in Nat
    <3>1. CASE i % 2 = 1 /\ i <= 2 * n
      <4>1. (i + 1) \div 2 \in 1..n
        <5> HIDE DEF n, b
        <5>1. PICK k \in Nat : i = 2 * k + 1
          BY <3>1
        <5>2. (i + 1) \div 2 = k + 1 /\ k + 1 \in 1..n
          BY <2>1, <3>1, <5>1
        <5> QED BY <5>2
      <4> QED BY <1>1, <3>1, <4>1
    <3>2. CASE ~(i % 2 = 1 /\ i <= 2 * n)
      BY <3>2
    <3> QED BY <3>1, <3>2
  <2>3. b \in Seq(Nat) /\ Len(b) = 2 * n + 2
    <3> HIDE DEF n
    <3>1. 2 * n + 2 \in Nat /\ b \in [1..(2 * n + 2) -> Nat]
      BY <2>1, <2>2
    <3> QED BY <3>1
  <2>4. GetClipboardDataLength(c, f) = n + 1 /\ sizeof[f] = 2
    BY <1>3 DEF GetClipboardDataLength, sizeof, Texts
  <2>5. f \in Texts
    BY <1>3 DEF Texts
  <2> HIDE DEF n, b
  <2>6. Len(Memory(c, f)) = GetClipboardDataLength(c, f) * sizeof[f]
    BY <2>1, <2>3, <2>4
  <2> QED BY <2>1, <2>3, <2>4, <2>5, <2>6
<1>4. CASE f = "F_BITMAP"
  BY <1>1, <1>4 DEF Memory, GetClipboardDataLength, Texts
<1> QED BY <1>2, <1>3, <1>4 DEF Formats, Texts

(* An image stays bytes when its biCompression is reset.                    *)
LEMMA UncompressedType ==
  ASSUME NEW image \in Seq(Nat) PROVE Uncompressed(image) \in Seq(Nat)
<1>1. image \in [1..Len(image) -> Nat] /\ Len(image) \in Nat
  OBVIOUS
<1>2. Uncompressed(image) \in [1..Len(image) -> Nat]
  BY <1>1 DEF Uncompressed
<1> QED BY <1>1, <1>2

(* A hash is always computed from bytes, so it is not the absent one.       *)
LEMMA HashedType ==
  ASSUME NEW c \in Content, NEW f \in Formats, c[f] # NULL, NEW beyond \in [1..sizeofHEADER -> Nat]
  PROVE  Hashed(c, f, beyond) \in Seq(Nat)
<1> DEFINE memory == IF f = "F_BITMAP" THEN Memory(c, f) \o beyond ELSE Memory(c, f)
           length == GetClipboardDataLength(c, f)
<1>1. memory \in Seq(Nat) /\ length \in Nat /\ length <= Len(memory)
  <2>1. CASE f = "F_BITMAP"
    <3>1. Memory(c, f) \in Seq(Nat) /\ Len(Memory(c, f)) + sizeofHEADER = length
      BY <2>1, MemoryType DEF Texts
    <3>2. beyond \in Seq(Nat) /\ Len(beyond) = sizeofHEADER
      BY ClipboardAssumption
    <3> QED BY <2>1, <3>1, <3>2
  <2>2. CASE f # "F_BITMAP"
    <3>1. f \in Texts /\ sizeof[f] \in {1, 2}
      BY <2>2 DEF Formats, Texts, sizeof
    <3>2. Memory(c, f) \in Seq(Nat) /\ length \in Nat /\ Len(Memory(c, f)) = length * sizeof[f]
      BY <3>1, MemoryType
    <3>3. length <= length * sizeof[f]
      <4> HIDE DEF length
      <4> QED BY <3>1, <3>2
    <3> QED BY <2>2, <3>2, <3>3
  <2> QED BY <2>1, <2>2
<1>2. Hashed(c, f, beyond) = SubSeq(memory, 1, length)
  BY DEF Hashed
<1> HIDE DEF memory, length
<1> QED BY <1>1, <1>2

(* What GetCBData finds is there, and it touches no data.                   *)
LEMMA FoundType ==
  ASSUME NEW s \in State, NEW c \in Content
  PROVE  /\ Found(s, c) \in State
         /\ Found(s, c).lpdata = s.lpdata /\ Found(s, c).hash = s.hash
         /\ Found(s, c).format # "F_NONE" => /\ Found(s, c).format \in Formats
                                             /\ c[Found(s, c).format] # NULL
BY DEF Found, IsClipboardFormatAvailable, State, Formats, Texts

(* After a read, data and hash are both there, and a changed text fills its *)
(* buffer.                                                                  *)
LEMMA TakenType ==
  ASSUME NEW s \in State, NEW c \in Content, NEW beyond \in [1..sizeofHEADER -> Nat],
         s.format \in Formats, c[s.format] # NULL, s.lpdata = NULL <=> s.hash = NULL
  PROVE  LET t == Taken(s, c, beyond)
         IN /\ t \in State
            /\ t.lpdata = NULL <=> t.hash = NULL
            /\ t.format = s.format
            /\ t.status = "Changed" /\ t.format \in Texts => Filled(t)
<1> DEFINE h == Hashed(c, s.format, beyond)
           m == Memory(c, s.format)
           l == GetClipboardDataLength(c, s.format)
           s2 == [s EXCEPT !.hash = h]
<1>1. h \in Seq(Nat)
  BY HashedType
<1>2. m \in Seq(Nat) /\ l \in Nat /\ (s.format \in Texts => Len(m) = l * sizeof[s.format])
  BY MemoryType
<1>3. NULL \notin Seq(Nat) /\ <<0>> \in Seq(Nat)
  BY ClipboardAssumption
<1> HIDE DEF h, m, l
<1>4. CASE s.hash = h
  <2>1. Taken(s, c, beyond) = [s EXCEPT !.status = "OK"]
    BY <1>4 DEF Taken, h
  <2> QED BY <2>1 DEF State
<1>5. CASE s.hash # h
  <2>1. Taken(s, c, beyond) = Replaced(s2, c)
    BY <1>5 DEF Taken, h
  <2>2. s2 \in State /\ s2.hash = h /\ s2.format = s.format
    BY <1>1 DEF State
  <2> HIDE DEF s2
  <2>3. CASE s.format = "F_BITMAP"
    <3>1. Taken(s, c, beyond) = [s2 EXCEPT !.status = "Changed", !.lpdata = <<0>>, !.length = 1]
      BY <2>1, <2>2, <2>3 DEF Replaced
    <3>2. /\ Taken(s, c, beyond) \in State
          /\ Taken(s, c, beyond).lpdata = <<0>> /\ Taken(s, c, beyond).hash = h
          /\ Taken(s, c, beyond).format = s.format
      <4> DEFINE headers == <<0>>
                 size == 1
      <4>1. headers \in Seq(Nat) /\ size \in Nat
        BY <1>3
      <4>2. Taken(s, c, beyond) = [s2 EXCEPT !.status = "Changed", !.lpdata = headers, !.length = size]
        BY <3>1
      <4> HIDE DEF headers, size
      <4>3. Taken(s, c, beyond) \in State
        BY <2>2, <4>1, <4>2 DEF State
      <4>4. /\ Taken(s, c, beyond).lpdata = headers /\ Taken(s, c, beyond).hash = h
            /\ Taken(s, c, beyond).format = s.format
        BY <2>2, <4>2 DEF State
      <4> QED BY <4>3, <4>4 DEF headers
    <3>3. s.format \notin Texts
      BY <2>3 DEF Texts
    <3> QED BY <1>1, <1>3, <3>2, <3>3
  <2>4. CASE s.format # "F_BITMAP"
    <3>1. Taken(s, c, beyond) = [s2 EXCEPT !.status = "Changed", !.lpdata = m, !.length = l]
      BY <2>1, <2>2, <2>4 DEF Replaced, m, l
    <3>2. /\ Taken(s, c, beyond) \in State
          /\ Taken(s, c, beyond).lpdata = m /\ Taken(s, c, beyond).hash = h
          /\ Taken(s, c, beyond).format = s.format /\ Taken(s, c, beyond).length = l
      BY <1>2, <2>2, <3>1 DEF State
    <3> QED BY <1>1, <1>2, <1>3, <3>2 DEF Filled
  <2> QED BY <2>3, <2>4
<1> QED BY <1>4, <1>5

-----------------------------------------------------------------------------
(***************************************************************************)
(* The invariant                                                           *)
(***************************************************************************)
LEMMA InitInv == Init => IInv
<1> SUFFICES ASSUME Init PROVE IInv
  OBVIOUS
<1>1. clip \in Content
  BY ClipboardAssumption DEF Init
<1>2. state \in State /\ state.lpdata = NULL /\ state.hash = NULL
  BY DEF Init, State
<1> QED BY <1>1, <1>2 DEF Init, IInv

LEMMA GetCBDataInv == IInv /\ GetCBData => IInv'
<1> SUFFICES ASSUME IInv, GetCBData PROVE IInv'
  OBVIOUS
<1>1. pc' \in {"sleep", "send"} /\ UNCHANGED <<proc, Send>>
  BY DEF GetCBData
<1>2. Found(state, clip) \in State /\ (Found(state, clip).lpdata = NULL <=> Found(state, clip).hash = NULL)
  BY FoundType DEF IInv
<1>3. pc' = "send" => state'.status = "Changed" /\ state'.format \in Texts
  BY DEF GetCBData
<1>4. CASE OpenFails
  <2>1. state' = [state EXCEPT !.status = "NotAvaible"]
    BY <1>4 DEF OpenFails
  <2>2. state' \in State /\ state'.lpdata = state.lpdata /\ state'.hash = state.hash
        /\ state'.status = "NotAvaible"
    BY <2>1 DEF IInv, State
  <2> QED BY <1>1, <1>3, <1>4, <2>2 DEF IInv, OpenFails
<1>5. CASE NothingFound
  <2>1. state' = Found(state, clip) /\ state'.format = "F_NONE" /\ UNCHANGED <<clip, failedReads>>
    BY <1>5 DEF NothingFound
  <2>2. pc' # "send"
    BY <1>3, <2>1 DEF Texts
  <2> QED BY <1>1, <1>2, <2>1, <2>2 DEF IInv
<1>6. CASE ReadFails
  <2>1. state' = Found(state, clip) /\ failedReads' = failedReads + 1 /\ UNCHANGED clip
    BY <1>6 DEF ReadFails
  <2>2. failedReads' \in Nat /\ failedReads' # 0
    BY <2>1 DEF IInv
  <2> QED BY <1>1, <1>2, <2>1, <2>2 DEF IInv
<1>7. CASE Read
  <2> DEFINE found == Found(state, clip)
  <2>1. found \in State /\ found.format \in Formats /\ clip[found.format] # NULL
    BY <1>7, FoundType DEF Read, IInv
  <2>2. PICK beyond \in Beyond : state' = Taken(found, clip, beyond)
    BY <1>7 DEF Read
  <2>3. /\ state' \in State
        /\ state'.lpdata = NULL <=> state'.hash = NULL
        /\ state'.status = "Changed" /\ state'.format \in Texts => Filled(state')
    <3>1. beyond \in [1..sizeofHEADER -> Nat] /\ clip \in Content
      BY ClipboardAssumption DEF IInv
    <3> HIDE DEF found
    <3> QED BY <1>2, <2>1, <2>2, <3>1, TakenType DEF found
  <2>4. clip' \in Content
    <3>1. CASE clip' = clip
      BY <3>1 DEF IInv
    <3>2. CASE clip' # clip
      <4>1. found.format = "F_BITMAP" /\ clip' = [clip EXCEPT !.F_BITMAP = Uncompressed(@)]
        BY <1>7, <3>2 DEF Read
      <4>2. clip["F_BITMAP"] \in Seq(Nat)
        BY <2>1, <4>1 DEF IInv, Content
      <4>3. Uncompressed(clip["F_BITMAP"]) \in Seq(Nat)
        BY <4>2, UncompressedType
      <4> QED BY <4>1, <4>3 DEF IInv, Content
    <3> QED BY <3>1, <3>2
  <2>5. UNCHANGED failedReads
    BY <1>7 DEF Read
  <2> QED BY <1>1, <1>3, <2>3, <2>4, <2>5 DEF IInv, Filled
<1> QED BY <1>4, <1>5, <1>6, <1>7 DEF GetCBData

LEMMA NextInv == IInv /\ [Next]_vars => IInv'
<1> SUFFICES ASSUME IInv, [Next]_vars PROVE IInv'
  OBVIOUS
<1>1. CASE GetCBData
  BY <1>1, GetCBDataInv
<1>2. CASE Offer
  BY <1>2 DEF IInv, Offer
<1>3. CASE Crash
  BY <1>3 DEF IInv, Crash, Filled
<1>4. CASE Assign
  BY <1>4 DEF IInv, Assign, Filled
<1>5. ASSUME NEW c \in Contents, Copy(c) PROVE IInv'
  BY <1>5, ClipboardAssumption DEF IInv, Copy, Filled
<1>6. CASE UNCHANGED vars
  BY <1>6 DEF IInv, vars, Filled
<1> QED BY <1>1, <1>2, <1>3, <1>4, <1>5, <1>6 DEF Next

LEMMA Invariance == Spec => []IInv
BY InitInv, NextInv, PTL DEF Spec

(* The worker has data exactly when it has a hash to compare with, and all  *)
(* variables have their types (GetCBData, ClipboadWorker).                  *)
THEOREM TypeCorrect == Spec => []TypeOK
<1>1. IInv => TypeOK
  BY DEF IInv, TypeOK, State
<1> QED BY <1>1, Invariance, PTL

(* Unless a read has failed, a text that is handed to Send fills the buffer *)
(* it is read from, whatever the clipboard held before and meanwhile.       *)
THEOREM BufferSound == Spec => []SoundBuffer
<1>1. IInv => SoundBuffer
  BY DEF IInv, SoundBuffer, Filled, Size
<1> QED BY <1>1, Invariance, PTL

-----------------------------------------------------------------------------
(***************************************************************************)
(* The format                                                              *)
(***************************************************************************)
\* The worker takes no format from the clipboard and adds none.
SameFormats(c, d) == \A f \in Formats : c[f] # NULL <=> d[f] # NULL

\* A content that makes a worker without a format choose f.
Reason(c, f) == c[f] # NULL /\ \A g \in Better(f) : c[g] = NULL

KInv ==
  /\ clip \in Content /\ state.format \in Formats \cup {"F_NONE"}
  /\ copied \in Seq(Content) /\ Len(copied) > 0
  /\ SameFormats(clip, copied[Len(copied)])
  /\ state.format # "F_NONE" => \E i \in DOMAIN copied : Reason(copied[i], state.format)

(* The format that is found is the old one, or has its reason now.          *)
LEMMA FoundReason ==
  ASSUME NEW s \in State, NEW c
  PROVE  \/ Found(s, c).format = s.format
         \/ Found(s, c).format = "F_NONE"
         \/ Reason(c, Found(s, c).format)
BY DEF Found, IsClipboardFormatAvailable, Reason, Better, State, Formats, Texts

(* A reason that the clipboard has now, the last copy had when it came.     *)
LEMMA ReasonCopied ==
  ASSUME KInv, NEW f \in Formats, Reason(clip, f)
  PROVE  \E i \in DOMAIN copied : Reason(copied[i], f)
<1>1. Better(f) \subseteq Formats
  BY DEF Better, Formats, Texts
<1>2. Reason(copied[Len(copied)], f)
  BY <1>1 DEF KInv, SameFormats, Reason
<1> QED BY <1>2 DEF KInv

LEMMA GetCBDataFormat == IInv /\ KInv /\ GetCBData => KInv'
<1> SUFFICES ASSUME IInv, KInv, GetCBData PROVE KInv'
  OBVIOUS
<1>1. copied' = copied
  BY DEF GetCBData
<1>2. state \in State
  BY DEF IInv
<1> DEFINE found == Found(state, clip)
<1>3. found \in State
  BY <1>2, FoundType DEF KInv
<1>4. found.format # "F_NONE" => \E i \in DOMAIN copied : Reason(copied[i], found.format)
  <2>1. \/ found.format = state.format
        \/ found.format = "F_NONE"
        \/ Reason(clip, found.format)
    BY <1>2, FoundReason DEF State
  <2>2. found.format \in Formats \cup {"F_NONE"}
    BY <1>3 DEF State
  <2> HIDE DEF found
  <2> QED BY <2>1, <2>2, ReasonCopied DEF KInv
<1>5. state'.format \in {state.format, found.format} /\ state'.format \in Formats \cup {"F_NONE"}
  <2>1. CASE OpenFails
    BY <2>1, <1>2 DEF OpenFails, State
  <2>2. CASE NothingFound \/ ReadFails
    BY <2>2, <1>3 DEF NothingFound, ReadFails, State
  <2>3. CASE Read
    <3>1. PICK beyond \in Beyond : state' = Taken(found, clip, beyond)
      BY <2>3 DEF Read
    <3>2. found.format \in Formats /\ clip[found.format] # NULL /\ beyond \in [1..sizeofHEADER -> Nat]
      BY <2>3, <1>2, FoundType, ClipboardAssumption DEF Read, KInv
    <3>3. found.lpdata = NULL <=> found.hash = NULL
      BY <1>2, FoundType DEF IInv
    <3> HIDE DEF found
    <3>4. state'.format = found.format
      BY <1>3, <3>1, <3>2, <3>3, TakenType DEF KInv
    <3> QED BY <3>2, <3>4
  <2> QED BY <2>1, <2>2, <2>3 DEF GetCBData
<1>6. clip' \in Content /\ SameFormats(clip', clip)
  <2>1. CASE clip' = clip
    BY <2>1 DEF KInv, SameFormats
  <2>2. CASE clip' # clip
    <3>1. Read
      BY <2>2 DEF GetCBData, OpenFails, NothingFound, ReadFails
    <3>2. found.format = "F_BITMAP" /\ clip' = [clip EXCEPT !.F_BITMAP = Uncompressed(@)]
      BY <2>2, <3>1 DEF Read
    <3>3. clip["F_BITMAP"] # NULL
      BY <1>2, <3>2, FoundType DEF KInv
    <3>4. clip["F_BITMAP"] \in Seq(Nat)
      BY <3>3 DEF KInv, Content, Formats
    <3>5. Uncompressed(clip["F_BITMAP"]) \in Seq(Nat) /\ NULL \notin Seq(Nat)
      BY <3>4, UncompressedType, ClipboardAssumption
    <3> QED BY <3>2, <3>3, <3>5 DEF KInv, Content, SameFormats
  <2> QED BY <2>1, <2>2
<1>7. SameFormats(clip', copied[Len(copied)])
  BY <1>6 DEF KInv, SameFormats
<1> HIDE DEF found
<1> QED BY <1>1, <1>4, <1>5, <1>6, <1>7 DEF KInv

LEMMA NextFormat == IInv /\ KInv /\ [Next]_vars => KInv'
<1> SUFFICES ASSUME IInv, KInv, [Next]_vars PROVE KInv'
  OBVIOUS
<1>1. CASE GetCBData
  BY <1>1, GetCBDataFormat
<1>2. CASE Offer \/ Crash \/ Assign \/ UNCHANGED vars
  BY <1>2 DEF KInv, Offer, Crash, Assign, vars
<1>3. ASSUME NEW c \in Contents, Copy(c) PROVE KInv'
  <2>1. c \in Content /\ clip' = c /\ copied' = Append(copied, c) /\ state' = state
    BY <1>3, ClipboardAssumption DEF Copy
  <2>2. /\ copied' \in Seq(Content) /\ Len(copied') = Len(copied) + 1 /\ copied'[Len(copied')] = c
        /\ DOMAIN copied \subseteq DOMAIN copied'
        /\ \A i \in DOMAIN copied : copied'[i] = copied[i]
    BY <2>1 DEF KInv
  <2> QED BY <2>1, <2>2 DEF KInv, SameFormats
<1> QED BY <1>1, <1>2, <1>3 DEF Next

(* A format that is less than a content offers is only ever kept from an    *)
(* earlier content that offered nothing better (GetCBData).                 *)
THEOREM FormatKept == Spec => []KeptFormat
<1>1. Init => KInv
  <2> SUFFICES ASSUME Init PROVE KInv
    OBVIOUS
  <2>1. clip \in Content /\ copied = <<clip>> /\ state.format = "F_NONE"
    BY ClipboardAssumption DEF Init
  <2> QED BY <2>1 DEF KInv, SameFormats
<1>2. KInv => KeptFormat
  BY DEF KInv, KeptFormat, Reason
<1> QED BY <1>1, <1>2, NextFormat, Invariance, PTL DEF Spec

-----------------------------------------------------------------------------
(***************************************************************************)
(* The order of the messages                                               *)
(***************************************************************************)
Delivered == [message : [data : Texts, bytes : Seq(Nat \cup {Junk})], ok : BOOLEAN]

\* A change of the clipboard that is due to the worker leaves its texts alone.
HistoryOK ==
  /\ copied \in Seq(Content) /\ Len(copied) > 0
  /\ \A f \in Texts : clip[f] = copied[Len(copied)][f]
  /\ offered \in Seq(Delivered)

\* GetCBData knows the text on the clipboard.
Seen ==
  /\ state.format \in Texts /\ clip[state.format] # NULL
  /\ state.hash = Hashed(clip, state.format, <<>>)

\* The messages of kept come from copies, in order, and from what is on the
\* clipboard now only if it is known.
Matched(kept, source) ==
  /\ \A i \in kept : Gives(copied[source[i]], offered[i].message)
  /\ \A i, j \in kept : i < j => source[i] < source[j]
  /\ \A i \in kept : source[i] < Len(copied) \/ Seen

\* What will be sent next comes from the copy k, a later one than all before.
Fresh(kept, source, k) ==
  /\ state.format \in Texts /\ Filled(state) /\ Gives(copied[k], Message)
  /\ \A i \in kept : source[i] < k
  /\ k < Len(copied) \/ Seen

\* How many messages come from no copy.
Odd(kept) == Cardinality(DOMAIN offered \ kept)

\* Each of them is due to a failed read, and so is what will be sent next if it
\* is not fresh.
Counted(kept, source) ==
  /\ Odd(kept) <= failedReads
  /\ pc = "send" => Odd(kept) < failedReads \/ \E k \in DOMAIN copied : Fresh(kept, source, k)

OrderOK ==
  \E kept \in SUBSET (DOMAIN offered) : \E source \in [kept -> DOMAIN copied] :
    Matched(kept, source) /\ Counted(kept, source)

\* pc is "send" only behind a text.
SendsText == pc = "send" => state.format \in Texts

OInv == HistoryOK /\ SendsText /\ OrderOK

(* What memory holds of a text depends on nothing else on the clipboard.    *)
LEMMA MemoryAlone ==
  ASSUME NEW c, NEW d, NEW f \in Texts, c[f] = d[f]
  PROVE  Memory(c, f) = Memory(d, f)
BY DEF Memory, Texts

(* So does its hash; bytes behind an image do not get into it.              *)
LEMMA HashAlone ==
  ASSUME NEW c, NEW d, NEW f \in Texts, c[f] = d[f], NEW a, NEW b
  PROVE  Hashed(c, f, a) = Hashed(d, f, b)
<1>1. f # "F_BITMAP"
  BY DEF Texts
<1>2. Memory(c, f) = Memory(d, f)
  BY MemoryAlone
<1>3. GetClipboardDataLength(c, f) = GetClipboardDataLength(d, f)
  BY <1>1 DEF GetClipboardDataLength
<1> QED BY <1>1, <1>2, <1>3 DEF Hashed

\* Message, of any state of the worker.
MessageOf(s) ==
  [data  |-> s.format,
   bytes |-> [i \in 1..(s.length * sizeof[s.format]) |-> IF i <= Len(s.lpdata) THEN s.lpdata[i] ELSE Junk]]

(* A message has a type, and a buffer that is filled goes as it is.         *)
LEMMA MessageType ==
  ASSUME NEW s \in State, s.format \in Texts, s.lpdata # NULL
  PROVE  /\ MessageOf(s) \in [data : Texts, bytes : Seq(Nat \cup {Junk})]
         /\ MessageOf(s).data = s.format
         /\ Filled(s) => MessageOf(s).bytes = s.lpdata
<1>1. s.lpdata \in Seq(Nat) /\ s.length \in Nat /\ sizeof[s.format] \in {1, 2}
  BY DEF State, Texts, sizeof
<1> DEFINE n == s.length * sizeof[s.format]
           b == [i \in 1..n |-> IF i <= Len(s.lpdata) THEN s.lpdata[i] ELSE Junk]
<1>2. n \in Nat
  BY <1>1
<1>3. MessageOf(s) = [data |-> s.format, bytes |-> b]
  BY DEF MessageOf
<1>4. Filled(s) => Len(s.lpdata) = n
  BY DEF Filled
<1> HIDE DEF n
<1>5. b \in Seq(Nat \cup {Junk})
  <2>1. b \in [1..n -> Nat \cup {Junk}]
    BY <1>1, <1>2
  <2> QED BY <1>2, <2>1
<1>6. Filled(s) => b = s.lpdata
  <2> SUFFICES ASSUME Filled(s) PROVE b = s.lpdata
    OBVIOUS
  <2>1. Len(s.lpdata) = n
    BY <1>4
  <2>2. s.lpdata = [i \in 1..n |-> s.lpdata[i]]
    BY <1>1, <2>1
  <2>3. b = [i \in 1..n |-> s.lpdata[i]]
    BY <2>1
  <2> QED BY <2>2, <2>3
<1> HIDE DEF b
<1> QED BY <1>3, <1>5, <1>6

(* A read of a text either knows it, or replaces buffer and hash by it.     *)
LEMMA TakenText ==
  ASSUME NEW s \in State, NEW c, NEW beyond, s.format \in Texts
  PROVE  LET t == Taken(s, c, beyond)
         IN /\ t.format = s.format
            /\ s.hash = Hashed(c, s.format, beyond) => t.status = "OK" /\ t.hash = s.hash
            /\ s.hash # Hashed(c, s.format, beyond) => /\ t.hash = Hashed(c, s.format, beyond)
                                                       /\ t.lpdata = Memory(c, s.format)
<1> DEFINE h == Hashed(c, s.format, beyond)
           m == Memory(c, s.format)
           l == GetClipboardDataLength(c, s.format)
<1>1. s.format # "F_BITMAP"
  BY DEF Texts
<1>2. CASE s.hash = h
  <2>1. Taken(s, c, beyond) = [s EXCEPT !.status = "OK"]
    BY <1>2 DEF Taken
  <2> QED BY <1>2, <2>1 DEF State
<1>3. CASE s.hash # h
  <2> DEFINE s2 == [s EXCEPT !.hash = h]
  <2>1. Taken(s, c, beyond) = Replaced(s2, c)
    BY <1>3 DEF Taken
  <2>2. s2.format = s.format /\ s2.hash = h /\ DOMAIN s2 = {"status", "format", "lpdata", "length", "hash"}
    BY DEF State
  <2> HIDE DEF s2, h
  <2>3. Taken(s, c, beyond) = [s2 EXCEPT !.status = "Changed", !.lpdata = m, !.length = l]
    BY <1>1, <2>1, <2>2 DEF Replaced
  <2> HIDE DEF m, l
  <2>4. Taken(s, c, beyond).hash = h /\ Taken(s, c, beyond).lpdata = m /\ Taken(s, c, beyond).format = s.format
    BY <2>2, <2>3
  <2> QED BY <1>3, <2>4 DEF h, m
<1> QED BY <1>2, <1>3

(* What is known already is found again.                                    *)
LEMMA FoundAgain == Seen => Found(state, clip) = state
BY DEF Seen, Found, IsClipboardFormatAvailable, Formats

(* The messages that come from no copy can be counted. *)
LEMMA OddType ==
  ASSUME HistoryOK, NEW kept \in SUBSET (DOMAIN offered)
  PROVE  IsFiniteSet(DOMAIN offered \ kept) /\ Odd(kept) \in Nat
<1>1. DOMAIN offered = 1..Len(offered) /\ Len(offered) \in Nat
  BY DEF HistoryOK
<1>2. IsFiniteSet(DOMAIN offered)
  BY <1>1, FS_Interval
<1> QED BY <1>2, FS_Subset, FS_CardinalityType DEF Odd

(* While nothing is copied or offered, the messages so far stay matched,    *)
(* provided that the worker forgets nothing.                                *)
LEMMA StillMatched ==
  ASSUME NEW kept, NEW source, Matched(kept, source), UNCHANGED <<copied, offered>>, Seen => Seen'
  PROVE  Matched(kept, source)' /\ Odd(kept)' = Odd(kept)
BY DEF Matched, Gives, Odd

-----------------------------------------------------------------------------
LEMMA InitOrder == Init => OInv
<1> SUFFICES ASSUME Init PROVE OInv
  OBVIOUS
<1>1. clip \in Content /\ copied = <<clip>> /\ offered = <<>> /\ failedReads = 0 /\ pc = "sleep"
  BY ClipboardAssumption DEF Init
<1>2. HistoryOK
  BY <1>1 DEF HistoryOK
<1>3. DOMAIN offered = {}
  BY <1>1
<1> DEFINE none == [i \in {} |-> 1]
<1>4. none \in [{} -> DOMAIN copied] /\ Matched({}, none)
  BY DEF Matched
<1>5. Counted({}, none)
  <2>1. Odd({}) = 0
    BY <1>3, FS_EmptySet DEF Odd
  <2> QED BY <1>1, <2>1 DEF Counted
<1>6. OrderOK
  BY <1>4, <1>5 DEF OrderOK
<1> QED BY <1>1, <1>2, <1>6 DEF OInv, SendsText

(* A step of GetCBData that sends nothing because nothing failed, or        *)
(* because something did.                                                   *)
LEMMA QuietRead ==
  ASSUME OInv, pc = "sleep", UNCHANGED <<copied, offered>>, Seen => Seen',
         (pc' = "sleep" /\ failedReads' = failedReads) \/ failedReads' = failedReads + 1,
         failedReads \in Nat
  PROVE  OrderOK'
<1>1. PICK kept \in SUBSET (DOMAIN offered) : \E source \in [kept -> DOMAIN copied] :
        Matched(kept, source) /\ Counted(kept, source)
  BY DEF OInv, OrderOK
<1>2. PICK source \in [kept -> DOMAIN copied] : Matched(kept, source) /\ Counted(kept, source)
  BY <1>1
<1>3. Matched(kept, source)' /\ Odd(kept)' = Odd(kept)
  BY <1>2, StillMatched
<1>4. Odd(kept) \in Nat /\ Odd(kept) <= failedReads
  BY <1>2, OddType DEF Counted, OInv
<1>5. Counted(kept, source)'
  BY <1>3, <1>4 DEF Counted
<1> QED BY <1>3, <1>5 DEF OrderOK

LEMMA GetCBDataOrder == ASSUME IInv, OInv, GetCBData PROVE OInv'
<1>1. pc = "sleep" /\ UNCHANGED <<copied, offered>> /\ failedReads \in Nat /\ state \in State
  BY DEF GetCBData, IInv
<1>2. /\ pc' = "send" => state'.status = "Changed" /\ state'.format \in Texts
      /\ pc' \in {"sleep", "send"}
  BY DEF GetCBData
<1>3. SendsText'
  BY <1>2 DEF SendsText
<1>4. CASE OpenFails
  <2>1. /\ state'.status = "NotAvaible" /\ state'.format = state.format /\ state'.hash = state.hash
        /\ UNCHANGED <<clip, failedReads>>
    BY <1>1, <1>4 DEF OpenFails, State
  <2>2. Seen => Seen'
    BY <2>1 DEF Seen
  <2>3. pc' = "sleep"
    BY <1>2, <2>1
  <2>4. OrderOK'
    BY <1>1, <2>1, <2>2, <2>3, QuietRead
  <2> QED BY <1>1, <1>3, <2>1, <2>4 DEF OInv, HistoryOK
<1>5. CASE NothingFound
  <2>1. state' = Found(state, clip) /\ state'.format = "F_NONE" /\ UNCHANGED <<clip, failedReads>>
    BY <1>5 DEF NothingFound
  <2>2. ~Seen
    BY <2>1, FoundAgain DEF Seen, Texts
  <2>3. pc' = "sleep"
    BY <1>2, <2>1 DEF Texts
  <2>4. OrderOK'
    BY <1>1, <2>1, <2>2, <2>3, QuietRead
  <2> QED BY <1>1, <1>3, <2>1, <2>4 DEF OInv, HistoryOK
<1>6. CASE ReadFails
  <2>1. state' = Found(state, clip) /\ failedReads' = failedReads + 1 /\ UNCHANGED clip
    BY <1>6 DEF ReadFails
  <2>2. Seen => Seen'
    BY <2>1, FoundAgain DEF Seen
  <2>3. OrderOK'
    BY <1>1, <2>1, <2>2, QuietRead
  <2> QED BY <1>1, <1>3, <2>1, <2>3 DEF OInv, HistoryOK
<1>7. CASE Read
  <2> DEFINE found == Found(state, clip)
  <2>1. /\ found \in State /\ found.format \in Formats /\ clip[found.format] # NULL
        /\ found.lpdata = state.lpdata /\ found.hash = state.hash
        /\ clip \in Content /\ UNCHANGED failedReads
    BY <1>7, FoundType DEF Read, IInv
  <2>2. PICK beyond \in Beyond : state' = Taken(found, clip, beyond)
    BY <1>7 DEF Read
  <2>3. /\ state' \in State /\ state'.format = found.format
        /\ state'.status = "Changed" /\ state'.format \in Texts => Filled(state')
    <3>1. beyond \in [1..sizeofHEADER -> Nat]
      BY ClipboardAssumption
    <3> HIDE DEF found
    <3> QED BY <2>1, <2>2, <3>1, TakenType DEF IInv
  <2>4. \A f \in Texts : clip'[f] = clip[f]
    <3>1. clip' = clip \/ clip' = [clip EXCEPT !.F_BITMAP = Uncompressed(@)]
      BY <1>7 DEF Read
    <3>2. \A f \in Texts : f # "F_BITMAP" /\ f \in Formats
      BY DEF Texts, Formats
    <3> QED BY <2>1, <3>1, <3>2 DEF Content
  <2>5. HistoryOK'
    BY <1>1, <2>4 DEF OInv, HistoryOK
  <2>6. Seen => found = state
    BY FoundAgain
  <2> HIDE DEF found
  <2>7. CASE found.format \notin Texts
    <3>1. ~Seen /\ pc' = "sleep"
      BY <1>2, <2>3, <2>6, <2>7 DEF Seen
    <3>2. OrderOK'
      BY <1>1, <2>1, <3>1, QuietRead
    <3> QED BY <1>3, <2>5, <3>2 DEF OInv
  <2>8. CASE found.format \in Texts
    <3>1. PICK f \in Texts : f = found.format
      BY <2>8
    <3>2. PICK h : h = Hashed(clip, f, <<>>)
      OBVIOUS
    <3>3. /\ clip'[f] = clip[f] /\ clip[f] # NULL /\ clip[f] = copied[Len(copied)][f]
          /\ Hashed(clip, f, beyond) = h /\ Hashed(clip', f, <<>>) = h
          /\ Memory(copied[Len(copied)], f) = Memory(clip, f)
      <4>1. Hashed(clip, f, beyond) = Hashed(clip, f, <<>>)
        BY HashAlone
      <4>2. Hashed(clip', f, <<>>) = Hashed(clip, f, <<>>)
        <5>1. PICK c, e : c = clip' /\ e = <<>>
          OBVIOUS
        <5>2. c[f] = clip[f]
          BY <2>4, <5>1
        <5>3. Hashed(c, f, e) = Hashed(clip, f, e)
          BY <5>2, HashAlone
        <5> QED BY <5>1, <5>3
      <4>3. clip[f] = copied[Len(copied)][f]
        BY DEF OInv, HistoryOK
      <4>4. Memory(copied[Len(copied)], f) = Memory(clip, f)
        BY <4>3, MemoryAlone
      <4> QED BY <2>1, <2>4, <3>1, <3>2, <4>1, <4>2, <4>3, <4>4
    <3>4. /\ state'.format = f
          /\ state.hash = h => state'.status = "OK" /\ state'.hash = h
          /\ state.hash # h => state'.hash = h /\ state'.lpdata = Memory(clip, f)
      BY <2>1, <2>2, <2>8, <3>1, <3>3, TakenText
    <3>5. Seen'
      BY <3>3, <3>4 DEF Seen
    <3>6. CASE state.hash = h
      <4>1. pc' = "sleep"
        BY <1>2, <3>4, <3>6
      <4>2. OrderOK'
        BY <1>1, <2>1, <3>5, <4>1, QuietRead
      <4> QED BY <1>3, <2>5, <4>2 DEF OInv
    <3>7. CASE state.hash # h
      <4>1. ~Seen
        BY <2>6, <3>1, <3>2, <3>7 DEF Seen
      <4>2. PICK kept \in SUBSET (DOMAIN offered) : \E source \in [kept -> DOMAIN copied] :
              Matched(kept, source) /\ Counted(kept, source)
        BY DEF OInv, OrderOK
      <4>3. PICK source \in [kept -> DOMAIN copied] : Matched(kept, source) /\ Counted(kept, source)
        BY <4>2
      <4>4. Matched(kept, source)' /\ Odd(kept)' = Odd(kept) /\ Odd(kept) <= failedReads
        BY <1>1, <4>1, <4>3, StillMatched DEF Counted
      <4>5. ASSUME pc' = "send" PROVE Fresh(kept, source, Len(copied))'
        <5>1. Filled(state')
          BY <1>2, <2>3, <4>5
        <5>2. Message' = MessageOf(state')
          BY DEF Message, MessageOf, Size
        <5>3. Message'.data = f /\ Message'.bytes = Memory(clip, f)
          BY <2>3, <3>4, <3>7, <5>1, <5>2, MessageType DEF Filled
        <5>4. Gives(copied'[Len(copied)], Message')
          BY <1>1, <3>3, <5>3 DEF Gives
        <5>5. \A i \in kept : source[i] < Len(copied)
          BY <4>1, <4>3 DEF Matched
        <5> QED BY <1>1, <3>4, <3>5, <5>1, <5>4, <5>5 DEF Fresh
      <4>6. Len(copied) \in DOMAIN copied'
        BY <1>1 DEF OInv, HistoryOK
      <4>7. Counted(kept, source)'
        BY <2>1, <4>4, <4>5, <4>6 DEF Counted
      <4>8. OrderOK'
        BY <1>1, <4>4, <4>7 DEF OrderOK
      <4> QED BY <1>3, <2>5, <4>8 DEF OInv
    <3> QED BY <3>6, <3>7
  <2> QED BY <2>7, <2>8
<1> QED BY <1>4, <1>5, <1>6, <1>7 DEF GetCBData

(* A step that leaves alone what the order is about.                        *)
LEMMA SameOrder ==
  ASSUME OInv, UNCHANGED <<clip, state, pc, copied, offered, failedReads>>
  PROVE  OInv'
<1>1. HistoryOK' /\ SendsText'
  BY DEF OInv, HistoryOK, SendsText
<1>2. PICK kept \in SUBSET (DOMAIN offered) : \E source \in [kept -> DOMAIN copied] :
        Matched(kept, source) /\ Counted(kept, source)
  BY DEF OInv, OrderOK
<1>3. PICK source \in [kept -> DOMAIN copied] : Matched(kept, source) /\ Counted(kept, source)
  BY <1>2
<1>4. (Seen' <=> Seen) /\ Message' = Message
  BY DEF Seen, Message, Size
<1>5. Matched(kept, source)' /\ Odd(kept)' = Odd(kept)
  BY <1>3, <1>4, StillMatched
<1>6. ASSUME NEW k, Fresh(kept, source, k) PROVE Fresh(kept, source, k)'
  BY <1>4, <1>6 DEF Fresh, Filled, Gives
<1>7. Counted(kept, source)'
  BY <1>3, <1>5, <1>6 DEF Counted
<1> QED BY <1>1, <1>5, <1>7 DEF OInv, OrderOK

(* What is sent is either one more message due to a failed read, or comes   *)
(* from a later copy than all before.                                       *)
LEMMA OfferOrder == ASSUME IInv, OInv, Offer PROVE OInv'
<1>1. /\ pc = "send" /\ pc' = "sleep" /\ state.lpdata # NULL
      /\ UNCHANGED <<clip, state, copied, failedReads>>
  BY DEF Offer
<1>2. PICK ok \in BOOLEAN : offered' = Append(offered, [message |-> Message, ok |-> ok])
  BY DEF Offer
<1>3. state \in State /\ state.format \in Texts /\ Message = MessageOf(state) /\ failedReads \in Nat
  BY <1>1 DEF IInv, OInv, SendsText, Message, MessageOf, Size
<1>4. PICK e : e = [message |-> Message, ok |-> ok]
  OBVIOUS
<1>5. e \in Delivered /\ e.message = Message
  BY <1>1, <1>3, <1>4, MessageType DEF Delivered
<1>6. PICK n : n = Len(offered) + 1
  OBVIOUS
<1>7. /\ offered \in Seq(Delivered) /\ offered' \in Seq(Delivered)
      /\ DOMAIN offered' = DOMAIN offered \cup {n} /\ n \notin DOMAIN offered
      /\ offered'[n].message = Message
      /\ \A i \in DOMAIN offered : offered'[i] = offered[i] /\ i < n /\ i \in Nat
      /\ n \in Nat
  BY <1>2, <1>4, <1>5, <1>6 DEF OInv, HistoryOK
<1>8. HistoryOK' /\ SendsText'
  BY <1>1, <1>7 DEF OInv, HistoryOK, SendsText
<1>9. PICK kept \in SUBSET (DOMAIN offered) : \E source \in [kept -> DOMAIN copied] :
        Matched(kept, source) /\ Counted(kept, source)
  BY DEF OInv, OrderOK
<1>10. PICK source \in [kept -> DOMAIN copied] : Matched(kept, source) /\ Counted(kept, source)
  BY <1>9
<1>11. IsFiniteSet(DOMAIN offered \ kept) /\ Odd(kept) \in Nat
  BY OddType DEF OInv
<1>12. Seen' <=> Seen
  BY <1>1 DEF Seen
<1>13. CASE Odd(kept) < failedReads
  <2>1. DOMAIN offered' \ kept = (DOMAIN offered \ kept) \cup {n}
    BY <1>7
  <2>2. Odd(kept)' = Odd(kept) + 1
    BY <1>7, <1>11, <2>1, FS_AddElement DEF Odd
  <2>3. Matched(kept, source)'
    <3>1. \A i \in kept : Gives(copied[source[i]], offered'[i].message)
      BY <1>7, <1>10 DEF Matched
    <3> QED BY <1>1, <1>10, <1>12, <3>1 DEF Matched, Gives
  <2>4. Counted(kept, source)'
    BY <1>1, <1>3, <1>11, <1>13, <2>2 DEF Counted
  <2>5. kept \in SUBSET (DOMAIN offered') /\ source \in [kept -> DOMAIN copied']
    BY <1>1, <1>7
  <2> QED BY <1>8, <2>3, <2>4, <2>5 DEF OInv, OrderOK
<1>14. CASE ~(Odd(kept) < failedReads)
  <2>1. PICK k \in DOMAIN copied : Fresh(kept, source, k)
    BY <1>1, <1>10, <1>14 DEF Counted
  <2>2. PICK more : more = kept \cup {n}
    OBVIOUS
  <2>3. PICK later : later = [i \in more |-> IF i = n THEN k ELSE source[i]]
    OBVIOUS
  <2>4. /\ later \in [more -> DOMAIN copied] /\ later[n] = k
        /\ \A i \in kept : later[i] = source[i] /\ i < n /\ i \in Nat
    BY <1>7, <2>2, <2>3
  <2>5. Matched(more, later)'
    <3>1. \A i \in kept : Gives(copied[source[i]], offered'[i].message)
      BY <1>7, <1>10 DEF Matched
    <3>2. Gives(copied[k], offered'[n].message)
      BY <1>7, <2>1 DEF Fresh
    <3>3. \A i \in more : Gives(copied'[later[i]], offered'[i].message)
      BY <1>1, <2>2, <2>4, <3>1, <3>2
    <3>4. ASSUME NEW i \in more, NEW j \in more, i < j PROVE later[i] < later[j]
      <4>1. CASE i \in kept /\ j \in kept
        BY <1>10, <2>4, <3>4, <4>1 DEF Matched
      <4>2. CASE i \in kept /\ j = n
        BY <2>1, <2>4, <4>2 DEF Fresh
      <4>3. CASE i = n
        BY <1>7, <2>2, <2>4, <3>4, <4>3
      <4> QED BY <2>2, <4>1, <4>2, <4>3
    <3>5. \A i \in more : later[i] < Len(copied') \/ Seen'
      <4>1. \A i \in kept : source[i] < Len(copied) \/ Seen
        BY <1>10 DEF Matched
      <4>2. k < Len(copied) \/ Seen
        BY <2>1 DEF Fresh
      <4> QED BY <1>1, <1>12, <2>2, <2>4, <4>1, <4>2
    <3>6. \A i \in more : Gives(copied[later[i]], offered[i].message)'
      BY <3>3 DEF Gives
    <3> QED BY <3>4, <3>5, <3>6 DEF Matched
  <2>6. Counted(more, later)'
    <3>1. DOMAIN offered' \ more = DOMAIN offered \ kept
      BY <1>7, <2>2
    <3> QED BY <1>1, <1>10, <3>1 DEF Counted, Odd
  <2>7. more \in SUBSET (DOMAIN offered') /\ later \in [more -> DOMAIN copied']
    BY <1>1, <1>7, <2>2, <2>4
  <2> QED BY <1>8, <2>5, <2>6, <2>7 DEF OInv, OrderOK
<1> QED BY <1>13, <1>14

(* A new copy is behind all that have been sent.                            *)
LEMMA CopyOrder == ASSUME OInv, NEW c \in Contents, Copy(c) PROVE OInv'
<1>1. clip' = c /\ copied' = Append(copied, c) /\ UNCHANGED <<state, pc, offered, failedReads>>
  BY DEF Copy
<1>2. c \in Content /\ copied \in Seq(Content) /\ Len(copied) > 0
  BY ClipboardAssumption DEF OInv, HistoryOK
<1>3. /\ copied' \in Seq(Content) /\ Len(copied') = Len(copied) + 1 /\ copied'[Len(copied')] = c
      /\ DOMAIN copied \subseteq DOMAIN copied'
      /\ \A k \in DOMAIN copied : copied'[k] = copied[k] /\ k < Len(copied')
  BY <1>1, <1>2
<1>4. HistoryOK' /\ SendsText'
  BY <1>1, <1>2, <1>3 DEF OInv, HistoryOK, SendsText
<1>5. PICK kept \in SUBSET (DOMAIN offered) : \E source \in [kept -> DOMAIN copied] :
        Matched(kept, source) /\ Counted(kept, source)
  BY DEF OInv, OrderOK
<1>6. PICK source \in [kept -> DOMAIN copied] : Matched(kept, source) /\ Counted(kept, source)
  BY <1>5
<1>7. Matched(kept, source)'
  <2>1. \A i \in kept : Gives(copied'[source[i]], offered[i].message) /\ source[i] < Len(copied')
    BY <1>3, <1>6 DEF Matched
  <2>2. \A i \in kept : Gives(copied[source[i]], offered[i].message)'
    BY <1>1, <2>1 DEF Gives
  <2> QED BY <1>6, <2>1, <2>2 DEF Matched
<1>8. ASSUME NEW k \in DOMAIN copied, Fresh(kept, source, k) PROVE Fresh(kept, source, k)'
  <2>1. Message' = Message
    BY <1>1 DEF Message, Size
  <2>2. Gives(copied'[k], Message')
    BY <1>3, <1>8, <2>1 DEF Fresh
  <2> QED BY <1>1, <1>3, <1>8, <2>2 DEF Fresh, Gives, Filled
<1>9. Counted(kept, source)'
  BY <1>1, <1>3, <1>6, <1>8 DEF Counted, Odd
<1>10. source \in [kept -> DOMAIN copied'] /\ kept \in SUBSET (DOMAIN offered')
  BY <1>1, <1>3
<1> QED BY <1>4, <1>7, <1>9, <1>10 DEF OInv, OrderOK

LEMMA NextOrder == IInv /\ OInv /\ [Next]_vars => OInv'
<1> SUFFICES ASSUME IInv, OInv, [Next]_vars PROVE OInv'
  OBVIOUS
<1>1. CASE GetCBData
  BY <1>1, GetCBDataOrder
<1>2. CASE Offer
  BY <1>2, OfferOrder
<1>3. CASE Crash \/ Assign \/ UNCHANGED vars
  BY <1>3, SameOrder DEF Crash, Assign, vars
<1>4. ASSUME NEW c \in Contents, Copy(c) PROVE OInv'
  BY <1>4, CopyOrder
<1> QED BY <1>1, <1>2, <1>3, <1>4 DEF Next

(* Send is called with what was copied, in the order it was copied and at   *)
(* most once for each copy, whatever the worker missed or found twice; each *)
(* failed read of the clipboard accounts for at most one message besides    *)
(* (GetCBData, ClipboadWorker).                                             *)
THEOREM InOrder == Spec => []OfferedInOrder
<1>1. OInv => OfferedInOrder
  BY DEF OInv, OrderOK, Matched, Counted, Odd, OfferedInOrder
<1>2. Spec => []OInv
  BY InitOrder, NextOrder, Invariance, PTL DEF Spec
<1> QED BY <1>1, <1>2, PTL
=============================================================================
