------------------------------ MODULE Clipboard ------------------------------
(***************************************************************************)
(* The clipboard worker: every half second GetCBData looks at the Windows  *)
(* clipboard and ClipboadWorker hands a changed text to Send, a variable   *)
(* that main sets meanwhile.  Texts and images are sequences of bytes; the *)
(* hash stands for the bytes it was computed from, so it has no collisions.*)
(***************************************************************************)
EXTENDS Naturals, Sequences, FiniteSets

CONSTANTS
  Contents,     \* what other programs put on the clipboard
  Beyond,       \* bytes that memory may hold behind an image
  Junk,         \* a byte of memory behind a buffer of the worker
  NULL,         \* nullptr, an absent format, and the hash 0
  sizeofHEADER,
  MaxCopies,    \* bound: contents put on the clipboard
  MaxFailures   \* bound: calls of OpenClipboard, GetClipboardData and SendSequence that fail

Texts == {"F_TEXT", "F_UNICODE"}
Formats == Texts \cup {"F_BITMAP"}
sizeof == [F_TEXT |-> 1, F_UNICODE |-> 2]

\* A content has a value in some formats.  Texts come without the terminator,
\* an image begins with biCompression.
Content == [Formats -> Seq(Nat) \cup {NULL}]

\* Behind an image only what its length counts too much is ever read.
ASSUME ClipboardAssumption ==
  /\ NULL \notin Seq(Nat)
  /\ Contents \subseteq Content /\ Beyond \subseteq [1..sizeofHEADER -> Nat]
  /\ MaxCopies \in Nat /\ MaxFailures \in Nat /\ sizeofHEADER \in Nat

VARIABLES
  clip,         \* the content of the clipboard
  state,        \* ClipboardState of the worker
  pc,           \* the worker: "sleep", or "send" between GetCBData and Send
  Send,         \* "default", "assigned" while main assigns it, or "set"
  proc,         \* "running" or "crashed"
  copied,       \* history: the contents so far
  offered,      \* history: the calls of Send and what became of them
  failedReads, failures

vars == <<clip, state, pc, Send, proc, copied, offered, failedReads, failures>>

Init ==
  /\ clip \in Contents /\ copied = <<clip>>
  /\ state = [status |-> "NotAvaible", format |-> "F_NONE", lpdata |-> NULL, length |-> 0, hash |-> NULL]
  /\ pc = "sleep" /\ Send = "default" /\ proc = "running"
  /\ offered = <<>> /\ failedReads = 0 /\ failures = 0

-----------------------------------------------------------------------------
(***************************************************************************)
(* GetCBData                                                               *)
(***************************************************************************)
IsClipboardFormatAvailable(c, f) == f \in Formats /\ c[f] # NULL

\* The memory of a format, terminated if it is a text.
Memory(c, f) ==
  CASE f = "F_TEXT"    -> c[f] \o <<0>>
    [] f = "F_UNICODE" -> [i \in 1..(2 * Len(c[f]) + 2) |-> IF i % 2 = 1 /\ i <= 2 * Len(c[f]) THEN c[f][(i + 1) \div 2] ELSE 0]
    [] f = "F_BITMAP"  -> c[f]

\* Mutant: the length of a Unicode text in bytes.
LengthInBytes(c, f) ==
  IF f = "F_BITMAP" THEN Len(c[f]) + sizeofHEADER ELSE (Len(c[f]) + 1) * sizeof[f]

\* Bytes, characters, or the size of a BMP file, which has a header more.
GetClipboardDataLength(c, f) ==
  IF f = "F_BITMAP" THEN Len(c[f]) + sizeofHEADER ELSE Len(c[f]) + 1

\* What the hash is computed from; an image ends before its length does.
Hashed(c, f, beyond) ==
  LET memory == IF f = "F_BITMAP" THEN Memory(c, f) \o beyond ELSE Memory(c, f)
  IN SubSeq(memory, 1, GetClipboardDataLength(c, f))

\* Mutant: a text is looked for before its Unicode form.
FoundTextFirst(s, c) ==
  IF IsClipboardFormatAvailable(c, s.format) THEN s
  ELSE IF IsClipboardFormatAvailable(c, "F_TEXT") THEN [s EXCEPT !.format = "F_TEXT", !.status = "Changed"]
  ELSE IF IsClipboardFormatAvailable(c, "F_UNICODE") THEN [s EXCEPT !.format = "F_UNICODE", !.status = "Changed"]
  ELSE IF IsClipboardFormatAvailable(c, "F_BITMAP") THEN [s EXCEPT !.format = "F_BITMAP", !.status = "Changed"]
  ELSE [s EXCEPT !.format = "F_NONE", !.status = "NotAvaible"]

\* The format of last time is kept while it is available.
Found(s, c) ==
  IF IsClipboardFormatAvailable(c, s.format) THEN s
  ELSE IF IsClipboardFormatAvailable(c, "F_UNICODE") THEN [s EXCEPT !.format = "F_UNICODE", !.status = "Changed"]
  ELSE IF IsClipboardFormatAvailable(c, "F_TEXT") THEN [s EXCEPT !.format = "F_TEXT", !.status = "Changed"]
  ELSE IF IsClipboardFormatAvailable(c, "F_BITMAP") THEN [s EXCEPT !.format = "F_BITMAP", !.status = "Changed"]
  ELSE [s EXCEPT !.format = "F_NONE", !.status = "NotAvaible"]

Uncompressed(image) == [image EXCEPT ![1] = 0]

\* A copy of the data; of an image the headers alone, here one byte.
Replaced(s, c) ==
  IF s.format = "F_BITMAP"
  THEN [s EXCEPT !.status = "Changed", !.lpdata = <<0>>, !.length = 1]
  ELSE [s EXCEPT !.status = "Changed", !.lpdata = Memory(c, s.format), !.length = GetClipboardDataLength(c, s.format)]

\* Mutant: a content that is known already leaves the status alone.
TakenKeepingStatus(s, c, beyond) ==
  LET lhash == Hashed(c, s.format, beyond)
  IN IF s.hash = lhash THEN s ELSE Replaced([s EXCEPT !.hash = lhash], c)

\* Mutant: the new hash is not remembered.
TakenForgettingHash(s, c, beyond) ==
  LET lhash == Hashed(c, s.format, beyond)
  IN IF s.hash = lhash THEN [s EXCEPT !.status = "OK"]
     ELSE Replaced(s, c)

\* Mutant: a content of the same length is taken for the same.
TakenByLength(s, c, beyond) ==
  LET lhash == Hashed(c, s.format, beyond)
  IN IF s.hash # NULL /\ s.length = GetClipboardDataLength(c, s.format) THEN [s EXCEPT !.status = "OK"]
     ELSE Replaced([s EXCEPT !.hash = lhash], c)

\* The data are copied when the hash differs.
Taken(s, c, beyond) ==
  LET lhash == Hashed(c, s.format, beyond)
  IN IF s.hash = lhash THEN [s EXCEPT !.status = "OK"] ELSE Replaced([s EXCEPT !.hash = lhash], c)

Fail == failures < MaxFailures /\ failures' = failures + 1

OpenFails ==
  /\ Fail
  /\ state' = [state EXCEPT !.status = "NotAvaible"]
  /\ UNCHANGED <<clip, failedReads>>

NothingFound ==
  /\ state' = Found(state, clip)
  /\ state'.format = "F_NONE"
  /\ UNCHANGED <<clip, failedReads, failures>>

\* GetClipboardData or GlobalLock returns nullptr.
ReadFails ==
  /\ Fail
  /\ state' = Found(state, clip)
  /\ state'.format # "F_NONE"
  /\ failedReads' = failedReads + 1
  /\ UNCHANGED clip

\* A new image loses its biCompression on the clipboard as well.
Read ==
  LET found == Found(state, clip)
  IN /\ found.format # "F_NONE"
     /\ \E beyond \in Beyond : state' = Taken(found, clip, beyond)
     /\ clip' = IF found.format = "F_BITMAP" /\ state'.status = "Changed"
                THEN [clip EXCEPT !.F_BITMAP = Uncompressed(@)] ELSE clip
     /\ UNCHANGED <<failedReads, failures>>

GetCBData ==
  /\ proc = "running" /\ pc = "sleep"
  /\ OpenFails \/ NothingFound \/ ReadFails \/ Read
  /\ pc' = IF state'.status = "Changed" /\ state'.format \in Texts THEN "send" ELSE "sleep"
  /\ UNCHANGED <<Send, proc, copied, offered>>

-----------------------------------------------------------------------------
(***************************************************************************)
(* ClipboadWorker prints the text and calls Send, whatever comes of it.    *)
(***************************************************************************)
Size == state.length * sizeof[state.format]

\* The bytes handed to Send; those behind the buffer are anything.
Message == [data  |-> state.format,
            bytes |-> [i \in 1..Size |-> IF i <= Len(state.lpdata) THEN state.lpdata[i] ELSE Junk]]

\* The default of Send returns false, as does the server's while nobody is
\* connected; otherwise sending may fail.
Offer ==
  /\ proc = "running" /\ pc = "send"
  /\ state.lpdata # NULL
  /\ \E ok \in BOOLEAN :
       /\ Send = "default" => ~ok
       /\ IF ok \/ Send = "default" THEN UNCHANGED failures ELSE Fail
       /\ offered' = Append(offered, [message |-> Message, ok |-> ok])
  /\ pc' = "sleep"
  /\ UNCHANGED <<clip, state, Send, proc, copied, failedReads>>

\* Printing from a null pointer, reading behind a buffer, or calling a function
\* object that is being assigned.
Crash ==
  /\ proc = "running" /\ pc = "send"
  /\ \/ state.lpdata = NULL
     \/ state.lpdata # NULL /\ Size > Len(state.lpdata)
     \/ Send = "assigned"
  /\ proc' = "crashed"
  /\ UNCHANGED <<clip, state, pc, Send, copied, offered, failedReads, failures>>

-----------------------------------------------------------------------------
(***************************************************************************)
(* What happens around the worker                                          *)
(***************************************************************************)
\* main, in server_start or client_start; the worker has been started before.
Assign ==
  /\ proc = "running"
  /\ \/ Send = "default" /\ Send' = "assigned"
     \/ Send = "assigned" /\ Send' = "set"
  /\ UNCHANGED <<clip, state, pc, proc, copied, offered, failedReads, failures>>

\* Another program empties the clipboard or puts something on it.
Copy(c) ==
  /\ Len(copied) < MaxCopies
  /\ clip' = c /\ copied' = Append(copied, c)
  /\ UNCHANGED <<state, pc, Send, proc, offered, failedReads, failures>>

Next == GetCBData \/ Offer \/ Crash \/ Assign \/ \E c \in Contents : Copy(c)

\* The worker is inside a Send that walks connections or sends on one: while a
\* peer does not read, send() may never return.
Held == pc = "send" /\ state.lpdata # NULL /\ Send = "set"

\* The worker's loop has no end and waits for nothing but that.  No call has to
\* fail for it, so a failure is never what fairness brings about.
Worker == (GetCBData \/ Offer \/ Crash) /\ UNCHANGED failures
Spec == Init /\ [][Next]_vars
FairSpec == Spec /\ WF_vars(Worker /\ ~Held)

-----------------------------------------------------------------------------
TypeOK ==
  /\ state.status \in {"OK", "NotAvaible", "Changed"}
  /\ state.format \in Formats \cup {"F_NONE"}
  /\ pc \in {"sleep", "send"} /\ proc \in {"running", "crashed"}
  /\ Send \in {"default", "assigned", "set"}
  /\ state.lpdata = NULL <=> state.hash = NULL

Gives(c, message) ==
  /\ c[message.data] # NULL
  /\ message.bytes = Memory(c, message.data)

(* What Send is called with is what was copied, in the order it was copied  *)
(* and once for each copy, so a failed Send is never repeated; only a read  *)
(* that failed can bring one more message, with old data or a wrong type.   *)
OfferedInOrder ==
  \E kept \in SUBSET (DOMAIN offered) :
    /\ Cardinality(DOMAIN offered \ kept) <= failedReads
    /\ \E source \in [kept -> DOMAIN copied] :
         /\ \A i \in kept : Gives(copied[source[i]], offered[i].message)
         /\ \A i, j \in kept : i < j => source[i] < source[j]

(* A text that is longer than the buffer it is read from, or comes from no  *)
(* buffer at all, is due to a read that failed: nothing else crashes the    *)
(* worker but a call while main assigns Send.                               *)
SoundBuffer ==
  pc = "send" /\ failedReads = 0 => state.lpdata # NULL /\ Len(state.lpdata) = Size

(* A format that is less than a content offers is only ever kept from an    *)
(* earlier one that offered nothing better: a text is passed over for the   *)
(* image beside it, or sent in its ANSI form, only behind such a content.   *)
Better(f) ==
  CASE f = "F_UNICODE" -> {}
    [] f = "F_TEXT"    -> {"F_UNICODE"}
    [] f = "F_BITMAP"  -> Texts

KeptFormat ==
  state.format # "F_NONE" =>
    \E i \in DOMAIN copied :
      /\ copied[i][state.format] # NULL
      /\ \A f \in Better(state.format) : copied[i][f] = NULL

Noticed ==
  IF \E f \in Formats : clip[f] # NULL
  THEN /\ IsClipboardFormatAvailable(clip, state.format)
       /\ \E beyond \in Beyond : state.hash = Hashed(clip, state.format, beyond)
  ELSE state.format = "F_NONE"

(* In the end the worker has noticed what stays on the clipboard, in the    *)
(* format it looks for, and sends no more, unless a peer that does not read *)
(* holds it in Send; an image may go on changing, as the bytes behind it do.*)
Settles == <>[](proc = "crashed" \/ (pc = "sleep" /\ Noticed)) \/ <>[]Held

(* Whatever failed meanwhile, the last message handed to Send agrees in the *)
(* end with the text on the clipboard: it has its length, and its bytes as  *)
(* far as they are hashed, of a Unicode text the first half.                *)
Agrees(message) ==
  LET length == GetClipboardDataLength(clip, state.format)
  IN /\ Len(message.bytes) = length * sizeof[message.data]
     /\ SubSeq(message.bytes, 1, length) = Hashed(clip, state.format, <<>>)

Shared ==
  \/ <>[](\/ proc = "crashed" \/ state.format \notin Texts
         \/ /\ IsClipboardFormatAvailable(clip, state.format)
            /\ offered # <<>> /\ Agrees(offered[Len(offered)].message))
  \/ <>[]Held
=============================================================================
