----------------------------- MODULE Transport -----------------------------
(***************************************************************************)
(* One TCP connection of OnlineBuffer, seen in one direction: the threads  *)
(* of one process that call SendSequence on the socket, the byte stream,   *)
(* and the loop of the process at the other end that calls ReadSequence    *)
(* (client_start on a client, receiver on a server).                       *)
(***************************************************************************)
EXTENDS Message, FiniteSets

CONSTANTS
  Senders,       (* threads of the sending process that use this socket    *)
  Kinds,         (* the Message::Data they announce                        *)
  ServerSide,    (* the reading loop is the server's receiver              *)
  WholeReads,    (* every recvfrom returns exactly the bytes of one send   *)
  MaxSends,      (* bound: calls of SendSequence                           *)
  MaxDelivered,  (* bound: deliveries, for replays after a socket error    *)
  MaxCells,      (* bound: cells, for replays after a socket error         *)
  MaxTime        (* bound: the clock                                       *)

ASSUME TransportAssumption ==
  /\ ServerSide \in BOOLEAN /\ WholeReads \in BOOLEAN
  /\ Kinds \subseteq Nat
  /\ MaxSends \in Nat /\ MaxDelivered \in Nat /\ MaxCells \in Nat /\ MaxTime \in Nat

VARIABLES
  sent,       (* every SendSequence so far, in order: its kind and payload *)
  call,       (* per thread, the SendSequence it is inside, or Idle        *)
  sendproc,   (* the sending process                                       *)
  conn,       (* the connection                                            *)
  stream,     (* bytes sent and not yet read                               *)
  recvproc,   (* the receiving process                                     *)
  buffer,     (* what reads have left in ReadSequence's stack buffer       *)
  storage,    (* the receiver's partial messages                           *)
  delivered,  (* every message the receiver accepted, in order             *)
  now         (* time(NULL)                                                *)

sendVars == <<sent, call, sendproc>>
recvVars == <<recvproc, buffer, storage, delivered>>
vars == <<sent, call, sendproc, conn, stream, recvproc, buffer, storage, delivered, now>>

Idle == [id |-> 0]

(* Bytes that do not start with a header, as a header and as a fragment.    *)
NoHeader ==
  [data |-> 0, hash |-> NobodysHash, type |-> TypeFirst,
   total_length |-> 1, offset |-> 0, length |-> 0]

Blank == [id |-> 0, header |-> NoHeader, body |-> <<>>]

Init ==
  /\ sent = <<>>
  /\ call = [s \in Senders |-> Idle]
  /\ sendproc = "running"
  /\ conn = "open"
  /\ stream = <<>>
  /\ recvproc = "running"
  /\ buffer = Blank
  /\ storage = <<>>
  /\ delivered = <<>>
  /\ now = 0

----------------------------------------------------------------------------
(* The sending threads.                                                    *)

SendSequence(s, kind, payload) ==
  /\ sendproc = "running"
  /\ call[s] = Idle
  /\ Len(sent) < MaxSends
  /\ sent' = Append(sent, [data |-> kind, payload |-> payload])
  /\ call' = [call EXCEPT ![s] = [id |-> Len(sent) + 1, message |-> NewMessage(kind, payload)]]
  /\ UNCHANGED <<sendproc, conn, stream, recvVars, now>>

(* The bytes that one send() puts on the wire; id is the call they are of. *)
Frame(id, header, body) ==
  [i \in 1..(sizeofheader + header.length) |->
     [id |-> id, header |-> header, body |-> body, at |-> i]]

(* The loop of SendSingle calls WritePayload again after every portion.    *)
Continued(id, w) ==
  IF w.size > 0
  THEN [id |-> id, message |-> [w.message EXCEPT !.type = TypeNext]]
  ELSE Idle

(* An iteration of SendSingle that has a fragment to send. *)
SendFragment(s) ==
  /\ sendproc = "running"
  /\ call[s] # Idle
  /\ \E heap \in Memory(Portion(call[s].message)) :
       LET id == call[s].id
           w  == WritePayload(sent[id].payload, call[s].message, heap)
       IN /\ w.built
          /\ \/ /\ conn = "open"
                /\ stream' = stream \o Frame(id, w.header, w.body)
                /\ call' = [call EXCEPT ![s] = Continued(id, w)]
             \/ /\ conn # "open"                 \* SOCKET_ERROR ends the loop
                /\ call' = [call EXCEPT ![s] = Idle]
                /\ UNCHANGED stream
  /\ UNCHANGED <<sent, sendproc, conn, recvVars, now>>

(* What becomes of the connection when its sending process is gone. *)
Disconnect ==
  /\ sendproc' = "terminated"
  /\ \/ /\ conn' = IF conn = "open" THEN "closed" ELSE conn
        /\ UNCHANGED stream
     \/ /\ conn' = "reset"
        /\ stream' = <<>>

(* The last iteration: WritePayload allocates nothing and delete[] frees   *)
(* the previous iteration's buffer again, which the heap may not survive.  *)
SendEnd(s) ==
  /\ sendproc = "running"
  /\ call[s] # Idle
  /\ ~WritePayload(sent[call[s].id].payload, call[s].message, <<>>).built
  /\ call' = [call EXCEPT ![s] = Idle]
  /\ \/ UNCHANGED <<sendproc, conn, stream>>
     \/ Disconnect
  /\ UNCHANGED <<sent, recvVars, now>>

SenderExit ==
  /\ sendproc = "running"
  /\ Disconnect
  /\ UNCHANGED <<sent, call, recvVars, now>>

NetworkReset ==
  /\ conn = "open"
  /\ conn' = "reset"
  /\ stream' = <<>>
  /\ UNCHANGED <<sendVars, recvVars, now>>

----------------------------------------------------------------------------
(* The receiving loop.                                                     *)

(* Mutant: the server, too, erases only when a message is complete. *)
ReadsOn == UNCHANGED recvproc

(* What the loop does with a ReadSequence that returned FALSE: the server  *)
(* erases through an iterator nobody assigned, the client reads on.        *)
Unfinished == recvproc' = IF ServerSide THEN "terminated" ELSE recvproc

(* ReadSequence on a received fragment, and the loop's use of its result.  *)
Process(f, bytes) ==
  \E fill \in IF f.header.type = TypeFirst THEN Memory(f.header.total_length) ELSE {<<>>} :
    LET r == ReadSequence(storage, f.header, bytes, fill, now)
    IN \/ /\ r.status
          /\ delivered' = Append(delivered,
                            [id |-> f.id, data |-> r.storage[r.pivot].header.data,
                             body |-> r.storage[r.pivot].body])
          /\ storage' = Without(r.storage, r.pivot)
          /\ UNCHANGED recvproc
       \/ /\ ~r.status
          /\ storage' = r.storage
          /\ Unfinished
          /\ UNCHANGED delivered

(* A buffer that does not start with a header, taken for one.  Its hash is *)
(* nobody's: as a First it leaves a cell behind, as a Next it finds none.  *)
(* Any other type is an exception that nothing catches, and lengths that   *)
(* are no lengths end the process too.                                     *)
JunkCell == [header |-> NoHeader, timestamp |-> now, body |-> <<Junk>>]

Misread ==
  /\ \/ storage' = Append(storage, JunkCell) /\ Unfinished
     \/ UNCHANGED storage /\ Unfinished
     \/ UNCHANGED storage /\ recvproc' = "terminated"
  /\ UNCHANGED delivered

(* The buffer when its header has become h by a read of f's first bytes:    *)
(* the bytes behind it, as many as h now announces, are those that were     *)
(* there.                                                                   *)
Patched(f, h, rest) ==
  [id     |-> IF h.hash = buffer.header.hash THEN buffer.id
              ELSE IF h.hash = f.header.hash THEN f.id ELSE 0,
   header |-> h,
   body   |-> [i \in 1..h.length |->
                 IF i <= Len(buffer.body) THEN buffer.body[i] ELSE rest[i]]]

(* The stack buffer after a read of k bytes, fewer than a header has: only  *)
(* its first k bytes are new.  In the middle of a fragment these are any.   *)
Overwritten(f, k) ==
  IF f.at = 1
  THEN UNION {{Patched(f, h, rest) : rest \in Memory(h.length)} :
                h \in Overlaid(f.header, buffer.header, k)}
  ELSE {[buffer EXCEPT !.header.data = d] : d \in Kinds \cup {0}}
       \cup IF k = 1 THEN {}
            ELSE {Blank, [buffer EXCEPT !.id = 0, !.header.hash = NobodysHash]}

(* recvfrom returns k bytes of the stream, at most BUFFER_SIZE. *)
Receive(k) ==
  LET f == stream[1]
      whole == sizeofheader + f.header.length
  IN
  /\ recvproc = "running"
  /\ conn # "reset"
  /\ stream # <<>>
  /\ k <= Len(stream)
  /\ WholeReads => f.at = 1 /\ k = whole
  /\ stream' = SubSeq(stream, k + 1, Len(stream))
  /\ \/ /\ f.at = 1
        /\ k >= sizeofheader
        /\ \E rest \in IF k >= whole THEN {f.body} ELSE Memory(f.header.length) :
             LET bytes == [j \in 1..f.header.length |->
                             IF sizeofheader + j <= k THEN f.body[j] ELSE rest[j]]
             IN /\ Process(f, bytes)
                /\ buffer' = [id |-> f.id, header |-> f.header, body |-> bytes]
     \/ /\ f.at # 1
        /\ k >= sizeofheader
        /\ Misread
        /\ buffer' = Blank
     \/ /\ k < sizeofheader
        /\ Unfinished
        /\ buffer' \in Overwritten(f, k)
        /\ UNCHANGED <<storage, delivered>>
  /\ UNCHANGED <<sendVars, conn, now>>

(* Mutant: a result of 0 is taken for a fragment. *)
ReceiveEOFReparsing ==
  /\ recvproc = "running"
  /\ conn = "closed"
  /\ stream = <<>>
  /\ buffer.id # 0
  /\ Process(buffer, buffer.body)
  /\ UNCHANGED <<sendVars, conn, stream, buffer, now>>

(* recvfrom returns 0: the peer has closed and everything was read. *)
ReceiveEOF ==
  /\ recvproc = "running"
  /\ conn = "closed"
  /\ stream = <<>>
  /\ Unfinished
  /\ UNCHANGED <<sendVars, conn, stream, buffer, storage, delivered, now>>

(* recvfrom returns -1, which the comparison with the unsigned size of the *)
(* header takes for a long message: ReadSequence parses whatever its stack *)
(* buffer still holds, the previous fragment, one with the first bytes of  *)
(* the next over it, or bytes of another call.  A Debug build fills the    *)
(* stack frame first.  Lengths that lead out of a buffer may end the       *)
(* process, too.                                                           *)
ReceiveError ==
  /\ recvproc = "running"
  /\ conn = "reset"
  /\ Len(delivered) < MaxDelivered
  /\ Len(storage) < MaxCells
  /\ \/ MemoryReused /\ buffer.id # 0 /\ Process(buffer, buffer.body)
     \/ Misread
  /\ UNCHANGED <<sendVars, conn, stream, buffer, now>>

Tick ==
  /\ now < MaxTime
  /\ now' = now + 1
  /\ UNCHANGED <<sendVars, conn, stream, recvVars>>

----------------------------------------------------------------------------
Next ==
  \/ \E s \in Senders, kind \in Kinds, payload \in Payloads : SendSequence(s, kind, payload)
  \/ \E s \in Senders : SendFragment(s)
  \/ \E s \in Senders : SendEnd(s)
  \/ SenderExit
  \/ NetworkReset
  \/ \E k \in 1..BUFFER_SIZE : Receive(k)
  \/ ReceiveEOF
  \/ ReceiveError
  \/ Tick

Spec == Init /\ [][Next]_vars

(* SendSingle never waits for anything but send(), and the reading loop    *)
(* runs for ever; both are threads of processes the system schedules.      *)
Fairness ==
  /\ \A s \in Senders : WF_vars(SendFragment(s) \/ SendEnd(s))
  /\ WF_vars(\E k \in 1..BUFFER_SIZE : Receive(k))

FairSpec == Spec /\ Fairness

----------------------------------------------------------------------------
(* Properties.                                                             *)

(* Every variable has its type; the length of a fragment that is sent fits  *)
(* a fragment.                                                              *)
Hashes == {XXHM(p) : p \in Payloads} \cup {NobodysHash}

Header ==
  [data : Kinds \cup {0}, hash : Hashes, type : {TypeFirst, TypeNext},
   total_length : Nat, offset : Nat, length : 0..Fragment]
Reread ==
  [data : Kinds \cup {0}, hash : Hashes, type : {TypeFirst, TypeNext},
   total_length : Sizes, offset : Nat, length : Nat]

TypeOK ==
  /\ sent \in Seq([data : Kinds, payload : Payloads])
  /\ call \in [Senders -> {Idle} \cup [id : Nat \ {0}, message : Header]]
  /\ sendproc \in {"running", "terminated"}
  /\ conn \in {"open", "closed", "reset"}
  /\ stream \in Seq([id : Nat \ {0}, header : Header, body : Seq(Byte), at : Nat \ {0}])
  /\ recvproc \in {"running", "terminated"}
  /\ buffer \in [id : Nat, header : Reread, body : Seq(Byte)]
  /\ storage \in Seq([header : Reread, timestamp : Nat, body : Seq(Byte)])
  /\ delivered \in Seq([id : Nat \ {0}, data : Kinds \cup {0}, body : Seq(Byte)])
  /\ now \in 0..MaxTime

(* Every header on the way still describes the SendSequence it is of, its   *)
(* fragment lies within the payload and has as many bytes as it announces.  *)
(* The stack buffer has the bytes and the hash it announces, whatever short *)
(* reads have made of its header.  Every cell has the buffer its header     *)
(* announces and, until recvfrom fails and such a header is parsed, belongs *)
(* to some call unless misread bytes made it.                               *)
Describes(header, n) ==
  /\ n \in 1..Len(sent)
  /\ header.data = sent[n].data
  /\ header.hash = XXHM(sent[n].payload)
  /\ header.total_length = Len(sent[n].payload)

Matches(f) ==
  /\ Describes(f.header, f.id)
  /\ f.header.offset + f.header.length <= f.header.total_length
  /\ f.body \in [1..f.header.length -> Byte]

HashOf(header, n) == n \in 1..Len(sent) /\ header.hash = XXHM(sent[n].payload)

Held(f) ==
  /\ f.body \in [1..f.header.length -> Byte]
  /\ \/ f.id = 0 /\ f.header.hash = NobodysHash
     \/ HashOf(f.header, f.id)

Owned(cell) ==
  /\ cell.body \in [1..cell.header.total_length -> Byte]
  /\ \/ cell.header.hash = NobodysHash
     \/ \E n \in 1..Len(sent) :
          IF conn = "reset" THEN HashOf(cell.header, n) ELSE Describes(cell.header, n)

Consistent ==
  /\ \A s \in Senders : call[s] # Idle =>
       /\ Describes(call[s].message, call[s].id)
       /\ call[s].message.offset <= call[s].message.total_length
  /\ \A i \in 1..Len(stream) : Matches(stream[i])
  /\ Held(buffer)
  /\ \A i \in 1..Len(storage) : Owned(storage[i])

(* What ReadSequence accepts is byte for byte the payload of the call whose *)
(* last fragment completed it, whatever was split, merged, lost or left     *)
(* uninitialised on the way.  Until recvfrom fails it also carries the kind *)
(* of a call with the same payload (the call whose First fragment made the  *)
(* cell); after that a short read may have put the kind of the next message *)
(* into the header that is parsed again.                                    *)
Integrity ==
  \A i \in 1..Len(delivered) :
    /\ delivered[i].id \in 1..Len(sent)
    /\ delivered[i].body = sent[delivered[i].id].payload
    /\ conn # "reset" =>
         \E n \in 1..Len(sent) :
           sent[n] = [data |-> delivered[i].data, payload |-> delivered[i].body]

(* As long as recvfrom has not failed, no SendSequence is accepted twice.   *)
AtMostOnce ==
  conn # "reset" =>
    \A i, j \in 1..Len(delivered) : delivered[i].id = delivered[j].id => i = j

(* In a Debug build, where operator new fills memory, the first fragment    *)
(* of a message never carries its bytes: only empty messages are accepted.  *)
OnlyEmptyAccepted ==
  ~MemoryReused => \A i \in 1..Len(delivered) : delivered[i].body = <<>>

(* The server's receiver survives only reads that complete a message, so it *)
(* holds no partial message and relays none that needs two fragments.       *)
ServerTakesSinglesOnly ==
  ServerSide =>
    /\ recvproc = "running" => storage = <<>>
    /\ \A i \in 1..Len(delivered) : Len(delivered[i].body) <= Fragment

(* The cells of storage that carry hash. *)
CellsOf(hash, cells) == {i \in 1..Len(cells) : cells[i].header.hash = hash}

(* A partial message leaves the Storage only when the last fragment of a    *)
(* message with its hash is read: whatever its age, time removes nothing.   *)
OnlyCompletionRemoves ==
  [][\A i \in 1..Len(storage) :
       LET h == storage[i].header.hash
           f == IF conn = "reset" THEN buffer ELSE stream[1]
       IN Cardinality(CellsOf(h, storage')) < Cardinality(CellsOf(h, storage))
          => f.header.hash = h /\ Final(f.header)]_vars

(* Every number WritePayload returns is what its comment promises: the size *)
(* of the bytes it wrote behind the header.                                 *)
ReturnsBytesWritten ==
  \A s \in Senders : call[s] # Idle =>
    LET w == WritePayload(sent[call[s].id].payload, call[s].message, <<>>)
    IN w.size = w.copied

(* When every read returns one whole send, a partial message that starts    *)
(* with the right bytes is completed and accepted, however the fragments of *)
(* other messages are mixed with its own, unless the connection ends or a   *)
(* second message with the same payload, hence the same hash, writes its    *)
(* own fragments into the same cell.                                        *)
RightStart(p) ==
  \E i \in 1..Len(storage) :
    /\ storage[i].header.hash = XXHM(p)
    /\ SubSeq(storage[i].body, 1, Lesser(Fragment, Len(p))) = SubSeq(p, 1, Lesser(Fragment, Len(p)))

SentTwice(p) == \E m, n \in 1..Len(sent) : m # n /\ sent[m].payload = p /\ sent[n].payload = p

PartialsComplete ==
  \A p \in Payloads :
    RightStart(p) ~> \/ \E i \in 1..Len(delivered) : delivered[i].body = p
                     \/ conn # "open"
                     \/ SentTwice(p)

(* The connection implements the at-most-once channel of MessageChannel.    *)
Channel == INSTANCE MessageChannel WITH broken <- conn = "reset"

ImplementsChannel == Channel!Spec
============================================================================
