---------------------------- MODULE FileTransfer ----------------------------
(***************************************************************************)
(* The file sender and receiver (test/ds10_send_file.py,                   *)
(* test/ds10_recv_file.py): numbered chunks over a link that may lose,     *)
(* repeat and reorder frames; nothing is acknowledged.  The sender may be  *)
(* run again, with another chunk size, while the receiver waits.           *)
(*                                                                         *)
(* A payload is the interval of the file it holds, as offsets.  A frame    *)
(* that does not verify is a lost one.                                     *)
(***************************************************************************)
EXTENDS Integers, Sequences, FiniteSets

CONSTANTS total_bytes,  \* length of the file
          ChunkSizes,   \* values of --chunk in use
          SeqRange,     \* sequence numbers wrap at this value, 65536 in the code
          MaxSends,     \* bound on the runs of the sender
          MaxTaken      \* bound on the frames the receiver takes

ASSUME FileParameters ==
    /\ total_bytes \in Nat \ {0} /\ ChunkSizes \subseteq Nat \ {0} /\ SeqRange \in Nat \ {0}
    /\ MaxSends \in Nat /\ MaxTaken \in Nat

VARIABLES chunk,    \* {} or the chunk size of the running sender
          offset,   \* its number of frames sent
          sends,    \* runs of the sender
          air,      \* frames sent so far, by any run
          receiver, \* "receiving", "done" (last frame seen), "dead", "ended"
          chunks,   \* frames kept, by number
          written,  \* {} or the file written: its payloads in order
          warned,   \* the receiver printed that something is missing
          taken     \* auxiliary: the frames taken, in order

vars == <<chunk, offset, sends, air, receiver, chunks, written, warned, taken>>

sending == <<chunk, offset, sends, air>>

-----------------------------------------------------------------------------
(* ds10_send_file.py *)

\* How many frames the file makes, and the one numbered i from 0.
Count(size) == (total_bytes + size - 1) \div size

IsLast(i, size) == i = Count(size) - 1

\* Mutant of Number: the number is not cut to its two bytes.
NumberBare(i) == i

Number(i) == i % SeqRange

End(i, size) == IF (i + 1) * size <= total_bytes THEN (i + 1) * size ELSE total_bytes

Chunk(i, size) ==
    [size |-> size, seq |-> Number(i), is_last |-> IsLast(i, size),
     from |-> i * size, to |-> End(i, size)]

\* Marker, number, flag and length take 7 bytes, and the data is padded to whole words.
DataLen(f) == ((7 + f.to - f.from + 1) \div 2) * 2

\* The receiver cuts a frame by its length byte, len(data) & 0xFF.
Cut(f) == DataLen(f) % 256 = DataLen(f)

StartSending(size) ==
    /\ chunk = {} /\ sends < MaxSends
    /\ chunk' = {size} /\ offset' = 0 /\ sends' = sends + 1
    /\ UNCHANGED <<air, receiver, chunks, written, warned, taken>>

SendFrame ==
    \E size \in chunk :
        /\ air' = air \cup {Chunk(offset, size)}
        /\ offset' = offset + 1
        /\ chunk' = IF offset' = Count(size) THEN {} ELSE chunk
        /\ UNCHANGED <<sends, receiver, chunks, written, warned, taken>>

\* The sender is killed.
StopSending ==
    /\ chunk # {} /\ chunk' = {}
    /\ UNCHANGED <<offset, sends, air, receiver, chunks, written, warned, taken>>

-----------------------------------------------------------------------------
(* ds10_recv_file.py *)

\* Mutant of Kept: a later frame replaces the one kept.
KeptLatest(f) ==
    [s \in DOMAIN chunks \cup {f.seq} |-> IF s = f.seq THEN f ELSE chunks[s]]

\* The first frame of a number is kept.
Kept(f) ==
    [s \in DOMAIN chunks \cup {f.seq} |-> IF s \in DOMAIN chunks THEN chunks[s] ELSE f]

TakeFrame(f) ==
    /\ receiver = "receiving" /\ Len(taken) < MaxTaken
    /\ Cut(f)
    /\ chunks' = Kept(f)
    /\ receiver' = IF f.is_last THEN "done" ELSE receiver
    /\ taken' = Append(taken, f)
    /\ UNCHANGED <<sending, written, warned>>

\* buf[6] is read of six bytes, if a read ends there: the exception ends the thread.
ReadsSixBytes ==
    /\ receiver = "receiving" /\ air # {}
    /\ receiver' = "dead"
    /\ UNCHANGED <<sending, chunks, written, warned, taken>>

\* The number that comes i-th when they are sorted.
Sorted(numbers, i) == CHOOSE s \in numbers : Cardinality({t \in numbers : t <= s}) = i

\* Mutant of Missing: no number is looked for.
MissingNone(kept) == {}

\* Of n numbers, those of 0..n-1 that are not among them.
Missing(kept) == (0..Cardinality(DOMAIN kept) - 1) \ DOMAIN kept

\* What main() prints: a number is missing, or the last frame never came.
Warns(kept) == Missing(kept) # {} \/ ~\E s \in DOMAIN kept : kept[s].is_last

\* The payloads in the order of their numbers.
Content(kept) == [i \in 1..Cardinality(DOMAIN kept) |-> kept[Sorted(DOMAIN kept, i)]]

\* The last frame has come, or the time is up: what there is is written.
WriteFile ==
    /\ receiver # "ended" /\ receiver' = "ended"
    /\ IF DOMAIN chunks = {}
         THEN UNCHANGED <<written, warned>>
         ELSE written' = {Content(chunks)} /\ warned' = Warns(chunks)
    /\ UNCHANGED <<sending, chunks, taken>>

-----------------------------------------------------------------------------
Init ==
    /\ chunk = {} /\ offset = 0 /\ sends = 0 /\ air = {}
    /\ receiver = "receiving" /\ chunks = <<>>
    /\ written = {} /\ warned = FALSE /\ taken = <<>>

\* Nothing is left to do.
Over == receiver = "ended" /\ UNCHANGED vars

Next ==
    \/ \E size \in ChunkSizes : StartSending(size)
    \/ SendFrame \/ StopSending
    \/ \E f \in air : TakeFrame(f)
    \/ ReadsSixBytes
    \/ WriteFile
    \/ Over

Spec == Init /\ [][Next]_vars

-----------------------------------------------------------------------------
(* Properties *)

Frame == [size : ChunkSizes, seq : 0..SeqRange - 1, is_last : BOOLEAN,
          from : 0..total_bytes, to : 0..total_bytes]

TypeOK ==
    /\ chunk \subseteq ChunkSizes /\ offset \in 0..total_bytes /\ sends \in 0..MaxSends
    /\ air \subseteq Frame
    /\ receiver \in {"receiving", "done", "dead", "ended"}
    /\ DOMAIN chunks \subseteq 0..SeqRange - 1 /\ \A s \in DOMAIN chunks : chunks[s] \in Frame
    /\ \A w \in written : w \in Seq(Frame)
    /\ warned \in BOOLEAN /\ taken \in Seq(Frame)

\* What was written is the file, from its first byte to its last.
Whole ==
    \E w \in written :
        /\ w[1].from = 0 /\ w[Len(w)].to = total_bytes
        /\ \A i \in 1..Len(w) - 1 : w[i].to = w[i + 1].from

\* A file that was cut into no more chunks than there are numbers, and of which nothing
\* is reported missing, has been written whole, whatever was lost, repeated,
\* reordered, unreadable for its length or sent again with the same chunk size.
SilentOnlyIfWhole ==
    \A size \in ChunkSizes :
        (/\ Count(size) <= SeqRange /\ \A k \in DOMAIN taken : taken[k].size = size
         /\ receiver = "ended" /\ written # {} /\ ~warned) => Whole

\* All frames of one run of the sender, in order: the receiver's verdict is right, and
\* it is good unless the numbers wrapped.
LosslessVerdict ==
    \A size \in ChunkSizes :
        receiver = "ended" /\ taken = [i \in 1..Count(size) |-> Chunk(i - 1, size)]
            => (Whole <=> ~warned) /\ (Whole <=> Count(size) <= SeqRange)
=============================================================================
