---------------------------- MODULE Port80History ----------------------------
(***************************************************************************)
(* The readback of the POST codes (port80_read, src/src/diagnostics.rs).   *)
(* One call is several EC commands: GetInfo, then ReadBuffer for as many   *)
(* chunks as the ring has.  The host CPU keeps writing port 80 while the   *)
(* call runs, the EC may refuse a command, and the driver may answer with  *)
(* too few bytes or with padding after the entries.                        *)
(*                                                                         *)
(* A POST code is modelled by its number: the n-th write to port 80 since  *)
(* the EC started, which is what tells codes of one history apart.         *)
(***************************************************************************)
EXTENDS Integers, Sequences

CONSTANTS HistorySize,  \* history_size, the entries of the EC's ring
          ChunkMax,     \* EC_PORT80_SIZE_MAX, the entries of one ReadBuffer
          MaxWrites,    \* bound: writes to port 80 in a behaviour
          MaxPadding,   \* bound: entries of driver padding after a response
          Padding       \* an entry that is driver padding

ASSUME Port80Assumption ==
    /\ HistorySize \in Nat /\ ChunkMax \in Nat \ {0}
    /\ MaxWrites \in Nat /\ MaxPadding \in Nat
    /\ Padding \notin Nat

VARIABLES written,  \* EC: writes to port 80 so far
          pc,       \* where the call is
          writes,   \* the local of that name, from GetInfo
          offset,   \* the local of that name
          codes     \* the vector, one member for each entry

vars == <<written, pc, writes, offset, codes>>

Init ==
    /\ written \in 0..MaxWrites
    /\ pc = "idle" /\ writes = 0 /\ offset = 0 /\ codes = << >>
-----------------------------------------------------------------------------
(* The EC *)

\* The newest of the first n writes that went to position p; 0 when none did.
\* Write number n goes to position n % HistorySize, where the doc comment of
\* FrameworkEcPort80HistoryResult expects the newest entry.
Newest(p, n) ==
    LET last == n - ((n - p) % HistorySize)
    IN  IF last > 0 THEN last ELSE 0

\* The entries of the ring from position first on, as ReadBuffer sends them.
Entries(first, count) == [i \in 1..count |-> Newest(first + i - 1, written)]

PostCode ==
    /\ written < MaxWrites
    /\ written' = written + 1
    /\ UNCHANGED <<pc, writes, offset, codes>>
-----------------------------------------------------------------------------
(* The call *)

Fail == /\ pc' = "failed"
        /\ codes' = << >>
        /\ UNCHANGED <<writes, offset>>

GetInfo ==
    /\ pc \in {"idle", "done", "failed"}
    /\ \/ /\ writes' = written
          /\ offset' = 0
          /\ codes' = << >>
          /\ pc' = "read"
       \/ Fail
    /\ UNCHANGED written

\* Mutant: every request is for a whole chunk.
WholeChunk == ChunkMax

\* cmp::min(EC_PORT80_SIZE_MAX, history_size - offset)
NumEntries == IF ChunkMax < HistorySize - offset THEN ChunkMax ELSE HistorySize - offset

\* Mutant: the padding is taken to precede the entries.
LastOf(data, expected) == SubSeq(data, Len(data) - expected + 1, Len(data))

\* Mutant: the padding is kept.
AllOf(data, expected) == data

\* data[..expected]
FirstOf(data, expected) == SubSeq(data, 1, expected)

\* Mutant: a chunk goes in front of the earlier ones.
Prepend(vec, data) == data \o vec

\* codes.extend_from_slice
Extend(vec, data) == vec \o data

\* What the driver may make of a response: cut short, exact, or padded.
Received(data) ==
    {SubSeq(data, 1, n) : n \in 0..(Len(data) - 1)}
        \cup {data \o [i \in 1..n |-> Padding] : n \in 0..MaxPadding}

\* Mutant: ReadBuffer is sent without the offset.
FromStart == 0

ReadFrom == offset

\* Mutant: a history that came with a short chunk is read again from the start.
StartOver ==
    /\ offset' = 0 /\ codes' = << >>
    /\ UNCHANGED <<pc, writes>>

\* Only a short response is an error, and it ends the call.
TooShort == Fail

ReadBuffer ==
    /\ pc = "read" /\ offset < HistorySize
    /\ \/ \E data \in Received(Entries(ReadFrom, NumEntries)) :
            IF Len(data) < NumEntries
            THEN TooShort
            ELSE /\ codes' = Extend(codes, FirstOf(data, NumEntries))
                 /\ offset' = offset + NumEntries
                 /\ UNCHANGED <<pc, writes>>
       \/ Fail
    /\ UNCHANGED written

Return ==
    /\ pc = "read" /\ offset >= HistorySize
    /\ pc' = "done"
    /\ UNCHANGED <<written, writes, offset, codes>>

Next == PostCode \/ GetInfo \/ ReadBuffer \/ Return

\* A driver answers each command or reports an error, and the loop goes on.
Fairness == WF_vars(ReadBuffer \/ Return)

Spec == Init /\ [][Next]_vars /\ Fairness
-----------------------------------------------------------------------------
(* Properties *)

Code(p) == codes[p + 1]

Positions == 0..(HistorySize - 1)

\* Every variable keeps its type; a success holds history_size entries of the
\* ring, never padding (diagnostics.rs, the slice to `expected`).
TypeOK ==
    /\ written \in 0..MaxWrites /\ writes \in 0..MaxWrites
    /\ pc \in {"idle", "read", "done", "failed"}
    /\ offset \in 0..HistorySize
    /\ codes \in Seq(0..MaxWrites)
    /\ pc = "read" => Len(codes) = offset
    /\ pc = "done" => Len(codes) = HistorySize

\* No entry is older than GetInfo: at each position a successful call returns
\* what the ring held when `writes` was read, or a later write to that position,
\* however many writes overtook the call.
NothingOlderThanWrites ==
    pc = "done" => \A p \in Positions :
        /\ Code(p) >= Newest(p, writes)
        /\ Code(p) > 0 => Code(p) % HistorySize = p

\* The history is consistent in buffer order: when the entry at p is write n, each
\* position after p was read once write n had happened, and shows the ring's
\* state of that time or a later one.  A host can so merge the torn chunks.
LaterPositionsAreLater ==
    pc = "done" => \A p, q \in Positions :
        p < q /\ Code(p) > 0 => Code(q) >= Newest(q, Code(p))

\* A read ends, in a history or an error, whatever the driver makes of the responses
\* and however fast the CPU turns the ring over meanwhile.
EveryReadEnds == pc = "read" ~> pc \in {"done", "failed"}

\* "The newest entry sits at `writes % history_size`" (lib.rs, the doc comment of
\* FrameworkEcPort80HistoryResult): no returned entry is newer than that one.
NewestAtWrites ==
    pc = "done" /\ HistorySize > 0 =>
        \A p \in Positions : Code(p) <= Code(writes % HistorySize)
=============================================================================
