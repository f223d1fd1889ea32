-------------------------- MODULE BufferOwnership --------------------------
(***************************************************************************)
(* Who owns the heap blocks behind FrameworkByteBuffer, and those of the   *)
(* handles of EC sessions, which live on the same heap.  Every call that   *)
(* returns text or raw data hands the host blocks of the library's         *)
(* allocator; the host copies their contents out and hands each back, by   *)
(* value to framework_byte_buffer_free or, for the two records with many   *)
(* buffers, by a pointer to the record to an aggregate free that walks it. *)
(* The allocator may give a freed address out again at once.  Threads of   *)
(* the host call in at the same time, each on records of its own; a thread *)
(* frees a buffer by value once, and an aggregate as often as it likes.    *)
(***************************************************************************)
EXTENDS Integers, Sequences, FiniteSets

CONSTANTS Records,          \* the host's variables that results are stored in
          Addresses,        \* addresses of the allocator
          Null,             \* the pointer of FrameworkByteBuffer::default()
          Dangling,         \* the pointer of a Vec without capacity: it owns nothing
          PeripheralSlots,  \* FRAMEWORK_PERIPHERAL_SLOT_COUNT, 8 in the build
          SmartFields,      \* buffers of FrameworkSmartBatteryData, 10 in the build
          BatteryFields,    \* buffers of FrameworkBatterySnapshot, 4 in the build
          MaxPeripherals,   \* bound: devices that one USB enumeration finds
          Library,          \* the owner of a block that never reaches the host
          NoRecord          \* a variable of the host that holds no result

ASSUME BufferAssumption ==
    /\ {PeripheralSlots, SmartFields, BatteryFields, MaxPeripherals} \subseteq Nat
    /\ Null \notin Addresses /\ Dangling \notin Addresses /\ Null # Dangling
    /\ Library \notin Records

VARIABLES owner,     \* the heap: from each live address to the record it was made for
          records,   \* the host's result records
          misfreed,  \* history: some free hit a block that was not its own
          aborted    \* a panic reached the boundary and took the host down

vars == <<owner, records, misfreed, aborted>>

Heap == DOMAIN owner
Free == Addresses \ Heap
Pointers == Addresses \cup {Null, Dangling}

\* How the host gives a result back: buffer by buffer, by an aggregate free, or, for
\* the handle of a session, by a close.
Kinds == {"buffers", "aggregate", "handle"}

\* A result: its pointers, the positions of those the host still has to hand back
\* by value, and, in a record with an aggregate free, the position that a free in
\* progress has reached (0 when none is).
Record == [buffers : Seq(Pointers), open : SUBSET Nat, kind : Kinds, cursor : Nat]

\* A variable without a result is not mistaken for one with a result.
ASSUME NoRecordAssumption == NoRecord \notin Record

\* The blocks a record is answerable for: an aggregate free forgets a buffer by
\* nulling it, a free by value by the host's own book-keeping.
Held(rec) ==
    LET due == IF rec.kind = "aggregate" THEN DOMAIN rec.buffers ELSE rec.open
    IN  {rec.buffers[i] : i \in due} \cap Addresses

Init ==
    /\ owner = << >>
    /\ records = [r \in Records |-> NoRecord]
    /\ misfreed = FALSE
    /\ aborted = FALSE
-----------------------------------------------------------------------------
(* Returning buffers *)

\* What n calls of from_vec can return: a block of its own for each Vec that has
\* capacity, a dangling pointer for each that has none.
FromVecs(n) ==
    {bufs \in [1..n -> Free \cup {Dangling}] :
        \A i, j \in 1..n : i # j /\ bufs[i] = bufs[j] => bufs[i] = Dangling}

Blocks(bufs) == {bufs[i] : i \in DOMAIN bufs} \cap Addresses

\* The heap with the blocks handed to who.
Allocated(blocks, who) ==
    [a \in Heap \cup blocks |-> IF a \in blocks THEN who ELSE owner[a]]

Deliver(r, bufs, kind) ==
    records' = [records EXCEPT ![r] =
        [buffers |-> bufs, open |-> DOMAIN bufs, kind |-> kind, cursor |-> 0]]

Nulls(n) == [i \in 1..n |-> Null]

Ready(r) == ~aborted /\ records[r] = NoRecord

\* A call whose success fills n buffers and whose failure (a null handle, an EC
\* error, data that is not there) returns n default ones.
Return(r, n, kind) ==
    /\ Ready(r)
    /\ \/ Deliver(r, Nulls(n), kind) /\ UNCHANGED owner
       \/ \E bufs \in FromVecs(n) :
             /\ Deliver(r, bufs, kind)
             /\ owner' = Allocated(Blocks(bufs), r)
    /\ UNCHANGED <<misfreed, aborted>>

GetDeviceErrorMessage(r) == Return(r, 1, "buffers")
GetProductName(r) == Return(r, 1, "buffers")
GetBuildInfo(r) == Return(r, 1, "buffers")
GetFlashVersions(r) == Return(r, 2, "buffers")
GetPowerSnapshot(r) == Return(r, BatteryFields, "buffers")
GetPanicInfo(r) == Return(r, 1, "buffers")
GetPort80History(r) == Return(r, 1, "buffers")
GetTempSensorName(r) == Return(r, 1, "buffers")
GetRetimerVersion(r) == Return(r, 1, "buffers")
GetGpioInfo(r) == Return(r, 1, "buffers")
GetGpuSerial(r) == Return(r, 1, "buffers")
GetNvmeVersion(r) == Return(r, 2, "buffers")
GetSmartBatteryData(r) == Return(r, SmartFields, "aggregate")

\* A description is never empty, and the call never fails.
GetDescription(r) ==
    /\ Ready(r)
    /\ \E a \in Free : Deliver(r, <<a>>, "buffers") /\ owner' = Allocated({a}, r)
    /\ UNCHANGED <<misfreed, aborted>>

\* Mutant: every device found is converted, before the slots are filled.
ConvertedAll(found) == found

\* How many of the devices found become buffers: zip stops at the last slot.
Converted(found) == IF found < PeripheralSlots THEN found ELSE PeripheralSlots

\* How many devices an enumeration finds: none when it fails, and a device that
\* does not open still counts, with a product name that is empty.
Found == 0..MaxPeripherals

GetPeripheralVersions(r) ==
    /\ Ready(r)
    /\ \E found \in Found :
          \E bufs \in FromVecs(Converted(found)) :
             /\ owner' = Allocated(Blocks(bufs), r)
             /\ Deliver(r, [i \in 1..PeripheralSlots |->
                               IF i <= Len(bufs) THEN bufs[i] ELSE Null], "aggregate")
    /\ UNCHANGED <<misfreed, aborted>>
-----------------------------------------------------------------------------
(* Sessions *)

\* Without a driver, or with an EC memory that is not one, a null pointer.  The
\* handle goes onto the heap only after the checks, so a failure leaves nothing.
Open(r) ==
    /\ Ready(r)
    /\ \/ Deliver(r, <<Null>>, "handle") /\ UNCHANGED owner
       \/ \E a \in Free : Deliver(r, <<a>>, "handle") /\ owner' = Allocated({a}, r)
    /\ UNCHANGED <<misfreed, aborted>>

OpenDefault(r) == Open(r)
OpenWithDriver(r) == Open(r)
-----------------------------------------------------------------------------
(* The expansion-bay query, and the calls that make it *)

\* The serial_number of a status: the EC has none, or from_vec of the text.
Serials == Free \cup {Null, Dangling}

\* The upstream serial read unwraps from_utf8: a garbled serial panics inside
\* whichever call made the query.
PanicOnSerial ==
    /\ aborted' = TRUE
    /\ UNCHANGED <<owner, records, misfreed>>

GetExpansionBayStatus(r) ==
    /\ Ready(r)
    /\ \/ PanicOnSerial
       \/ \E serial \in Serials :
             /\ Deliver(r, <<serial>>, "buffers")
             /\ owner' = Allocated({serial} \cap Addresses, r)
             /\ UNCHANGED <<misfreed, aborted>>

\* build_expansion_bay_module and ensure_descriptor_present read the status and
\* let it go: FrameworkByteBuffer has no Drop, so its serial stays allocated.
QueryBayAndForget ==
    /\ ~aborted
    /\ \/ PanicOnSerial
       \/ \E serial \in Serials :
             /\ owner' = Allocated({serial} \cap Addresses, Library)
             /\ UNCHANGED <<records, misfreed, aborted>>

GetModuleInventory == QueryBayAndForget
GetGpuDescriptorHeader == QueryBayAndForget
ValidateGpuDescriptor == QueryBayAndForget

\* As the others, and then, if the bay is occupied and the read succeeds, a
\* descriptor that is not empty.
ReadGpuDescriptor(r) ==
    /\ Ready(r)
    /\ \/ PanicOnSerial
       \/ \E serial \in Serials :
             LET lost == Allocated({serial} \cap Addresses, Library) IN
             /\ \/ Deliver(r, <<Null>>, "buffers") /\ owner' = lost
                \/ \E a \in Free \ {serial} :
                      /\ Deliver(r, <<a>>, "buffers")
                      /\ owner' = [b \in DOMAIN lost \cup {a} |->
                                      IF b = a THEN r ELSE lost[b]]
             /\ UNCHANGED <<misfreed, aborted>>
-----------------------------------------------------------------------------
(* Freeing *)

\* destroy: a null pointer returns at once, a Vec without capacity frees nothing.
Destroy(r, buffer) ==
    /\ owner' = [a \in Heap \ {buffer} |-> owner[a]]
    /\ misfreed' = \/ misfreed
                   \/ buffer \in Addresses /\ (buffer \notin Heap \/ owner[buffer] # r)

ByteBufferFree(r) ==
    /\ ~aborted /\ records[r] # NoRecord /\ records[r].kind = "buffers"
    /\ \E i \in records[r].open :
          /\ Destroy(r, records[r].buffers[i])
          /\ records' = [records EXCEPT ![r].open = @ \ {i}]
    /\ UNCHANGED aborted

\* A null handle is left alone; the host closes no handle twice.
Close(r) ==
    /\ ~aborted /\ records[r] # NoRecord /\ records[r].kind = "handle"
    /\ records[r].open = {1}
    /\ Destroy(r, records[r].buffers[1])
    /\ records' = [records EXCEPT ![r].open = {}]
    /\ UNCHANGED aborted

\* The host may begin an aggregate free whenever none is walking the record,
\* also on a record it has freed before.
BeginAggregateFree(r) ==
    /\ ~aborted /\ records[r] # NoRecord /\ records[r].kind = "aggregate"
    /\ records[r].cursor = 0 /\ Len(records[r].buffers) > 0
    /\ records' = [records EXCEPT ![r].cursor = 1]
    /\ UNCHANGED <<owner, misfreed, aborted>>

\* Mutant: the loop destroys a buffer and leaves its pointer in the record.
Unnulled(rec) == rec.buffers

\* The record's buffers after one turn of the loop.
Nulled(rec) == [rec.buffers EXCEPT ![rec.cursor] = Null]

\* Mutant: the loop does not stop at the last buffer.
NextCursorBeyond(rec) ==
    IF rec.cursor > Len(rec.buffers) THEN 0 ELSE rec.cursor + 1

NextCursor(rec) == IF rec.cursor = Len(rec.buffers) THEN 0 ELSE rec.cursor + 1

\* One turn: copy the buffer out, null the field, destroy the copy.
AggregateFreeStep(r) ==
    /\ ~aborted /\ records[r] # NoRecord
    /\ LET rec == records[r] IN
          /\ rec.cursor \in DOMAIN rec.buffers
          /\ Destroy(r, rec.buffers[rec.cursor])
          /\ records' = [records EXCEPT ![r] = [rec EXCEPT !.buffers = Nulled(rec),
                                                           !.cursor = NextCursor(rec)]]
    /\ UNCHANGED aborted

\* The host drops a result that holds nothing any more.
Discard(r) ==
    /\ ~aborted /\ records[r] # NoRecord
    /\ records[r].cursor = 0 /\ Held(records[r]) = {}
    /\ records' = [records EXCEPT ![r] = NoRecord]
    /\ UNCHANGED <<owner, misfreed, aborted>>

Returning(r) ==
    \/ GetDeviceErrorMessage(r) \/ GetDescription(r) \/ GetProductName(r)
    \/ GetBuildInfo(r) \/ GetFlashVersions(r) \/ GetPowerSnapshot(r)
    \/ GetPanicInfo(r) \/ GetPort80History(r) \/ GetTempSensorName(r)
    \/ GetRetimerVersion(r) \/ GetGpioInfo(r) \/ GetGpuSerial(r)
    \/ GetNvmeVersion(r) \/ GetSmartBatteryData(r) \/ GetPeripheralVersions(r)
    \/ GetExpansionBayStatus(r) \/ ReadGpuDescriptor(r)
    \/ OpenDefault(r) \/ OpenWithDriver(r)

Freeing(r) ==
    \/ ByteBufferFree(r) \/ Close(r)
    \/ BeginAggregateFree(r) \/ AggregateFreeStep(r) \/ Discard(r)

Next ==
    \/ \E r \in Records : Returning(r) \/ Freeing(r)
    \/ GetModuleInventory \/ GetGpuDescriptorHeader \/ ValidateGpuDescriptor

Spec == Init /\ [][Next]_vars
-----------------------------------------------------------------------------
(* Properties *)

\* Every variable keeps its type, and a free in progress stays inside its record.
TypeOK ==
    /\ owner \in [Heap -> Records \cup {Library}] /\ Heap \subseteq Addresses
    /\ \A r \in Records : records[r] # NoRecord =>
          /\ records[r] \in Record
          /\ records[r].open \subseteq DOMAIN records[r].buffers
          /\ records[r].cursor \in 0..Len(records[r].buffers)
    /\ misfreed \in BOOLEAN /\ aborted \in BOOLEAN

\* No free ever hits a block that is not its record's own: neither one freed
\* before nor one the allocator has since given to another call, however often
\* the host repeats an aggregate free ("so a double call is harmless",
\* FFI_NOTES.md:362).
FreesHitTheirOwn == ~misfreed

\* The heap is exactly what somebody answers for: a block that a record still
\* has to hand back is live and its own, no two buffers share a block, and a
\* live block belongs to a record that will hand it back or never left the library.
HeapIsAccountedFor ==
    /\ \A r \in Records : records[r] # NoRecord =>
          /\ \A a \in Held(records[r]) : a \in Heap /\ owner[a] = r
          /\ \A i, j \in DOMAIN records[r].buffers :
                /\ i # j /\ {i, j} \subseteq records[r].open
                /\ records[r].buffers[i] = records[r].buffers[j]
                => records[r].buffers[i] \notin Addresses
    /\ \A a \in Heap : owner[a] # Library =>
          records[owner[a]] # NoRecord /\ a \in Held(records[owner[a]])

\* Every block is one the host can free (FFI_NOTES.md:355).
NothingLost == \A a \in Heap : owner[a] # Library
=============================================================================
