------------------------ MODULE BufferOwnershipProofs ------------------------
(***************************************************************************)
(* For any host, heap and number of buffers in a record: no free hits a    *)
(* block that is not its own, and every live block is answered for.        *)
(***************************************************************************)
EXTENDS BufferOwnership, SequenceTheorems, TLAPS

\* The positions whose blocks a record is answerable for.
Due(rec) == IF rec.kind = "aggregate" THEN DOMAIN rec.buffers ELSE rec.open

WellFormed(rec) ==
    /\ rec \in Record
    /\ rec.open \subseteq DOMAIN rec.buffers
    /\ rec.cursor \in 0..Len(rec.buffers)
    /\ rec.cursor # 0 => rec.kind = "aggregate"

\* No block is due twice.
Unshared(rec) ==
    \A i, j \in Due(rec) :
        i # j /\ rec.buffers[i] = rec.buffers[j] => rec.buffers[i] \notin Addresses

Shape ==
    /\ owner \in [Heap -> Records \cup {Library}] /\ Heap \subseteq Addresses
    /\ records \in [Records -> Record \cup {NoRecord}]
    /\ misfreed = FALSE /\ aborted \in BOOLEAN

\* What is due to be handed back is live and the record's own.
DueIsOwned(r) ==
    records[r] # NoRecord =>
        /\ WellFormed(records[r])
        /\ Unshared(records[r])
        /\ \A i \in Due(records[r]) :
              records[r].buffers[i] \in Addresses =>
                  records[r].buffers[i] \in Heap /\ owner[records[r].buffers[i]] = r

\* What is live and left the library is due to be handed back.
LiveIsDue(a) ==
    owner[a] # Library =>
        /\ records[owner[a]] # NoRecord
        /\ \E i \in Due(records[owner[a]]) : records[owner[a]].buffers[i] = a

IInv == /\ Shape
        /\ \A r \in Records : DueIsOwned(r)
        /\ \A a \in Heap : LiveIsDue(a)
-----------------------------------------------------------------------------
(* Facts about the operators *)

LEMMA BlocksTyped ==
    ASSUME NEW bufs PROVE Blocks(bufs) \subseteq Addresses
BY DEF Blocks

LEMMA BlocksMembers ==
    ASSUME NEW bufs, NEW a
    PROVE  a \in Blocks(bufs) <=> a \in Addresses /\ \E i \in DOMAIN bufs : bufs[i] = a
BY DEF Blocks

LEMMA InitInvariant == Init => IInv
<1> SUFFICES ASSUME Init PROVE IInv
    OBVIOUS
<1>1. DOMAIN owner = {} /\ owner \in [{} -> Records \cup {Library}]
    BY DEF Init
<1>2. Shape
    BY <1>1 DEF Init, Shape, Heap
<1>3. \A r \in Records : DueIsOwned(r)
    BY DEF Init, DueIsOwned
<1> QED
    BY <1>1, <1>2, <1>3 DEF IInv, Heap

\* Every call that fills a record: its buffers are blocks that were free, each in
\* one position only, and blocks that no record gets stay with the library.
LEMMA DeliveryKeeps ==
    ASSUME IInv, NEW r \in Records, records[r] = NoRecord,
           NEW bufs \in Seq(Pointers), NEW kind \in Kinds, Deliver(r, bufs, kind),
           \A i, j \in DOMAIN bufs : i # j /\ bufs[i] = bufs[j] => bufs[i] \notin Addresses,
           owner' \in [Heap' -> Records \cup {Library}], Heap' \subseteq Addresses,
           \A a \in Heap : a \in Heap' /\ owner'[a] = owner[a],
           \A a \in Blocks(bufs) : a \in Heap' /\ owner'[a] = r,
           \A a \in Heap' : a \in Heap \/ a \in Blocks(bufs) \/ owner'[a] = Library,
           UNCHANGED <<misfreed, aborted>>
    PROVE  IInv'
<1> DEFINE new == [buffers |-> bufs, open |-> DOMAIN bufs, kind |-> kind, cursor |-> 0]
<1>1. records' = [records EXCEPT ![r] = new]
    BY DEF Deliver
<1>2. Len(bufs) \in Nat /\ DOMAIN bufs = 1..Len(bufs)
    BY LenProperties
<1>3. new \in Record /\ new # NoRecord
    <2>1. DOMAIN bufs \in SUBSET Nat
        BY <1>2
    <2>2. new \in Record
        BY <2>1 DEF Record
    <2> QED
        BY <2>2, NoRecordAssumption
<1>4. WellFormed(new) /\ Due(new) = DOMAIN bufs /\ new.buffers = bufs
    BY <1>2, <1>3 DEF WellFormed, Due
<1> HIDE DEF new
<1>5. /\ records'[r] = new
      /\ \A u \in Records : u # r => records'[u] = records[u]
      /\ records' \in [Records -> Record \cup {NoRecord}]
    BY <1>1, <1>3 DEF IInv, Shape
<1>6. Shape'
    BY <1>5 DEF IInv, Shape
<1>7. DueIsOwned(r)'
    <2>1. Unshared(new)
        BY <1>4 DEF Unshared
    <2>2. \A i \in Due(new) : new.buffers[i] \in Addresses =>
              new.buffers[i] \in Heap' /\ owner'[new.buffers[i]] = r
        BY <1>4, BlocksMembers
    <2> QED
        BY <1>4, <1>5, <2>1, <2>2 DEF DueIsOwned
<1>8. ASSUME NEW u \in Records, u # r PROVE DueIsOwned(u)'
    <2>1. records'[u] = records[u] /\ DueIsOwned(u)
        BY <1>5, <1>8 DEF IInv
    <2> QED
        BY <2>1 DEF DueIsOwned
<1>9. ASSUME NEW a \in Heap' PROVE LiveIsDue(a)'
    <2>1. CASE a \in Heap
        <3>1. SUFFICES ASSUME owner[a] # Library
                       PROVE  /\ records'[owner[a]] # NoRecord
                              /\ \E i \in Due(records'[owner[a]]) :
                                    records'[owner[a]].buffers[i] = a
            BY <2>1 DEF LiveIsDue
        <3>2. LiveIsDue(a) /\ owner[a] \in Records
            BY <2>1, <3>1 DEF IInv, Shape
        <3>3. owner[a] # r
            BY <3>1, <3>2 DEF LiveIsDue
        <3>4. records'[owner[a]] = records[owner[a]]
            BY <1>5, <3>2, <3>3
        <3> QED
            BY <3>1, <3>2, <3>4 DEF LiveIsDue
    <2>2. CASE a \in Blocks(bufs)
        <3>1. owner'[a] = r
            BY <2>2
        <3>2. \E i \in Due(new) : new.buffers[i] = a
            BY <1>4, <2>2, BlocksMembers
        <3> QED
            BY <1>3, <1>5, <3>1, <3>2 DEF LiveIsDue
    <2>3. CASE owner'[a] = Library
        BY <2>3 DEF LiveIsDue
    <2> QED
        BY <2>1, <2>2, <2>3
<1> QED
    BY <1>6, <1>7, <1>8, <1>9 DEF IInv
-----------------------------------------------------------------------------
(* Calls that return buffers *)

LEMMA AllocatedBlocks ==
    ASSUME IInv, NEW blocks \in SUBSET Free, NEW who \in Records \cup {Library},
           owner' = Allocated(blocks, who)
    PROVE  /\ owner' \in [Heap' -> Records \cup {Library}]
           /\ Heap' = Heap \cup blocks /\ Heap' \subseteq Addresses
           /\ \A a \in Heap : owner'[a] = owner[a]
           /\ \A a \in blocks : owner'[a] = who
<1>1. owner' = [a \in Heap \cup blocks |-> IF a \in blocks THEN who ELSE owner[a]]
    BY DEF Allocated
<1>2. Heap' = Heap \cup blocks
    BY <1>1 DEF Heap
<1>3. \A a \in Heap : a \notin blocks /\ owner[a] \in Records \cup {Library}
    BY DEF Free, IInv, Shape
<1> QED
    BY <1>1, <1>2, <1>3 DEF Free, IInv, Shape

\* Buffers that hold nothing take nothing from the heap.
LEMMA NothingDelivered ==
    ASSUME IInv, NEW r \in Records, records[r] = NoRecord, NEW n \in Nat,
           NEW kind \in Kinds, Deliver(r, Nulls(n), kind),
           UNCHANGED <<owner, misfreed, aborted>>
    PROVE  IInv'
<1>1. Nulls(n) \in [1..n -> Pointers]
    BY DEF Nulls, Pointers
<1>2. Nulls(n) \in Seq(Pointers)
    BY <1>1, SeqDef
<1>3. \A i \in DOMAIN Nulls(n) : Nulls(n)[i] \notin Addresses
    BY BufferAssumption DEF Nulls
<1>4. Blocks(Nulls(n)) = {}
    BY <1>3 DEF Blocks
<1>5. Heap' = Heap /\ owner' = owner
    BY DEF Heap
<1> QED
    BY <1>2, <1>3, <1>4, <1>5, DeliveryKeeps DEF IInv, Shape

\* What from_vec made goes to the host, with the blocks it was made in.
LEMMA VecsDelivered ==
    ASSUME IInv, NEW r \in Records, records[r] = NoRecord, NEW kind \in Kinds,
           NEW bufs \in Seq(Pointers), Blocks(bufs) \subseteq Free,
           \A i, j \in DOMAIN bufs : i # j /\ bufs[i] = bufs[j] => bufs[i] \notin Addresses,
           Deliver(r, bufs, kind), owner' = Allocated(Blocks(bufs), r),
           UNCHANGED <<misfreed, aborted>>
    PROVE  IInv'
<1>1. /\ owner' \in [Heap' -> Records \cup {Library}]
      /\ Heap' = Heap \cup Blocks(bufs) /\ Heap' \subseteq Addresses
      /\ \A a \in Heap : owner'[a] = owner[a]
      /\ \A a \in Blocks(bufs) : owner'[a] = r
    BY AllocatedBlocks
<1>2. \A a \in Heap : a \in Heap' /\ owner'[a] = owner[a]
    BY <1>1
<1>3. \A a \in Blocks(bufs) : a \in Heap' /\ owner'[a] = r
    BY <1>1
<1>4. \A a \in Heap' : a \in Heap \/ a \in Blocks(bufs) \/ owner'[a] = Library
    BY <1>1
<1> QED
    BY <1>1, <1>2, <1>3, <1>4, DeliveryKeeps

LEMMA VecsTyped ==
    ASSUME NEW n \in Nat, NEW bufs \in FromVecs(n)
    PROVE  /\ bufs \in [1..n -> Pointers] /\ bufs \in Seq(Pointers) /\ Len(bufs) = n
           /\ Blocks(bufs) \subseteq Free
           /\ \A i, j \in 1..n :
                i # j /\ bufs[i] = bufs[j] => bufs[i] \notin Addresses
<1>1. bufs \in [1..n -> Free \cup {Dangling}]
    BY DEF FromVecs
<1>2. bufs \in [1..n -> Pointers]
    BY <1>1 DEF Free, Pointers
<1>3. bufs \in Seq(Pointers)
    BY <1>2, SeqDef
<1>4. Len(bufs) = n
    BY <1>2, <1>3
<1>5. Blocks(bufs) \subseteq Free
    BY <1>1, BufferAssumption DEF Blocks
<1>6. \A i, j \in 1..n : i # j /\ bufs[i] = bufs[j] => bufs[i] \notin Addresses
    BY BufferAssumption DEF FromVecs
<1> QED
    BY <1>2, <1>3, <1>4, <1>5, <1>6

LEMMA ReturnKeeps ==
    ASSUME IInv, NEW r \in Records, NEW n \in Nat, NEW kind \in Kinds, Return(r, n, kind)
    PROVE  IInv'
<1>1. records[r] = NoRecord /\ UNCHANGED <<misfreed, aborted>>
    BY DEF Return, Ready
<1>2. CASE Deliver(r, Nulls(n), kind) /\ UNCHANGED owner
    BY <1>1, <1>2, NothingDelivered
<1>3. ASSUME NEW bufs \in FromVecs(n), Deliver(r, bufs, kind),
             owner' = Allocated(Blocks(bufs), r)
      PROVE  IInv'
    <2>1. DOMAIN bufs = 1..n
        BY VecsTyped
    <2> QED
        BY <1>1, <1>3, <2>1, VecsTyped, VecsDelivered
<1> QED
    BY <1>2, <1>3 DEF Return

\* A record with one buffer: a pointer that is no block, or a block that was free.
LEMMA OneDelivered ==
    ASSUME IInv, NEW r \in Records, records[r] = NoRecord, NEW kind \in Kinds,
           NEW p \in Free \cup {Null, Dangling}, Deliver(r, <<p>>, kind),
           owner' = Allocated({p} \cap Addresses, r), UNCHANGED <<misfreed, aborted>>
    PROVE  IInv'
<1>1. <<p>> \in Seq(Pointers) /\ DOMAIN <<p>> = {1} /\ <<p>>[1] = p
    BY DEF Free, Pointers
<1>2. Blocks(<<p>>) = {p} \cap Addresses
    BY <1>1 DEF Blocks
<1>3. {p} \cap Addresses \subseteq Free
    BY BufferAssumption DEF Free
<1>4. \A i, j \in DOMAIN <<p>> : i = j
    BY <1>1
<1> QED
    BY <1>1, <1>2, <1>3, <1>4, VecsDelivered

LEMMA OpenKeeps == ASSUME IInv, NEW r \in Records, Open(r) PROVE IInv'
<1>1. records[r] = NoRecord /\ UNCHANGED <<misfreed, aborted>> /\ "handle" \in Kinds
    BY DEF Open, Ready, Kinds
<1>2. CASE Deliver(r, <<Null>>, "handle") /\ UNCHANGED owner
    <2>1. <<Null>> = Nulls(1)
        BY DEF Nulls
    <2> QED
        BY <1>1, <1>2, <2>1, NothingDelivered
<1>3. ASSUME NEW a \in Free, Deliver(r, <<a>>, "handle"), owner' = Allocated({a}, r)
      PROVE  IInv'
    <2>1. {a} \cap Addresses = {a}
        BY DEF Free
    <2> QED
        BY <1>1, <1>3, <2>1, OneDelivered
<1> QED
    BY <1>2, <1>3 DEF Open

LEMMA GetDescriptionKeeps == ASSUME IInv, NEW r \in Records, GetDescription(r) PROVE IInv'
<1>1. records[r] = NoRecord /\ UNCHANGED <<misfreed, aborted>> /\ "buffers" \in Kinds
    BY DEF GetDescription, Ready, Kinds
<1>2. PICK a \in Free : Deliver(r, <<a>>, "buffers") /\ owner' = Allocated({a}, r)
    BY DEF GetDescription
<1>3. {a} \cap Addresses = {a}
    BY DEF Free
<1> QED
    BY <1>1, <1>2, <1>3, OneDelivered

LEMMA GetPeripheralVersionsKeeps ==
    ASSUME IInv, NEW r \in Records, GetPeripheralVersions(r) PROVE IInv'
<1>1. records[r] = NoRecord /\ UNCHANGED <<misfreed, aborted>> /\ "aggregate" \in Kinds
    BY DEF GetPeripheralVersions, Ready, Kinds
<1> PICK found \in Found : \E bufs \in FromVecs(Converted(found)) :
          /\ owner' = Allocated(Blocks(bufs), r)
          /\ Deliver(r, [i \in 1..PeripheralSlots |->
                            IF i <= Len(bufs) THEN bufs[i] ELSE Null], "aggregate")
    BY DEF GetPeripheralVersions
<1>2. PICK bufs \in FromVecs(Converted(found)) :
          /\ owner' = Allocated(Blocks(bufs), r)
          /\ Deliver(r, [i \in 1..PeripheralSlots |->
                            IF i <= Len(bufs) THEN bufs[i] ELSE Null], "aggregate")
    OBVIOUS
<1> DEFINE slots == [i \in 1..PeripheralSlots |-> IF i <= Len(bufs) THEN bufs[i] ELSE Null]
<1>3. Converted(found) \in Nat /\ Converted(found) <= PeripheralSlots /\ PeripheralSlots \in Nat
    BY BufferAssumption DEF Converted, Found
<1>4. /\ Len(bufs) = Converted(found) /\ Blocks(bufs) \subseteq Free
      /\ bufs \in [1..Len(bufs) -> Pointers]
      /\ \A i, j \in 1..Len(bufs) :
            i # j /\ bufs[i] = bufs[j] => bufs[i] \notin Addresses
    BY <1>3, VecsTyped
<1>5. slots \in [1..PeripheralSlots -> Pointers]
    BY <1>3, <1>4 DEF Pointers
<1>6. slots \in Seq(Pointers) /\ DOMAIN slots = 1..PeripheralSlots
    BY <1>3, <1>5, SeqDef
<1>7. /\ \A i \in 1..Len(bufs) : slots[i] = bufs[i]
      /\ \A i \in DOMAIN slots : slots[i] \in Addresses => i \in 1..Len(bufs)
    BY <1>3, <1>4, BufferAssumption
<1>8. DOMAIN bufs = 1..Len(bufs) /\ 1..Len(bufs) \subseteq DOMAIN slots
    BY <1>3, <1>4, <1>6
<1> HIDE DEF slots
<1>9. Blocks(slots) = Blocks(bufs)
    BY <1>7, <1>8 DEF Blocks
<1>10. \A i, j \in DOMAIN slots : i # j /\ slots[i] = slots[j] => slots[i] \notin Addresses
    BY <1>4, <1>7
<1>11. Deliver(r, slots, "aggregate")
    BY <1>2 DEF slots
<1> QED
    BY <1>1, <1>2, <1>4, <1>6, <1>9, <1>10, <1>11, VecsDelivered
-----------------------------------------------------------------------------
(* The queries of the expansion bay *)

LEMMA PanicKeeps == ASSUME IInv, PanicOnSerial PROVE IInv'
<1>1. /\ aborted' = TRUE /\ UNCHANGED <<owner, records, misfreed>> /\ Heap' = Heap
    BY DEF PanicOnSerial, Heap
<1>2. Shape'
    BY <1>1 DEF IInv, Shape
<1>3. ASSUME NEW r \in Records PROVE DueIsOwned(r)'
    BY <1>1 DEF IInv, DueIsOwned
<1>4. ASSUME NEW a \in Heap' PROVE LiveIsDue(a)'
    BY <1>1 DEF IInv, LiveIsDue
<1> QED
    BY <1>2, <1>3, <1>4 DEF IInv

LEMMA GetExpansionBayStatusKeeps ==
    ASSUME IInv, NEW r \in Records, GetExpansionBayStatus(r) PROVE IInv'
<1>1. records[r] = NoRecord /\ "buffers" \in Kinds
    BY DEF GetExpansionBayStatus, Ready, Kinds
<1>2. ASSUME NEW serial \in Serials, Deliver(r, <<serial>>, "buffers"),
             owner' = Allocated({serial} \cap Addresses, r), UNCHANGED <<misfreed, aborted>>
      PROVE  IInv'
    BY <1>1, <1>2, OneDelivered DEF Serials
<1> QED
    BY <1>2, PanicKeeps DEF GetExpansionBayStatus

LEMMA SerialBlock ==
    ASSUME NEW serial \in Serials PROVE {serial} \cap Addresses \subseteq Free
BY BufferAssumption DEF Serials, Free

LEMMA QueryBayAndForgetKeeps == ASSUME IInv, QueryBayAndForget PROVE IInv'
<1>1. ASSUME NEW serial \in Serials, owner' = Allocated({serial} \cap Addresses, Library),
             UNCHANGED <<records, misfreed, aborted>>
      PROVE  IInv'
    <2> DEFINE lost == {serial} \cap Addresses
    <2>1. lost \subseteq Free /\ owner' = Allocated(lost, Library)
        BY <1>1, SerialBlock
    <2> HIDE DEF lost
    <2>2. /\ owner' \in [Heap' -> Records \cup {Library}]
          /\ Heap' = Heap \cup lost /\ Heap' \subseteq Addresses
          /\ \A a \in Heap : owner'[a] = owner[a]
          /\ \A a \in lost : owner'[a] = Library
        BY <2>1, AllocatedBlocks
    <2>3. Shape'
        BY <1>1, <2>2 DEF IInv, Shape
    <2>4. ASSUME NEW r \in Records PROVE DueIsOwned(r)'
        <3>1. records'[r] = records[r] /\ DueIsOwned(r)
            BY <1>1 DEF IInv
        <3> QED
            BY <2>2, <3>1 DEF DueIsOwned
    <2>5. ASSUME NEW a \in Heap' PROVE LiveIsDue(a)'
        <3>1. CASE a \in Heap
            <4>1. owner'[a] = owner[a] /\ records' = records /\ LiveIsDue(a)
                BY <1>1, <2>2, <3>1 DEF IInv
            <4> QED
                BY <4>1 DEF LiveIsDue
        <3>2. CASE a \in lost
            BY <2>2, <3>2 DEF LiveIsDue
        <3> QED
            BY <2>2, <3>1, <3>2
    <2> QED
        BY <2>3, <2>4, <2>5 DEF IInv
<1> QED
    BY <1>1, PanicKeeps DEF QueryBayAndForget

LEMMA ReadGpuDescriptorKeeps ==
    ASSUME IInv, NEW r \in Records, ReadGpuDescriptor(r) PROVE IInv'
<1>1. records[r] = NoRecord /\ "buffers" \in Kinds
    BY DEF ReadGpuDescriptor, Ready, Kinds
<1>2. CASE PanicOnSerial
    BY <1>2, PanicKeeps
<1>3. CASE ~PanicOnSerial
    <2> PICK serial \in Serials :
          LET lost == Allocated({serial} \cap Addresses, Library) IN
             /\ \/ Deliver(r, <<Null>>, "buffers") /\ owner' = lost
                \/ \E a \in Free \ {serial} :
                      /\ Deliver(r, <<a>>, "buffers")
                      /\ owner' = [b \in DOMAIN lost \cup {a} |->
                                      IF b = a THEN r ELSE lost[b]]
             /\ UNCHANGED <<misfreed, aborted>>
        BY <1>3 DEF ReadGpuDescriptor
    <2> DEFINE block == {serial} \cap Addresses
               lost == Allocated(block, Library)
    <2>1. /\ DOMAIN lost = Heap \cup block /\ lost \in [Heap \cup block -> Records \cup {Library}]
          /\ \A a \in Heap : lost[a] = owner[a]
          /\ \A a \in block : lost[a] = Library
        <3>1. \A a \in Heap : a \notin block
            BY SerialBlock DEF Free
        <3> QED
            BY <3>1 DEF Allocated, IInv, Shape
    <2>2. block \subseteq Free /\ UNCHANGED <<misfreed, aborted>>
        BY SerialBlock
    <2>3. \/ Deliver(r, <<Null>>, "buffers") /\ owner' = lost
          \/ \E a \in Free \ {serial} :
                /\ Deliver(r, <<a>>, "buffers")
                /\ owner' = [b \in DOMAIN lost \cup {a} |-> IF b = a THEN r ELSE lost[b]]
        OBVIOUS
    <2>4. block = {} \/ block = {serial}
        OBVIOUS
    <2> HIDE DEF lost
    <2>5. CASE Deliver(r, <<Null>>, "buffers") /\ owner' = lost
        <3>1. /\ <<Null>> \in Seq(Pointers)
              /\ \A i, j \in DOMAIN <<Null>> : i = j
              /\ Blocks(<<Null>>) = {}
            BY BufferAssumption DEF Pointers, Blocks
        <3>2. Heap' = Heap \cup block /\ Heap' \subseteq Addresses
            BY <2>1, <2>5 DEF Heap, IInv, Shape
        <3> QED
            BY <1>1, <2>1, <2>2, <2>5, <3>1, <3>2, DeliveryKeeps
    <2>6. ASSUME NEW a \in Free \ {serial}, Deliver(r, <<a>>, "buffers"),
                 owner' = [b \in DOMAIN lost \cup {a} |-> IF b = a THEN r ELSE lost[b]]
          PROVE  IInv'
        <3>1. /\ <<a>> \in Seq(Pointers)
              /\ \A i, j \in DOMAIN <<a>> : i = j
              /\ Blocks(<<a>>) = {a}
            BY DEF Pointers, Blocks, Free
        <3>2. Heap' = Heap \cup block \cup {a} /\ Heap' \subseteq Addresses
            BY <2>1, <2>6 DEF Heap, Free, IInv, Shape
        <3>3. a \notin Heap /\ a \notin block
            BY <2>4 DEF Free
        <3>4. owner' \in [Heap' -> Records \cup {Library}]
            BY <2>1, <2>6, <3>2
        <3>5. /\ \A b \in Heap : b \in Heap' /\ owner'[b] = owner[b]
              /\ owner'[a] = r /\ a \in Heap'
              /\ \A b \in block : owner'[b] = Library
            BY <2>1, <2>6, <3>2, <3>3
        <3>6. \A b \in Heap' : b \in Heap \/ b \in Blocks(<<a>>) \/ owner'[b] = Library
            BY <3>1, <3>2, <3>5
        <3>7. \A b \in Blocks(<<a>>) : b \in Heap' /\ owner'[b] = r
            BY <3>1, <3>5
        <3>8. \A b \in Heap : b \in Heap' /\ owner'[b] = owner[b]
            BY <3>5
        <3>9. Deliver(r, <<a>>, "buffers") /\ UNCHANGED <<misfreed, aborted>>
            BY <2>2, <2>6
        <3>10. \A j, k \in DOMAIN <<a>> :
                   j # k /\ <<a>>[j] = <<a>>[k] => <<a>>[j] \notin Addresses
            BY <3>1
        <3> HIDE DEF block
        <3> QED
            BY <1>1, <3>1, <3>2, <3>4, <3>6, <3>7, <3>8, <3>9, <3>10, DeliveryKeeps
    <2> QED
        BY <2>3, <2>5, <2>6
<1> QED
    BY <1>2, <1>3
-----------------------------------------------------------------------------
(* Calls that free *)

\* A free of something due: it hits the record's own block or none, the record keeps
\* the rest of what is due, and no other record shares what was freed.
LEMMA FreeKeeps ==
    ASSUME IInv, NEW r \in Records, records[r] # NoRecord,
           NEW i \in Due(records[r]), Destroy(r, records[r].buffers[i]), UNCHANGED aborted,
           NEW new, WellFormed(new), records' = [records EXCEPT ![r] = new],
           \A j \in Due(new) : new.buffers[j] \in Addresses =>
               j \in Due(records[r]) \ {i} /\ new.buffers[j] = records[r].buffers[j],
           \A j \in Due(records[r]) \ {i} : records[r].buffers[j] \in Addresses =>
               j \in Due(new) /\ new.buffers[j] = records[r].buffers[j]
    PROVE  IInv'
<1> DEFINE b == records[r].buffers[i]
<1>1. new \in Record /\ new # NoRecord
    BY NoRecordAssumption DEF WellFormed
<1>2. /\ records'[r] = new
      /\ \A u \in Records : u # r => records'[u] = records[u]
      /\ records' \in [Records -> Record \cup {NoRecord}]
    BY <1>1 DEF IInv, Shape
<1>3. DueIsOwned(r)
    BY DEF IInv
<1>4. Heap' = Heap \ {b} /\ owner' = [a \in Heap \ {b} |-> owner[a]]
    BY DEF Destroy, Heap
<1>5. misfreed' = FALSE
    <2>1. b \in Addresses => b \in Heap /\ owner[b] = r
        BY <1>3 DEF DueIsOwned
    <2>2. misfreed = FALSE
        BY DEF IInv, Shape
    <2> QED
        BY <2>1, <2>2 DEF Destroy
<1>6. Shape'
    BY <1>2, <1>4, <1>5 DEF IInv, Shape
<1>7. DueIsOwned(r)'
    <2>1. Unshared(records[r])
        BY <1>3 DEF DueIsOwned
    <2>2. Unshared(new)
        BY <2>1 DEF Unshared
    <2>3. ASSUME NEW j \in Due(new), new.buffers[j] \in Addresses
          PROVE  new.buffers[j] \in Heap' /\ owner'[new.buffers[j]] = r
        <3>1. j \in Due(records[r]) /\ j # i /\ new.buffers[j] = records[r].buffers[j]
            BY <2>3
        <3>2. new.buffers[j] \in Heap /\ owner[new.buffers[j]] = r
            BY <1>3, <2>3, <3>1 DEF DueIsOwned
        <3>3. new.buffers[j] # b
            BY <2>1, <2>3, <3>1 DEF Unshared
        <3> QED
            BY <1>4, <3>2, <3>3
    <2> QED
        BY <1>2, <2>2, <2>3 DEF DueIsOwned
<1>8. ASSUME NEW u \in Records, u # r PROVE DueIsOwned(u)'
    <2>1. records'[u] = records[u] /\ DueIsOwned(u)
        BY <1>2, <1>8 DEF IInv
    <2>2. ASSUME records[u] # NoRecord, NEW j \in Due(records[u]),
                 records[u].buffers[j] \in Addresses
          PROVE  records[u].buffers[j] \in Heap' /\ owner'[records[u].buffers[j]] = u
        <3>1. records[u].buffers[j] \in Heap /\ owner[records[u].buffers[j]] = u
            BY <2>1, <2>2 DEF DueIsOwned
        <3>2. records[u].buffers[j] # b
            BY <1>3, <1>8, <2>2, <3>1 DEF DueIsOwned
        <3> QED
            BY <1>4, <3>1, <3>2
    <2>3. SUFFICES ASSUME records[u] # NoRecord
                   PROVE  /\ WellFormed(records[u]) /\ Unshared(records[u])
                          /\ \A j \in Due(records[u]) : records[u].buffers[j] \in Addresses =>
                                /\ records[u].buffers[j] \in Heap'
                                /\ owner'[records[u].buffers[j]] = u
        BY <2>1 DEF DueIsOwned
    <2>4. WellFormed(records[u]) /\ Unshared(records[u])
        BY <2>1, <2>3 DEF DueIsOwned
    <2> QED
        BY <2>2, <2>3, <2>4
<1>9. ASSUME NEW a \in Heap' PROVE LiveIsDue(a)'
    <2>1. a \in Heap /\ a # b /\ owner'[a] = owner[a] /\ a \in Addresses
        BY <1>4 DEF IInv, Shape
    <2>2. SUFFICES ASSUME owner[a] # Library
                   PROVE  /\ records'[owner[a]] # NoRecord
                          /\ \E j \in Due(records'[owner[a]]) :
                                records'[owner[a]].buffers[j] = a
        BY <2>1 DEF LiveIsDue
    <2>3. /\ owner[a] \in Records /\ records[owner[a]] # NoRecord
          /\ \E j \in Due(records[owner[a]]) : records[owner[a]].buffers[j] = a
        BY <2>1, <2>2 DEF IInv, Shape, LiveIsDue
    <2>4. CASE owner[a] = r
        <3>1. PICK j \in Due(records[r]) : records[r].buffers[j] = a
            BY <2>3, <2>4
        <3>2. j \in Due(new) /\ new.buffers[j] = a
            BY <2>1, <3>1
        <3> QED
            BY <1>1, <1>2, <2>4, <3>2
    <2>5. CASE owner[a] # r
        BY <1>2, <2>3, <2>5
    <2> QED
        BY <2>4, <2>5
<1> QED
    BY <1>6, <1>7, <1>8, <1>9 DEF IInv

LEMMA ByteBufferFreeKeeps ==
    ASSUME IInv, NEW r \in Records, ByteBufferFree(r) PROVE IInv'
<1> DEFINE rec == records[r]
<1>1. records[r] # NoRecord /\ rec.kind = "buffers" /\ UNCHANGED aborted
    BY DEF ByteBufferFree
<1>2. PICK i \in rec.open : /\ Destroy(r, rec.buffers[i])
                            /\ records' = [records EXCEPT ![r].open = @ \ {i}]
    BY DEF ByteBufferFree
<1>3. WellFormed(rec) /\ rec \in Record
    BY <1>1 DEF IInv, DueIsOwned, WellFormed
<1> DEFINE new == [rec EXCEPT !.open = @ \ {i}]
<1>4. /\ new \in Record /\ new.buffers = rec.buffers /\ new.kind = rec.kind
      /\ new.cursor = rec.cursor /\ new.open = rec.open \ {i}
    BY <1>3 DEF Record
<1>5. records' = [records EXCEPT ![r] = new]
    BY <1>2
<1> HIDE DEF new
<1>6. WellFormed(new)
    BY <1>3, <1>4 DEF WellFormed
<1>7. Due(new) = Due(rec) \ {i} /\ i \in Due(rec)
    BY <1>1, <1>4 DEF Due
<1> QED
    BY <1>1, <1>2, <1>4, <1>5, <1>6, <1>7, FreeKeeps

LEMMA CloseKeeps == ASSUME IInv, NEW r \in Records, Close(r) PROVE IInv'
<1> DEFINE rec == records[r]
<1>1. /\ records[r] # NoRecord /\ rec.kind = "handle" /\ rec.open = {1} /\ UNCHANGED aborted
      /\ Destroy(r, rec.buffers[1])
      /\ records' = [records EXCEPT ![r].open = {}]
    BY DEF Close
<1>2. WellFormed(rec) /\ rec \in Record
    BY <1>1 DEF IInv, DueIsOwned, WellFormed
<1> DEFINE new == [rec EXCEPT !.open = {}]
<1>3. /\ new \in Record /\ new.buffers = rec.buffers /\ new.kind = rec.kind
      /\ new.cursor = rec.cursor /\ new.open = {}
    BY <1>2 DEF Record
<1>4. records' = [records EXCEPT ![r] = new]
    BY <1>1
<1> HIDE DEF new
<1>5. WellFormed(new)
    BY <1>2, <1>3 DEF WellFormed
<1>6. Due(new) = {} /\ Due(rec) = {1}
    BY <1>1, <1>3 DEF Due
<1> QED
    BY <1>1, <1>3, <1>4, <1>5, <1>6, FreeKeeps

LEMMA AggregateFreeStepKeeps ==
    ASSUME IInv, NEW r \in Records, AggregateFreeStep(r) PROVE IInv'
<1> DEFINE rec == records[r]
           c == rec.cursor
<1>1. /\ records[r] # NoRecord /\ c \in DOMAIN rec.buffers /\ UNCHANGED aborted
      /\ Destroy(r, rec.buffers[c])
      /\ records' = [records EXCEPT ![r] = [rec EXCEPT !.buffers = Nulled(rec),
                                                       !.cursor = NextCursor(rec)]]
    BY DEF AggregateFreeStep
<1>2. WellFormed(rec) /\ rec \in Record /\ rec.buffers \in Seq(Pointers)
    BY <1>1 DEF IInv, DueIsOwned, WellFormed, Record
<1>3. Len(rec.buffers) \in Nat /\ DOMAIN rec.buffers = 1..Len(rec.buffers)
    BY <1>2, LenProperties
<1>4. rec.kind = "aggregate" /\ Due(rec) = DOMAIN rec.buffers
    BY <1>1, <1>2, <1>3 DEF WellFormed, Due
<1> DEFINE new == [rec EXCEPT !.buffers = Nulled(rec), !.cursor = NextCursor(rec)]
<1>5. /\ Nulled(rec) \in [1..Len(rec.buffers) -> Pointers]
      /\ Nulled(rec)[c] = Null
      /\ \A j \in DOMAIN rec.buffers : j # c => Nulled(rec)[j] = rec.buffers[j]
    <2>1. rec.buffers \in [1..Len(rec.buffers) -> Pointers] /\ Null \in Pointers
        BY <1>2, <1>3 DEF Pointers
    <2> QED
        BY <1>1, <1>3, <2>1 DEF Nulled
<1>6. Nulled(rec) \in Seq(Pointers) /\ Len(Nulled(rec)) = Len(rec.buffers)
    BY <1>3, <1>5, SeqDef
<1>7. NextCursor(rec) \in 0..Len(rec.buffers)
    BY <1>1, <1>3 DEF NextCursor
<1>8. /\ new \in Record /\ new.buffers = Nulled(rec) /\ new.kind = rec.kind
      /\ new.cursor = NextCursor(rec) /\ new.open = rec.open
    <2> DEFINE buffers == Nulled(rec)
               cursor == NextCursor(rec)
               old == records[r]
               changed == [old EXCEPT !.buffers = buffers, !.cursor = cursor]
    <2>1. buffers \in Seq(Pointers) /\ cursor \in Nat /\ old \in Record
        BY <1>2, <1>3, <1>6, <1>7
    <2> HIDE DEF buffers, cursor, old
    <2>2. /\ changed \in Record /\ changed.buffers = buffers
          /\ changed.kind = old.kind /\ changed.cursor = cursor /\ changed.open = old.open
        BY <2>1 DEF Record
    <2> QED
        BY <2>2 DEF buffers, cursor, old
<1>9. records' = [records EXCEPT ![r] = new]
    BY <1>1
<1> HIDE DEF new
<1>10. DOMAIN new.buffers = DOMAIN rec.buffers
    BY <1>3, <1>5, <1>8
<1>11. WellFormed(new)
    BY <1>2, <1>4, <1>6, <1>7, <1>8, <1>10 DEF WellFormed
<1>12. Due(new) = Due(rec)
    BY <1>4, <1>8, <1>10 DEF Due
<1>13. \A j \in Due(new) : new.buffers[j] \in Addresses =>
           j \in Due(rec) \ {c} /\ new.buffers[j] = rec.buffers[j]
    BY <1>4, <1>5, <1>8, <1>12, BufferAssumption
<1>14. \A j \in Due(rec) \ {c} : j \in Due(new) /\ new.buffers[j] = rec.buffers[j]
    BY <1>4, <1>5, <1>8, <1>12
<1> QED
    BY <1>1, <1>4, <1>9, <1>11, <1>13, <1>14, FreeKeeps

\* A step that leaves the heap and what a record is answerable for as they are.
LEMMA HeapUntouched ==
    ASSUME IInv, NEW r \in Records, records[r] # NoRecord, UNCHANGED <<owner, misfreed, aborted>>,
           NEW new, WellFormed(new), records' = [records EXCEPT ![r] = new],
           Due(new) = Due(records[r]), new.buffers = records[r].buffers
    PROVE  IInv'
<1>1. new \in Record /\ new # NoRecord
    BY NoRecordAssumption DEF WellFormed
<1>2. /\ records'[r] = new
      /\ \A u \in Records : u # r => records'[u] = records[u]
      /\ records' \in [Records -> Record \cup {NoRecord}]
    BY <1>1 DEF IInv, Shape
<1>3. Heap' = Heap
    BY DEF Heap
<1>4. Shape'
    BY <1>2, <1>3 DEF IInv, Shape
<1>5. DueIsOwned(r)'
    <2>1. DueIsOwned(r) /\ owner' = owner
        BY DEF IInv
    <2>2. Unshared(new)
        BY <2>1 DEF DueIsOwned, Unshared
    <2> QED
        BY <1>2, <1>3, <2>1, <2>2 DEF DueIsOwned
<1>6. ASSUME NEW u \in Records, u # r PROVE DueIsOwned(u)'
    <2>1. records'[u] = records[u] /\ DueIsOwned(u)
        BY <1>2, <1>6 DEF IInv
    <2> QED
        BY <1>3, <2>1 DEF DueIsOwned
<1>7. ASSUME NEW a \in Heap' PROVE LiveIsDue(a)'
    <2>1. LiveIsDue(a) /\ owner[a] \in Records \cup {Library}
        BY <1>3, <1>7 DEF IInv, Shape
    <2>2. SUFFICES ASSUME owner[a] # Library
                   PROVE  /\ records'[owner[a]] # NoRecord
                          /\ \E j \in Due(records'[owner[a]]) :
                                records'[owner[a]].buffers[j] = a
        BY DEF LiveIsDue
    <2>3. CASE owner[a] = r
        BY <1>1, <1>2, <2>1, <2>2, <2>3 DEF LiveIsDue
    <2>4. CASE owner[a] # r
        BY <1>2, <2>1, <2>2, <2>4 DEF LiveIsDue
    <2> QED
        BY <2>3, <2>4
<1> QED
    BY <1>4, <1>5, <1>6, <1>7 DEF IInv

LEMMA BeginAggregateFreeKeeps ==
    ASSUME IInv, NEW r \in Records, BeginAggregateFree(r) PROVE IInv'
<1> DEFINE rec == records[r]
<1>1. /\ records[r] # NoRecord /\ rec.kind = "aggregate" /\ Len(rec.buffers) > 0
      /\ records' = [records EXCEPT ![r].cursor = 1]
      /\ UNCHANGED <<owner, misfreed, aborted>>
    BY DEF BeginAggregateFree
<1>2. WellFormed(rec) /\ rec \in Record /\ Len(rec.buffers) \in Nat
    BY <1>1, LenProperties DEF IInv, DueIsOwned, WellFormed, Record
<1> DEFINE new == [rec EXCEPT !.cursor = 1]
<1>3. /\ new \in Record /\ new.buffers = rec.buffers /\ new.kind = rec.kind
      /\ new.cursor = 1 /\ new.open = rec.open
    BY <1>2 DEF Record
<1>4. records' = [records EXCEPT ![r] = new]
    BY <1>1
<1> HIDE DEF new
<1>5. WellFormed(new)
    BY <1>1, <1>2, <1>3 DEF WellFormed
<1>6. Due(new) = Due(rec)
    BY <1>3 DEF Due
<1> QED
    BY <1>1, <1>3, <1>4, <1>5, <1>6, HeapUntouched

LEMMA DiscardKeeps == ASSUME IInv, NEW r \in Records, Discard(r) PROVE IInv'
<1>1. /\ records[r] # NoRecord /\ Held(records[r]) = {}
      /\ records' = [records EXCEPT ![r] = NoRecord]
      /\ UNCHANGED <<owner, misfreed, aborted>>
    BY DEF Discard
<1>2. /\ records'[r] = NoRecord
      /\ \A u \in Records : u # r => records'[u] = records[u]
      /\ records' \in [Records -> Record \cup {NoRecord}]
    BY <1>1 DEF IInv, Shape
<1>3. Heap' = Heap
    BY <1>1 DEF Heap
<1>4. Shape'
    BY <1>1, <1>2, <1>3 DEF IInv, Shape
<1>5. ASSUME NEW u \in Records PROVE DueIsOwned(u)'
    <2>1. CASE u = r
        BY <1>2, <2>1 DEF DueIsOwned
    <2>2. CASE u # r
        <3>1. records'[u] = records[u] /\ DueIsOwned(u) /\ owner' = owner
            BY <1>1, <1>2, <2>2 DEF IInv
        <3> QED
            BY <1>3, <3>1 DEF DueIsOwned
    <2> QED
        BY <2>1, <2>2
<1>6. ASSUME NEW a \in Heap' PROVE LiveIsDue(a)'
    <2>1. /\ LiveIsDue(a) /\ a \in Addresses
          /\ owner[a] \in Records \cup {Library} /\ owner' = owner
        BY <1>1, <1>3, <1>6 DEF IInv, Shape
    <2>2. SUFFICES ASSUME owner[a] # Library
                   PROVE  /\ records'[owner[a]] # NoRecord
                          /\ \E j \in Due(records'[owner[a]]) :
                                records'[owner[a]].buffers[j] = a
        BY <2>1 DEF LiveIsDue
    <2>3. owner[a] # r
        BY <1>1, <2>1, <2>2 DEF LiveIsDue, Held, Due
    <2> QED
        BY <1>2, <2>1, <2>2, <2>3 DEF LiveIsDue
<1> QED
    BY <1>4, <1>5, <1>6 DEF IInv
-----------------------------------------------------------------------------
(* The invariant, and what follows from it *)

LEMMA ReturningKeeps == ASSUME IInv, NEW r \in Records, Returning(r) PROVE IInv'
<1>1. /\ {1, 2, BatteryFields, SmartFields} \subseteq Nat
      /\ "buffers" \in Kinds /\ "aggregate" \in Kinds
    BY BufferAssumption DEF Kinds
<1>2. ASSUME \/ Return(r, 1, "buffers") \/ Return(r, 2, "buffers")
             \/ Return(r, BatteryFields, "buffers") \/ Return(r, SmartFields, "aggregate")
      PROVE  IInv'
    BY <1>1, <1>2, ReturnKeeps
<1> QED
    BY <1>2, GetDescriptionKeeps, GetPeripheralVersionsKeeps, GetExpansionBayStatusKeeps,
       ReadGpuDescriptorKeeps, OpenKeeps
    DEF Returning, GetDeviceErrorMessage, GetProductName, GetBuildInfo, GetFlashVersions,
        GetPowerSnapshot, GetPanicInfo, GetPort80History, GetTempSensorName,
        GetRetimerVersion, GetGpioInfo, GetGpuSerial, GetNvmeVersion, GetSmartBatteryData,
        OpenDefault, OpenWithDriver

LEMMA NextInvariant == ASSUME IInv, [Next]_vars PROVE IInv'
<1>1. CASE UNCHANGED vars
    <2>1. UNCHANGED <<owner, records, misfreed, aborted>> /\ Heap' = Heap
        BY <1>1 DEF vars, Heap
    <2> QED
        BY <2>1 DEF IInv, Shape, DueIsOwned, LiveIsDue
<1>2. ASSUME NEW r \in Records, Freeing(r) PROVE IInv'
    BY <1>2, ByteBufferFreeKeeps, CloseKeeps, BeginAggregateFreeKeeps,
       AggregateFreeStepKeeps, DiscardKeeps DEF Freeing
<1>3. CASE GetModuleInventory \/ GetGpuDescriptorHeader \/ ValidateGpuDescriptor
    BY <1>3, QueryBayAndForgetKeeps
    DEF GetModuleInventory, GetGpuDescriptorHeader, ValidateGpuDescriptor
<1> QED
    BY <1>1, <1>2, <1>3, ReturningKeeps DEF Next

LEMMA Invariance == Spec => []IInv
BY InitInvariant, NextInvariant, PTL DEF Spec

\* In every reachable state each variable has its type, and an aggregate free in
\* progress stays inside its record (framework_peripheral_versions_free and
\* framework_smart_battery_data_free in lib.rs).
THEOREM BufferTypeOK == Spec => []TypeOK
<1>1. ASSUME IInv PROVE TypeOK
    BY <1>1 DEF IInv, Shape, DueIsOwned, WellFormed, TypeOK
<1> QED
    BY <1>1, Invariance, PTL

\* However the host mixes its calls, no free hits a block that is not the record's
\* own: not one freed before, not one given out again since.
THEOREM NoFreeMisses == Spec => []FreesHitTheirOwn
<1>1. ASSUME IInv PROVE FreesHitTheirOwn
    BY <1>1 DEF IInv, Shape, FreesHitTheirOwn
<1> QED
    BY <1>1, Invariance, PTL

\* Every live block is one that a record will hand back, or one that the bay query
\* forgot inside the library; no block is handed back twice.
THEOREM EveryBlockIsAccountedFor == Spec => []HeapIsAccountedFor
<1>1. ASSUME IInv PROVE HeapIsAccountedFor
    <2>1. ASSUME NEW r \in Records, records[r] # NoRecord
          PROVE  /\ \A a \in Held(records[r]) : a \in Heap /\ owner[a] = r
                 /\ \A i, j \in DOMAIN records[r].buffers :
                        /\ i # j /\ {i, j} \subseteq records[r].open
                        /\ records[r].buffers[i] = records[r].buffers[j]
                        => records[r].buffers[i] \notin Addresses
        <3>1. DueIsOwned(r)
            BY <1>1 DEF IInv
        <3>2. \A i \in records[r].open : i \in Due(records[r])
            BY <2>1, <3>1 DEF DueIsOwned, WellFormed, Due
        <3>3. \A a \in Held(records[r]) :
                  a \in Addresses /\ \E i \in Due(records[r]) : records[r].buffers[i] = a
            BY DEF Held, Due
        <3> QED
            BY <2>1, <3>1, <3>2, <3>3 DEF DueIsOwned, Unshared
    <2>2. ASSUME NEW a \in Heap, owner[a] # Library
          PROVE  records[owner[a]] # NoRecord /\ a \in Held(records[owner[a]])
        <3>1. a \in Addresses /\ LiveIsDue(a)
            BY <1>1 DEF IInv, Shape
        <3> QED
            BY <2>2, <3>1 DEF LiveIsDue, Held, Due
    <2> QED
        BY <2>1, <2>2 DEF HeapIsAccountedFor
<1> QED
    BY <1>1, Invariance, PTL
=============================================================================
