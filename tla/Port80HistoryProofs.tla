------------------------- MODULE Port80HistoryProofs -------------------------
(***************************************************************************)
(* For a ring, a chunk and a padding of any size: what a readback of the   *)
(* POST codes holds is never older than its GetInfo, and its later         *)
(* positions are never older than its earlier ones say.                    *)
(***************************************************************************)
EXTENDS Port80History, SequenceTheorems, TLAPS

Shape ==
    /\ written \in 0..MaxWrites /\ writes \in 0..MaxWrites
    /\ pc \in {"idle", "read", "done", "failed"}
    /\ offset \in 0..HistorySize
    /\ codes \in Seq(0..MaxWrites)

\* The positions the call has read.
ReadSoFar == 0..(offset - 1)

\* What is known of the entry at a position that was read: the ring held it after
\* GetInfo, and no later than now.
EntryInv(p) ==
    /\ Newest(p, writes) <= Code(p) /\ Code(p) <= written
    /\ Code(p) > 0 => Code(p) % HistorySize = p

OrderInv(p, q) == p < q /\ Code(p) > 0 => Newest(q, Code(p)) <= Code(q)

Progress ==
    /\ writes <= written /\ Len(codes) = offset
    /\ pc = "done" => offset = HistorySize
    /\ \A p \in ReadSoFar : EntryInv(p)
    /\ \A p, q \in ReadSoFar : OrderInv(p, q)

IInv == Shape /\ (pc \in {"read", "done"} => Progress)

-----------------------------------------------------------------------------
(* Positions of the ring *)

LEMMA Division ==
    ASSUME NEW n \in Int, NEW h \in Nat \ {0}
    PROVE  /\ n % h \in 0..(h - 1) /\ n \div h \in Int
           /\ n = h * (n \div h) + (n % h)
OBVIOUS

LEMMA SmallMultiple ==
    ASSUME NEW h \in Nat \ {0}, NEW k \in Int, h * k < h PROVE k <= 0
OBVIOUS

LEMMA MultiplesOrdered ==
    ASSUME NEW h \in Nat \ {0}, NEW k \in Int, k <= 0 PROVE h * k <= 0
OBVIOUS

LEMMA Distribute ==
    ASSUME NEW h \in Int, NEW j \in Int, NEW k \in Int
    PROVE  h * (j - k) = h * j - h * k
OBVIOUS

LEMMA RemainderOf ==
    ASSUME NEW h \in Nat \ {0}, NEW k \in Int, NEW p \in 0..(h - 1)
    PROVE  (p + h * k) % h = p
<1> DEFINE n == p + h * k
           d == n \div h
           r == n % h
<1>1. h * k \in Int /\ n \in Int
    OBVIOUS
<1> HIDE DEF n
<1>2. r \in 0..(h - 1) /\ d \in Int /\ n = h * d + r
    BY <1>1, Division
<1> HIDE DEF d, r
<1>3. p + h * k = h * d + r
    BY <1>2 DEF n
<1>4. h * (k - d) = h * k - h * d /\ h * (d - k) = h * d - h * k
    BY <1>2, Distribute
<1>5. h * k \in Int /\ h * d \in Int
    BY <1>2
<1>6. h * (k - d) < h /\ h * (d - k) < h
    BY <1>2, <1>3, <1>4, <1>5
<1>7. k - d <= 0 /\ d - k <= 0
    BY <1>2, <1>6, SmallMultiple
<1>8. k = d
    BY <1>2, <1>7
<1>9. p = r
    BY <1>2, <1>3, <1>5, <1>8
<1> QED
    BY <1>9 DEF n, r

\* The last of the first n writes of an endless history that went to position p.
Last(p, n) == n - ((n - p) % HistorySize)

LEMMA LastOnRing ==
    ASSUME HistorySize # 0, NEW n \in Int, NEW p \in Positions
    PROVE  /\ Last(p, n) \in Int /\ Last(p, n) <= n
           /\ Last(p, n) = p + HistorySize * ((n - p) \div HistorySize)
           /\ (n - p) \div HistorySize \in Int
           /\ n < Last(p, n) + HistorySize
           /\ Last(p, n) % HistorySize = p
<1> DEFINE h == HistorySize
           d == (n - p) \div h
           r == (n - p) % h
<1>1. h \in Nat \ {0} /\ p \in 0..(h - 1) /\ n - p \in Int
    BY Port80Assumption DEF Positions
<1>2. r \in 0..(h - 1) /\ d \in Int /\ n - p = h * d + r
    BY <1>1, Division
<1>3. Last(p, n) = n - r
    BY DEF Last
<1> HIDE DEF h, d, r
<1>4. h * d \in Int
    BY <1>1, <1>2
<1>5. n - r = p + h * d
    BY <1>1, <1>2, <1>4
<1>6. (p + h * d) % h = p
    BY <1>1, <1>2, RemainderOf
<1>7. n - r \in Int /\ n - r <= n /\ n < n - r + h
    BY <1>1, <1>2
<1> QED
    BY <1>2, <1>3, <1>5, <1>6, <1>7 DEF h, d

LEMMA LastGrows ==
    ASSUME HistorySize # 0, NEW m \in Int, NEW n \in Int, m <= n, NEW p \in Positions
    PROVE  Last(p, m) <= Last(p, n)
<1> DEFINE h == HistorySize
           j == (m - p) \div h
           k == (n - p) \div h
<1>1. h \in Nat \ {0} /\ p \in Int
    BY Port80Assumption DEF Positions
<1>2. /\ Last(p, m) = p + h * j /\ Last(p, m) <= m
      /\ Last(p, n) = p + h * k /\ n < Last(p, n) + h
      /\ Last(p, m) \in Int /\ Last(p, n) \in Int
      /\ j \in Int /\ k \in Int
    BY LastOnRing
<1> HIDE DEF h, j, k
<1>3. h * (j - k) = h * j - h * k /\ h * j \in Int /\ h * k \in Int
    BY <1>1, <1>2, Distribute
<1>4. h * (j - k) < h
    BY <1>1, <1>2, <1>3
<1>5. j - k <= 0
    BY <1>1, <1>2, <1>4, SmallMultiple
<1>6. h * (j - k) <= 0
    BY <1>1, <1>2, <1>5, MultiplesOrdered
<1> QED
    BY <1>1, <1>2, <1>3, <1>6

\* What a position holds after n writes: one of them that went there, or none.
LEMMA NewestWrite ==
    ASSUME HistorySize # 0, NEW n \in Nat, NEW p \in Positions
    PROVE  /\ Newest(p, n) \in Nat /\ Newest(p, n) <= n
           /\ Newest(p, n) > 0 => Newest(p, n) % HistorySize = p
<1>1. Newest(p, n) = IF Last(p, n) > 0 THEN Last(p, n) ELSE 0
    BY DEF Newest, Last
<1>2. Last(p, n) \in Int /\ Last(p, n) <= n /\ Last(p, n) % HistorySize = p
    BY LastOnRing
<1>3. CASE Last(p, n) > 0
    BY <1>1, <1>2, <1>3
<1>4. CASE ~(Last(p, n) > 0)
    BY <1>1, <1>2, <1>4
<1> QED
    BY <1>3, <1>4

\* What a position holds grows with the writes.
LEMMA NewestGrows ==
    ASSUME HistorySize # 0, NEW m \in Nat, NEW n \in Nat, m <= n, NEW p \in Positions
    PROVE  Newest(p, m) <= Newest(p, n)
<1>1. /\ Newest(p, m) = IF Last(p, m) > 0 THEN Last(p, m) ELSE 0
      /\ Newest(p, n) = IF Last(p, n) > 0 THEN Last(p, n) ELSE 0
    BY DEF Newest, Last
<1>2. Last(p, m) <= Last(p, n) /\ Last(p, m) \in Int /\ Last(p, n) \in Int
    BY LastGrows, LastOnRing
<1> QED
    BY <1>1, <1>2
-----------------------------------------------------------------------------
(* One response *)

LEMMA ChunkSize ==
    ASSUME Shape, offset < HistorySize
    PROVE  /\ NumEntries \in Nat \ {0} /\ offset + NumEntries <= HistorySize
           /\ HistorySize # 0 /\ HistorySize \in Nat /\ offset \in Nat
BY Port80Assumption DEF Shape, NumEntries

LEMMA EntriesTyped ==
    ASSUME Shape, HistorySize # 0, NEW first \in Nat, NEW n \in Nat, first + n <= HistorySize
    PROVE  /\ Entries(first, n) \in Seq(0..MaxWrites) /\ Len(Entries(first, n)) = n
           /\ \A i \in 1..n : Entries(first, n)[i] = Newest(first + i - 1, written)
<1>1. HistorySize \in Nat /\ MaxWrites \in Nat /\ written \in Nat /\ written <= MaxWrites
    BY Port80Assumption DEF Shape
<1>2. ASSUME NEW i \in 1..n PROVE Newest(first + i - 1, written) \in 0..MaxWrites
    <2>1. first + i - 1 \in Positions
        BY <1>1 DEF Positions
    <2>2. Newest(first + i - 1, written) \in Nat /\ Newest(first + i - 1, written) <= written
        BY <1>1, <2>1, NewestWrite
    <2> QED
        BY <1>1, <2>2
<1>3. Entries(first, n) \in [1..n -> 0..MaxWrites]
    BY <1>2 DEF Entries
<1>4. Entries(first, n) \in Seq(0..MaxWrites)
    BY <1>3, SeqDef
<1>5. Len(Entries(first, n)) = n
    BY <1>3, <1>4
<1> QED
    BY <1>4, <1>5 DEF Entries

\* A response that is long enough begins with the entries that were asked for.
LEMMA EnoughIsTheEntries ==
    ASSUME NEW n \in Nat, NEW e \in Seq(0..MaxWrites), Len(e) = n,
           NEW data \in Received(e), ~(Len(data) < n)
    PROVE  FirstOf(data, n) = e
<1> DEFINE S == (0..MaxWrites) \cup {Padding}
<1>1. e \in Seq(S) /\ \A i \in 1..n : e[i] \in S
    <2>1. e \in [1..n -> 0..MaxWrites]
        BY LenProperties
    <2>2. e \in [1..n -> S]
        BY <2>1
    <2> QED
        BY <2>2, SeqDef
<1>2. ~(\E k \in 0..(Len(e) - 1) : data = SubSeq(e, 1, k))
    <2> SUFFICES ASSUME NEW k \in 0..(Len(e) - 1), data = SubSeq(e, 1, k) PROVE FALSE
        OBVIOUS
    <2>1. \A i \in 1..k : e[i] \in S
        BY <1>1
    <2>2. Len(SubSeq(e, 1, k)) = IF 1 <= k THEN k - 1 + 1 ELSE 0
        <3> HIDE DEF S
        <3> QED
            BY <2>1, SubSeqProperties
    <2> QED
        BY <2>2
<1>3. PICK m \in 0..MaxPadding : data = e \o [i \in 1..m |-> Padding]
    BY <1>2 DEF Received
<1> DEFINE pad == [i \in 1..m |-> Padding]
<1>4. pad \in Seq(S) /\ Len(pad) \in Nat
    <2>1. m \in Nat /\ pad \in [1..m -> S]
        BY Port80Assumption
    <2>2. pad \in Seq(S)
        BY <2>1, SeqDef
    <2> QED
        BY <2>2, LenProperties
<1> HIDE DEF pad, S
<1>5. /\ data \in Seq(S)
      /\ \A i \in 1..n : data[i] = e[i]
    <2>1. data = e \o pad
        BY <1>3 DEF pad
    <2>2. /\ e \o pad \in Seq(S)
          /\ \A i \in 1..(Len(e) + Len(pad)) :
                (e \o pad)[i] = IF i <= Len(e) THEN e[i] ELSE pad[i - Len(e)]
        BY <1>1, <1>4, ConcatProperties
    <2> QED
        BY <1>4, <2>1, <2>2
<1>6. /\ SubSeq(data, 1, n) \in Seq(S) /\ Len(SubSeq(data, 1, n)) = n
      /\ \A i \in 1..n : SubSeq(data, 1, n)[i] = e[i]
    <2>1. \A i \in 1..n : data[i] \in S
        BY <1>1, <1>5
    <2>2. /\ SubSeq(data, 1, n) \in Seq(S)
          /\ Len(SubSeq(data, 1, n)) = IF 1 <= n THEN n - 1 + 1 ELSE 0
          /\ \A i \in 1..(n - 1 + 1) : SubSeq(data, 1, n)[i] = data[1 + i - 1]
        BY <2>1, SubSeqProperties
    <2>3. Len(SubSeq(data, 1, n)) = n
        BY <2>2
    <2>4. ASSUME NEW i \in 1..n PROVE SubSeq(data, 1, n)[i] = e[i]
        <3>1. i \in 1..(n - 1 + 1) /\ 1 + i - 1 = i
            OBVIOUS
        <3> QED
            BY <1>5, <2>2, <3>1
    <2> QED
        BY <2>2, <2>3, <2>4
<1>7. SubSeq(data, 1, n) = e
    BY <1>1, <1>6, SeqEqual
<1> QED
    BY <1>7 DEF FirstOf
-----------------------------------------------------------------------------
(* The steps *)

LEMMA InitInvariant == Init => IInv
BY Port80Assumption, EmptySeq DEF Init, IInv, Shape

LEMMA ReadEntry ==
    ASSUME Shape, Progress, NEW p \in ReadSoFar PROVE codes[p + 1] \in Nat
<1>1. offset \in Nat /\ Len(codes) = offset /\ codes \in Seq(0..MaxWrites)
    BY Port80Assumption DEF Shape, Progress
<1>2. p + 1 \in 1..Len(codes)
    BY <1>1 DEF ReadSoFar
<1>3. codes[p + 1] \in 0..MaxWrites
    BY <1>1, <1>2, ElementOfSeq
<1> QED
    BY <1>3, Port80Assumption

LEMMA PostCodeKeeps == ASSUME IInv, PostCode PROVE IInv'
<1>1. written < MaxWrites /\ written' = written + 1 /\ UNCHANGED <<pc, writes, offset, codes>>
    BY DEF PostCode
<1>2. Shape /\ Shape'
    BY <1>1, Port80Assumption DEF IInv, Shape
<1>3. ASSUME pc \in {"read", "done"} PROVE Progress'
    <2>1. Progress
        BY <1>3 DEF IInv
    <2>2. ASSUME NEW p \in ReadSoFar PROVE EntryInv(p)'
        <3>1. EntryInv(p) /\ codes[p + 1] \in Nat
            BY <1>2, <2>1, ReadEntry DEF Progress
        <3>2. Newest(p, writes)' = Newest(p, writes) /\ Code(p)' = codes[p + 1]
            BY <1>1 DEF Newest, Code
        <3>3. written \in Int
            BY <1>2 DEF Shape
        <3> QED
            BY <1>1, <3>1, <3>2, <3>3 DEF EntryInv, Code
    <2>3. \A p, q \in ReadSoFar : OrderInv(p, q)'
        BY <1>1, <2>1 DEF Progress, OrderInv, Code, Newest
    <2>4. writes' <= written' /\ Len(codes') = offset' /\ (pc' = "done" => offset' = HistorySize)
        BY <1>1, <1>2, <2>1 DEF Progress, Shape
    <2>5. ReadSoFar' = ReadSoFar
        BY <1>1 DEF ReadSoFar
    <2> QED
        BY <2>2, <2>3, <2>4, <2>5 DEF Progress
<1> QED
    BY <1>1, <1>2, <1>3 DEF IInv

LEMMA FailKeeps == ASSUME IInv, Fail, UNCHANGED written PROVE IInv'
BY EmptySeq DEF Fail, IInv, Shape

LEMMA GetInfoKeeps == ASSUME IInv, GetInfo PROVE IInv'
<1>1. CASE Fail
    BY <1>1, FailKeeps DEF GetInfo
<1>2. CASE writes' = written /\ offset' = 0 /\ codes' = << >> /\ pc' = "read"
    <2>1. written' = written
        BY DEF GetInfo
    <2>2. Shape'
        BY <1>2, <2>1, EmptySeq, Port80Assumption DEF IInv, Shape
    <2>3. ReadSoFar' = {}
        BY <1>2 DEF ReadSoFar
    <2>4. writes' <= written' /\ Len(codes') = offset'
        BY <1>2, <2>1 DEF IInv, Shape
    <2>5. Progress'
        BY <1>2, <2>3, <2>4 DEF Progress
    <2> QED
        BY <2>2, <2>5 DEF IInv
<1> QED
    BY <1>1, <1>2 DEF GetInfo

\* A chunk that came whole: every entry is what the ring holds now.
LEMMA ChunkKeeps ==
    ASSUME IInv, pc = "read", offset < HistorySize,
           codes' = codes \o Entries(offset, NumEntries), offset' = offset + NumEntries,
           UNCHANGED <<written, pc, writes>>
    PROVE  IInv'
<1>1. Shape /\ Progress
    BY DEF IInv
<1>2. /\ NumEntries \in Nat \ {0} /\ offset + NumEntries <= HistorySize
      /\ HistorySize # 0 /\ HistorySize \in Nat /\ offset \in Nat
    BY <1>1, ChunkSize
<1> DEFINE n == NumEntries
           e == Entries(offset, n)
<1>3. /\ e \in Seq(0..MaxWrites) /\ Len(e) = n
      /\ \A i \in 1..n : e[i] = Newest(offset + i - 1, written)
    BY <1>1, <1>2, EntriesTyped
<1> HIDE DEF n, e
<1>4. /\ codes' \in Seq(0..MaxWrites) /\ Len(codes') = Len(codes) + Len(e)
      /\ \A i \in 1..(Len(codes) + Len(e)) :
            codes'[i] = IF i <= Len(codes) THEN codes[i] ELSE e[i - Len(codes)]
    BY <1>1, <1>3, ConcatProperties DEF Shape, n, e
<1>5. n \in Nat \ {0} /\ offset' = offset + n /\ offset + n <= HistorySize /\ Len(codes) = offset
    BY <1>1, <1>2 DEF Progress, n
<1>6. Len(codes') = offset'
    BY <1>3, <1>4, <1>5
<1>7. Shape'
    BY <1>1, <1>2, <1>4, <1>5 DEF Shape
<1>8. ASSUME NEW p \in ReadSoFar'
      PROVE  \/ p \in ReadSoFar /\ Code(p)' = Code(p)
             \/ p \notin ReadSoFar /\ Code(p)' = Newest(p, written)
    <2>1. p \in 0..(offset + n - 1)
        BY <1>5 DEF ReadSoFar
    <2>2. p + 1 \in 1..(Len(codes) + Len(e))
        BY <1>2, <1>3, <1>5, <2>1
    <2>3. Code(p)' = IF p + 1 <= offset THEN codes[p + 1] ELSE e[p + 1 - offset]
        <3> DEFINE i == p + 1
        <3>1. Code(p)' = codes'[i]
            BY DEF Code
        <3>2. i \in 1..(Len(codes) + Len(e))
            BY <2>2
        <3> HIDE DEF i
        <3>3. codes'[i] = IF i <= Len(codes) THEN codes[i] ELSE e[i - Len(codes)]
            BY <1>4, <3>2
        <3> QED
            BY <1>2, <1>5, <2>1, <3>1, <3>3 DEF i
    <2>4. CASE p + 1 <= offset
        <3>1. p \in ReadSoFar
            BY <1>2, <2>1, <2>4 DEF ReadSoFar
        <3> QED
            BY <2>3, <2>4, <3>1 DEF Code
    <2>5. CASE ~(p + 1 <= offset)
        <3>1. p \notin ReadSoFar
            BY <1>2, <2>1, <2>5 DEF ReadSoFar
        <3>2. p + 1 - offset \in 1..n /\ offset + (p + 1 - offset) - 1 = p
            BY <1>2, <1>5, <2>1, <2>5
        <3>3. e[p + 1 - offset] = Newest(p, written)
            BY <1>3, <3>2
        <3> QED
            BY <2>3, <2>5, <3>1, <3>3
    <2> QED
        BY <2>4, <2>5
<1>9. ReadSoFar' \subseteq Positions /\ written \in Nat /\ writes \in Nat /\ writes <= written
    <2>1. ReadSoFar' = 0..(offset + n - 1)
        BY <1>5 DEF ReadSoFar
    <2> QED
        BY <1>1, <1>2, <1>5, <2>1, Port80Assumption DEF Positions, Shape, Progress
<1>10. ASSUME NEW p \in ReadSoFar' PROVE EntryInv(p)' /\ Code(p)' \in Nat
    <2>1. CASE p \in ReadSoFar /\ Code(p)' = Code(p)
        <3>1. EntryInv(p)
            BY <1>1, <2>1 DEF Progress
        <3>2. codes[p + 1] \in Nat
            BY <1>1, <2>1, ReadEntry
        <3> QED
            BY <2>1, <3>1, <3>2 DEF EntryInv, Newest, Code
    <2>2. CASE Code(p)' = Newest(p, written)
        <3>1. p \in Positions
            BY <1>9
        <3>2. /\ Newest(p, written) \in Nat /\ Newest(p, written) <= written
              /\ (Newest(p, written) > 0 => Newest(p, written) % HistorySize = p)
            BY <1>2, <1>9, <3>1, NewestWrite
        <3>3. Newest(p, writes) <= Newest(p, written)
            BY <1>2, <1>9, <3>1, NewestGrows
        <3>4. Newest(p, writes)' = Newest(p, writes)
            BY DEF Newest
        <3> QED
            BY <2>2, <3>2, <3>3, <3>4 DEF EntryInv
    <2> QED
        BY <1>8, <2>1, <2>2
<1>11. ASSUME NEW p \in ReadSoFar', NEW q \in ReadSoFar' PROVE OrderInv(p, q)'
    <2> SUFFICES ASSUME p < q, Code(p)' > 0 PROVE Newest(q, Code(p))' <= Code(q)'
        BY DEF OrderInv
    <2>1. Newest(q, Code(p))' = Newest(q, Code(p)')
        BY DEF Newest
    <2>2. CASE q \in ReadSoFar /\ Code(q)' = Code(q)
        <3>1. p \in ReadSoFar
            BY <1>2, <1>5, <2>2 DEF ReadSoFar
        <3>2. Code(p)' = Code(p) /\ OrderInv(p, q)
            BY <1>1, <1>8, <2>2, <3>1 DEF Progress
        <3> QED
            BY <2>1, <2>2, <3>2 DEF OrderInv
    <2>3. CASE Code(q)' = Newest(q, written)
        <3>1. Code(p)' \in Nat /\ Code(p)' <= written
            BY <1>10 DEF EntryInv
        <3>2. Newest(q, Code(p)') <= Newest(q, written)
            BY <1>2, <1>9, <3>1, NewestGrows
        <3> QED
            BY <2>1, <2>3, <3>2
    <2> QED
        BY <1>8, <2>2, <2>3
<1>12. Progress'
    BY <1>6, <1>9, <1>10, <1>11 DEF Progress
<1> QED
    BY <1>7, <1>12 DEF IInv

LEMMA ReadBufferKeeps == ASSUME IInv, ReadBuffer PROVE IInv'
<1>1. pc = "read" /\ offset < HistorySize /\ UNCHANGED written
    BY DEF ReadBuffer
<1>2. CASE Fail
    BY <1>1, <1>2, FailKeeps
<1>3. ASSUME NEW data \in Received(Entries(offset, NumEntries)), ~(Len(data) < NumEntries),
             codes' = Extend(codes, FirstOf(data, NumEntries)),
             offset' = offset + NumEntries, UNCHANGED <<pc, writes>>
      PROVE  IInv'
    <2>1. Shape
        BY DEF IInv
    <2>2. /\ NumEntries \in Nat /\ offset \in Nat /\ offset + NumEntries <= HistorySize
          /\ HistorySize # 0
        BY <1>1, <2>1, ChunkSize
    <2>3. /\ Entries(offset, NumEntries) \in Seq(0..MaxWrites)
          /\ Len(Entries(offset, NumEntries)) = NumEntries
        BY <2>1, <2>2, EntriesTyped
    <2>4. FirstOf(data, NumEntries) = Entries(offset, NumEntries)
        BY <1>3, <2>2, <2>3, EnoughIsTheEntries
    <2>5. codes' = codes \o Entries(offset, NumEntries)
        BY <1>3, <2>4 DEF Extend
    <2> QED
        BY <1>1, <1>3, <2>5, ChunkKeeps
<1> QED
    BY <1>2, <1>3 DEF ReadBuffer, ReadFrom, TooShort

LEMMA ReturnKeeps == ASSUME IInv, Return PROVE IInv'
<1>1. /\ pc = "read" /\ offset >= HistorySize /\ pc' = "done"
      /\ UNCHANGED <<written, writes, offset, codes>>
    BY DEF Return
<1>2. Shape /\ Progress /\ Shape'
    BY <1>1 DEF IInv, Shape
<1>3. offset = HistorySize
    BY <1>1, <1>2, Port80Assumption DEF Shape
<1>4. ReadSoFar' = ReadSoFar
    BY <1>1 DEF ReadSoFar
<1>5. \A p \in ReadSoFar : EntryInv(p)'
    BY <1>1, <1>2 DEF Progress, EntryInv, Code, Newest
<1>6. \A p, q \in ReadSoFar : OrderInv(p, q)'
    BY <1>1, <1>2 DEF Progress, OrderInv, Code, Newest
<1>7. Progress'
    BY <1>1, <1>2, <1>3, <1>4, <1>5, <1>6 DEF Progress
<1> QED
    BY <1>2, <1>7 DEF IInv

LEMMA NextInvariant == ASSUME IInv, [Next]_vars PROVE IInv'
<1>1. CASE UNCHANGED vars
    BY <1>1 DEF vars, IInv, Shape, Progress, ReadSoFar, EntryInv, OrderInv, Code, Newest
<1> QED
    BY <1>1, PostCodeKeeps, GetInfoKeeps, ReadBufferKeeps, ReturnKeeps DEF Next

LEMMA Invariance == Spec => []IInv
BY InitInvariant, NextInvariant, PTL DEF Spec
-----------------------------------------------------------------------------
(* What follows from the invariant *)

\* In every reachable state each variable has its type; a readback that succeeds has
\* one entry for each position of the ring and never one of the padding
\* (port80_read, the slice to `expected`).
THEOREM Port80TypeOK == Spec => []TypeOK
<1>1. ASSUME IInv PROVE TypeOK
    BY <1>1 DEF IInv, Shape, Progress, TypeOK
<1> QED
    BY <1>1, Invariance, PTL

LEMMA ReadToTheEnd ==
    ASSUME IInv, pc = "done" PROVE Progress /\ ReadSoFar = Positions
BY DEF IInv, Progress, ReadSoFar, Positions

\* However the writes of the CPU fall between the chunks, no entry of a readback that
\* succeeds is older than what the ring held at GetInfo (port80_read).
THEOREM EntriesAreNotOlder == Spec => []NothingOlderThanWrites
<1>1. ASSUME IInv PROVE NothingOlderThanWrites
    <2> SUFFICES ASSUME pc = "done", NEW p \in Positions
                 PROVE  /\ Code(p) >= Newest(p, writes)
                        /\ Code(p) > 0 => Code(p) % HistorySize = p
        BY DEF NothingOlderThanWrites
    <2>1. EntryInv(p)
        BY <1>1, ReadToTheEnd DEF Progress
    <2> QED
        BY <2>1 DEF EntryInv
<1> QED
    BY <1>1, Invariance, PTL

\* The chunks of a readback can be merged: each position shows the ring at a time
\* that is no earlier than the newest write at the positions before it.
THEOREM TornChunksMerge == Spec => []LaterPositionsAreLater
<1>1. ASSUME IInv PROVE LaterPositionsAreLater
    <2> SUFFICES ASSUME pc = "done", NEW p \in Positions, NEW q \in Positions,
                        p < q, Code(p) > 0
                 PROVE  Code(q) >= Newest(q, Code(p))
        BY DEF LaterPositionsAreLater
    <2>1. OrderInv(p, q)
        BY <1>1, ReadToTheEnd DEF Progress
    <2> QED
        BY <2>1 DEF OrderInv
<1> QED
    BY <1>1, Invariance, PTL
=============================================================================
