----------------------- MODULE DeviceErrorStoreProofs -----------------------
(***************************************************************************)
(* Proofs about DeviceErrorStore for every number of threads, every limit, *)
(* every token width and every number of errors.  The type invariant needs *)
(* nothing more.  The others hold while the token counter has not gone all *)
(* the way round (OneLap): after 2^32 errors a token names two errors.     *)
(***************************************************************************)
EXTENDS DeviceErrorStore, SequenceTheorems, TLAPS

\* What a push and its evictions leave of a store within its limit: the
\* youngest entries, at most Limit of them, the new one last.
LEMMA PushKeepsYoungest ==
    ASSUME NEW q \in Seq(Entry), Len(q) <= Limit,
           NEW e \in Entry,
           NEW r, r = Evict(Append(q, e))
    PROVE  /\ r \in Seq(Entry)
           /\ Len(r) = IF Len(q) < Limit THEN Len(q) + 1 ELSE Limit
           /\ r[Len(r)] = e
           /\ \A i \in 1..(Len(r) - 1) : r[i] = q[Len(q) + 1 - Len(r) + i]
<1> DEFINE a == Append(q, e)
<1>1. /\ a \in Seq(Entry) /\ Len(a) = Len(q) + 1 /\ a[Len(q) + 1] = e
      /\ \A i \in 1..Len(q) : a[i] = q[i]
  OBVIOUS
<1>2. r = Evict(a)
  OBVIOUS
<1>3. Len(q) \in Nat /\ Limit \in Nat \ {0}
  BY StoreAssumption
<1> HIDE DEF a
<1>4. CASE Len(q) = Limit
  <2>1. \A i \in 2..Len(a) : a[i] \in Entry
    BY <1>1
  <2>2. /\ SubSeq(a, 2, Len(a)) \in Seq(Entry)
        /\ Len(SubSeq(a, 2, Len(a))) = IF 2 <= Len(a) THEN Len(a) - 2 + 1 ELSE 0
        /\ \A i \in 1..(Len(a) - 2 + 1) : SubSeq(a, 2, Len(a))[i] = a[2 + i - 1]
    BY <1>1, <2>1, SubSeqProperties
  <2>3. r = SubSeq(a, 2, Len(a))
    <3>1. Len(a) > Limit /\ Len(a) - Limit + 1 = 2
      BY <1>1, <1>3, <1>4
    <3> QED
      BY <3>1, <1>2 DEF Evict
  <2>4. /\ Len(r) = Limit
        /\ \A i \in 1..Limit : r[i] = a[i + 1]
    BY <2>2, <2>3, <1>1, <1>3, <1>4
  <2>5. r[Len(r)] = e
    BY <2>4, <1>1, <1>3, <1>4
  <2>6. \A i \in 1..(Len(r) - 1) : r[i] = q[Len(q) + 1 - Len(r) + i]
    BY <2>4, <1>1, <1>3, <1>4
  <2>7. r \in Seq(Entry)
    BY <2>2, <2>3
  <2>8. Len(r) = IF Len(q) < Limit THEN Len(q) + 1 ELSE Limit
    BY <2>4, <1>3, <1>4
  <2> QED
    BY <2>5, <2>6, <2>7, <2>8
<1>5. CASE Len(q) < Limit
  <2>1. r = a
    BY <1>1, <1>2, <1>3, <1>5 DEF Evict
  <2> QED
    BY <2>1, <1>1, <1>3, <1>5
<1> QED
  BY <1>3, <1>4, <1>5

\* The wrapping counter stays a token.
LEMMA SuccessorIsToken == ASSUME NEW id \in Tokens PROVE Successor(id) \in Tokens
BY StoreAssumption DEF Successor, Tokens, MinId

\* Every reachable state is well typed and the store within its limit
\* (store_device_error_message, status_from_error).
THEOREM TypeCorrect == Spec => []TypeOK
<1>1. Init => TypeOK
  BY StoreAssumption DEF Init, TypeOK, Tokens, MinId
<1>2. TypeOK /\ [Next]_vars => TypeOK'
  <2> SUFFICES ASSUME TypeOK, [Next]_vars PROVE TypeOK'
    OBVIOUS
  <2>1. ASSUME NEW t \in Threads, RaiseResponse(t) PROVE TypeOK'
    BY <2>1, StoreAssumption DEF RaiseResponse, Report, TypeOK, Codes
  <2>2. ASSUME NEW t \in Threads, TakeToken(t) PROVE TypeOK'
    BY <2>2, StoreAssumption, SuccessorIsToken DEF TakeToken, TypeOK, Entry
  <2>3. ASSUME NEW t \in Threads, PushAndReturn(t) PROVE TypeOK'
    <3>1. pending[t] \in Entry
      BY <2>3 DEF PushAndReturn, TypeOK
    <3>2. /\ store' \in Seq(Entry) /\ Len(store') <= Limit
      <4>1. store \in Seq(Entry) /\ Len(store) <= Limit
        BY DEF TypeOK
      <4>2. store' = Evict(Append(store, pending[t]))
        BY <2>3 DEF PushAndReturn
      <4>3. /\ store' \in Seq(Entry)
            /\ Len(store') = IF Len(store) < Limit THEN Len(store) + 1 ELSE Limit
        BY <3>1, <4>1, <4>2, PushKeepsYoungest
      <4> QED
        BY <4>1, <4>3, StoreAssumption
    <3>3. \A s \in statuses' :
             s.code \in Codes /\ s.detail \in Int /\ s.error \in Messages \cup {NoMessage}
      BY <2>3, <3>1 DEF PushAndReturn, Report, TypeOK, Codes, Entry, Tokens
    <3> QED
      BY <2>3, <3>1, <3>2, <3>3 DEF PushAndReturn, TypeOK
  <2>4. CASE UNCHANGED vars
    BY <2>4 DEF vars, TypeOK
  <2> QED
    BY <2>1, <2>2, <2>3, <2>4 DEF Next
<1> QED
  BY <1>1, <1>2, PTL DEF Spec
-----------------------------------------------------------------------------
(* Tokens *)

\* Inside one lap the counter gives every failing call a token of its own.
LEMMA IdOfInjective ==
    ASSUME NEW m \in 1..IdSpace, NEW n \in 1..IdSpace, IdOf(m) = IdOf(n)
    PROVE  m = n
BY StoreAssumption DEF IdOf, IdSpace

\* The wrapping increment steps through the tokens in the order of IdOf.
LEMMA SuccessorOfIdOf ==
    ASSUME NEW n \in 1..IdSpace, n < IdSpace
    PROVE  Successor(IdOf(n)) = IdOf(n + 1)
BY StoreAssumption DEF IdOf, IdSpace, Successor, MinId

-----------------------------------------------------------------------------
(* The inductive invariant *)

\* The store starts out empty, with its first token untaken.
LEMMA InitStoreInv == Init => StoreInv
<1> SUFFICES ASSUME Init PROVE StoreInv
  OBVIOUS
<1>1. TypeOK
  BY StoreAssumption DEF Init, TypeOK, Tokens, MinId
<1>2. CounterInv
  BY StoreAssumption DEF Init, CounterInv, IdOf
<1>3. IssuedInv /\ DistinctInv /\ StatusInv
  BY DEF Init, IssuedInv, DistinctInv, StatusInv
<1>4. WindowInv
  BY StoreAssumption DEF Init, WindowInv
<1> QED
  BY <1>1, <1>2, <1>3, <1>4 DEF StoreInv

\* fetch_add hands a thread a token that nobody else has or ever had.
LEMMA TakeTokenKeepsStoreInv ==
    ASSUME OneLap, StoreInv, TypeOK', NEW t \in Threads, TakeToken(t)
    PROVE  StoreInv'
<1> USE DEF StoreInv
<1>1. /\ issued \in Nat /\ issued < IdSpace /\ issued' = issued + 1
      /\ nextId = IdOf(issued + 1) /\ nextId' = Successor(nextId)
      /\ store' = store /\ pushed' = pushed /\ statuses' = statuses
      /\ IdSpace \in Nat
  BY StoreAssumption DEF TakeToken, OneLap, TypeOK, CounterInv, IdSpace
<1>2. PICK m \in Messages : pending' = [pending EXCEPT ![t] = [id |-> nextId, message |-> m]]
  BY DEF TakeToken
<1>3. pending'[t].id = nextId /\ \A u \in Threads : u # t => pending'[u] = pending[u]
  BY <1>2 DEF TypeOK
<1>4. nextId \notin IssuedIds
  <2> SUFFICES ASSUME NEW n \in 1..issued, IdOf(n) = nextId PROVE FALSE
    BY DEF IssuedIds
  <2> QED
    BY <1>1, IdOfInjective
<1>5. IssuedIds \subseteq IssuedIds'
  BY <1>1 DEF IssuedIds
<1>6. nextId \in IssuedIds'
  BY <1>1 DEF IssuedIds
<1>7. CounterInv'
  BY <1>1, SuccessorOfIdOf DEF CounterInv
<1>8. IssuedInv'
  <2>1. \A u \in Threads : pending'[u] # NoEntry => pending'[u].id \in IssuedIds'
    <3> SUFFICES ASSUME NEW u \in Threads, pending'[u] # NoEntry
                 PROVE  pending'[u].id \in IssuedIds'
      OBVIOUS
    <3>1. CASE u = t
      BY <3>1, <1>3, <1>6
    <3>2. CASE u # t
      BY <3>2, <1>3, <1>5 DEF IssuedInv
    <3> QED
      BY <3>1, <3>2
  <2>2. \A i \in 1..Len(pushed) : pushed[i].id \in IssuedIds'
    BY <1>5 DEF IssuedInv
  <2> QED
    BY <1>1, <2>1, <2>2 DEF IssuedInv
<1>9. DistinctInv'
  <2>1. \A u, v \in Threads :
           u # v /\ pending'[u] # NoEntry /\ pending'[v] # NoEntry
              => pending'[u].id # pending'[v].id
    BY <1>3, <1>4 DEF DistinctInv, IssuedInv
  <2>2. \A u \in Threads, i \in 1..Len(pushed) :
           pending'[u] # NoEntry => pending'[u].id # pushed[i].id
    BY <1>3, <1>4 DEF DistinctInv, IssuedInv
  <2> QED
    BY <1>1, <2>1, <2>2 DEF DistinctInv
<1>10. WindowInv' /\ StatusInv'
  BY <1>1 DEF WindowInv, StatusInv
<1> QED
  BY <1>7, <1>8, <1>9, <1>10

\* A push moves the entry in flight to the young end of the store and of the
\* history, and evicts what falls out of the window.
LEMMA PushKeepsStoreInv ==
    ASSUME StoreInv, TypeOK', NEW t \in Threads, PushAndReturn(t)
    PROVE  StoreInv'
<1> USE DEF StoreInv
<1> DEFINE e == pending[t]
<1>1. /\ e # NoEntry /\ e \in Entry
      /\ store' = Evict(Append(store, e)) /\ pushed' = Append(pushed, e)
      /\ pending' = [pending EXCEPT ![t] = NoEntry]
      /\ nextId' = nextId /\ issued' = issued
      /\ store \in Seq(Entry) /\ Len(store) <= Limit /\ pushed \in Seq(Entry)
  BY DEF PushAndReturn, TypeOK
<1>2. /\ pending'[t] = NoEntry
      /\ \A u \in Threads : u # t => pending'[u] = pending[u]
  BY <1>1 DEF TypeOK
<1>3. /\ Len(pushed') = Len(pushed) + 1
      /\ pushed'[Len(pushed) + 1] = e
      /\ \A i \in 1..Len(pushed) : pushed'[i] = pushed[i]
      /\ Len(pushed) \in Nat
  BY <1>1
<1>4. /\ Len(store') = IF Len(store) < Limit THEN Len(store) + 1 ELSE Limit
      /\ store'[Len(store')] = e
      /\ \A i \in 1..(Len(store') - 1) : store'[i] = store[Len(store) + 1 - Len(store') + i]
  BY <1>1, PushKeepsYoungest
<1> HIDE DEF e
<1>5. CounterInv'
  BY <1>1 DEF CounterInv
<1>6. IssuedInv'
  <2>1. \A i \in 1..Len(pushed') : pushed'[i] = e \/ (i \in 1..Len(pushed) /\ pushed'[i] = pushed[i])
    BY <1>3
  <2>2. e.id \in IssuedIds
    BY <1>1 DEF IssuedInv, e
  <2> QED
    BY <1>1, <1>2, <2>1, <2>2 DEF IssuedInv, IssuedIds
<1>7. DistinctInv'
  <2>1. \A u \in Threads : u # t /\ pending[u] # NoEntry => pending[u].id # e.id
    BY <1>1 DEF DistinctInv, e
  <2>2. \A i \in 1..Len(pushed) : e.id # pushed[i].id
    BY <1>1 DEF DistinctInv, e
  <2>3. \A i, j \in 1..Len(pushed') : i # j => pushed'[i].id # pushed'[j].id
    BY <1>3, <2>2 DEF DistinctInv
  <2>4. \A u \in Threads, i \in 1..Len(pushed') :
           pending'[u] # NoEntry => pending'[u].id # pushed'[i].id
    BY <1>2, <1>3, <2>1 DEF DistinctInv
  <2>5. \A u, v \in Threads :
           u # v /\ pending'[u] # NoEntry /\ pending'[v] # NoEntry
              => pending'[u].id # pending'[v].id
    BY <1>2 DEF DistinctInv
  <2> QED
    BY <2>3, <2>4, <2>5 DEF DistinctInv
<1>8. WindowInv'
  <2>1. Len(store) = IF Len(pushed) <= Limit THEN Len(pushed) ELSE Limit
    BY DEF WindowInv
  <2>2. Len(store') = IF Len(pushed') <= Limit THEN Len(pushed') ELSE Limit
    BY <1>3, <1>4, <2>1, StoreAssumption
  <2>0. Len(store) \in Nat /\ Len(store) <= Limit /\ Limit \in Nat \ {0}
    BY <1>1, StoreAssumption
  <2>3. ASSUME NEW i \in 1..Len(store')
        PROVE  store'[i] = pushed'[Len(pushed') - Len(store') + i]
    <3>1. CASE i = Len(store')
      BY <3>1, <1>3, <1>4, <2>2, StoreAssumption
    <3>2. CASE i # Len(store')
      <4> DEFINE k == Len(store) + 1 - Len(store') + i
      <4>0. i \in 1..(Len(store') - 1)
        BY <3>2, <2>0, <1>4
      <4>1. Len(store') = Len(store) \/ Len(store') = Len(store) + 1
        BY <1>4, <2>0
      <4>2. k \in 1..Len(store)
        BY <4>0, <4>1, <2>0
      <4>3. store'[i] = store[k]
        BY <4>0, <1>4
      <4>4. store[k] = pushed[Len(pushed) - Len(store) + k]
        BY <4>2 DEF WindowInv
      <4>5. /\ Len(pushed) - Len(store) + k = Len(pushed') - Len(store') + i
            /\ Len(pushed) - Len(store) + k \in 1..Len(pushed)
        <5>1. Len(store) <= Len(pushed)
          BY <2>0, <2>1, <1>3
        <5> QED
          BY <5>1, <4>1, <4>2, <2>0, <1>3
      <4> HIDE DEF k
      <4> QED
        BY <4>3, <4>4, <4>5, <1>3
    <3> QED
      BY <3>1, <3>2
  <2> QED
    BY <2>2, <2>3 DEF WindowInv
<1>9. StatusInv'
  <2> SUFFICES ASSUME NEW s \in statuses', s.code = "DeviceError"
               PROVE  \E i \in 1..Len(pushed') :
                         pushed'[i].id = s.detail /\ pushed'[i].message = s.error
    BY DEF StatusInv
  <2>1. CASE s \in statuses
    BY <2>1, <1>3 DEF StatusInv
  <2>2. CASE s \notin statuses
    <3>1. s = [code |-> "DeviceError", detail |-> e.id, error |-> e.message]
      BY <2>2 DEF PushAndReturn, Report, e
    <3>2. Len(pushed) + 1 \in 1..Len(pushed')
      BY <1>3
    <3> QED
      BY <3>1, <3>2, <1>3
  <2> QED
    BY <2>1, <2>2
<1> QED
  BY <1>5, <1>6, <1>7, <1>8, <1>9

\* The bookkeeping invariant holds for as long as the counter stays in its lap
\* (store_device_error_message: fetch_add before lock, push and pop under it).
THEOREM StoreInvariant == ASSUME OneLap PROVE Spec => []StoreInv
<1>1. Init => StoreInv
  BY InitStoreInv
<1>2. StoreInv /\ TypeOK' /\ [Next]_vars => StoreInv'
  <2> SUFFICES ASSUME StoreInv, TypeOK', [Next]_vars PROVE StoreInv'
    OBVIOUS
  <2>1. ASSUME NEW t \in Threads, RaiseResponse(t) PROVE StoreInv'
    BY <2>1 DEF RaiseResponse, Report, StoreInv, CounterInv, IssuedInv, IssuedIds,
                DistinctInv, WindowInv, StatusInv
  <2>2. ASSUME NEW t \in Threads, TakeToken(t) PROVE StoreInv'
    BY <2>2, TakeTokenKeepsStoreInv
  <2>3. ASSUME NEW t \in Threads, PushAndReturn(t) PROVE StoreInv'
    BY <2>3, PushKeepsStoreInv
  <2>4. CASE UNCHANGED vars
    BY <2>4 DEF vars, StoreInv, CounterInv, IssuedInv, IssuedIds, DistinctInv,
                WindowInv, StatusInv
  <2> QED
    BY <2>1, <2>2, <2>3, <2>4 DEF Next
<1> QED
  BY <1>1, <1>2, TypeCorrect, PTL DEF Spec
-----------------------------------------------------------------------------
(* What a lookup answers *)

\* find() on a token that one stored entry carries returns that entry's message.
LEMMA FirstMatchOfStored ==
    ASSUME NEW k \in 1..Len(store), NEW token,
           \A j \in 1..Len(store) : store[j].id = token <=> j = k
    PROVE  FirstMatch(token) = store[k].message
<1> DEFINE hits == {j \in 1..Len(store) : store[j].id = token}
           first == CHOOSE j \in hits : \A l \in hits : j <= l
<1>1. hits = {k}
  OBVIOUS
<1>2. k \in Int
  OBVIOUS
<1>3. first = k
  BY <1>1, <1>2
<1> QED
  BY <1>1, <1>3 DEF FirstMatch

\* The store holds the entries pushed last, so a lookup by the token of the i-th
\* push finds that push or nothing.
LEMMA LookupByPush ==
    ASSUME StoreInv, NEW i \in 1..Len(pushed), NEW token, token = pushed[i].id
    PROVE  /\ i > Len(pushed) - Limit => FirstMatch(token) = pushed[i].message
           /\ i <= Len(pushed) - Limit => FirstMatch(token) = NoMessage
<1> DEFINE offset == Len(pushed) - Len(store)
<1>1. /\ Len(pushed) \in Nat /\ Len(store) \in Nat /\ Limit \in Nat
      /\ Len(store) = IF Len(pushed) <= Limit THEN Len(pushed) ELSE Limit
  BY StoreAssumption DEF StoreInv, TypeOK, WindowInv
<1>2. \A j \in 1..Len(store) : offset + j \in 1..Len(pushed)
  BY <1>1
<1>3. \A j \in 1..Len(store) : store[j] = pushed[offset + j]
  BY DEF StoreInv, WindowInv
<1>4. \A j \in 1..Len(store) : store[j].id = token <=> offset + j = i
  <2> HIDE DEF offset
  <2> QED
    BY <1>2, <1>3 DEF StoreInv, DistinctInv
<1>5. ASSUME i > Len(pushed) - Limit
      PROVE  FirstMatch(token) = pushed[i].message
  <2> DEFINE k == i - offset
  <2>1. k \in 1..Len(store)
    BY <1>1, <1>5
  <2>2. offset + k = i
    <3>1. i \in Int /\ offset \in Int
      BY <1>1
    <3> HIDE DEF offset
    <3> QED
      BY <3>1
  <2>3. \A j \in 1..Len(store) : offset + j = i <=> j = k
    BY <1>1
  <2> HIDE DEF k, offset
  <2>4. FirstMatch(token) = store[k].message
    BY <1>4, <2>1, <2>3, FirstMatchOfStored
  <2> QED
    BY <2>1, <2>2, <2>4, <1>3
<1>6. ASSUME i <= Len(pushed) - Limit
      PROVE  FirstMatch(token) = NoMessage
  <2>1. \A j \in 1..Len(store) : offset + j # i
    BY <1>1, <1>6
  <2> HIDE DEF offset
  <2> QED
    BY <2>1, <1>4 DEF FirstMatch
<1> QED
  BY <1>5, <1>6

\* The positive half, as a state formula that can be primed.
LookupsHit ==
    \A i \in 1..Len(pushed) : \A token :
        token = pushed[i].id /\ i > Len(pushed) - Limit
            => FirstMatch(token) = pushed[i].message

\* Every token inside the window finds its own message.
LEMMA StoredTokensHit == StoreInv => LookupsHit
BY LookupByPush DEF LookupsHit

\* The bookkeeping makes retention exact.
LEMMA StoreInvGivesRetention == StoreInv => RetainedExactly
<1> SUFFICES ASSUME StoreInv, NEW i \in 1..Len(pushed)
             PROVE  GetDeviceErrorMessage(pushed[i].id) =
                       IF pushed[i].id > 0 /\ i > Len(pushed) - Limit
                       THEN pushed[i].message ELSE NoMessage
  BY DEF RetainedExactly
<1>1. pushed[i] \in Entry /\ Len(pushed) \in Nat
  BY DEF StoreInv, TypeOK
<1>2. pushed[i].id \in Int /\ Limit \in Nat
  BY <1>1, StoreAssumption DEF Entry, Tokens, MinId
<1> QED
  BY <1>1, <1>2, LookupByPush DEF GetDeviceErrorMessage

\* A device error stays readable through its token until Limit younger ones were
\* pushed, by whatever threads, and not a push longer.
THEOREM RetentionIsExact == ASSUME OneLap PROVE Spec => []RetainedExactly
BY StoreInvariant, StoreInvGivesRetention, PTL

\* A status of the host answers with its own error's message or with none.
THEOREM StatusesAnswerTruly == ASSUME OneLap PROVE Spec => []NeverAnothersMessage
<1>1. StoreInv /\ RetainedExactly => NeverAnothersMessage
  <2> SUFFICES ASSUME StoreInv, RetainedExactly, NEW s \in statuses
               PROVE  MessageOf(s) \in {s.error, NoMessage}
    BY DEF NeverAnothersMessage
  <2>1. CASE s.code # "DeviceError"
    BY <2>1 DEF MessageOf
  <2>2. CASE s.code = "DeviceError"
    <3>1. PICK i \in 1..Len(pushed) : pushed[i].id = s.detail /\ pushed[i].message = s.error
      BY <2>2 DEF StoreInv, StatusInv
    <3> QED
      BY <2>2, <3>1 DEF MessageOf, RetainedExactly
  <2> QED
    BY <2>1, <2>2
<1> QED
  BY <1>1, StoreInvariant, RetentionIsExact, PTL

\* No call gives a status back the message it once lost.
THEOREM LostMessagesStayLost == ASSUME OneLap PROVE Spec => LostStaysLost
<1>1. ASSUME StoreInv, RetainedExactly, RetainedExactly', [Next]_vars,
             NEW s \in statuses, MessageOf(s) = NoMessage
      PROVE  MessageOf(s)' = NoMessage
  <2>1. CASE s.code # "DeviceError"
    BY <2>1 DEF MessageOf
  <2>2. CASE s.code = "DeviceError"
    <3>1. PICK i \in 1..Len(pushed) : pushed[i].id = s.detail /\ pushed[i].message = s.error
      BY <1>1, <2>2 DEF StoreInv, StatusInv
    <3>2. pushed[i] \in Entry /\ Len(pushed) \in Nat /\ Limit \in Nat
      BY <1>1, StoreAssumption DEF StoreInv, TypeOK
    <3>3. pushed[i].message # NoMessage
      BY <3>2, StoreAssumption DEF Entry
    <3>4. ~(pushed[i].id > 0 /\ i > Len(pushed) - Limit)
      BY <1>1, <2>2, <3>1, <3>3 DEF MessageOf, RetainedExactly
    <3>5. pushed'[i] = pushed[i] /\ Len(pushed') \in Nat /\ Len(pushed') >= Len(pushed)
      <4>1. CASE UNCHANGED pushed
        BY <4>1, <3>2
      <4>2. CASE \E t \in Threads : PushAndReturn(t)
        BY <1>1, <4>2 DEF PushAndReturn, StoreInv, TypeOK
      <4> QED
        BY <1>1, <4>1, <4>2 DEF Next, RaiseResponse, TakeToken, vars
    <3>6. i \in 1..Len(pushed') /\ ~(pushed'[i].id > 0 /\ i > Len(pushed') - Limit)
      BY <3>2, <3>4, <3>5
    <3>7. GetDeviceErrorMessage(s.detail)' = NoMessage
      <4>1. pushed'[i].id = s.detail
        BY <3>1, <3>5
      <4>2. (GetDeviceErrorMessage(pushed[i].id))' = NoMessage
        BY <1>1, <3>6 DEF RetainedExactly
      <4> QED
        BY <4>1, <4>2 DEF GetDeviceErrorMessage, FirstMatch
    <3> QED
      BY <2>2, <3>7 DEF MessageOf
  <2> QED
    BY <2>1, <2>2
<1>2. StoreInv /\ RetainedExactly /\ RetainedExactly' /\ [Next]_vars
         => [\A s \in statuses : MessageOf(s) = NoMessage => MessageOf(s)' = NoMessage]_vars
  BY <1>1
<1> QED
  BY <1>2, StoreInvariant, RetentionIsExact, PTL DEF Spec, LostStaysLost
-----------------------------------------------------------------------------
(* Refinement *)

\* The tokens the store holds are those of the last Limit pushes.
LEMMA StoredTokensAreRecent ==
    StoreInv => {store[i].id : i \in 1..Len(store)}
                   = Log!Recent([i \in 1..Len(pushed) |-> pushed[i].id])
<1> SUFFICES ASSUME StoreInv
             PROVE  {store[i].id : i \in 1..Len(store)}
                       = Log!Recent([i \in 1..Len(pushed) |-> pushed[i].id])
  OBVIOUS
<1> DEFINE h == [i \in 1..Len(pushed) |-> pushed[i].id]
           offset == Len(pushed) - Len(store)
<1>1. /\ Len(pushed) \in Nat /\ Len(store) \in Nat /\ Limit \in Nat
      /\ Len(store) = IF Len(pushed) <= Limit THEN Len(pushed) ELSE Limit
      /\ Len(h) = Len(pushed)
  BY StoreAssumption DEF StoreInv, TypeOK, WindowInv
<1>2. \A i \in 1..Len(store) : store[i] = pushed[offset + i]
  BY DEF StoreInv, WindowInv
<1>3. \A i \in 1..Len(store) : /\ offset + i \in 1..Len(pushed)
                               /\ offset + i > Len(pushed) - Limit
  <2>1. Len(store) <= Len(pushed) /\ Len(store) <= Limit
    BY <1>1
  <2>2. \A i \in 1..Len(store) : offset + i \in 1..Len(pushed)
    BY <1>1, <2>1
  <2>3. ASSUME NEW i \in 1..Len(store) PROVE offset + i > Len(pushed) - Limit
    <3>1. offset >= Len(pushed) - Limit /\ offset \in Int /\ i \in Int /\ i > 0
      BY <1>1, <2>1
    <3> HIDE DEF offset
    <3> QED
      BY <1>1, <3>1
  <2> QED
    BY <2>2, <2>3
<1>4. ASSUME NEW j \in 1..Len(pushed), j > Len(pushed) - Limit
      PROVE  \E i \in 1..Len(store) : offset + i = j
  <2>1. j - offset \in 1..Len(store) /\ j \in Int /\ offset \in Int
    BY <1>1, <1>4
  <2> HIDE DEF offset
  <2>2. offset + (j - offset) = j
    BY <2>1
  <2> QED
    BY <2>1, <2>2
<1> HIDE DEF offset
<1>5. \A x : x \in Log!Recent(h) <=>
                 \E j \in 1..Len(pushed) : j > Len(pushed) - Limit /\ x = pushed[j].id
  BY <1>1 DEF Log!Recent
<1> HIDE DEF h
<1>6. \A x : (\E i \in 1..Len(store) : x = store[i].id) <=> x \in Log!Recent(h)
  BY <1>2, <1>3, <1>4, <1>5
<1>7. {store[i].id : i \in 1..Len(store)} = Log!Recent(h)
  BY <1>6
<1> QED
  BY <1>7 DEF h

\* The store implements the abstract log of ErrorLog: every push is a publication
\* of a token never published before, every other step of the library stutters.
THEOREM StoreImplementsLog == ASSUME OneLap PROVE Spec => ImplementsLog
<1> DEFINE h == [i \in 1..Len(pushed) |-> pushed[i].id]
           b == [token \in {store[i].id : i \in 1..Len(store)} |-> FirstMatch(token)]
<1>1. Init => Log!Init
  BY DEF Init, Log!Init
<1>2. StoreInv /\ StoreInv' /\ [Next]_vars => [Log!Next]_(Log!logVars)
  <2> SUFFICES ASSUME StoreInv, StoreInv', [Next]_vars
               PROVE  [Log!Next]_(Log!logVars)
    OBVIOUS
  <2>1. CASE UNCHANGED <<store, pushed>>
    BY <2>1 DEF Log!logVars, FirstMatch
  <2>2. ASSUME NEW t \in Threads, PushAndReturn(t)
        PROVE  Log!Next
    <3> DEFINE e == pending[t]
    <3>1. /\ e \in Entry /\ pushed' = Append(pushed, e)
          /\ pushed \in Seq(Entry) /\ Len(pushed) \in Nat /\ Limit \in Nat \ {0}
      BY <2>2, StoreAssumption DEF PushAndReturn, StoreInv, TypeOK
    <3>2. \A i \in 1..Len(pushed) : pushed[i].id # e.id
      BY <2>2 DEF PushAndReturn, StoreInv, DistinctInv
    <3> HIDE DEF e
    <3>3. /\ Len(pushed') = Len(pushed) + 1 /\ pushed'[Len(pushed) + 1] = e
          /\ \A i \in 1..Len(pushed) : pushed'[i] = pushed[i]
      BY <3>1
    <3>4. /\ h' = Append(h, e.id) /\ Len(h) = Len(pushed)
          /\ Len(h') = Len(pushed') /\ \A i \in 1..Len(pushed') : h'[i] = pushed'[i].id
      BY <3>1, <3>3
    <3>5. DOMAIN b = Log!Recent(h) /\ DOMAIN b' = Log!Recent(h')
      <4>1. {store[i].id : i \in 1..Len(store)} = Log!Recent(h)
        BY StoredTokensAreRecent
      <4>2. ({store[i].id : i \in 1..Len(store)} = Log!Recent(h))'
        BY StoredTokensAreRecent, PTL
      <4> QED
        BY <4>1, <4>2
    <3>6. LookupsHit /\ LookupsHit'
      BY StoredTokensHit, PTL
    <3>7. b' = [token \in Log!Recent(h') |->
                   IF token = e.id THEN e.message ELSE b[token]]
      <4> SUFFICES ASSUME NEW token \in Log!Recent(h')
                   PROVE  FirstMatch(token)' = IF token = e.id THEN e.message ELSE b[token]
        BY <3>5
      <4>1. PICK i \in 1..Len(pushed') : i > Len(pushed') - Limit /\ token = pushed'[i].id
        BY <3>4 DEF Log!Recent
      <4>2. FirstMatch(token)' = pushed'[i].message
        BY <3>6, <4>1 DEF LookupsHit
      <4>3. CASE i = Len(pushed) + 1
        BY <3>3, <4>1, <4>2, <4>3
      <4>4. CASE i # Len(pushed) + 1
        <5>1. i \in 1..Len(pushed) /\ i > Len(pushed) - Limit
          BY <3>1, <3>3, <4>1, <4>4
        <5>2. pushed'[i] = pushed[i] /\ token = pushed[i].id /\ token # e.id
          BY <3>2, <3>3, <4>1, <5>1
        <5>3. FirstMatch(token) = pushed[i].message
          BY <3>6, <5>1, <5>2 DEF LookupsHit
        <5>4. token \in Log!Recent(h)
          BY <3>4, <5>1, <5>2 DEF Log!Recent
        <5>5. b[token] = FirstMatch(token)
          BY <3>5, <5>4
        <5> QED
          BY <4>2, <5>2, <5>3, <5>5
      <4> QED
        BY <4>3, <4>4
    <3>8. \A i \in 1..Len(h) : h[i] # e.id
      BY <3>2, <3>4
    <3>9. e.id \in Tokens /\ e.message \in Messages
      BY <3>1 DEF Entry
    <3> HIDE DEF h, b
    <3>10. \E token \in Tokens, message \in Messages :
              /\ \A i \in 1..Len(h) : h[i] # token
              /\ h' = Append(h, token)
              /\ b' = [x \in Log!Recent(h') |-> IF x = token THEN message ELSE b[x]]
      BY <3>4, <3>7, <3>8, <3>9
    <3> QED
      BY <3>10 DEF Log!Next, Log!Publish, h, b
  <2> QED
    BY <2>1, <2>2 DEF Next, RaiseResponse, TakeToken, vars
<1> QED
  BY <1>1, <1>2, StoreInvariant, PTL DEF Spec, ImplementsLog, Log!Spec
=============================================================================
