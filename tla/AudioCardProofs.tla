--------------------------- MODULE AudioCardProofs ---------------------------
(***************************************************************************)
(* For any number of threads, cards and polls: exchanges with a card never *)
(* mix, every claim is given back, and a call costs what its loop promises *)
(* at most (audio_card_version, versions.rs).                              *)
(***************************************************************************)
EXTENDS AudioCard, FiniteSetTheorems, SequenceTheorems, TLAPS

N == Cardinality(Cards)

\* The shape of the variables that the steps need.
Shape ==
    /\ attached \subseteq Cards
    /\ claim \in [Cards -> Threads \cup {Nobody}]
    /\ pc \in [Threads -> Labels]
    /\ todo \in [Threads -> Seq(Cards)]
    /\ card \in [Threads -> Cards \cup {None}]
    /\ polls \in [Threads -> Nat]
    /\ result \in [Threads -> Cards \cup {None}]
    /\ ticks \in [Threads -> Nat]

\* A thread in an exchange holds the claim on its card.
HoldsClaim(t) == Exchanging(t) => card[t] \in Cards /\ claim[card[t]] = t

ClaimInv == (\A t \in Threads : HoldsClaim(t)) /\ ClaimsAreReturned

\* The polls of the current exchange stay within the loop.
PollInv(t) ==
    /\ polls[t] <= MaxPolls
    /\ pc[t] = "read" => polls[t] < MaxPolls

\* The transfers that the current exchange may still make.
Ahead(t) ==
    IF pc[t] = "write" THEN 2 * (MaxPolls - polls[t])
    ELSE IF pc[t] = "read" THEN 2 * (MaxPolls - polls[t]) - 1
    ELSE 0

\* The transfers that a loop over n devices may make.
Cost(n) == 2 * MaxPolls * n

\* What a call has spent, may spend on its card and on those to come.
BudgetInv(t) ==
    /\ Len(todo[t]) <= N
    /\ ticks[t] + Ahead(t) + Cost(Len(todo[t])) <= Cost(N)

IInv == /\ Shape
        /\ ClaimInv
        /\ \A t \in Threads : PollInv(t) /\ BudgetInv(t)
-----------------------------------------------------------------------------
(* Arithmetic of the bound *)

LEMMA CardsCounted == N \in Nat
BY AudioAssumption, FS_CardinalityType DEF N

LEMMA CostTyped == ASSUME NEW n \in Nat PROVE Cost(n) \in Nat
BY AudioAssumption DEF Cost

\* One device fewer costs one loop fewer.
LEMMA OneDeviceLess ==
    ASSUME NEW n \in Nat PROVE Cost(n - 1) = Cost(n) - 2 * MaxPolls
BY AudioAssumption DEF Cost

LEMMA FewerDevices ==
    ASSUME NEW l \in Nat, NEW n \in Nat, l <= n
    PROVE  Cost(l) <= Cost(n)
<1>1. PICK d \in Nat : n = l + d
    <2>1. n - l \in Nat /\ n = l + (n - l)
        OBVIOUS
    <2> QED
        BY <2>1
<1>2. 2 * MaxPolls * n = 2 * MaxPolls * l + 2 * MaxPolls * d
    BY <1>1, AudioAssumption
<1>3. Cost(n) = Cost(l) + Cost(d)
    BY <1>2 DEF Cost
<1>4. Cost(l) \in Nat /\ Cost(d) \in Nat
    BY CostTyped
<1> QED
    BY <1>3, <1>4

LEMMA CapNotReached ==
    ASSUME NEW cap \in Int, NEW n \in Int, n < cap PROVE UpTo(cap, n) = n + 1
BY DEF UpTo

\* An enumeration lists every attached card once.
LEMMA ListingLength ==
    ASSUME Shape, NEW s \in Listings
    PROVE  s \in Seq(Cards) /\ Len(s) \in Nat /\ Len(s) <= N
<1>1. IsFiniteSet(attached) /\ Cardinality(attached) <= N
    BY AudioAssumption, FS_Subset DEF Shape, N
<1>2. Cardinality(attached) \in Nat
    BY <1>1, FS_CardinalityType
<1>3. s \in [1..Cardinality(attached) -> Cards]
    BY DEF Listings, Shape
<1>4. s \in Seq(Cards)
    BY <1>2, <1>3, SeqDef
<1>5. Len(s) = Cardinality(attached)
    BY <1>2, <1>3, <1>4
<1> QED
    BY <1>1, <1>2, <1>4, <1>5

LEMMA RestOfDevices ==
    ASSUME NEW s \in Seq(Cards), s # << >>
    PROVE  /\ Head(s) \in Cards /\ Tail(s) \in Seq(Cards)
           /\ Len(Tail(s)) = Len(s) - 1 /\ Len(s) \in Nat
BY HeadTailProperties, LenProperties
-----------------------------------------------------------------------------
(* The steps: what the invariant says of one thread does not change when   *)
(* another thread steps.                                                   *)

LEMMA OthersKeepTheirBudget ==
    ASSUME IInv, NEW u \in Threads, pc'[u] = pc[u], todo'[u] = todo[u],
           polls'[u] = polls[u], ticks'[u] = ticks[u]
    PROVE  PollInv(u)' /\ BudgetInv(u)'
BY DEF IInv, PollInv, BudgetInv, Ahead, N

LEMMA InitInvariant == Init => IInv
<1> SUFFICES ASSUME Init PROVE IInv
    OBVIOUS
<1>1. Shape
    BY EmptySeq DEF Init, Shape, Labels
<1>2. ClaimInv
    BY DEF Init, ClaimInv, HoldsClaim, ClaimsAreReturned, Exchanging
<1>3. ASSUME NEW t \in Threads PROVE PollInv(t) /\ BudgetInv(t)
    <2>1. pc[t] = "idle" /\ polls[t] = 0 /\ ticks[t] = 0 /\ todo[t] = << >>
        BY <1>3 DEF Init
    <2>2. Len(todo[t]) = 0
        BY <2>1
    <2>3. Cost(0) = 0 /\ Cost(N) \in Nat /\ MaxPolls \in Nat
        BY CardsCounted, CostTyped, AudioAssumption DEF Cost
    <2>4. Ahead(t) = 0
        BY <2>1 DEF Ahead
    <2> QED
        BY <2>1, <2>2, <2>3, <2>4, CardsCounted DEF PollInv, BudgetInv
<1> QED
    BY <1>1, <1>2, <1>3 DEF IInv

LEMMA UnplugKeeps == ASSUME IInv, NEW c \in Cards, Unplug(c) PROVE IInv'
<1>1. /\ attached' = attached \ {c}
      /\ UNCHANGED <<claim, pc, todo, card, polls, result, ticks>>
    BY DEF Unplug
<1>2. Shape'
    BY <1>1 DEF IInv, Shape
<1>3. ClaimInv'
    BY <1>1 DEF IInv, ClaimInv, HoldsClaim, ClaimsAreReturned, Exchanging
<1>4. \A t \in Threads : PollInv(t)' /\ BudgetInv(t)'
    BY <1>1, OthersKeepTheirBudget
<1> QED
    BY <1>2, <1>3, <1>4 DEF IInv

\* A step that moves one thread between two labels of an exchange, or between two
\* outside of one, leaves all claims in order.
LEMMA ClaimsStay ==
    ASSUME IInv, NEW t \in Threads, UNCHANGED <<claim, card>>,
           \A u \in Threads : u # t => pc'[u] = pc[u],
           Exchanging(t)' = Exchanging(t)
    PROVE  ClaimInv'
<1>1. \A u \in Threads : Exchanging(u)' = Exchanging(u)
    BY DEF Exchanging
<1>2. \A u \in Threads : HoldsClaim(u)'
    BY <1>1 DEF IInv, ClaimInv, HoldsClaim
<1>3. ClaimsAreReturned'
    <2> SUFFICES ASSUME NEW c \in Cards, claim[c] # Nobody
                 PROVE  Exchanging(claim[c])' /\ card[claim[c]] = c
        BY DEF ClaimsAreReturned
    <2>1. claim[c] \in Threads
        BY DEF IInv, Shape
    <2> QED
        BY <1>1, <2>1 DEF IInv, ClaimInv, ClaimsAreReturned
<1> QED
    BY <1>2, <1>3 DEF ClaimInv

LEMMA EnumerateKeeps == ASSUME IInv, NEW t \in Threads, Enumerate(t) PROVE IInv'
<1>1. /\ pc[t] = "idle"
      /\ result' = [result EXCEPT ![t] = None] /\ ticks' = [ticks EXCEPT ![t] = 0]
      /\ UNCHANGED <<attached, claim, card, polls>>
    BY DEF Enumerate, At
<1>2. /\ pc' \in [Threads -> Labels] /\ pc'[t] \in {"idle", "next"}
      /\ \A u \in Threads : u # t => pc'[u] = pc[u]
    BY <1>1 DEF Enumerate, Goto, IInv, Shape, Labels
<1>3. /\ todo' \in [Threads -> Seq(Cards)] /\ Len(todo'[t]) \in Nat /\ Len(todo'[t]) <= N
      /\ \A u \in Threads : u # t => todo'[u] = todo[u]
    <2>1. CASE \E s \in Listings : todo' = [todo EXCEPT ![t] = s]
        BY <2>1, ListingLength DEF IInv, Shape
    <2>2. CASE UNCHANGED todo
        BY <2>2, LenProperties DEF IInv, Shape, BudgetInv
    <2> QED
        BY <2>1, <2>2 DEF Enumerate
<1>4. Shape'
    BY <1>1, <1>2, <1>3 DEF IInv, Shape
<1>5. ClaimInv'
    BY <1>1, <1>2, ClaimsStay DEF Exchanging
<1>6. PollInv(t)' /\ BudgetInv(t)'
    <2>1. ticks'[t] = 0 /\ Ahead(t)' = 0
        BY <1>1, <1>2 DEF IInv, Shape, Ahead
    <2>2. Cost(Len(todo'[t])) <= Cost(N)
        BY <1>3, CardsCounted, FewerDevices
    <2>3. Cost(Len(todo'[t])) \in Nat /\ Cost(N) \in Nat
        BY <1>3, CardsCounted, CostTyped
    <2>4. BudgetInv(t)'
        BY <1>3, <2>1, <2>2, <2>3 DEF BudgetInv, N, Cost
    <2>5. PollInv(t)'
        BY <1>1, <1>2 DEF IInv, PollInv
    <2> QED
        BY <2>4, <2>5
<1>7. ASSUME NEW u \in Threads, u # t PROVE PollInv(u)' /\ BudgetInv(u)'
    BY <1>1, <1>2, <1>3, <1>7, OthersKeepTheirBudget DEF IInv, Shape
<1> QED
    BY <1>4, <1>5, <1>6, <1>7 DEF IInv

LEMMA NextDeviceKeeps == ASSUME IInv, NEW t \in Threads, NextDevice(t) PROVE IInv'
<1> DEFINE c == Head(todo[t])
<1>1. /\ pc[t] = "next" /\ todo[t] # << >> /\ todo[t] \in Seq(Cards)
      /\ todo' = [todo EXCEPT ![t] = Tail(todo[t])]
      /\ UNCHANGED <<attached, result, ticks>>
    BY DEF NextDevice, At, IInv, Shape
<1>2. /\ c \in Cards /\ Tail(todo[t]) \in Seq(Cards)
      /\ Len(Tail(todo[t])) = Len(todo[t]) - 1 /\ Len(todo[t]) \in Nat
    BY <1>1, RestOfDevices
<1>3. todo'[t] = Tail(todo[t]) /\ todo' \in [Threads -> Seq(Cards)]
    BY <1>1, <1>2 DEF IInv, Shape
<1>4. /\ ticks[t] \in Nat /\ MaxPolls \in Nat
      /\ Len(todo[t]) <= N
      /\ ticks[t] + Cost(Len(todo[t])) <= Cost(N)
    <2>1. Ahead(t) = 0
        BY <1>1 DEF Ahead
    <2>2. ticks[t] \in Nat /\ MaxPolls \in Nat
        BY AudioAssumption DEF IInv, Shape
    <2>3. ticks[t] + 0 = ticks[t]
        BY <2>2
    <2> QED
        BY <2>1, <2>2, <2>3 DEF IInv, BudgetInv
<1>5. /\ Len(todo'[t]) \in Nat /\ Len(todo'[t]) <= N
      /\ ticks[t] + 2 * MaxPolls + Cost(Len(todo'[t])) <= Cost(N)
    <2>1. Cost(Len(todo'[t])) = Cost(Len(todo[t])) - 2 * MaxPolls
        BY <1>2, <1>3, OneDeviceLess
    <2>2. Cost(Len(todo[t])) \in Nat /\ Cost(N) \in Nat
        BY <1>2, <1>4, CardsCounted, CostTyped
    <2>3. Len(todo'[t]) \in Nat
        BY <1>3, LenProperties
    <2>4. Len(todo'[t]) <= N
        BY <1>2, <1>3, <1>4, CardsCounted
    <2> QED
        BY <1>4, <2>1, <2>2, <2>3, <2>4
<1>6. CASE CanClaim(c) /\ claim' = [claim EXCEPT ![c] = t]
              /\ card' = [card EXCEPT ![t] = c] /\ polls' = [polls EXCEPT ![t] = 0]
              /\ Goto(t, "write")
    <2>1. /\ pc'[t] = "write" /\ card'[t] = c /\ polls'[t] = 0 /\ claim'[c] = t
          /\ claim[c] = Nobody
        BY <1>2, <1>6 DEF Goto, IInv, Shape, CanClaim
    <2>2. \A u \in Threads : u # t => pc'[u] = pc[u] /\ card'[u] = card[u]
                                        /\ polls'[u] = polls[u] /\ todo'[u] = todo[u]
        BY <1>1, <1>6 DEF Goto, IInv, Shape
    <2>3. Shape'
        BY <1>1, <1>2, <1>3, <1>6 DEF Goto, IInv, Shape, Labels
    <2>4. ASSUME NEW u \in Threads PROVE HoldsClaim(u)'
        <3>1. CASE u = t
            <4>1. card'[u] \in Cards /\ claim'[card'[u]] = u
                BY <1>2, <2>1, <3>1
            <4> QED
                BY <4>1 DEF HoldsClaim
        <3>2. CASE u # t
            <4>1. Exchanging(u)' = Exchanging(u) /\ card'[u] = card[u]
                BY <2>2, <3>2 DEF Exchanging
            <4>2. SUFFICES ASSUME Exchanging(u)
                           PROVE  card[u] \in Cards /\ claim'[card[u]] = u
                BY <4>1 DEF HoldsClaim
            <4>3. card[u] \in Cards /\ claim[card[u]] = u
                BY <4>2 DEF IInv, ClaimInv, HoldsClaim
            <4>4. card[u] # c
                BY <2>1, <4>3, AudioAssumption
            <4> QED
                BY <1>6, <4>3, <4>4 DEF IInv, Shape
        <3> QED
            BY <3>1, <3>2
    <2>5. ASSUME NEW d \in Cards, claim'[d] # Nobody
          PROVE  (Exchanging(claim[d]) /\ card[claim[d]] = d)'
        <3>1. CASE d = c
            BY <2>1, <3>1 DEF Exchanging
        <3>2. CASE d # c
            <4>1. claim'[d] = claim[d] /\ claim[d] \in Threads
                BY <1>6, <2>5, <3>2 DEF IInv, Shape
            <4>2. Exchanging(claim[d]) /\ card[claim[d]] = d
                BY <2>5, <4>1 DEF IInv, ClaimInv, ClaimsAreReturned
            <4>3. claim[d] # t
                BY <1>1, <4>2 DEF Exchanging
            <4>4. pc'[claim[d]] = pc[claim[d]] /\ card'[claim[d]] = card[claim[d]]
                BY <2>2, <4>1, <4>3
            <4> QED
                BY <4>1, <4>2, <4>4 DEF Exchanging
        <3> QED
            BY <3>1, <3>2
    <2>6. ClaimInv'
        <3>1. ClaimsAreReturned'
            BY <2>5 DEF ClaimsAreReturned, Exchanging
        <3> QED
            BY <2>4, <3>1 DEF ClaimInv
    <2>7. PollInv(t)' /\ BudgetInv(t)'
        <3>1. Ahead(t)' = 2 * MaxPolls
            BY <1>4, <2>1 DEF Ahead
        <3>2. ticks'[t] = ticks[t]
            BY <1>1
        <3>3. PollInv(t)'
            BY <1>4, <2>1 DEF PollInv
        <3> QED
            BY <1>5, <3>1, <3>2, <3>3 DEF BudgetInv, N, Cost
    <2>8. ASSUME NEW u \in Threads, u # t PROVE PollInv(u)' /\ BudgetInv(u)'
        BY <1>1, <2>2, <2>8, OthersKeepTheirBudget
    <2> QED
        BY <2>3, <2>6, <2>7, <2>8 DEF IInv
<1>7. CASE UNCHANGED <<claim, card, polls, pc>>
    <2>1. Shape'
        BY <1>1, <1>3, <1>7 DEF IInv, Shape
    <2>2. ClaimInv'
        BY <1>7, ClaimsStay DEF Exchanging
    <2>3. PollInv(t)' /\ BudgetInv(t)'
        <3>1. Ahead(t)' = 0 /\ ticks'[t] = ticks[t]
            BY <1>1, <1>7 DEF Ahead
        <3>2. PollInv(t)'
            BY <1>7 DEF PollInv, IInv
        <3>3. Cost(Len(todo'[t])) \in Nat /\ Cost(N) \in Nat
            BY <1>5, CardsCounted, CostTyped
        <3>4. ticks[t] + 0 + Cost(Len(todo'[t])) <= Cost(N)
            BY <1>4, <1>5, <3>3
        <3> QED
            BY <1>5, <3>1, <3>2, <3>4 DEF BudgetInv, N, Cost
    <2>4. ASSUME NEW u \in Threads, u # t PROVE PollInv(u)' /\ BudgetInv(u)'
        BY <1>1, <1>7, <2>4, OthersKeepTheirBudget DEF IInv, Shape
    <2> QED
        BY <2>1, <2>2, <2>3, <2>4 DEF IInv
<1> QED
    BY <1>6, <1>7 DEF NextDevice

LEMMA NoMoreDevicesKeeps == ASSUME IInv, NEW t \in Threads, NoMoreDevices(t) PROVE IInv'
<1>1. /\ pc[t] = "next" /\ pc' = [pc EXCEPT ![t] = "idle"]
      /\ UNCHANGED <<attached, claim, todo, card, polls, result, ticks>>
    BY DEF NoMoreDevices, At, Goto
<1>2. /\ pc' \in [Threads -> Labels] /\ pc'[t] = "idle"
      /\ \A u \in Threads : u # t => pc'[u] = pc[u]
    BY <1>1 DEF IInv, Shape, Labels
<1>3. Shape'
    BY <1>1, <1>2 DEF IInv, Shape
<1>4. ClaimInv'
    BY <1>1, <1>2, ClaimsStay DEF Exchanging
<1>5. PollInv(t)' /\ BudgetInv(t)'
    <2>1. Ahead(t)' = 0 /\ Ahead(t) = 0
        BY <1>1, <1>2 DEF Ahead
    <2> QED
        BY <1>1, <1>2, <2>1 DEF IInv, PollInv, BudgetInv, N, Cost
<1>6. ASSUME NEW u \in Threads, u # t PROVE PollInv(u)' /\ BudgetInv(u)'
    BY <1>1, <1>2, <1>6, OthersKeepTheirBudget
<1> QED
    BY <1>3, <1>4, <1>5, <1>6 DEF IInv

\* A transfer costs one tick, which the budget has set aside.
LEMMA TransferPaid ==
    ASSUME IInv, NEW t \in Threads, Ahead(t) >= 1
    PROVE  UpTo(TickCap, ticks[t]) = ticks[t] + 1
<1>1. ticks[t] \in Nat /\ Len(todo[t]) \in Nat
    BY LenProperties DEF IInv, Shape
<1>2. Cost(Len(todo[t])) \in Nat /\ Cost(N) \in Nat
    BY <1>1, CardsCounted, CostTyped
<1>3. Ahead(t) \in Int
    BY AudioAssumption DEF IInv, Shape, Ahead
<1>4. ticks[t] < Cost(N) + 1
    BY <1>1, <1>2, <1>3 DEF IInv, BudgetInv
<1>5. TickCap = Cost(N) + 1
    BY DEF TickCap, Cost, N
<1> QED
    BY <1>1, <1>2, <1>4, <1>5, CapNotReached

LEMMA WriteKeeps == ASSUME IInv, NEW t \in Threads, Write(t) PROVE IInv'
<1>1. /\ pc[t] = "write" /\ polls[t] < MaxPolls
      /\ ticks' = [ticks EXCEPT ![t] = UpTo(TickCap, ticks[t])]
      /\ UNCHANGED <<attached, claim, todo, card, polls, result>>
    BY DEF Write, At, PollAgain
<1>2. /\ pc' \in [Threads -> Labels] /\ pc'[t] \in {"read", "release"}
      /\ \A u \in Threads : u # t => pc'[u] = pc[u]
    BY <1>1 DEF Write, Goto, AfterFailedWrite, IInv, Shape, Labels
<1>3. polls[t] \in Nat /\ ticks[t] \in Nat /\ MaxPolls \in Nat
    BY AudioAssumption DEF IInv, Shape
<1>4. Ahead(t) = 2 * (MaxPolls - polls[t]) /\ Ahead(t) >= 2
    BY <1>1, <1>3 DEF Ahead
<1>5. UpTo(TickCap, ticks[t]) = ticks[t] + 1
    BY <1>3, <1>4, TransferPaid
<1>6. /\ ticks' \in [Threads -> Nat] /\ ticks'[t] = ticks[t] + 1
      /\ \A u \in Threads : u # t => ticks'[u] = ticks[u]
    BY <1>1, <1>3, <1>5 DEF IInv, Shape
<1>7. Shape'
    BY <1>1, <1>2, <1>6 DEF IInv, Shape
<1>8. ClaimInv'
    BY <1>1, <1>2, ClaimsStay DEF Exchanging
<1>9. PollInv(t)' /\ BudgetInv(t)'
    <2>1. Ahead(t)' \in Int /\ ticks'[t] + Ahead(t)' <= ticks[t] + Ahead(t)
        <3>1. CASE pc'[t] = "read"
            BY <1>1, <1>3, <1>4, <1>6, <3>1 DEF Ahead
        <3>2. CASE pc'[t] = "release"
            BY <1>3, <1>4, <1>6, <3>2 DEF Ahead
        <3> QED
            BY <1>2, <3>1, <3>2
    <2>2. Cost(Len(todo[t])) \in Nat /\ Cost(N) \in Nat
        BY CardsCounted, CostTyped, LenProperties DEF IInv, Shape
    <2>3. ticks'[t] + Ahead(t)' + Cost(Len(todo[t])) <= Cost(N)
        <3>1. ticks[t] + Ahead(t) + Cost(Len(todo[t])) <= Cost(N)
            BY DEF IInv, BudgetInv
        <3>2. Ahead(t) \in Int /\ ticks'[t] \in Int
            BY <1>3, <1>4, <1>6
        <3> QED
            BY <1>3, <2>1, <2>2, <3>1, <3>2
    <2>4. BudgetInv(t)'
        BY <1>1, <2>3 DEF IInv, BudgetInv, N, Cost
    <2>5. PollInv(t)'
        BY <1>1, <1>2 DEF IInv, PollInv
    <2> QED
        BY <2>4, <2>5
<1>10. ASSUME NEW u \in Threads, u # t PROVE PollInv(u)' /\ BudgetInv(u)'
    BY <1>1, <1>2, <1>6, <1>10, OthersKeepTheirBudget
<1> QED
    BY <1>7, <1>8, <1>9, <1>10 DEF IInv

LEMMA GiveUpKeeps == ASSUME IInv, NEW t \in Threads, GiveUp(t) PROVE IInv'
<1>1. /\ pc[t] = "write" /\ pc' = [pc EXCEPT ![t] = "release"]
      /\ UNCHANGED <<attached, claim, todo, card, polls, result, ticks>>
    BY DEF GiveUp, At, Goto
<1>2. /\ pc' \in [Threads -> Labels] /\ pc'[t] = "release"
      /\ \A u \in Threads : u # t => pc'[u] = pc[u]
    BY <1>1 DEF IInv, Shape, Labels
<1>3. Shape'
    BY <1>1, <1>2 DEF IInv, Shape
<1>4. ClaimInv'
    BY <1>1, <1>2, ClaimsStay DEF Exchanging
<1>5. PollInv(t)' /\ BudgetInv(t)'
    <2>1. polls[t] \in Nat /\ ticks[t] \in Nat /\ MaxPolls \in Nat /\ polls[t] <= MaxPolls
        BY AudioAssumption DEF IInv, Shape, PollInv
    <2>2. Ahead(t)' = 0 /\ Ahead(t) \in Nat
        BY <1>1, <1>2, <2>1 DEF Ahead
    <2>3. Cost(Len(todo[t])) \in Nat /\ Cost(N) \in Nat
        BY CardsCounted, CostTyped, LenProperties DEF IInv, Shape
    <2>4. ticks[t] + 0 + Cost(Len(todo[t])) <= Cost(N)
        BY <2>1, <2>2, <2>3 DEF IInv, BudgetInv
    <2>5. BudgetInv(t)'
        BY <1>1, <2>2, <2>4 DEF IInv, BudgetInv, N, Cost
    <2>6. PollInv(t)'
        BY <1>1, <1>2, <2>1 DEF PollInv
    <2> QED
        BY <2>5, <2>6
<1>6. ASSUME NEW u \in Threads, u # t PROVE PollInv(u)' /\ BudgetInv(u)'
    BY <1>1, <1>2, <1>6, OthersKeepTheirBudget
<1> QED
    BY <1>3, <1>4, <1>5, <1>6 DEF IInv

LEMMA ReadKeeps == ASSUME IInv, NEW t \in Threads, Read(t) PROVE IInv'
<1>1. /\ pc[t] = "read"
      /\ ticks' = [ticks EXCEPT ![t] = UpTo(TickCap, ticks[t])]
      /\ UNCHANGED <<attached, claim, todo, card, result>>
    BY DEF Read, At
<1>2. /\ polls[t] \in Nat /\ ticks[t] \in Nat /\ MaxPolls \in Nat
      /\ polls[t] < MaxPolls
    BY <1>1, AudioAssumption DEF IInv, Shape, PollInv
<1>3. /\ pc' \in [Threads -> Labels] /\ pc'[t] \in {"answered", "write", "release"}
      /\ \A u \in Threads : u # t => pc'[u] = pc[u]
    BY <1>1 DEF Read, Goto, IInv, Shape, Labels
<1>4. /\ polls' \in [Threads -> Nat]
      /\ polls'[t] = IF pc'[t] = "write" THEN polls[t] + 1 ELSE polls[t]
      /\ \A u \in Threads : u # t => polls'[u] = polls[u]
    <2>1. UpTo(PollCap, polls[t]) = polls[t] + 1
        BY <1>2, CapNotReached DEF PollCap
    <2>2. CASE pc'[t] = "write"
        <3>1. polls' = [polls EXCEPT ![t] = polls[t] + 1]
            BY <1>1, <2>1, <2>2 DEF Read, Goto, IInv, Shape
        <3> QED
            BY <1>2, <2>2, <3>1 DEF IInv, Shape
    <2>3. CASE pc'[t] # "write"
        <3>1. UNCHANGED polls
            BY <1>1, <2>3 DEF Read, Goto, IInv, Shape
        <3> QED
            BY <2>3, <3>1 DEF IInv, Shape
    <2> QED
        BY <2>2, <2>3
<1>5. Ahead(t) = 2 * (MaxPolls - polls[t]) - 1 /\ Ahead(t) >= 1
    BY <1>1, <1>2 DEF Ahead
<1>6. UpTo(TickCap, ticks[t]) = ticks[t] + 1
    BY <1>5, TransferPaid
<1>7. /\ ticks' \in [Threads -> Nat] /\ ticks'[t] = ticks[t] + 1
      /\ \A u \in Threads : u # t => ticks'[u] = ticks[u]
    BY <1>1, <1>2, <1>6 DEF IInv, Shape
<1>8. Shape'
    BY <1>1, <1>3, <1>4, <1>7 DEF IInv, Shape
<1>9. ClaimInv'
    BY <1>1, <1>3, ClaimsStay DEF Exchanging
<1>10. PollInv(t)' /\ BudgetInv(t)'
    <2>1. Ahead(t)' \in Int /\ ticks'[t] + Ahead(t)' <= ticks[t] + Ahead(t)
        <3>1. CASE pc'[t] = "write"
            BY <1>2, <1>4, <1>5, <1>7, <3>1 DEF Ahead
        <3>2. CASE pc'[t] \in {"answered", "release"}
            BY <1>2, <1>5, <1>7, <3>2 DEF Ahead
        <3> QED
            BY <1>3, <3>1, <3>2
    <2>2. Cost(Len(todo[t])) \in Nat /\ Cost(N) \in Nat
        BY CardsCounted, CostTyped, LenProperties DEF IInv, Shape
    <2>3. ticks'[t] + Ahead(t)' + Cost(Len(todo[t])) <= Cost(N)
        <3>1. ticks[t] + Ahead(t) + Cost(Len(todo[t])) <= Cost(N)
            BY DEF IInv, BudgetInv
        <3>2. Ahead(t) \in Int /\ ticks'[t] \in Int
            BY <1>2, <1>5, <1>7
        <3> QED
            BY <1>2, <2>1, <2>2, <3>1, <3>2
    <2>4. BudgetInv(t)'
        BY <1>1, <2>3 DEF IInv, BudgetInv, N, Cost
    <2>5. PollInv(t)'
        BY <1>2, <1>3, <1>4 DEF PollInv
    <2> QED
        BY <2>4, <2>5
<1>11. ASSUME NEW u \in Threads, u # t PROVE PollInv(u)' /\ BudgetInv(u)'
    BY <1>1, <1>3, <1>4, <1>7, <1>11, OthersKeepTheirBudget
<1> QED
    BY <1>8, <1>9, <1>10, <1>11 DEF IInv

LEMMA ReleaseKeeps == ASSUME IInv, NEW t \in Threads, Release(t) PROVE IInv'
<1>1. /\ pc[t] \in {"release", "answered"} /\ Exchanging(t)
      /\ claim' = [claim EXCEPT ![card[t]] = IF claim[card[t]] = t THEN Nobody
                                                                  ELSE claim[card[t]]]
      /\ polls' = [polls EXCEPT ![t] = 0]
      /\ UNCHANGED <<attached, todo, result, ticks>>
    BY DEF Release, Exchanging
<1>2. /\ pc' \in [Threads -> Labels] /\ pc'[t] \in {"name", "next"}
      /\ \A u \in Threads : u # t => pc'[u] = pc[u]
    BY <1>1 DEF Release, Goto, IInv, Shape, Labels
<1>3. card[t] \in Cards /\ claim[card[t]] = t
    BY <1>1 DEF IInv, ClaimInv, HoldsClaim
<1>4. claim' = [claim EXCEPT ![card[t]] = Nobody]
    BY <1>1, <1>3
<1>5. card' = card \/ card' = [card EXCEPT ![t] = None]
    BY DEF Release
<1>6. /\ card' \in [Threads -> Cards \cup {None}] /\ polls' \in [Threads -> Nat]
      /\ polls'[t] = 0
      /\ \A u \in Threads : u # t => card'[u] = card[u] /\ polls'[u] = polls[u]
    BY <1>1, <1>5 DEF IInv, Shape
<1>7. Shape'
    BY <1>1, <1>2, <1>4, <1>6 DEF IInv, Shape
<1>8. ASSUME NEW u \in Threads PROVE HoldsClaim(u)'
    <2>1. CASE u = t
        BY <1>2, <2>1 DEF HoldsClaim, Exchanging
    <2>2. CASE u # t
        <3>1. Exchanging(u)' = Exchanging(u) /\ card'[u] = card[u]
            BY <1>2, <1>6, <2>2 DEF Exchanging
        <3>2. SUFFICES ASSUME Exchanging(u)
                       PROVE  card[u] \in Cards /\ claim'[card[u]] = u
            BY <3>1 DEF HoldsClaim
        <3>3. card[u] \in Cards /\ claim[card[u]] = u
            BY <3>2 DEF IInv, ClaimInv, HoldsClaim
        <3>4. card[u] # card[t]
            BY <1>3, <2>2, <3>3
        <3> QED
            BY <1>4, <3>3, <3>4 DEF IInv, Shape
    <2> QED
        BY <2>1, <2>2
<1>9. ASSUME NEW d \in Cards, claim'[d] # Nobody
      PROVE  (Exchanging(claim[d]) /\ card[claim[d]] = d)'
    <2>1. d # card[t]
        BY <1>3, <1>4, <1>9 DEF IInv, Shape
    <2>2. claim'[d] = claim[d] /\ claim[d] \in Threads
        BY <1>4, <1>9, <2>1 DEF IInv, Shape
    <2>3. Exchanging(claim[d]) /\ card[claim[d]] = d
        BY <1>9, <2>2 DEF IInv, ClaimInv, ClaimsAreReturned
    <2>4. pc'[claim[d]] = pc[claim[d]] /\ card'[claim[d]] = card[claim[d]]
        BY <1>2, <1>6, <2>1, <2>2, <2>3
    <2> QED
        BY <2>2, <2>3, <2>4 DEF Exchanging
<1>10. ClaimInv'
    <2>1. ClaimsAreReturned'
        BY <1>9 DEF ClaimsAreReturned
    <2> QED
        BY <1>8, <2>1 DEF ClaimInv
<1>11. PollInv(t)' /\ BudgetInv(t)'
    <2>1. Ahead(t)' = Ahead(t)
        BY <1>1, <1>2 DEF Ahead
    <2>2. BudgetInv(t)'
        BY <1>1, <2>1 DEF IInv, BudgetInv, N, Cost
    <2>3. PollInv(t)'
        BY <1>2, <1>6, AudioAssumption DEF PollInv
    <2> QED
        BY <2>2, <2>3
<1>12. ASSUME NEW u \in Threads, u # t PROVE PollInv(u)' /\ BudgetInv(u)'
    BY <1>1, <1>2, <1>6, <1>12, OthersKeepTheirBudget
<1> QED
    BY <1>7, <1>10, <1>11, <1>12 DEF IInv

LEMMA ReadNameKeeps == ASSUME IInv, NEW t \in Threads, ReadName(t) PROVE IInv'
<1>1. /\ pc[t] = "name" /\ pc' = [pc EXCEPT ![t] = "idle"]
      /\ result' = [result EXCEPT ![t] = card[t]]
      /\ todo' = [todo EXCEPT ![t] = << >>] /\ card' = [card EXCEPT ![t] = None]
      /\ UNCHANGED <<attached, claim, polls, ticks>>
    BY DEF ReadName, At, Goto
<1>2. /\ pc' \in [Threads -> Labels] /\ pc'[t] = "idle"
      /\ \A u \in Threads : u # t => pc'[u] = pc[u] /\ card'[u] = card[u]
                                       /\ todo'[u] = todo[u]
    BY <1>1 DEF IInv, Shape, Labels
<1>3. todo' \in [Threads -> Seq(Cards)] /\ todo'[t] = << >> /\ Len(todo'[t]) = 0
    BY <1>1, EmptySeq DEF IInv, Shape
<1>4. Shape'
    BY <1>1, <1>2, <1>3 DEF IInv, Shape
<1>5. ~Exchanging(t) /\ ~Exchanging(t)'
    BY <1>1, <1>2 DEF Exchanging
<1>6. ASSUME NEW u \in Threads, Exchanging(u) \/ Exchanging(u)'
      PROVE  u # t /\ card'[u] = card[u] /\ Exchanging(u)' = Exchanging(u)
    BY <1>2, <1>5, <1>6 DEF Exchanging
<1>7. ASSUME NEW u \in Threads PROVE HoldsClaim(u)'
    BY <1>1, <1>6 DEF IInv, ClaimInv, HoldsClaim
<1>8. ASSUME NEW d \in Cards, claim'[d] # Nobody
      PROVE  (Exchanging(claim[d]) /\ card[claim[d]] = d)'
    <2>1. /\ claim'[d] = claim[d] /\ claim[d] \in Threads
          /\ Exchanging(claim[d]) /\ card[claim[d]] = d
        BY <1>1, <1>8 DEF IInv, Shape, ClaimInv, ClaimsAreReturned
    <2>2. claim[d] # t
        BY <1>5, <2>1
    <2>3. pc'[claim[d]] = pc[claim[d]] /\ card'[claim[d]] = card[claim[d]]
        BY <1>2, <2>1, <2>2
    <2> QED
        BY <2>1, <2>3 DEF Exchanging
<1>9. ClaimInv'
    <2>1. ClaimsAreReturned'
        BY <1>8 DEF ClaimsAreReturned
    <2> QED
        BY <1>7, <2>1 DEF ClaimInv
<1>10. PollInv(t)' /\ BudgetInv(t)'
    <2>1. Ahead(t) = 0 /\ Ahead(t)' = 0
        BY <1>1, <1>2 DEF Ahead
    <2>2. Len(todo[t]) \in Nat /\ Cost(0) = 0 /\ Cost(N) \in Nat /\ ticks[t] \in Nat
        BY LenProperties, CardsCounted, CostTyped, AudioAssumption DEF IInv, Shape, Cost
    <2>3. Cost(Len(todo[t])) \in Nat
        BY <2>2, CostTyped
    <2>4. ticks[t] + 0 + Cost(Len(todo[t])) <= Cost(N)
        BY <2>1 DEF IInv, BudgetInv
    <2>5. ticks[t] + 0 + Cost(0) <= Cost(N)
        BY <2>2, <2>3, <2>4
    <2>6. BudgetInv(t)'
        BY <1>1, <1>3, <2>1, <2>5, CardsCounted DEF BudgetInv, N, Cost
    <2>7. PollInv(t)'
        BY <1>1, <1>2 DEF IInv, PollInv
    <2> QED
        BY <2>6, <2>7
<1>11. ASSUME NEW u \in Threads, u # t PROVE PollInv(u)' /\ BudgetInv(u)'
    BY <1>1, <1>2, <1>11, OthersKeepTheirBudget
<1> QED
    BY <1>4, <1>9, <1>10, <1>11 DEF IInv

LEMMA NextInvariant == ASSUME IInv, [Next]_vars PROVE IInv'
<1>1. CASE UNCHANGED vars
    <2>1. Shape' /\ ClaimInv'
        BY <1>1 DEF vars, IInv, Shape, ClaimInv, HoldsClaim, ClaimsAreReturned, Exchanging
    <2>2. \A t \in Threads : PollInv(t)' /\ BudgetInv(t)'
        BY <1>1, OthersKeepTheirBudget DEF vars
    <2> QED
        BY <2>1, <2>2 DEF IInv
<1>2. ASSUME NEW t \in Threads, Step(t) PROVE IInv'
    BY <1>2, NextDeviceKeeps, NoMoreDevicesKeeps, WriteKeeps, GiveUpKeeps, ReadKeeps,
       ReleaseKeeps, ReadNameKeeps DEF Step
<1> QED
    BY <1>1, <1>2, EnumerateKeeps, UnplugKeeps DEF Next

LEMMA Invariance == Spec => []IInv
BY InitInvariant, NextInvariant, PTL DEF Spec

\* A call that has not returned has read no product name yet, because the step that
\* reads one is the step that returns.
NameInv ==
    /\ pc \in [Threads -> Labels]
    /\ names \in [Threads -> 0..1]
    /\ \A t \in Threads : pc[t] # "idle" => names[t] = 0

LEMMA NextNameInvariant == ASSUME NameInv, [Next]_vars PROVE NameInv'
<1>1. CASE UNCHANGED vars
    BY <1>1 DEF vars, NameInv
<1>2. ASSUME NEW t \in Threads, Enumerate(t) PROVE NameInv'
    BY <1>2 DEF Enumerate, At, Goto, NameInv, Labels
<1>3. ASSUME NEW t \in Threads, ReadName(t) PROVE NameInv'
    <2>1. names[t] = 0 /\ UpTo(NameCap, names[t]) = 1
        BY <1>3 DEF ReadName, At, NameInv, UpTo, NameCap
    <2> QED
        BY <1>3, <2>1 DEF ReadName, Goto, NameInv, Labels
<1>4. ASSUME NEW t \in Threads,
             NextDevice(t) \/ NoMoreDevices(t) \/ Write(t) \/ GiveUp(t) \/ Read(t)
                \/ Release(t)
      PROVE  NameInv'
    <2>1. UNCHANGED names /\ pc[t] # "idle"
        BY <1>4 DEF NextDevice, NoMoreDevices, Write, GiveUp, Read, Release, At
    <2>2. UNCHANGED pc \/ \E l \in Labels : pc' = [pc EXCEPT ![t] = l]
        BY <1>4 DEF NextDevice, NoMoreDevices, Write, GiveUp, Read, Release, Goto,
                    AfterFailedWrite, Labels
    <2> QED
        BY <2>1, <2>2 DEF NameInv
<1>5. ASSUME NEW c \in Cards, Unplug(c) PROVE NameInv'
    BY <1>5 DEF Unplug, NameInv
<1> QED
    BY <1>1, <1>2, <1>3, <1>4, <1>5 DEF Next, Step

LEMMA NameInvariance == Spec => []NameInv
<1>1. Init => NameInv
    BY DEF Init, NameInv, Labels
<1> QED
    BY <1>1, NextNameInvariant, PTL DEF Spec
-----------------------------------------------------------------------------
(* What follows from the invariant *)

LEMMA SpentWithinBudget ==
    ASSUME IInv, NEW t \in Threads
    PROVE  /\ polls[t] \in Nat /\ polls[t] <= MaxPolls
           /\ ticks[t] \in Nat /\ Cost(Len(todo[t])) \in Nat /\ Cost(N) \in Nat
           /\ ticks[t] + Cost(Len(todo[t])) <= Cost(N)
<1>1. ticks[t] \in Nat /\ polls[t] \in Nat /\ MaxPolls \in Nat /\ Len(todo[t]) \in Nat
    BY AudioAssumption, LenProperties DEF IInv, Shape
<1>2. polls[t] <= MaxPolls /\ (pc[t] = "read" => polls[t] < MaxPolls)
    BY DEF IInv, PollInv
<1>3. Ahead(t) \in Nat
    BY <1>1, <1>2 DEF Ahead
<1>4. Cost(Len(todo[t])) \in Nat /\ Cost(N) \in Nat
    BY <1>1, CardsCounted, CostTyped
<1>5. ticks[t] + Ahead(t) + Cost(Len(todo[t])) <= Cost(N)
    BY DEF IInv, BudgetInv
<1> QED
    BY <1>1, <1>2, <1>3, <1>4, <1>5

\* In every reachable state each variable has its type: in particular no call polls
\* a card more than MaxPolls times (the loop of audio_card_version).
THEOREM AudioTypeOK == Spec => []TypeOK
<1>1. ASSUME IInv, NameInv PROVE TypeOK
    <2>1. ASSUME NEW t \in Threads
          PROVE  polls[t] \in 0..MaxPolls /\ ticks[t] \in 0..TickCap
        <3>1. TickCap = Cost(N) + 1
            BY DEF TickCap, Cost, N
        <3> QED
            BY <1>1, <3>1, SpentWithinBudget, AudioAssumption
    <2>2. polls \in [Threads -> 0..MaxPolls] /\ ticks \in [Threads -> 0..TickCap]
        BY <1>1, <2>1 DEF IInv, Shape
    <2>3. names \in [Threads -> 0..NameCap]
        BY <1>1 DEF NameInv, NameCap
    <2> QED
        BY <1>1, <2>2, <2>3 DEF IInv, Shape, BudgetInv, N, TypeOK
<1> QED
    BY <1>1, Invariance, NameInvariance, PTL

\* Two calls never talk to one card at the same time: each holds the claim of its
\* card, and a claim has one holder (claim_interface, release_interface).
THEOREM ExchangesAreExclusive == Spec => []ExclusiveExchange
<1>1. ASSUME IInv PROVE ExclusiveExchange
    BY <1>1 DEF IInv, ClaimInv, HoldsClaim, ExclusiveExchange
<1> QED
    BY <1>1, Invariance, PTL

\* Whichever way an exchange ends, its claim is given back (release_interface).
THEOREM EveryClaimIsReturned == Spec => []ClaimsAreReturned
<1>1. ASSUME IInv PROVE ClaimsAreReturned
    BY <1>1 DEF IInv, ClaimInv
<1> QED
    BY <1>1, Invariance, PTL

\* A call makes at most two report transfers a poll, of at most MaxPolls polls, for
\* each card of its snapshot, however the earlier exchanges ended (CAPE_MAX_POLLS), and
\* reads the product name of one card at most (read_string_descriptor_ascii).
THEOREM EveryCallIsBounded == Spec => []CallIsBounded
<1>1. ASSUME IInv, NameInv PROVE CallIsBounded
    BY <1>1, SpentWithinBudget DEF NameInv, CallIsBounded, Cost, N
<1> QED
    BY <1>1, Invariance, NameInvariance, PTL
=============================================================================
