------------------------------ MODULE AudioCard ------------------------------
(***************************************************************************)
(* The version readback of the audio expansion card                        *)
(* (audio_card_version, src/src/versions.rs).  A call walks a snapshot of  *)
(* the USB devices; for each card it claims the HID interface, polls it    *)
(* with pairs of control transfers a bounded number of times and releases  *)
(* the interface.  It returns the answer, after a read of the card's       *)
(* product name, or goes on to the next card.  Several threads may call at *)
(* once, a claim excludes the others, and a card may be unplugged, refuse  *)
(* a transfer or never answer.                                             *)
(***************************************************************************)
EXTENDS Integers, Sequences, FiniteSets

CONSTANTS Threads,   \* host threads inside framework_get_audio_card_version
          Cards,     \* audio cards attached when the behaviour starts
          MaxPolls,  \* CAPE_MAX_POLLS, 32 in the build
          Nobody,    \* the owner of an interface that is not claimed
          None       \* the answer of a call that found no version

ASSUME AudioAssumption ==
    /\ MaxPolls \in Nat \ {0}
    /\ IsFiniteSet(Cards)
    /\ Nobody \notin Threads /\ None \notin Cards

VARIABLES attached,  \* cards that are plugged in
          claim,     \* claim[c]: the thread whose handle claimed c's interface
          pc,        \* where each thread is
          todo,      \* todo[t]: the devices t has still to look at, in their order
          card,      \* card[t]: the device t talks to
          polls,     \* polls[t]: turns of the loop t has finished on that device
          result,    \* result[t]: what t's last call returned
          ticks,     \* history: SetReports and GetReports of t's call, each up to
                     \* the timeout of the loop long
          names      \* history: product names t's call has read, each as long as
                     \* libusb takes for a string descriptor

vars == <<attached, claim, pc, todo, card, polls, result, ticks, names>>

Init ==
    /\ attached = Cards
    /\ claim = [c \in Cards |-> Nobody]
    /\ pc = [t \in Threads |-> "idle"]
    /\ todo = [t \in Threads |-> << >>]
    /\ card = [t \in Threads |-> None]
    /\ polls = [t \in Threads |-> 0]
    /\ result = [t \in Threads |-> None]
    /\ ticks = [t \in Threads |-> 0]
    /\ names = [t \in Threads |-> 0]

\* Bounds of the counters, one above what the code can reach.
PollCap == MaxPolls + 1
TickCap == 2 * MaxPolls * Cardinality(Cards) + 1
NameCap == 2

UpTo(cap, n) == IF n < cap THEN n + 1 ELSE n

At(t, label) == pc[t] = label
Goto(t, label) == pc' = [pc EXCEPT ![t] = label]

Unplug(c) ==
    /\ c \in attached
    /\ attached' = attached \ {c}
    /\ UNCHANGED <<claim, pc, todo, card, polls, result, ticks, names>>
-----------------------------------------------------------------------------
(* One call *)

\* The orders in which an enumeration can list the attached cards.
Listings == {s \in [1..Cardinality(attached) -> attached] :
                \A i, j \in DOMAIN s : s[i] = s[j] => i = j}

\* rusb::devices; when it fails, the call returns None at once.
Enumerate(t) ==
    /\ At(t, "idle")
    /\ result' = [result EXCEPT ![t] = None]
    /\ ticks' = [ticks EXCEPT ![t] = 0]
    /\ names' = [names EXCEPT ![t] = 0]
    /\ \/ \E s \in Listings : todo' = [todo EXCEPT ![t] = s] /\ Goto(t, "next")
       \/ UNCHANGED <<todo, pc>>
    /\ UNCHANGED <<attached, claim, card, polls>>

\* Mutant: the error of claim_interface is ignored.
ClaimAlways(c) == c \in attached

\* claim_interface succeeds on a card that is there and not claimed.
CanClaim(c) == c \in attached /\ claim[c] = Nobody

\* The next device: one that does not open, has no HID interface or cannot be
\* claimed is skipped.
NextDevice(t) ==
    /\ At(t, "next") /\ todo[t] # << >>
    /\ todo' = [todo EXCEPT ![t] = Tail(@)]
    /\ \/ /\ CanClaim(Head(todo[t]))
          /\ claim' = [claim EXCEPT ![Head(todo[t])] = t]
          /\ card' = [card EXCEPT ![t] = Head(todo[t])]
          /\ polls' = [polls EXCEPT ![t] = 0]
          /\ Goto(t, "write")
       \/ UNCHANGED <<claim, card, polls, pc>>
    /\ UNCHANGED <<attached, result, ticks, names>>

NoMoreDevices(t) ==
    /\ At(t, "next") /\ todo[t] = << >>
    /\ Goto(t, "idle")
    /\ UNCHANGED <<attached, claim, todo, card, polls, result, ticks, names>>

\* Mutant: the loop that waits for the reply has no bound.
PollAgainForever(t) == TRUE

\* Mutant: the range of the loop includes its end.
PollAgainOnceMore(t) == polls[t] <= MaxPolls

PollAgain(t) == polls[t] < MaxPolls

\* Mutant: a failed write goes on to the next device at once.
AfterFailedWriteSkip == "next"

\* Where a failed transfer leads: out of the loop, to release_interface.
AfterFailedWrite == "release"

\* SetReport.  It fails on a card that is gone and may fail on any other.
Write(t) ==
    /\ At(t, "write") /\ PollAgain(t)
    /\ ticks' = [ticks EXCEPT ![t] = UpTo(TickCap, @)]
    /\ \/ card[t] \in attached /\ Goto(t, "read")
       \/ Goto(t, AfterFailedWrite)
    /\ UNCHANGED <<attached, claim, todo, card, polls, result, names>>

GiveUp(t) ==
    /\ At(t, "write") /\ ~PollAgain(t)
    /\ Goto(t, "release")
    /\ UNCHANGED <<attached, claim, todo, card, polls, result, ticks, names>>

\* GetReport: the reply, another report, or an error.
Read(t) ==
    /\ At(t, "read")
    /\ ticks' = [ticks EXCEPT ![t] = UpTo(TickCap, @)]
    /\ \/ card[t] \in attached /\ Goto(t, "answered") /\ UNCHANGED polls
       \/ /\ card[t] \in attached /\ Goto(t, "write")
          /\ polls' = [polls EXCEPT ![t] = UpTo(PollCap, @)]
       \/ Goto(t, "release") /\ UNCHANGED polls
    /\ UNCHANGED <<attached, claim, todo, card, result, names>>

\* release_interface: on to the next device, or to the answered card's name, which
\* is read from the open handle without the claim.
Release(t) ==
    /\ pc[t] \in {"release", "answered"}
    /\ claim' = [claim EXCEPT ![card[t]] = IF @ = t THEN Nobody ELSE @]
    /\ \/ At(t, "answered") /\ Goto(t, "name") /\ UNCHANGED card
       \/ At(t, "release") /\ Goto(t, "next") /\ card' = [card EXCEPT ![t] = None]
    /\ polls' = [polls EXCEPT ![t] = 0]
    /\ UNCHANGED <<attached, todo, result, ticks, names>>

\* read_string_descriptor_ascii, if the card names a product string, and the return.
\* A read that fails leaves the name empty and keeps the answer.
ReadName(t) ==
    /\ At(t, "name")
    /\ UNCHANGED names \/ names' = [names EXCEPT ![t] = UpTo(NameCap, @)]
    /\ result' = [result EXCEPT ![t] = card[t]]
    /\ todo' = [todo EXCEPT ![t] = << >>]
    /\ card' = [card EXCEPT ![t] = None]
    /\ Goto(t, "idle")
    /\ UNCHANGED <<attached, claim, polls, ticks>>

\* A step inside a call; the call itself is the host's choice.
Step(t) ==
    \/ NextDevice(t) \/ NoMoreDevices(t)
    \/ Write(t) \/ GiveUp(t) \/ Read(t)
    \/ Release(t) \/ ReadName(t)

Next == \/ \E t \in Threads : Enumerate(t) \/ Step(t)
        \/ \E c \in Cards : Unplug(c)

\* A thread inside a call keeps running: a transfer ends with the loop's timeout or
\* libusb's at the latest, and no step waits for another thread.
Fairness == \A t \in Threads : WF_vars(Step(t))

Spec == Init /\ [][Next]_vars /\ Fairness
-----------------------------------------------------------------------------
(* Properties *)

Labels == {"idle", "next", "write", "read", "answered", "release", "name"}

\* Every variable keeps its type; no call polls a card more than MaxPolls times.
TypeOK ==
    /\ attached \subseteq Cards
    /\ claim \in [Cards -> Threads \cup {Nobody}]
    /\ pc \in [Threads -> Labels]
    /\ \A t \in Threads : todo[t] \in Seq(Cards) /\ Len(todo[t]) <= Cardinality(Cards)
    /\ card \in [Threads -> Cards \cup {None}]
    /\ polls \in [Threads -> 0..MaxPolls]
    /\ result \in [Threads -> Cards \cup {None}]
    /\ ticks \in [Threads -> 0..TickCap]
    /\ names \in [Threads -> 0..NameCap]

Exchanging(t) == pc[t] \in {"write", "read", "answered", "release"}

\* Two calls never mix their SetReports and GetReports on one interface: a call
\* that fails to claim it skips the card (audio_card_version, claim_interface).
ExclusiveExchange ==
    \A t, u \in Threads :
        t # u /\ Exchanging(t) /\ Exchanging(u) => card[t] # card[u]

\* However an exchange ends (a reply, too many polls, a failed write or read, an
\* unplugged card), the interface is given back: a claim is held only by a thread
\* inside the exchange it was made for.
ClaimsAreReturned ==
    \A c \in Cards : claim[c] # Nobody =>
        Exchanging(claim[c]) /\ card[claim[c]] = c

\* What a call may wait for, also when earlier cards failed half way: two report
\* transfers a poll, of at most MaxPolls polls, for each card of its snapshot, each as
\* long as the timeout of the loop; and one product name, of whichever card answered,
\* as long as libusb's own timeouts.
CallIsBounded ==
    \A t \in Threads :
        /\ ticks[t] + 2 * MaxPolls * Len(todo[t]) <= 2 * MaxPolls * Cardinality(Cards)
        /\ names[t] <= 1

\* Every call returns, whatever the cards and the other calls do: "a wedged card
\* cannot hang the calling thread" (versions.rs:132).
EveryCallReturns == \A t \in Threads : ~At(t, "idle") ~> At(t, "idle")
=============================================================================
