-------------------------- MODULE DeviceErrorStore --------------------------
(***************************************************************************)
(* The only global mutable state of the library: the bounded store of      *)
(* device-error messages that FrameworkStatus tokens refer to              *)
(* (src/src/status.rs).  Any number of host threads call into the library  *)
(* at once.  A failing call takes its token with an atomic fetch_add       *)
(* BEFORE it locks the store, so another thread may push a younger token   *)
(* first.  Some failures never reach the host: a helper inside the library *)
(* turns the error into a status, which stores the message, and drops the  *)
(* status.  A lookup is one critical section.                              *)
(***************************************************************************)
EXTENDS Integers, Sequences

CONSTANTS Threads,     \* host threads inside the library
          Messages,    \* device-error messages
          NoMessage,   \* the None of get_device_error_message
          NoEntry,     \* what a thread with nothing to push has pending
          Responses,   \* EcResponseStatus codes, as the i32 the wrapper casts
          RawCodes,    \* u32 response codes the wrapper does not know
          Limit,       \* STORED_DEVICE_ERROR_LIMIT, 64 in the build
          MaxId,       \* i32::MAX; the width of a token
          MaxErrors    \* bound: device errors raised in one behaviour

ASSUME StoreAssumption ==
    /\ Limit \in Nat \ {0}
    /\ MaxId \in Nat \ {0}
    /\ MaxErrors \in Nat
    /\ NoMessage \notin Messages
    /\ Responses \subseteq Int
    /\ RawCodes \subseteq Nat
    /\ NoEntry \notin [id : Int, message : Messages]

MinId == -MaxId - 1                 \* i32::MIN
Tokens == MinId..MaxId
Entry == [id : Tokens, message : Messages]
IdSpace == 2 * (MaxId + 1)          \* 2^32 in the build

\* A behaviour that stays inside one lap of the token counter.
OneLap == MaxErrors <= IdSpace

VARIABLES nextId,      \* NEXT_DEVICE_ERROR_ID
          store,       \* DEVICE_ERROR_MESSAGES, oldest first
          pending,     \* pending[t]: the entry thread t has yet to push
          issued,      \* history: number of fetch_adds so far
          pushed,      \* history: every entry pushed, in push order
          statuses     \* every status handed to the host, with its error

vars == <<nextId, store, pending, issued, pushed, statuses>>

Codes == {"EcResponse", "UnknownResponseCode", "DeviceError"}
-----------------------------------------------------------------------------
(* Reading the store *)

\* The first stored message for a token: iter().find().
FirstMatch(token) ==
    LET hits == {i \in 1..Len(store) : store[i].id = token}
        first == CHOOSE i \in hits : \A j \in hits : i <= j
    IN  IF hits = {} THEN NoMessage ELSE store[first].message

\* A default or wrapped token is refused before the lock is taken.
GetDeviceErrorMessage(token) ==
    IF token <= 0 THEN NoMessage ELSE FirstMatch(token)

\* Mutant: the lookup forgets that only a DeviceError carries a token.
MessageOfAnyCode(status) == GetDeviceErrorMessage(status.detail)

\* The message the host gets for a status; only a DeviceError carries a token.
MessageOf(status) ==
    IF status.code # "DeviceError" THEN NoMessage
    ELSE GetDeviceErrorMessage(status.detail)

-----------------------------------------------------------------------------
(* Turning an error into a status *)

Init ==
    /\ nextId = 1
    /\ store = << >>
    /\ pending = [t \in Threads |-> NoEntry]
    /\ issued = 0
    /\ pushed = << >>
    /\ statuses = {}

Report(code, detail, error) ==
    statuses' = statuses \cup {[code |-> code, detail |-> detail, error |-> error]}

\* An EC response code becomes a status without touching the store.
RaiseResponse(t) ==
    /\ pending[t] = NoEntry
    /\ \/ \E r \in Responses : Report("EcResponse", r, NoMessage)
       \/ \E c \in RawCodes :
             Report("UnknownResponseCode", IF c > MaxId THEN MaxId ELSE c, NoMessage)
    /\ UNCHANGED <<nextId, store, pending, issued, pushed>>

\* Mutant: a counter that skips the negative tokens starts again at one.
SuccessorFromOne(id) == IF id = MaxId THEN 1 ELSE id + 1

\* fetch_add(1, Relaxed) wraps, as every atomic does.
Successor(id) == IF id = MaxId THEN MinId ELSE id + 1

TakeToken(t) ==
    /\ pending[t] = NoEntry
    /\ issued < MaxErrors
    /\ \E m \in Messages :
          pending' = [pending EXCEPT ![t] = [id |-> nextId, message |-> m]]
    /\ nextId' = Successor(nextId)
    /\ issued' = issued + 1
    /\ UNCHANGED <<store, pushed, statuses>>

\* Mutants of the eviction loop: one too early, one too late, the wrong end.
EvictEarly(queue) ==
    IF Len(queue) >= Limit THEN SubSeq(queue, Len(queue) - Limit + 2, Len(queue)) ELSE queue
EvictLate(queue) ==
    IF Len(queue) > Limit + 1 THEN SubSeq(queue, Len(queue) - Limit, Len(queue)) ELSE queue
EvictNewest(queue) ==
    IF Len(queue) > Limit THEN SubSeq(queue, 1, Limit) ELSE queue

\* pop_front while the queue is longer than the limit.
Evict(queue) ==
    IF Len(queue) > Limit
    THEN SubSeq(queue, Len(queue) - Limit + 1, Len(queue))
    ELSE queue

\* The critical section, and the return: to the host, which keeps the status,
\* or to a helper of the library that drops it.
PushAndReturn(t) ==
    /\ pending[t] # NoEntry
    /\ store' = Evict(Append(store, pending[t]))
    /\ pushed' = Append(pushed, pending[t])
    /\ \/ Report("DeviceError", pending[t].id, pending[t].message)
       \/ UNCHANGED statuses
    /\ pending' = [pending EXCEPT ![t] = NoEntry]
    /\ UNCHANGED <<nextId, issued>>

Next == \E t \in Threads : RaiseResponse(t) \/ TakeToken(t) \/ PushAndReturn(t)

Spec == Init /\ [][Next]_vars
-----------------------------------------------------------------------------
(* Properties *)

\* Every variable keeps its type; the store never outgrows its limit.
TypeOK ==
    /\ nextId \in Tokens
    /\ store \in Seq(Entry) /\ Len(store) <= Limit
    /\ pending \in [Threads -> Entry \cup {NoEntry}]
    /\ issued \in 0..MaxErrors
    /\ pushed \in Seq(Entry)
    /\ \A s \in statuses :
          s.code \in Codes /\ s.detail \in Int /\ s.error \in Messages \cup {NoMessage}

\* A status never answers with the message of another error, however the
\* failing calls interleave and whatever number its detail happens to be
\* (framework_status_get_device_error_message, framework_status_get_description).
NeverAnothersMessage ==
    \A s \in statuses : MessageOf(s) \in {s.error, NoMessage}

\* A device error stays readable until Limit younger ones were pushed, and not
\* a push longer: retention is exact, for every token the counter has not
\* carried past i32::MAX (store_device_error_message, get_device_error_message).
RetainedExactly ==
    \A i \in 1..Len(pushed) :
        GetDeviceErrorMessage(pushed[i].id) =
            IF pushed[i].id > 0 /\ i > Len(pushed) - Limit
            THEN pushed[i].message ELSE NoMessage

\* Once a status has lost its message no later call brings a message back: the
\* host may cache "no message".
LostStaysLost ==
    [][\A s \in statuses : MessageOf(s) = NoMessage => MessageOf(s)' = NoMessage]_vars

\* The store implements the abstract log: bound holds what find() would return
\* for each stored token, and the history is the push order.
Log == INSTANCE ErrorLog WITH
    Capacity <- Limit,
    bound <- [token \in {store[i].id : i \in 1..Len(store)} |-> FirstMatch(token)],
    history <- [i \in 1..Len(pushed) |-> pushed[i].id]

ImplementsLog == Log!Spec
-----------------------------------------------------------------------------
(* The inductive invariant the proofs rest on *)

\* The token that the n-th fetch_add returns, n counted from one.
IdOf(n) == IF n <= MaxId THEN n ELSE n - IdSpace

\* Every token taken so far.
IssuedIds == {IdOf(n) : n \in 1..issued}

\* The counter is a function of the number of tokens taken.
CounterInv == issued < IdSpace => nextId = IdOf(issued + 1)

\* Every token in flight or pushed was taken from the counter, ...
IssuedInv ==
    /\ \A t \in Threads : pending[t] # NoEntry => pending[t].id \in IssuedIds
    /\ \A i \in 1..Len(pushed) : pushed[i].id \in IssuedIds

\* ... and by one failing call only.
DistinctInv ==
    /\ \A t, u \in Threads :
          t # u /\ pending[t] # NoEntry /\ pending[u] # NoEntry
             => pending[t].id # pending[u].id
    /\ \A t \in Threads, i \in 1..Len(pushed) :
          pending[t] # NoEntry => pending[t].id # pushed[i].id
    /\ \A i, j \in 1..Len(pushed) : i # j => pushed[i].id # pushed[j].id

\* The store is the last Limit entries pushed, in push order.
WindowInv ==
    /\ Len(store) = IF Len(pushed) <= Limit THEN Len(pushed) ELSE Limit
    /\ \A i \in 1..Len(store) : store[i] = pushed[Len(pushed) - Len(store) + i]

\* A DeviceError status the host holds was pushed with its message.
StatusInv ==
    \A s \in statuses : s.code = "DeviceError" =>
        \E i \in 1..Len(pushed) :
            pushed[i].id = s.detail /\ pushed[i].message = s.error

\* The bookkeeping behind every lookup: tokens in flight, pushed, stored and
\* handed out agree with the counter and with one another at every interleaving
\* of fetch_add and push (store_device_error_message).
StoreInv ==
    TypeOK /\ CounterInv /\ IssuedInv /\ DistinctInv /\ WindowInv /\ StatusInv
=============================================================================
