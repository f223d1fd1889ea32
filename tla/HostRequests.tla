---------------------------- MODULE HostRequests ----------------------------
(***************************************************************************)
(* What a host may rely on when its threads set and read the settings of   *)
(* the machine through the library, in the host's own terms: a demand      *)
(* names registers and a value, takes effect at one moment between call    *)
(* and return or not at all, and its status tells which as far as anybody  *)
(* can know.  Nothing is said of how a setting is represented, checked or  *)
(* carried to the firmware.                                                *)
(***************************************************************************)
CONSTANTS Threads,
          Names,     \* the registers
          Values,    \* what the host can set and read
          Defaults,  \* from each register to its value after a restart
          Volatile,  \* the registers that also change by themselves
          Nothing    \* the answer of a call that has none

VARIABLES value,     \* from each register of the machine to its value
          call       \* from each thread to its call

vars == <<value, call>>

Idle == [stage |-> "idle"]

\* A demand is firm when its status tells whether it took effect.
Demand == [write : BOOLEAN, at : SUBSET Names, value : Values \cup {Nothing},
           firm : BOOLEAN]

Refusals == {"InvalidArgument", "NullPointer"}
Failures == {"EcError", "DataUnavailable"}

Open == [stage : {"open"}, demand : Demand, seen : {Nothing}]

Answered(seen, status) == [stage |-> "answered", seen |-> seen, status |-> status]

Init ==
    /\ DOMAIN value \subseteq Names
    /\ \A n \in DOMAIN value : value[n] = Defaults[n]
    /\ call = [t \in Threads |-> Idle]

\* The call of t becomes next, and the other calls stay.
Becomes(t, next) == call' = [call EXCEPT ![t] = next]

Ask(t) ==
    /\ call[t] = Idle
    /\ call'[t] \in Open
    /\ Becomes(t, call'[t])
    /\ UNCHANGED value

\* A call that is refused never takes effect.
Refuse(t) ==
    /\ call[t] = Idle
    /\ \E status \in Refusals : Becomes(t, Answered(Nothing, status))
    /\ UNCHANGED value

\* The one moment of a call: all of its registers at once, or one is looked at.
TakeEffect(t) ==
    /\ call[t].stage = "open"
    /\ LET demand == call[t].demand IN
          /\ demand.at \subseteq DOMAIN value
          /\ \/ /\ demand.write
                /\ value' = [n \in DOMAIN value |->
                                IF n \in demand.at THEN demand.value ELSE value[n]]
                /\ Becomes(t, [call[t] EXCEPT !.stage = "done"])
             \/ /\ ~demand.write
                /\ \E n \in demand.at :
                      Becomes(t, [call[t] EXCEPT !.stage = "done", !.seen = value[n]])
                /\ UNCHANGED value

\* Success means that it took effect, unless the demand is not firm.
Succeed(t) ==
    /\ call[t].stage \in {"open", "done"}
    /\ call[t].stage = "open" => ~call[t].demand.firm
    /\ \E seen \in {call[t].seen, Nothing} :
          /\ seen # call[t].seen => ~call[t].demand.firm
          /\ Becomes(t, Answered(seen, "Success"))
    /\ UNCHANGED value

\* A call that fails may have taken effect all the same, once.
Fail(t) ==
    /\ call[t].stage \in {"open", "done"}
    /\ \E status \in Failures : Becomes(t, Answered(Nothing, status))
    /\ UNCHANGED value

Return(t) ==
    /\ call[t].stage = "answered"
    /\ Becomes(t, Idle)
    /\ UNCHANGED value

\* The machine: a register that lives changes, the firmware restarts.
Drift ==
    /\ \E n \in DOMAIN value \cap Volatile :
          /\ value'[n] \in Values
          /\ value' = [value EXCEPT ![n] = value'[n]]
    /\ UNCHANGED call

Restart ==
    /\ value' = [n \in DOMAIN value |-> Defaults[n]]
    /\ UNCHANGED call

Step(t) ==
    Ask(t) \/ Refuse(t) \/ TakeEffect(t) \/ Succeed(t) \/ Fail(t) \/ Return(t)

Next == (\E t \in Threads : Step(t)) \/ Drift \/ Restart

Spec == Init /\ [][Next]_vars
=============================================================================
