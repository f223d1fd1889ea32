------------------------------ MODULE ErrorLog ------------------------------
(***************************************************************************)
(* What the device-error store promises, with no word about how: a map     *)
(* from tokens to messages that holds the last Capacity bindings made.     *)
(* Making a binding takes a token that was never bound before; a binding   *)
(* never changes, and once forgotten it never comes back.                  *)
(***************************************************************************)
EXTENDS Integers, Sequences

CONSTANTS Tokens,    \* the tokens a status can carry
          Messages,  \* the device-error messages
          Capacity   \* how many bindings are kept

VARIABLES bound,     \* the live bindings: a function from tokens to messages
          history    \* the tokens ever bound, in the order of their binding

logVars == <<bound, history>>

\* The tokens bound by the last Capacity bindings of h.
Recent(h) == {h[i] : i \in {j \in 1..Len(h) : j > Len(h) - Capacity}}

Init ==
    /\ bound = << >>
    /\ history = << >>

Publish(token, message) ==
    /\ \A i \in 1..Len(history) : history[i] # token
    /\ history' = Append(history, token)
    /\ bound' = [t \in Recent(history') |->
                    IF t = token THEN message ELSE bound[t]]

Next == \E token \in Tokens, message \in Messages : Publish(token, message)

Spec == Init /\ [][Next]_logVars
=============================================================================
