------------------------ MODULE CapabilityLifecycle ------------------------
(***************************************************************************)
(* The life of capabilities as core/gate/README.md draws it, and the       *)
(* promise that goes with it: the downstream adapter is called for a       *)
(* capability when its consumption starts and at no other time.            *)
(***************************************************************************)
EXTENDS Sequences

CONSTANT Capabilities

VARIABLES state,    \* per capability
          forwards  \* the capabilities the downstream adapter was called for

Init == /\ state = [c \in Capabilities |-> "UNISSUED"]
        /\ forwards = <<>>

Move(c, from, to) == /\ state[c] \in from
                     /\ \E s \in to : state' = [state EXCEPT ![c] = s]

Issue(c) == Move(c, {"UNISSUED"}, {"AVAILABLE"}) /\ UNCHANGED forwards

\* A capability whose first clock check fails is reserved and rejected with no
\* observable state between the two.
Validate(c) == /\ \/ Move(c, {"AVAILABLE"}, {"VALIDATING"})
                  \/ Move(c, {"AVAILABLE", "VALIDATING"}, {"REJECTED"})
               /\ UNCHANGED forwards

Forward(c) == /\ Move(c, {"VALIDATING"}, {"CONSUMING"})
              /\ forwards' = Append(forwards, c)

Finish(c) == /\ Move(c, {"CONSUMING"}, {"CONSUMED_SUCCESS", "CONSUMED_ERROR"})
             /\ UNCHANGED forwards

Next == \E c \in Capabilities : Issue(c) \/ Validate(c) \/ Forward(c) \/ Finish(c)

Spec == Init /\ [][Next]_<<state, forwards>>
=============================================================================
