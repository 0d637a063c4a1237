-------------------------- MODULE DeliveryContract --------------------------
(***************************************************************************)
(* What pushing the offline journal promises, without leases, requests or  *)
(* retries: the intents of one device are classified once each, in the     *)
(* order in which they were recorded, and the device learns the            *)
(* classification or gives up, for good in either case.                    *)
(***************************************************************************)
EXTENDS Naturals

CONSTANT MaxEvents             \* bound: intents the device records

VARIABLES
    recorded,                  \* how many intents the device has recorded
    classified,                \* the service's answer for each of the first ones
    told                       \* what the device holds for each intent

vars == <<recorded, classified, told>>

Events == 1..MaxEvents
Outcomes == {"APPLIED", "CONFLICT", "REJECTED"}

Init ==
    /\ recorded = 0
    /\ classified = [e \in Events |-> "NONE"]
    /\ told = [e \in Events |-> "NONE"]

Record ==
    /\ recorded < MaxEvents
    /\ recorded' = recorded + 1
    /\ UNCHANGED <<classified, told>>

\* The service answers the next intent and no other.
Classify(e) ==
    /\ e <= recorded
    /\ classified[e] = "NONE"
    /\ \A d \in 1..(e - 1) : classified[d] # "NONE"
    /\ \E o \in Outcomes : classified' = [classified EXCEPT ![e] = o]
    /\ UNCHANGED <<recorded, told>>

\* What the device may come to hold for an intent it had nothing for: the
\* service's answer, or that it gave the intent up (told "REJECTED" or not).
Verdicts(e) == ({classified[e]} \ {"NONE", "REJECTED"}) \cup {"GIVEN_UP"}

Learn ==
    /\ told' \in [Events -> {"NONE", "APPLIED", "CONFLICT", "GIVEN_UP", "FORGOTTEN"}]
    /\ \A e \in Events :
          \/ told'[e] = told[e]
          \/ e <= recorded /\ told[e] = "NONE" /\ told'[e] \in Verdicts(e)
    /\ UNCHANGED <<recorded, classified>>

\* The device forgets only what the service has answered.
Forget ==
    /\ \E S \in SUBSET Events :
          /\ \A e \in S : told[e] \in {"APPLIED", "GIVEN_UP"} /\ classified[e] # "NONE"
          /\ told' = [e \in Events |-> IF e \in S THEN "FORGOTTEN" ELSE told[e]]
    /\ UNCHANGED <<recorded, classified>>

Next == Record \/ Learn \/ Forget \/ \E e \in Events : Classify(e)

Spec == Init /\ [][Next]_vars
=============================================================================
