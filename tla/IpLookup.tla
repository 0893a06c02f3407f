------------------------------ MODULE IpLookup ------------------------------
(***************************************************************************)
(* What RunIpCheck promises, with no goroutine, channel or loop in sight:   *)
(* every service of every family asked answers once, in any order, and      *)
(* after the last one the call returns, for each family, the merge of the   *)
(* answers in the services' order, with a missing AS number filled in or    *)
(* not. A wrong argument is answered at once.                              *)
(***************************************************************************)
EXTENDS IpInfo

CONSTANTS NumServices, Asked(_)

VARIABLES
  checkType,  \* the argument, "none" before the call
  answered,   \* the <<family, service>> pairs whose answer is known
  answer,     \* what they answered
  outcome,    \* "pending", "returned" or "failed"
  reply       \* what the call returned for each family

vars == <<checkType, answered, answer, outcome, reply>>

Services == 1 .. NumServices
Families == {"ipv4", "ipv6"}

Init ==
  /\ checkType = "none"
  /\ answered = {}
  /\ answer = [f \in Families |-> [s \in Services |-> Nil]]
  /\ outcome = "pending"
  /\ reply = [f \in Families |-> Nil]

Call ==
  /\ checkType = "none"
  /\ checkType' # "none"
  /\ outcome' = IF Asked(checkType') = {} THEN "failed" ELSE "pending"
  /\ UNCHANGED <<answered, answer, reply>>

Answer(f, s) ==
  /\ f \in Asked(checkType)
  /\ <<f, s>> \notin answered
  /\ answered' = answered \cup {<<f, s>>}
  /\ \A g \in Families, t \in Services : <<g, t>> # <<f, s>> => answer'[g][t] = answer[g][t]
  /\ UNCHANGED <<checkType, outcome, reply>>

Return ==
  /\ outcome = "pending"
  /\ Asked(checkType) # {}
  /\ answered = Asked(checkType) \X Services
  /\ outcome' = "returned"
  /\ \A f \in Families : IsFilledMergeOf(reply'[f], answer[f], Services)
  /\ UNCHANGED <<checkType, answered, answer>>

Next == Call \/ (\E f \in Families, s \in Services : Answer(f, s)) \/ Return

Spec == Init /\ [][Next]_vars

=============================================================================
