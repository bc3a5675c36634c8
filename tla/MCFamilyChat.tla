---------------------------- MODULE MCFamilyChat ----------------------------
(***************************************************************************)
(* Instances of the chat for TLC.  The two halves of FamilyChat and the    *)
(* media of ChatMedia share no row in them and are checked side by side,   *)
(* so that the states add up instead of multiplying:                       *)
(*   members  - four guardians who come and go, two children, every policy *)
(*              and no message;                                            *)
(*   policy   - two changes of the policy at once;                         *)
(*   messages - a group of three and a child that joins it at any moment;  *)
(*   media    - two files, uploads that race, deletions, lost commits;     *)
(*   gateway  - two connections of one caller, one after the other.        *)
(***************************************************************************)
EXTENDS FamilyChat, ChatMedia, ChatGateway, TLC

CONSTANTS g1, g2, g3, g4, k1, k2, a, b
VARIABLE part

Authors == [x \in Sends |-> IF x = a THEN g1 ELSE k1]

Steps(steps) == \A t \in ChatTxns : job'[t].step \in steps

OnlyMembers ==
  /\ part = "members" /\ ChatNext
  /\ Steps({"rest", "policy", "join", "insert"})
  /\ Cardinality(gone') <= 1
  /\ Cardinality({t \in ChatTxns : job'[t].step = "policy"}) <= 1
  /\ policy.version # openedUnder => \A t \in ChatTxns : job'[t].step = "join" => job'[t] = job[t]
  /\ UNCHANGED <<mediaVars, gatewayVars>>

OnlyPolicy ==
  /\ part = "policy" /\ ChatNext
  /\ Steps({"rest", "policy"}) /\ shape' = "none" /\ active' = active
  /\ UNCHANGED <<mediaVars, gatewayVars>>

OnlyMessages ==
  /\ part = "messages" /\ ChatNext
  /\ policy = [version |-> 0, mode |-> "none"] /\ active' = active
  /\ shape = "none" => Members' = {g1, g2, k1}
  /\ Steps({"rest", "send", "edit", "join", "insert"})
  /\ \A t \in ChatTxns : job'[t].step = "join" => job'[t].on = k2
  /\ UNCHANGED <<mediaVars, gatewayVars>>

OnlyMedia ==
  /\ part = "media" /\ MediaNext
  /\ UNCHANGED <<chatVars, gatewayVars>>

OnlyGateway ==
  /\ part = "gateway" /\ GatewayNext
  /\ UNCHANGED <<chatVars, mediaVars>>

Sym == Permutations(ChatTxns) \cup Permutations(Requests) \cup Permutations({g3, g4})

Init ==
  /\ ChatInit /\ MediaInit /\ GatewayInit
  /\ part \in {"members", "policy", "messages", "media", "gateway"}
  /\ Cardinality(active) >= 3
  /\ part \notin {"members", "policy"} => policy.version = 0
  /\ part # "members" => active = Guardians
Next == (OnlyMembers \/ OnlyPolicy \/ OnlyMessages \/ OnlyMedia \/ OnlyGateway) /\ UNCHANGED part
Spec == Init /\ [][Next]_<<chatVars, mediaVars, gatewayVars, part>>
=============================================================================
