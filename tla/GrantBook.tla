------------------------------ MODULE GrantBook ------------------------------
(***************************************************************************)
(* What the sensor guard promises: a grant stands from the request that    *)
(* made it until its time is over, it is revoked or the daemon restarts,   *)
(* and a token is confirmed exactly while its grant stands.  Identifiers   *)
(* are never reused while the daemon lives.                                *)
(***************************************************************************)
EXTENDS Naturals

CONSTANTS Ids, Grants, NoAnswer

VARIABLES
  standing,  \* the grants that stand, by identifier
  spent,     \* identifiers given out since the last start
  answer     \* the last confirmation

Without(id) == [i \in DOMAIN standing \ {id} |-> standing[i]]

Init == standing = <<>> /\ spent = {} /\ answer = NoAnswer

\* A grant whose time is zero never stands.
Grant(id, g) ==
  /\ id \notin spent
  /\ spent' = spent \cup {id}
  /\ standing' = [i \in DOMAIN standing \cup IF g.left > 0 THEN {id} ELSE {} |->
                    IF i = id THEN g ELSE standing[i]]
  /\ answer' = NoAnswer

Withdraw(id) == standing' = Without(id) /\ answer' = NoAnswer /\ UNCHANGED spent

Confirm(id) ==
  /\ answer' = [id |-> id, ok |-> id \in DOMAIN standing]
  /\ UNCHANGED <<standing, spent>>

\* Time runs for all grants alike.
Elapse ==
  /\ standing' = [i \in {j \in DOMAIN standing : standing[j].left > 1} |->
                    [standing[i] EXCEPT !.left = @ - 1]]
  /\ answer' = NoAnswer
  /\ UNCHANGED spent

Forget == standing' = <<>> /\ spent' = {} /\ answer' = NoAnswer

Next ==
  \/ \E id \in Ids : (\E g \in Grants : Grant(id, g)) \/ Withdraw(id) \/ Confirm(id)
  \/ Elapse
  \/ Forget

Spec == Init /\ [][Next]_<<standing, spent, answer>>
=============================================================================
