----------------------------- MODULE MCRemittances -----------------------------
(* Two identical remittances.  Clients send each of them its own           *)
(* transaction, the first also that of a call and the second that of the   *)
(* first; to the endpoints for calls the second's goes, and stands for     *)
(* that of any call as long as it goes nowhere else.                       *)
EXTENDS Remittances

CONSTANTS r1, r2, c1

MCAsked == [r \in Creates |-> "payment"]

MCPosted ==
  [e \in Creates \cup {None} |->
     CASE e = r1 -> {r1, c1} [] e = r2 -> {r1, r2} [] e = None -> {r2}]
==============================================================================
