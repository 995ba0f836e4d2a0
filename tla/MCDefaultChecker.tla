--------------------------- MODULE MCDefaultChecker ---------------------------
(* Two servers; the admin's requests go to the first.                      *)
EXTENDS DefaultChecker

CONSTANTS t1, t2, a1, s1, s2

MCServerOf == [r \in Runs |-> IF r = t2 THEN s2 ELSE s1]
==============================================================================
