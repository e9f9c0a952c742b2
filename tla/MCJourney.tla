------------------------------ MODULE MCJourney ------------------------------
(* Instances of Journey for TLC. *)
EXTENDS Journey, TLC

CONSTANTS b1, b2, u1, u2, c1, c2

\* Two people sharing the browser.
Family == [b \in Browser |-> {u1, u2}]

FirstLinked  == [u \in User |-> IF u = u1 THEN c1 ELSE NotFound]
=============================================================================
