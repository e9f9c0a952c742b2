------------------------------ MODULE MCGateway ------------------------------
(* Instances of Gateway for TLC. *)
EXTENDS Gateway, TLC

CONSTANTS b1, b2, u1, u2, c1, c2

\* One person at the browser; two people sharing it; one person each.
Alone  == [b \in Browser |-> {u1}]
Family == [b \in Browser |-> {u1, u2}]
Apart  == [b \in Browser |-> IF b = b1 THEN {u1} ELSE {u2}]

NobodyLinked == [u \in User |-> NotFound]
FirstLinked  == [u \in User |-> IF u = u1 THEN c1 ELSE NotFound]
EachLinked   == [u \in User |-> IF u = u1 THEN c1 ELSE c2]

\* Requests, session ids, states and tokens are interchangeable.
Interchange == Permutations(Req) \cup Permutations(Sid)
               \cup Permutations(State) \cup Permutations(Token)

\* Under Apart and EachLinked the two people are interchangeable too, each with
\* browser and account.
Swap == [e \in {b1, b2, u1, u2, c1, c2} |->
    CASE e = b1 -> b2 [] e = b2 -> b1 [] e = u1 -> u2 [] e = u2 -> u1
      [] e = c1 -> c2 [] e = c2 -> c1]
Twins == Interchange \cup {Swap}
=============================================================================
