---- MODULE TextStore ----
(* What a store of rag-service promises to the requests that use it: a query  *)
(* is answered from the text the store holds at one moment of the query,      *)
(* however the text is indexed.                                               *)
CONSTANTS Content, Nothing

VARIABLES text, answer

vars == <<text, answer>>

Init == text \in Content /\ answer = Nothing

Put(t) == text' = t /\ answer' = answer

Ask == answer' = text /\ text' = text

Next == (\E t \in Content : Put(t)) \/ Ask

Spec == Init /\ [][Next]_vars
====
