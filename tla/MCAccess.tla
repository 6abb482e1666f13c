------------------------------- MODULE MCAccess -------------------------------
(* Access with what TLC needs to check it on a small instance.              *)
EXTENDS Access, TLC

(* Users, tokens and requests are interchangeable.                          *)
Symmetric == Permutations(Users) \cup Permutations(Tokens) \cup Permutations(Requests)

(* Behaviours have one token, or one state of an authorization.             *)
OneTokenOrState == Cardinality({t \in Tokens : token[t] # NoToken}) <= 1 \/ started <= 1
=============================================================================
