------------------------------- MODULE MCServer -------------------------------
(* A small instance of Server for TLC.                                       *)
EXTENDS ServerInv, TLC

CONSTANTS t1, t2, m, w, x, y, b1, b2

Ask(verb, name, body) == [verb |-> verb, name |-> name, body |-> body]

(* executeUserActions of the uptime tester.                                  *)
UserActions == <<Ask("POST", 1, b1), Ask("GET", 1, NoFile), Ask("PUT", 1, b2),
                 Ask("POST", 2, b1), Ask("GET", 2, NoFile), Ask("DELETE", 2, NoFile)>>

(* A tester, and a client that stores and then tries another method.         *)
Scripts == (t1 :> UserActions) @@ (t2 :> <<Ask("POST", 1, b2), Ask("PATCH", 1, NoFile)>>)

Actions == (t1 :> 1) @@ (t2 :> 2)

(* Names of their own and one that is shared; /metrics, which the tester's   *)
(* random names never come to, is for the other client.                     *)
Names == (t1 :> {<<w, x>>}) @@ (t2 :> {<<y, y>>, <<x, x>>, <<m, m>>})

Nothing == [v \in Paths |-> NoFile]
FoundTrees == {[Nothing EXCEPT ![y] = b1]}
=============================================================================
