---------------------------- MODULE MCGitProtocol ----------------------------
(* Small instances of GitProtocol for TLC.                                   *)
EXTENDS GitProtocolInv, TLC

CONSTANTS s1, s2, r1, r2, r3, p, b1, b2

(* Every operation on one path, with the body that names the request.        *)
Every(body) ==
    {o \in Operations : o.path = p /\ o.body \in {body, NoFile}}

WritesOf(body) == {o \in Every(body) : IsWrite(o)}

(* Two requests on two servers.                                              *)
TwoServerOf == (r1 :> s1) @@ (r2 :> s2)
TwoOps      == (r1 :> Every(b1)) @@ (r2 :> Every(b2))

(* The two servers, with their requests and bodies, are interchangeable.     *)
TwoSymmetry ==
    {[x \in {s1, s2, r1, r2, b1, b2} |-> x],
     (s1 :> s2) @@ (s2 :> s1) @@ (r1 :> r2) @@ (r2 :> r1) @@ (b1 :> b2) @@ (b2 :> b1)}

(* Two requests on one server.                                               *)
OneServerOf == (r1 :> s1) @@ (r2 :> s1)
OneSymmetry ==
    {[x \in {r1, r2, b1, b2} |-> x],
     (r1 :> r2) @@ (r2 :> r1) @@ (b1 :> b2) @@ (b2 :> b1)}

(* Two requests on one server and a write on another.                        *)
ThreeServerOf == (r1 :> s1) @@ (r2 :> s1) @@ (r3 :> s2)
ThreeOps == (r1 :> Every(b1)) @@ (r2 :> WritesOf(b1)) @@ (r3 :> WritesOf(b2))

(* One body, a request that reads or creates and one that replaces.          *)
LiveOps == (r1 :> {o \in Every(b1) : o.verb \in {"GET", "POST"}})
        @@ (r2 :> {o \in Every(b1) : o.verb = "PUT"})
=============================================================================
