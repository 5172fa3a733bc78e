---------------------------- MODULE MCGitPorcelain ----------------------------
(* Small instances of GitPorcelain for TLC.                                  *)
EXTENDS GitPorcelainInv, TLC

CONSTANTS A, B, r1, r2, r3, p, q, d, b1, b2

(* Two requests share the clone A, one uses B.                               *)
SharedClone == (r1 :> A) @@ (r2 :> A) @@ (r3 :> B)

Ask(verb, path, body) == [verb |-> verb, path |-> path, body |-> body]

SharedOps ==
    (r1 :> {Ask("POST", p, b1), Ask("PUT", p, b1), Ask("DELETE", p, NoFile),
            Ask("GET", p, NoFile), Ask("POST", d, b1)})
    @@ (r2 :> {Ask("POST", q, b2), Ask("PUT", p, b2), Ask("GET", p, NoFile),
               Ask("DELETE", d, NoFile)})
    @@ (r3 :> {Ask("POST", p, b2), Ask("PUT", p, b2), Ask("DELETE", p, NoFile)})
=============================================================================
