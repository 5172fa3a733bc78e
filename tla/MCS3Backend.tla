----------------------------- MODULE MCS3Backend -----------------------------
(* Small instances of S3Backend for TLC.                                     *)
EXTENDS S3BackendInv, TLC

CONSTANTS r1, r2, p, q, b1, b2

Every(path, body) ==
    {o \in Operations : o.path = path /\ o.body \in {body, NoFile}}

(* Two requests on one path; the cleanup has another path to clean as well.  *)
RaceOps == (r1 :> Every(p, b1)) @@ (r2 :> Every(p, b2))

(* One POST.                                                                 *)
PostOps == r1 :> {o \in Every(p, b1) : o.verb = "POST"}
=============================================================================
