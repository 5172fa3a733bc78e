------------------------------ MODULE TreePathInv ------------------------------
(***************************************************************************)
(* The inductive invariant of TreePath.                                    *)
(***************************************************************************)
EXTENDS TreePath

(* Clients use top-level names only.                                         *)
Flat == \A p \in Paths : Len(p) = 1

(* And no name begins another.                                               *)
Plain == Flat /\ Between = {}

(* The files at the top are bodies, and they are those that are due.         *)
FilesInv ==
    /\ \A e \in head : e.mode = "file" => \E b \in Bodies : e.obj = Blob(b)
    /\ \A p \in Paths :
         ObjectAtPath(head, p) = IF due[p] = NoFile THEN {} ELSE {Blob(due[p])}

IInv == /\ TypeOK
        /\ Plain => FilesInv /\ AnswersAsDocumented
=============================================================================
