--------------------------- MODULE RestOperations ---------------------------
(***************************************************************************)
(* What the four operations of APIBackend (src/api.go) ask of a store of   *)
(* named bodies, read off the simplest backend of the repository, the map  *)
(* of src/backends/memory/api.go.  A tree says for every path which body   *)
(* it holds, or NoFile.  DELETE asks for the body NoFile, so one effect    *)
(* serves the three writes.                                                *)
(***************************************************************************)
CONSTANTS Paths,   \* the names a client may use
          Bodies,  \* the contents a client may store
          NoFile   \* what a path without an entry holds

ASSUME NoFileAssumption == NoFile \notin Bodies

Trees == [Paths -> Bodies \cup {NoFile}]

(* A call of the interface.  GET and DELETE carry no body.                 *)
Operations ==
    [verb : {"POST", "PUT"}, path : Paths, body : Bodies]
        \cup [verb : {"GET", "DELETE"}, path : Paths, body : {NoFile}]

IsWrite(o) == o.verb # "GET"

(* The answers of the interface: a result, one of the two refusals, or the *)
(* error every other failure is reported as.                               *)
Answers == [code : {"ok", "notFound", "conflict", "error"},
            data : Bodies \cup {NoFile}]

Ok(data) == [code |-> "ok", data |-> data]
NotFound == [code |-> "notFound", data |-> NoFile]
Conflict == [code |-> "conflict", data |-> NoFile]
Error    == [code |-> "error", data |-> NoFile]

(* What the operation answers on a tree.                                   *)
Outcome(o, tree) ==
    LET exists == tree[o.path] # NoFile
    IN  CASE o.verb = "GET" -> IF exists THEN Ok(tree[o.path]) ELSE NotFound
          [] o.verb = "POST" -> IF exists THEN Conflict ELSE Ok(NoFile)
          [] OTHER -> IF exists THEN Ok(NoFile) ELSE NotFound

(* Whether it changes the tree, and the tree it leaves.                    *)
Writes(o, tree) == IsWrite(o) /\ Outcome(o, tree).code = "ok"

Effect(o, tree) ==
    IF Writes(o, tree) THEN [tree EXCEPT ![o.path] = o.body] ELSE tree
=============================================================================
