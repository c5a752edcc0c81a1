---------------------------- MODULE MCFolders ----------------------------
(* Instances of Folders: two small volumes.                                *)
EXTENDS Folders

CONSTANTS a, ab, f, x, y

MCNameStarts == {<<n, n>> : n \in Names} \cup {<<a, ab>>}

File(data) == [dir |-> FALSE, ro |-> FALSE, data |-> data]
Locked(data) == [dir |-> FALSE, ro |-> TRUE, data |-> data]

(* A folder in a folder of the same name.                                  *)
Nested == (<<>> :> Folder) @@ (<<a>> :> Folder) @@ (<<a, f>> :> File(<<x, y>>))
          @@ (<<a, a>> :> Folder) @@ (<<a, a, f>> :> File(<<y>>))

(* Copying /a to /ab meets a file where a folder goes, one file is         *)
(* read-only, and one name is the beginning of another.                    *)
Mixed == (<<>> :> Folder) @@ (<<a>> :> Folder) @@ (<<a, ab>> :> Folder)
         @@ (<<a, f>> :> Locked(<<x>>)) @@ (<<ab>> :> Folder)
         @@ (<<ab, a>> :> File(<<y, x>>))

MCTrees == {Nested, Mixed}
=============================================================================
