------------------------------ MODULE DirTree ------------------------------
(***************************************************************************)
(* The children map of a directory node (GDFSNode::children in            *)
(* lib/dir_tree.h) and the operations on it (lib/dir_tree.cc), with the   *)
(* name-conflict helpers of lib/common.cc.                                 *)
(*                                                                         *)
(* A map is a TLA+ function from the keys present to the node filed under *)
(* each.  The key a node is filed under and the node's own file_name are  *)
(* different pieces of state: every lookup goes by key, while             *)
(* remove_child and rename_child look a node up by its file_name.  An     *)
(* operation whose assert fails reports ok = FALSE.                       *)
(***************************************************************************)
EXTENDS Naturals, FiniteSets, Functions, TLC

CONSTANTS
    Names,   \* names a user or the server gives a file
    NoNode   \* find() returned NULL

(* remove_name_conflict appends "_k" to a name; <<n, k>> stands for n_k. *)
ConflictNames(K) == Names \X (1..K)

(* GDFSNode::find(name) *)
Find(ch, n) == IF n \in DOMAIN ch THEN ch[n] ELSE NoNode

(* std::unordered_map::emplace: no effect when the key is present. *)
Emplace(ch, n, node) == IF n \in DOMAIN ch THEN ch ELSE ch @@ (n :> node)

Erase(ch, n) == Restrict(ch, DOMAIN ch \ {n})

(* GDFSNode::insert(node): file the node under its file_name. *)
Insert(ch, name, node) == Emplace(ch, name, node)

(* GDFSNode::remove_child(child): erase the entry found under the child's *)
(* file_name, whichever node that is; the assert fails when there is none. *)
RemoveChild(ch, name) ==
    IF name \in DOMAIN ch THEN [ch |-> Erase(ch, name), ok |-> TRUE]
                          ELSE [ch |-> ch, ok |-> FALSE]

(* GDFSNode::rename_child(old, new): the node filed under old (moved)     *)
(* gets file_name new and is re-filed under new.                           *)
RenameChild(ch, old, new) ==
    IF old \in DOMAIN ch
    THEN [ch |-> Emplace(Erase(ch, old), new, ch[old]), ok |-> TRUE,
          moved |-> ch[old]]
    ELSE [ch |-> ch, ok |-> FALSE, moved |-> NoNode]

(* remove_name_conflict(name, is_dir, parent): the name itself if no      *)
(* child is filed under it, else name_k for the least k that is free.     *)
(* A free k exists among the first |DOMAIN ch| + 1.                        *)
RemoveNameConflict(ch, n) ==
    IF n \notin DOMAIN ch THEN n
    ELSE LET free == {k \in 1..(Cardinality(DOMAIN ch) + 1) : <<n, k>> \notin DOMAIN ch}
         IN  <<n, CHOOSE k \in free : \A j \in free : k <= j>>

(* is_old_name_conflict(new, old): old is new_<digits>. *)
IsOldNameConflict(new, old) == old \notin Names /\ old[1] = new
=============================================================================
