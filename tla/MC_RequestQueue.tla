--------------------------- MODULE MC_RequestQueue ---------------------------
EXTENDS RequestQueue

(* One mode per creation path of gdfs_mknod: a regular file, a fifo (a    *)
(* special node, as a character or block device), and a socket, which the *)
(* S_IFREG bit test sends down the regular path.                           *)
MCMknodModes == {S_IFREG, S_IFIFO, S_IFSOCK}

(* Ids, workers and names are interchangeable. *)
Symmetry == Permutations(Ids) \cup Permutations(Workers) \cup Permutations(Names)
=============================================================================
