---------------------------- MODULE MC_PageCache ----------------------------
EXTENDS PageCache

(* root, the mounting user (who owns every listed file) and another user *)
(* outside the owner's group.                                              *)
Root  == [uid |-> 0, gid |-> 0]
Owner == [uid |-> 1000, gid |-> 1000]
Other == [uid |-> 1001, gid |-> 100]
MCCallers == {Root, Owner, Other}
OwnerOnly == {Owner}

(* chmod 0200 (write-only for the owner) and 0400 (read-only). *)
MCModes == {S_IWUSR, S_IRUSR}
NoModes == {}

(* File ids are interchangeable: no definition names one. *)
Symmetry == Permutations(Files)
(* Explores read calls only: every behaviour it reaches is one of Spec. *)
ReadCallsOnly == lastOp'.op = "read"
====
