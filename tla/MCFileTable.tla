----------------------------- MODULE MCFileTable -----------------------------
(* The open-file model on a small instance.                                 *)
EXTENDS FileTable, TLC

(* Every file but the terminal of init is like every other. *)
FileSymmetry == Permutations(Files \ {Tty})

SmallOffsets == -1 .. 1

(* A bound: beside a file that has moved off its start no second file of    *)
(* FAT12 is followed.  No operation reads the positions of two files.       *)
MovedAlone == (\E f \in Files : pos[f] > 0) =>
                Cardinality({f \in Files : kind[f] = "fat"}) <= 1
=============================================================================
