------------------------------ MODULE SourceTree ------------------------------
(***************************************************************************)
(* What the components of a run share: the files of the tree.  One element *)
(* stands for one walk.File value, the entry of one path in one listing.   *)
(***************************************************************************)
EXTENDS Naturals, FiniteSets, Sequences

CONSTANT Files  \* the files below the tree root

ASSUME FilesAssumption == IsFiniteSet(Files)
===============================================================================
