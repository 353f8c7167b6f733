---------------------------- MODULE MCInodeRaces ----------------------------
(* Inode for TLC, on the few inodes and paths of its counterexamples. *)
EXTENDS Inode

Short == {<<n>> : n \in Names}
DeepUp == Short \cup {<<m, n>> : m, n \in Names} \cup {<<DotDot>>, <<DotDot, DotDot>>}
=============================================================================
