------------------------------ MODULE MCWatch ------------------------------
(* Watch with one go task, a file of its package and one that it imports, and *)
(* another file.                                                              *)
EXTENDS Watch, TLC

CONSTANTS server, main, lib, odd

AllSources == server :> Files
NoFiles == server :> {}
OwnFiles == server :> {main} \cap Files
ImportedFiles == server :> {lib}
=============================================================================
