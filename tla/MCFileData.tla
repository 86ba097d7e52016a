----------------------------- MODULE MCFileData -----------------------------
(* Instances of FileData for TLC.                                          *)
EXTENDS FileData, TLC

CONSTANTS a, b
MCDump == <<a, b>>
MCGiven == <<b>>
Same == Permutations(Threads) \cup Permutations(Handles)
MCInodes == 1..3
==============================================================================
