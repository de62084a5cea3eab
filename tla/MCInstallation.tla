---------------------------- MODULE MCInstallation ----------------------------
(* Two files, which are alike: the order they are read and written in is    *)
(* every order.                                                             *)
EXTENDS Backup, TLC

CONSTANTS core, tools

TwoFiles == {core, tools}
Alike == Permutations(TwoFiles)
===============================================================================
