------------------------------ MODULE MCBuild ------------------------------
(***************************************************************************)
(* Two tests, one of which executes a main program.                        *)
(***************************************************************************)
EXTENDS Build

TwoTests == <<"cont-same", "execve-32bit">>
Needs    == [test \in {"cont-same", "execve-32bit"} |->
               IF test = "execve-32bit" THEN {"32-bit-main"} ELSE {}]
Changing == {"cont-same", "execve-32bit", "common.h"}
=============================================================================
