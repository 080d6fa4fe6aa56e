------------------------------ MODULE SuiteRun ------------------------------
(***************************************************************************)
(* What run.sh promises for the suite as a whole: the tests pass one after *)
(* the other; once a condition of a test has failed no test passes any     *)
(* more; and "All tests passed" is said only when every test has passed.   *)
(***************************************************************************)
CONSTANT Executable     \* whatever names an executable of the build directory

VARIABLES
  left,                 \* the executables that have not passed yet
  trouble,              \* has a condition failed
  said                  \* the last line of run.sh

vars == <<left, trouble, said>>

Init == /\ left \subseteq Executable
        /\ trouble = FALSE
        /\ said = "nothing"

Pass == /\ said = "nothing" /\ ~trouble
        /\ \E test \in left : left' = left \ {test}
        /\ UNCHANGED <<trouble, said>>

Complain == /\ said = "nothing"
            /\ trouble' = TRUE
            /\ UNCHANGED <<left, said>>

(* A test has failed, with or without a failed condition. *)
GiveUp == /\ said = "nothing"
          /\ said' = "failed"
          /\ UNCHANGED <<left, trouble>>

Finish == /\ said = "nothing" /\ ~trouble /\ left = {}
          /\ said' = "All tests passed"
          /\ UNCHANGED <<left, trouble>>

Next == Pass \/ Complain \/ GiveUp \/ Finish

Spec == Init /\ [][Next]_vars
=============================================================================
