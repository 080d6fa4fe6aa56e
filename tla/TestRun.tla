------------------------------ MODULE TestRun ------------------------------
(***************************************************************************)
(* What one run of a test promises to the reader of run.sh's output, with  *)
(* no word about ptrace: tasks come and go, one of them may complain that a *)
(* condition failed, and when all are gone the run is judged.  It may only *)
(* be judged "passed" if nobody complained.                                *)
(***************************************************************************)
CONSTANT Task           \* the tasks a test may consist of

VARIABLES
  running,              \* the tasks that are alive
  complaints,           \* the tasks that printed "Condition ... failed!"
  verdict

vars == <<running, complaints, verdict>>

Init == /\ running \in {{t} : t \in Task}
        /\ complaints = {}
        /\ verdict = "running"

(* A task creates another one. *)
Start == /\ running # {}
         /\ \E t \in Task \ running : running' = running \cup {t}
         /\ UNCHANGED <<complaints, verdict>>

(* The tasks of a process end together. *)
End == /\ \E G \in SUBSET running : G # {} /\ running' = running \ G
       /\ UNCHANGED <<complaints, verdict>>

(* A failed condition ends the process of the task that noticed it. *)
Complain == \E t \in running :
              /\ complaints' = complaints \cup {t}
              /\ \E G \in SUBSET running : t \in G /\ running' = running \ G
              /\ UNCHANGED verdict

Judge == /\ running = {} /\ verdict = "running"
         /\ \/ complaints = {} /\ verdict' = "passed"
            \/ verdict' = "failed"
         /\ UNCHANGED <<running, complaints>>

Next == Start \/ End \/ Complain \/ Judge

Spec == Init /\ [][Next]_vars
=============================================================================
