------------------------------- MODULE Runner -------------------------------
(***************************************************************************)
(* run.sh: it runs every executable of the build directory as Harness.tla  *)
(* describes, one after the other, and stops at the first that fails.      *)
(***************************************************************************)
EXTENDS Mistakes

CONSTANTS
  Directories,  \* the states the build directory may be in
  Plain         \* the tests that are a program without TEST_MAIN

(* A directory exists or not, and lists what the glob finds, in its order. *)
Entry == [test : Tests, build : Builds, runnable : BOOLEAN]

ASSUME RunnerAssumption ==
  /\ \A d \in Directories : d.exists \in BOOLEAN /\ d.entries \in Seq(Entry)
  /\ Plain \subseteq Tests

VARIABLES
  dir,          \* the build directory
  next,         \* the entry the loop has got to
  shell         \* where run.sh is, or the last thing it said

script == <<dir, next, shell>>
run    == <<vars, script>>

Entries == DOMAIN dir.entries

-----------------------------------------------------------------------------
FindsDirectory ==
  /\ shell = "start"
  /\ shell' = IF dir.exists THEN "loop" ELSE "failed"
  /\ UNCHANGED <<vars, dir, next>>

(* Variant of Skip: the file is run all the same, and the status is 126. *)
SkipFails ==
  /\ shell = "loop" /\ next \in Entries
  /\ ~dir.entries[next].runnable
  /\ shell' = "failed"
  /\ UNCHANGED <<vars, dir, next>>

(* Not a regular file, or one that cannot be executed; also the pattern     *)
(* itself, which the glob leaves alone when there is nothing it matches.   *)
Skip ==
  /\ shell = "loop" /\ next \in Entries
  /\ ~dir.entries[next].runnable
  /\ next' = next + 1
  /\ UNCHANGED <<vars, dir, shell>>

(* A process starts, with memory, pipe and output of its own. *)
Launch ==
  /\ shell = "loop" /\ next \in Entries
  /\ dir.entries[next].runnable
  /\ shell' = "testing"
  /\ test' = dir.entries[next].test /\ build' = dir.entries[next].build
  /\ code' = Suite[dir.entries[next].test]
  /\ life' = [t \in Task |-> IF t = "tracer" THEN "running" ELSE "absent"]
  /\ exit' = [t \in Task |-> NoStatus]
  /\ at' = [t \in Task |-> [fn |-> t,
                            pc |-> IF t = "tracer" /\ dir.entries[next].test \notin Plain
                                   THEN 0 ELSE 1]]
  /\ frame' = [t \in Task |-> NoFrame]
  /\ flag' = [t \in Task |-> FALSE]
  /\ k' = [t \in Task |-> NewTask]
  /\ mem' = [b \in Addr |-> IF Quirk("mmap_fails") THEN Unmapped ELSE 0]
  /\ int1' = 0 /\ pipe' = FALSE /\ got' = "tracee"
  /\ complaints' = {} /\ verdict' = "running"
  /\ UNCHANGED <<kernel, dir, next>>

(* The test runs; $(...) and $? are RunnerCollects of Harness.tla. *)
Testing ==
  /\ shell = "testing"
  /\ Next
  /\ UNCHANGED script

SaysPassed ==
  /\ shell = "testing" /\ verdict = "passed"
  /\ shell' = "loop" /\ next' = next + 1
  /\ UNCHANGED <<vars, dir>>

(* Variant of SaysFailed: the loop goes on to the next test. *)
SaysFailedGoesOn ==
  /\ shell = "testing" /\ verdict = "failed"
  /\ shell' = "loop" /\ next' = next + 1
  /\ UNCHANGED <<vars, dir>>

SaysFailed ==
  /\ shell = "testing" /\ verdict = "failed"
  /\ shell' = "failed"
  /\ UNCHANGED <<vars, dir, next>>

AllPassed ==
  /\ shell = "loop" /\ next \notin Entries
  /\ shell' = "All tests passed"
  /\ UNCHANGED <<vars, dir, next>>

-----------------------------------------------------------------------------
(* Before the first launch there is no task, and no test to speak of. *)
RunInit ==
  /\ dir \in Directories /\ next = 1 /\ shell = "start"
  /\ kernel \in Kernels
  /\ test = (CHOOSE name \in Tests : TRUE) /\ code = Suite[test]
  /\ build = (CHOOSE bits \in Builds : TRUE)
  /\ life = [t \in Task |-> "absent"]
  /\ exit = [t \in Task |-> NoStatus]
  /\ at = [t \in Task |-> [fn |-> t, pc |-> 1]]
  /\ frame = [t \in Task |-> NoFrame]
  /\ flag = [t \in Task |-> FALSE]
  /\ k = [t \in Task |-> NewTask]
  /\ mem = [b \in Addr |-> Unmapped]
  /\ int1 = 0 /\ pipe = FALSE /\ got = "tracee"
  /\ complaints = {} /\ verdict = "running"

Script == FindsDirectory \/ Skip \/ Launch \/ SaysPassed \/ SaysFailed \/ AllPassed

RunNext == Script \/ Testing

(* The shell runs, and so does every task, as in Harness.tla. *)
RunFairness ==
  /\ WF_run(Script)
  /\ \A t \in Task : WF_run(shell = "testing" /\ Runs(t) /\ UNCHANGED script)
  /\ WF_run(shell = "testing" /\ TestMain /\ UNCHANGED script)
  /\ WF_run(shell = "testing" /\ RunnerCollects /\ UNCHANGED script)

RunSpec == RunInit /\ [][RunNext]_run /\ RunFairness

-----------------------------------------------------------------------------
(* The tests that have not passed. *)
Unpassed == {i \in Entries : i >= next /\ dir.entries[i].runnable}

(* run.sh does what SuiteRun promises. *)
Promised == INSTANCE SuiteRun WITH
  Executable <- Nat, left <- Unpassed,
  trouble <- (complaints # {}),
  said <- IF shell \in {"failed", "All tests passed"} THEN shell ELSE "nothing"
ImplementsSuiteRun == Promised!Spec

(* The suite notices a mistake: run.sh gets to its last line only if the    *)
(* directory has no test in it that is about the mistake of the kernel.    *)
SuiteNotices ==
  kernel \in Quirky /\ shell = "All tests passed" =>
    /\ dir.exists
    /\ \A i \in Entries : dir.entries[i].runnable =>
         dir.entries[i].test \notin DetectedBy(dir.entries[i].build)[kernel]
=============================================================================
