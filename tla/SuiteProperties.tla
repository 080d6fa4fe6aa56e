-------------------------- MODULE SuiteProperties --------------------------
(***************************************************************************)
(* What has to hold of the tests, whatever the schedule.                   *)
(***************************************************************************)
EXTENDS Harness

(* The types of all variables. *)
TypeOK ==
  /\ test \in Tests /\ code = Suite[test] /\ kernel \in Kernels /\ build \in Builds
  /\ life \in [Task -> Life] /\ exit \in [Task -> Status]
  /\ at \in [Task -> [fn : Fn, pc : Nat]]
  /\ frame \in [Task -> [fn : Fn, pc : Nat, mask : SUBSET Signal,
                         info : Info \cup {NoInfo}]]
  /\ flag \in [Task -> BOOLEAN]
  /\ k \in [Task -> TaskRec]
  /\ mem \in [Addr -> Byte \cup {Unmapped}]
  /\ int1 \in Int /\ pipe \in BOOLEAN /\ got \in Task
  /\ complaints \subseteq Task /\ verdict \in {"running", "passed", "failed"}

-----------------------------------------------------------------------------
(* No ASSERT of any test fails, on a kernel that behaves like Linux: the    *)
(* suite raises no false alarm in any interleaving of tracer and tracee.   *)
AssertionsHold == complaints = {}

(* A task leaves a ptrace-stop only after the tracer has collected that very *)
(* stop with waitpid: no test resumes a task it does not know to be stopped. *)
ObservedBeforeResume ==
  [][\A t \in Task : life[t] = "stopped" /\ life'[t] # "stopped" => k[t].seen]_vars

(* While a task is about to check a value in the shared mapping nobody     *)
(* changes the mapping: the ASSERTs on `atomic' and on *shared_u64 need no  *)
(* luck with the schedule.                                                 *)
ChecksAreStable ==
  [][\A t \in Task : At(t, "assert_int") \/ At(t, "assert_word")
       => UNCHANGED <<int1, mem>>]_vars

(* When the tracer returns 0 from main nothing of the test is left running: *)
(* no process survives to keep run.sh waiting for its output.              *)
NothingLeftBehind ==
  exit["tracer"] = Exited(0) => \A t \in Task : life[t] \notin Alive

(* Every run of a test comes to an end that run.sh reports: no interleaving *)
(* leaves tracer and tracee waiting for each other.                        *)
EveryTestReported == <>(verdict # "running")

-----------------------------------------------------------------------------
(* A test is contained when nothing but its own statements moves the tracer: *)
(* it starts nobody but the tracee, replaces no program and has no handler. *)
Contained(c) ==
  /\ \A i \in DOMAIN c["tracer"] :
       c["tracer"][i].op \notin {"clone", "sigreturn", "execve", "exit", "sigaction"}
  /\ \A f \in Fn \ {"kid"} : \A i \in DOMAIN c[f] : c[f][i].op # "exit"

(* It is supervised when the tracer, before it exits, has waited for the end *)
(* of the tracee (and of the process the tracee forks) with a check that    *)
(* the exit status 1 of a failed ASSERT does not pass.                     *)
Ended == {s \in AnyExit : s # Exited(1)}

Reaps(s, t) == s.op = "wait" /\ s.who = t /\ s.ok \subseteq Ended

ForksProcess(c) ==
  \E f \in Fn : \E i \in DOMAIN c[f] : c[f][i].op = "clone" /\ ~c[f][i].thread

ReapedBefore(c, i, t) == \E j \in 1 .. (i - 1) : Reaps(c["tracer"][j], t)

Supervised(c) ==
  /\ Contained(c)
  /\ \A i \in DOMAIN c["tracer"] : c["tracer"][i].op = "exit_group" =>
       /\ ReapedBefore(c, i, "tracee")
       /\ ForksProcess(c) => ReapedBefore(c, i, "kid")

(* It is mute when the tracee, all by itself, executes no ASSERT, or none in *)
(* the program it changes to and the tracer has seen it change.            *)
SilentOps == {"fetch_add", "store", "spin_while", "spin_until", "set_flag", "traceme", "raise",
              "setmask", "read", "write", "close", "setresuid", "pause", "exit_group"}

Silent(body) == \A i \in DOMAIN body : body[i].op \in SilentOps

AwaitsExec(s) == s.op = "wait" /\ s.who = "tracee" /\ s.ok = {EventStop("EXEC")}

Mute(c) ==
  /\ \A f \in {"tracee", "exec"} : \A i \in DOMAIN c[f] :
       c[f][i].op \notin {"clone", "sigreturn", "sigaction"}
  /\ \/ Silent(c["tracee"])
     \/ /\ Silent(c["exec"])
        /\ \A i \in DOMAIN c["tracer"] : c["tracer"][i].op = "exit_group" =>
             \E j \in 1 .. (i - 1) : AwaitsExec(c["tracer"][j])

(* Of such a test the exit status of the tracer says enough. *)
Accountable(c) == Supervised(c) \/ (Contained(c) /\ Mute(c))

(* run.sh looks at the exit status of the tracer alone.  Still, if it says  *)
(* "passed" no task of the test has printed a failed condition.            *)
VerdictHonest == verdict = "passed" => complaints = {}

(* A test passes only if its tracee existed and came to an end, although    *)
(* TEST_MAIN takes a fork() that fails for one that returned the pid -1.    *)
TraceeRan == verdict = "passed" => exit["tracee"] # NoStatus

(* The requests that no kernel can grant for a task that never existed.     *)
NeedsTask(s) ==
  /\ s.op \in QueryOps \cup UpdateOps \cup {"poke", "resume", "attach", "seize", "interrupt",
                                           "tgkill", "wait_nohang"}
  /\ s.who \in {"tracee", "kid", "got"}
  /\ s.op \notin {"tgkill", "wait_nohang"} => "ESRCH" \notin s.exp

(* A test is demanding when its tracer makes such a request before it exits. *)
Demanding(c) ==
  \A i \in DOMAIN c["tracer"] : c["tracer"][i].op = "exit_group" =>
    \E j \in 1 .. (i - 1) : NeedsTask(c["tracer"][j])

(* Behind statement i - 1 the tracer has waited for w, or w is the one its   *)
(* last waitpid has returned, and the tracer has not resumed w since.      *)
WaitedFor(c, i, w) ==
  \E j \in 1 .. (i - 1) :
    /\ c[j].op = "wait" /\ NoStatus \notin c[j].ok
    /\ w # "got" => c[j].who = w
    /\ \A m \in (j + 1) .. (i - 1) :
         /\ c[m].op = "resume" /\ "ok" \in c[m].exp => w # "got" /\ c[m].who \notin {w, "got"}
         /\ c[m].op = "wait" => w # "got"

(* A test is disciplined when only its tracer resumes, and only whom it has *)
(* waited for, and when the tracee starts no thread, whose end or execve     *)
(* would take stopped threads along.                                       *)
Disciplined(c) ==
  /\ \A f \in Fn : \A i \in DOMAIN c[f] : c[f][i].op = "clone" => ~c[f][i].thread
  /\ \A f \in Fn \ {"tracer"} : \A i \in DOMAIN c[f] : c[f][i].op # "resume"
  /\ \A i \in DOMAIN c["tracer"] :
       c["tracer"][i].op = "resume" /\ "ok" \in c["tracer"][i].exp
         => WaitedFor(c["tracer"], i, c["tracer"][i].who)

(* A test takes turns when tracer and tracee are alone, and the tracer      *)
(* changes or checks the shared mapping only while it holds the tracee.     *)
AlteringOps == {"fetch_add", "store", "store_bytes", "munmap", "poke", "execve"}
CheckingOps == {"assert_int", "assert_word"}

TakesTurns(c) ==
  /\ ~ForksProcess(c)
  /\ \A i \in DOMAIN c["tracer"] : c["tracer"][i].op \in AlteringOps \cup CheckingOps
       => WaitedFor(c["tracer"], i, "tracee")

(* The run as a whole does what TestRun promises. *)
Abstractly == INSTANCE TestRun WITH running <- {t \in Task : life[t] \in Alive}
ImplementsTestRun == Abstractly!Spec
=============================================================================
