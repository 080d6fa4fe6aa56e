-------------------------- MODULE RefinementProofs --------------------------
(***************************************************************************)
(* The run of an accountable test implements TestRun, and run.sh, with any  *)
(* build directory, implements SuiteRun; it gets past no test that cannot  *)
(* pass.                                                                   *)
(*                                                                         *)
(* Most steps are invisible: the same tasks are alive, nobody complains.   *)
(* fork() and clone() are Start; an exit, a signal and an execve by a      *)
(* thread are End; a failed ASSERT is Complain; and run.sh's verdict is    *)
(* Judge because VerdictHonest holds.                                      *)
(***************************************************************************)
EXTENDS Runner, TraceeProofs

Live == {t \in Task : life[t] \in Alive}

Accountability == \A name \in Tests : Accountable(Suite[name])

(* What a step means for TestRun; Start needs somebody who does it. *)
Invisible == UNCHANGED <<Live, complaints, verdict>>
Starts    == /\ Live # {} /\ \E u \in Task \ Live : Live' = Live \cup {u}
             /\ UNCHANGED <<complaints, verdict>>
Ends      == Live' \subseteq Live /\ UNCHANGED <<complaints, verdict>>
Complains == /\ \E t \in Live \ Live' : complaints' = complaints \cup {t}
             /\ Live' \subseteq Live /\ UNCHANGED verdict

-----------------------------------------------------------------------------
(* Such a step is one of TestRun. *)
LEMMA StepsAllowed ==
  ASSUME Invisible \/ Starts \/ Ends \/ Complains
  PROVE  [Abstractly!Next]_(Abstractly!vars)
<1>1. CASE Invisible
  BY <1>1 DEF Invisible, Live, Abstractly!vars
<1>2. CASE Starts
  BY <1>2 DEF Starts, Live, Abstractly!Next, Abstractly!Start
<1>3. CASE Ends /\ ~Invisible
  <2>1. Live \ Live' \in SUBSET Live /\ Live' = Live \ (Live \ Live') /\ Live \ Live' # {}
    BY <1>3 DEF Ends, Invisible
  <2>2. Abstractly!End
    BY <1>3, <2>1 DEF Ends, Live, Abstractly!End
  <2> QED BY <2>2 DEF Abstractly!Next
<1>4. CASE Complains
  <2>1. PICK t \in Live \ Live' : complaints' = complaints \cup {t}
    BY <1>4 DEF Complains
  <2>2. /\ Live \ Live' \in SUBSET Live /\ t \in Live \ Live'
        /\ Live' = Live \ (Live \ Live')
    BY <1>4, <2>1 DEF Complains
  <2>3. Abstractly!Complain
    BY <1>4, <2>1, <2>2 DEF Complains, Live, Abstractly!Complain
  <2> QED BY <2>3 DEF Abstractly!Next
<1> QED BY <1>1, <1>2, <1>3, <1>4

(* If nobody is born nobody more is alive. *)
LEMMA AgesEnds ==
  ASSUME TypeInv, TypeInv', \A u \in Task : Ages(life[u], life'[u]),
         UNCHANGED <<complaints, verdict>>
  PROVE  Ends
BY LivesDisjoint DEF Ends, Live, Ages, TypeInv, KernelOK

(* Death of some tasks leaves the others alive or not, as they were. *)
LEMMA DieEndsLive ==
  ASSUME TypeInv, TypeInv', NEW G \in SUBSET Task, NEW status \in Status, Die(G, status)
  PROVE  Live' \subseteq Live \ G
<1>1. KernelOK /\ life \in [Task -> Life]
  BY DEF TypeInv, KernelOK
<1>2. /\ \A u \in G : life'[u] \in Dead
      /\ \A u \in Task \ G : Ages(life[u], life'[u])
  BY <1>1, DieEnds
<1> QED BY <1>1, <1>2, LivesDisjoint DEF Live, Ages

(* A failed ASSERT is a complaint, of a task that is alive until then. *)
LEMMA AbortComplains ==
  ASSUME TypeInv, TypeInv', Honest, NEW t \in Task, life[t] = "running", Abort(t)
  PROVE  Complains
<1>1. Members(t) \in SUBSET Task /\ Exited(1) \in Status
  BY MembersAreTasks DEF Exited, NoStatus, Status, NoSig
<1>2. t \in Live /\ t \in Members(t)
  BY MembersFacts DEF Live, Alive, Honest, Family
<1>3. Live' \subseteq Live \ Members(t)
  BY <1>1, DieEndsLive DEF Abort
<1> QED BY <1>2, <1>3 DEF Complains, Abort

(* exit, the end of a thread, and death by a signal. *)
LEMMA EndingEnds ==
  ASSUME TypeInv, TypeInv', NEW t \in Task,
         ExitProcess(t) \/ ExitThread(t) \/ SignalKills(t)
  PROVE  Ends
<1>1. UNCHANGED <<complaints, verdict>>
  BY DEF ExitProcess, ExitThread, SignalKills
<1>2. PICK G, status : G \in SUBSET Task /\ Die(G, status)
  BY MembersAreTasks DEF ExitProcess, ExitThread, SignalKills
<1>3. status \in Status \/ G = {}
  <2>1. exit' \in [Task -> Status] /\ \A u \in G : exit'[u] = status
    BY <1>2 DEF Die, TypeInv, KernelOK
  <2>2. G \subseteq Task
    BY <1>2
  <2> QED BY <2>1, <2>2
<1>4. Live' \subseteq Live
  BY <1>2, <1>3, DieEndsLive DEF Die, Live
<1> QED BY <1>1, <1>4 DEF Ends

(* The kid is new when clone() or fork() returns. *)
LEMMA CreateKidStarts ==
  ASSUME TypeInv, TypeInv', NEW t \in Task, CreateKid(t)
  PROVE  Starts
<1>1. /\ life[t] = "running" /\ life["kid"] = "absent" /\ t # "kid"
      /\ \A u \in Task \ {"kid"} : Ages(life[u], life'[u])
  BY AtRuns, CreateKidTypes DEF CreateKid
<1>2. life \in [Task -> Life] /\ life' \in [Task -> Life] /\ "kid" \in Task
  BY DEF TypeInv, KernelOK, Task
<1>3. life'["kid"] = "running"
  BY <1>1, <1>2 DEF CreateKid
<1>4. Live' = Live \cup {"kid"} /\ t \in Live /\ "kid" \in Task \ Live
  BY <1>1, <1>2, <1>3, LivesDisjoint DEF Live, Ages, Alive
<1> QED BY <1>4 DEF Starts, CreateKid

(* A thread that calls execve takes the place of its leader. *)
LEMMA ExecEnds ==
  ASSUME TypeInv, TypeInv', Honest, NEW t \in Task, ExecSelf(t)
  PROVE  Ends
<1>1. /\ life[t] = "running"
      /\ t # Successor(t) => life'[t] = "gone"
      /\ \A u \in Task \ {t, Successor(t)} : life'[u] = life[u]
  BY ExecSelfTypes
<1>2. life[Successor(t)] \in Alive
  BY <1>1 DEF Successor, Honest, Family, Alive, Task
<1>3. Live' \subseteq Live
  BY <1>1, <1>2 DEF Live, Alive
<1> QED BY <1>3 DEF Ends, ExecSelf

-----------------------------------------------------------------------------
(* The steps of a task. *)
LEMMA RunsAllowed ==
  ASSUME TypeInv, TypeInv', Honest, NEW t \in Task, Runs(t)
  PROVE  Invisible \/ Starts \/ Ends \/ Complains
<1>1. life[t] = "running"
  BY RunsRunning
<1>2. CASE Quiet(t)
  BY <1>2, AgesEnds DEF Quiet
<1>3. CASE Abort(t)
  BY <1>1, <1>3, AbortComplains
<1>4. CASE HandlerReturns(t) \/ SignalHandled(t)
  <2>1. UNCHANGED <<complaints, verdict>>
    BY <1>4 DEF HandlerReturns, SignalHandled, Passive
  <2>2. \A u \in Task : life'[u] \in Alive => life[u] \in Alive
    BY <1>1, <1>4 DEF HandlerReturns, SignalHandled, Passive, TypeInv, KernelOK, Alive
  <2> QED BY <2>1, <2>2 DEF Ends, Live
<1>5. CASE SignalSetup(t)
  BY <1>5 DEF SignalSetup, Passive, Invisible, Live
<1>6. CASE CreateKid(t)
  BY <1>6, CreateKidStarts
<1>7. CASE ExecSelf(t)
  BY <1>7, ExecEnds
<1>8. CASE ExitProcess(t) \/ ExitThread(t) \/ SignalKills(t)
  BY <1>8, EndingEnds
<1>9. CASE (WaitReports(t) \/ WaitFails(t)) /\ ~Abort(t)
  BY <1>9, WaitTypes, AgesEnds
<1>10. CASE Computes(t)
  BY <1>2, <1>3, <1>4, <1>10, ComputesSteps
<1>11. CASE CallsKernel(t)
  BY <1>2, <1>3, <1>5, <1>6, <1>7, <1>8, <1>9, <1>11, CallsQuietly DEF CallsKernel
<1>12. CASE Ptraces(t)
  BY <1>2, <1>3, <1>12, PtracesSteps
<1>13. CASE KernelActs(t)
  BY <1>2, <1>4, <1>8, <1>13, KernelActsSteps
<1> QED BY <1>10, <1>11, <1>12, <1>13 DEF Runs

(* The steps of TEST_MAIN: there is no tracee before fork(). *)
LEMMA TestMainAllowed ==
  ASSUME TypeInv, TypeInv', Honest, TestMain
  PROVE  Invisible \/ Starts \/ Complains
<1>1. life["tracer"] = "running" /\ at["tracer"].pc = 0 /\ life["tracee"] = "absent"
  BY DEF TestMain, TestMainSetupFails, TestMainForks, TestMainForkFails, Honest, Family
<1>2. CASE TestMainSetupFails
  BY <1>1, <1>2, AbortComplains DEF TestMainSetupFails, Task
<1>3. CASE TestMainForks
  <2>1. life \in [Task -> Life] /\ "tracee" \in Task
    BY DEF TypeInv, KernelOK, Task
  <2>2. Live' = Live \cup {"tracee"} /\ "tracer" \in Live /\ "tracee" \in Task \ Live
    BY <1>1, <1>3, <2>1 DEF TestMainForks, Live, Alive, Task
  <2> QED BY <1>3, <2>2 DEF Starts, TestMainForks
<1>4. CASE TestMainForkFails
  BY <1>4 DEF TestMainForkFails, Invisible, Live
<1> QED BY <1>2, <1>3, <1>4 DEF TestMain

(* run.sh judges when nobody is alive, and "passed" only the silent. *)
LEMMA CollectJudges ==
  ASSUME TypeInv, VerdictHonest', RunnerCollects
  PROVE  Abstractly!Next
<1>1. Live = {} /\ Live' = {} /\ verdict = "running" /\ UNCHANGED complaints
  BY DEF RunnerCollects, Live
<1>2. (complaints = {} /\ verdict' = "passed") \/ verdict' = "failed"
  BY <1>1 DEF RunnerCollects, VerdictHonest
<1>3. Abstractly!Judge
  BY <1>1, <1>2 DEF Live, Abstractly!Judge
<1> QED BY <1>3 DEF Abstractly!Next

(* In a suite of accountable tests every step is one of TestRun. *)
LEMMA NextRefines ==
  ASSUME Accountability, VerdictInv, VerdictInv', [Next]_vars
  PROVE  [Abstractly!Next]_(Abstractly!vars)
<1>1. TypeInv /\ TypeInv' /\ Honest /\ Accountable(code)'
  BY DEF Accountability, Accountable, Supervised, VerdictInv, HonestInv, TypeInv, RestOK
<1>2. CASE TestMain
  BY <1>1, <1>2, TestMainAllowed, StepsAllowed
<1>3. CASE RunnerCollects
  <2>1. VerdictHonest'
    BY <1>1, AccountableVerdict, PTL
  <2> QED BY <1>1, <1>3, <2>1, CollectJudges
<1>4. CASE \E t \in Task : Runs(t)
  BY <1>1, <1>4, RunsAllowed, StepsAllowed
<1>5. CASE UNCHANGED vars
  BY <1>5, StepsAllowed DEF vars, Invisible, Live
<1> QED BY <1>2, <1>3, <1>4, <1>5 DEF Next

(* ImplementsTestRun: if the exit status of every test accounts for its     *)
(* tasks, then on every kernel, with or without fork() failing, a run of a test   *)
(* is tasks that come and go, and is not judged "passed" if one complained. *)
THEOREM RefinesTestRun == ASSUME Accountability PROVE Spec => ImplementsTestRun
<1>1. Init => Abstractly!Init
  <2> SUFFICES ASSUME Init PROVE Abstractly!Init
    OBVIOUS
  <2>1. Live = {"tracer"}
    BY DEF Init, Live, Alive, Task
  <2> QED BY <2>1 DEF Init, Live, Abstractly!Init, Task
<1>2. VerdictInv /\ VerdictInv' /\ [Next]_vars => [Abstractly!Next]_(Abstractly!vars)
  BY NextRefines
<1>3. Spec => []VerdictInv
  BY InitNewborn, NewbornMuted, NextVerdict, PTL DEF Spec
<1> QED BY <1>1, <1>2, <1>3, PTL DEF Spec, ImplementsTestRun, Abstractly!Spec

-----------------------------------------------------------------------------
(* run.sh does what SuiteRun promises, with any build directory and any    *)
(* kernel: always if no test is passed in which a condition failed, and    *)
(* that is so if the exit status of every test accounts for its tasks.     *)

(* A test is under way at an executable of the directory only. *)
LoopInv ==
  /\ dir \in Directories /\ next \in Nat \ {0} /\ kernel \in Kernels
  /\ shell \in {"start", "loop", "testing", "failed", "All tests passed"}
  /\ shell = "testing" => VerdictInv /\ next \in Entries /\ dir.entries[next].runnable

(* When the loop looks for the next one nothing has gone wrong so far. *)
Untroubled == shell \in {"start", "loop"} => complaints = {}

ScriptInv == LoopInv /\ Untroubled

-----------------------------------------------------------------------------
(* What is in the directory is an entry. *)
LEMMA EntriesAre ==
  ASSUME dir \in Directories, NEW i \in Entries
  PROVE  dir.entries[i].test \in Tests /\ dir.entries[i].build \in Builds
<1>1. dir.entries \in Seq(Entry)
  BY RunnerAssumption
<1>2. dir.entries[i] \in Entry
  BY <1>1 DEF Entries
<1> QED BY <1>2 DEF Entry

(* Launch is the birth of a test. *)
LEMMA LaunchNewborn == ASSUME LoopInv, Launch PROVE Newborn'
<1> DEFINE e == dir.entries[next]
<1>1. e.test \in Tests /\ e.build \in Builds
  BY EntriesAre DEF LoopInv, Launch
<1>2. at' = [t \in Task |-> [fn |-> t, pc |-> IF t = "tracer"
                                             THEN IF e.test \notin Plain THEN 0 ELSE 1 ELSE 1]]
  BY DEF Launch
<1>3. \E pc \in {0, 1} : at' = [t \in Task |-> [fn |-> t, pc |-> IF t = "tracer" THEN pc ELSE 1]]
  BY <1>2
<1>4. mem' \in [Addr -> {0, Unmapped}]
  BY Zenon DEF Launch
<1>5. kernel' = "mmap_fails" => \A b \in Addr : mem'[b] = Unmapped
  BY DEF Launch, Quirk
<1>6. /\ test' = e.test /\ build' = e.build /\ code' = Suite[e.test] /\ kernel' = kernel
      /\ life' = [t \in Task |-> IF t = "tracer" THEN "running" ELSE "absent"]
  BY Zenon DEF Launch
<1>7. /\ test' \in Tests /\ code' = Suite[test'] /\ kernel' \in Kernels /\ build' \in Builds
      /\ \E l \in {"running", "absent"} :
           life' = [t \in Task |-> IF t = "tracer" THEN l ELSE "absent"]
  BY <1>1, <1>6 DEF LoopInv
<1>8. /\ exit' = [t \in Task |-> NoStatus]
      /\ frame' = [t \in Task |-> NoFrame] /\ flag' = [t \in Task |-> FALSE]
      /\ k' = [t \in Task |-> NewTask]
      /\ int1' = 0 /\ pipe' = FALSE /\ got' = "tracee"
      /\ complaints' = {} /\ verdict' = "running"
  BY Zenon DEF Launch
<1> QED BY <1>3, <1>4, <1>7, <1>8, <1>5, Zenon DEF Newborn

(* While a test runs complaints are not taken back, and the verdict is left *)
(* to run.sh.                                                              *)
LEMMA ComplaintsStay ==
  ASSUME VerdictInv, VerdictInv', Next
  PROVE  /\ complaints \subseteq complaints'
         /\ ~RunnerCollects => UNCHANGED verdict
<1>1. TypeInv /\ TypeInv'
  BY DEF VerdictInv, HonestInv
<1>2. CASE TestMain
  BY <1>2 DEF TestMain, TestMainSetupFails, TestMainForks, TestMainForkFails, Abort
<1>3. CASE RunnerCollects
  BY <1>3 DEF RunnerCollects
<1>4. ASSUME NEW t \in Task, Runs(t)
      PROVE  complaints \subseteq complaints' /\ UNCHANGED verdict
  <2>1. CASE Quiet(t) \/ Abort(t)
    BY <2>1 DEF Quiet, Abort
  <2>2. CASE HandlerReturns(t) \/ SignalHandled(t) \/ SignalSetup(t)
    BY <2>2 DEF HandlerReturns, SignalHandled, SignalSetup, Passive
  <2>3. CASE CreateKid(t) \/ ExecSelf(t)
    BY <2>3 DEF CreateKid, ExecSelf
  <2>4. CASE ExitProcess(t) \/ ExitThread(t) \/ SignalKills(t)
    BY <2>4 DEF ExitProcess, ExitThread, SignalKills
  <2>5. CASE WaitReports(t) \/ WaitFails(t)
    BY <1>1, <2>1, <2>5, WaitTypes
  <2>6. CASE Computes(t)
    BY <1>1, <2>1, <2>2, <2>6, ComputesSteps
  <2>7. CASE CallsKernel(t)
    BY <1>1, <2>1, <2>2, <2>3, <2>4, <2>5, <2>7, CallsQuietly DEF CallsKernel
  <2>8. CASE Ptraces(t)
    BY <1>1, <2>1, <2>8, PtracesSteps
  <2>9. CASE KernelActs(t)
    BY <1>1, <2>1, <2>2, <2>4, <2>9, KernelActsSteps
  <2> QED BY <1>4, <2>6, <2>7, <2>8, <2>9 DEF Runs
<1> QED BY <1>2, <1>3, <1>4 DEF Next

-----------------------------------------------------------------------------
(* The script's own steps and the test's keep the invariant. *)

(* At the start nothing has been said. *)
LEMMA StartScript == RunInit => ScriptInv /\ VerdictHonest
BY DEF RunInit, ScriptInv, LoopInv, Untroubled, VerdictHonest

(* A launched test is newborn, and so it has the invariant of a test. *)
LEMMA LaunchScript == ASSUME LoopInv, Launch PROVE LoopInv'
<1>1. Newborn => VerdictInv
  BY NewbornMuted
<1>2. Newborn'
  BY LaunchNewborn
<1>3. VerdictInv'
  BY <1>1, <1>2, NewbornMuted, PTL
<1>4. /\ shell' = "testing" /\ UNCHANGED <<kernel, dir, next>>
      /\ next \in Entries /\ dir.entries[next].runnable
  BY DEF Launch
<1> QED BY <1>3, <1>4 DEF LoopInv, Entries

(* A step of the test at hand. *)
LEMMA TestingScript == ASSUME LoopInv, Testing PROVE LoopInv' /\ VerdictInv /\ VerdictInv'
<1>1. VerdictInv /\ shell = "testing" /\ Next /\ UNCHANGED <<dir, next, shell>>
  BY DEF LoopInv, Testing, script
<1>2. VerdictInv'
  BY <1>1, NextVerdict
<1>3. kernel' \in Kernels
  BY <1>2 DEF VerdictInv, HonestInv, TypeInv, RestOK
<1> QED BY <1>1, <1>2, <1>3 DEF LoopInv, Entries

(* The invariant of a test is about the variables of the test only. *)
LEMMA VerdictInvKept == ASSUME VerdictInv, UNCHANGED vars PROVE VerdictInv'
BY NextVerdict

(* The other steps leave the test alone.                                   *)
LEMMA ScriptSteps ==
  ASSUME LoopInv,
         FindsDirectory \/ Skip \/ SaysPassed \/ SaysFailed \/ AllPassed \/ UNCHANGED run
  PROVE  LoopInv' /\ UNCHANGED <<complaints, verdict>>
<1>1. UNCHANGED <<vars, dir>> /\ UNCHANGED <<complaints, verdict, kernel>>
  BY DEF FindsDirectory, Skip, SaysPassed, SaysFailed, AllPassed, run, script, vars, static
<1>2. next' \in Nat \ {0}
  <2>1. next \in Nat \ {0}
    BY DEF LoopInv
  <2>2. next' = next \/ next' = next + 1
    BY DEF FindsDirectory, Skip, SaysPassed, SaysFailed, AllPassed, run, script
  <2> QED BY <2>1, <2>2
<1>3. shell' = "testing" => shell = "testing" /\ next' = next
  BY DEF FindsDirectory, Skip, SaysPassed, SaysFailed, AllPassed, run, script
<1>4. shell' \in {"start", "loop", "testing", "failed", "All tests passed"}
  BY DEF LoopInv, FindsDirectory, Skip, SaysPassed, SaysFailed, AllPassed, run, script
<1>5. shell' = "testing" => VerdictInv' /\ next' \in Entries' /\ dir'.entries[next'].runnable
  <2> SUFFICES ASSUME shell' = "testing"
               PROVE  VerdictInv' /\ next' \in Entries' /\ dir'.entries[next'].runnable
    OBVIOUS
  <2>1. shell = "testing" /\ next' = next /\ dir' = dir /\ UNCHANGED vars
    BY <1>1, <1>3
  <2>2. VerdictInv /\ next \in Entries /\ dir.entries[next].runnable
    BY <2>1 DEF LoopInv
  <2>3. VerdictInv'
    BY <2>1, <2>2, VerdictInvKept
  <2> QED BY <2>1, <2>2, <2>3 DEF Entries
<1> QED BY <1>1, <1>2, <1>4, <1>5 DEF LoopInv

(* Every step keeps the invariant of the loop. *)
LEMMA LoopInvKept == LoopInv /\ [RunNext]_run => LoopInv'
BY LaunchScript, TestingScript, ScriptSteps DEF RunNext, Script

(* And the other one, while verdicts can be trusted. *)
LEMMA ScriptInvKept == ScriptInv /\ VerdictHonest /\ [RunNext]_run => ScriptInv'
<1> SUFFICES ASSUME ScriptInv, VerdictHonest, [RunNext]_run PROVE Untroubled'
  BY LoopInvKept DEF ScriptInv
<1>1. CASE Launch
  BY <1>1 DEF Launch, Untroubled
<1>2. CASE Testing
  BY <1>2 DEF Testing, script, Untroubled
<1>3. CASE FindsDirectory \/ Skip \/ SaysPassed \/ SaysFailed \/ AllPassed \/ UNCHANGED run
  <2>1. UNCHANGED complaints
    BY <1>3, ScriptSteps DEF ScriptInv
  <2> QED BY <1>3, <2>1 DEF ScriptInv, Untroubled, VerdictHonest, FindsDirectory, Skip,
                            SaysPassed, SaysFailed, AllPassed, run, script
<1> QED BY <1>1, <1>2, <1>3 DEF RunNext, Script

(* In a suite of accountable tests they can. *)
LEMMA TrustKept ==
  ASSUME Accountability, ScriptInv, VerdictHonest, [RunNext]_run
  PROVE  VerdictHonest'
<1>1. CASE Launch
  BY <1>1 DEF Launch, VerdictHonest
<1>2. CASE Testing
  <2>1. VerdictInv'
    BY <1>2, TestingScript DEF ScriptInv
  <2>2. Accountable(code)'
    BY <2>1 DEF VerdictInv, HonestInv, TypeInv, RestOK, Accountability
  <2> QED BY <2>1, <2>2, AccountableVerdict, PTL
<1>3. CASE FindsDirectory \/ Skip \/ SaysPassed \/ SaysFailed \/ AllPassed \/ UNCHANGED run
  BY <1>3, ScriptSteps DEF ScriptInv, VerdictHonest
<1> QED BY <1>1, <1>2, <1>3 DEF RunNext, Script

-----------------------------------------------------------------------------
(* The steps of run.sh are those of SuiteRun. *)

(* The entries are numbered. *)
LEMMA EntriesNumbered ==
  ASSUME dir \in Directories
  PROVE  /\ Len(dir.entries) \in Nat /\ Entries = 1 .. Len(dir.entries)
         /\ Entries \subseteq Nat
<1>1. dir.entries \in Seq(Entry)
  BY RunnerAssumption
<1>2. Len(dir.entries) \in Nat /\ Entries = 1 .. Len(dir.entries)
  BY <1>1 DEF Entries
<1> QED BY <1>2

(* Skipping what cannot be run skips no test. *)
LEMMA SkipSkipsNothing == ASSUME LoopInv, Skip PROVE UNCHANGED Unpassed
<1>1. UNCHANGED dir /\ next' = next + 1 /\ next \in Nat /\ ~dir.entries[next].runnable
  BY DEF LoopInv, Skip
<1>2. Entries \subseteq Nat /\ Entries' = Entries
  <2>1. dir \in Directories
    BY DEF LoopInv
  <2>2. Entries \subseteq Nat
    BY <2>1, EntriesNumbered
  <2> QED BY <1>1, <2>2 DEF Entries
<1>3. \A i \in Entries : dir.entries[i].runnable => (i >= next <=> i >= next + 1)
  <2>1. \A i \in Entries : i # next => (i >= next <=> i >= next + 1)
    BY <1>1, <1>2
  <2> QED BY <1>1, <2>1
<1>4. Unpassed' = {i \in Entries : i >= next + 1 /\ dir.entries[i].runnable}
  BY <1>1, <1>2 DEF Unpassed
<1> QED BY <1>3, <1>4 DEF Unpassed

(* A passed test is one less. *)
LEMMA PassedIsLess ==
  ASSUME LoopInv, SaysPassed
  PROVE  next \in Unpassed /\ Unpassed' = Unpassed \ {next}
<1>1. /\ UNCHANGED dir /\ next' = next + 1 /\ next \in Nat
      /\ next \in Entries /\ dir.entries[next].runnable
  BY DEF LoopInv, SaysPassed
<1>2. Entries \subseteq Nat /\ Entries' = Entries
  <2>1. dir \in Directories
    BY DEF LoopInv
  <2>2. Entries \subseteq Nat
    BY <2>1, EntriesNumbered
  <2> QED BY <1>1, <2>2 DEF Entries
<1>3. \A i \in Entries : i >= next + 1 <=> i >= next /\ i # next
  BY <1>1, <1>2
<1>4. Unpassed' = {i \in Entries : i >= next + 1 /\ dir.entries[i].runnable}
  BY <1>1, <1>2 DEF Unpassed
<1>5. next \in Unpassed
  BY <1>1 DEF Unpassed
<1> QED BY <1>3, <1>4, <1>5 DEF Unpassed

(* At the end of the listing no test is left. *)
LEMMA NothingLeft == ASSUME LoopInv, AllPassed PROVE Unpassed = {}
<1>1. Len(dir.entries) \in Nat /\ Entries = 1 .. Len(dir.entries)
  BY EntriesNumbered DEF LoopInv
<1>2. next \in Nat \ {0} /\ next \notin Entries
  BY DEF LoopInv, AllPassed
<1>3. \A i \in Entries : ~(i >= next)
  BY <1>1, <1>2
<1> QED BY <1>3 DEF Unpassed

(* Each step of the script and of its tests. *)
LEMMA RunRefines ==
  ASSUME ScriptInv, ScriptInv', VerdictHonest, [RunNext]_run
  PROVE  [Promised!Next]_(Promised!vars)
<1>1. CASE FindsDirectory
  <2>1. UNCHANGED <<Unpassed, complaints>>
    BY <1>1 DEF FindsDirectory, vars, Unpassed, Entries
  <2> QED BY <1>1, <2>1 DEF FindsDirectory, Promised!Next, Promised!GiveUp, Promised!vars
<1>2. CASE Skip
  <2>1. UNCHANGED <<Unpassed, complaints, shell>>
    BY <1>2, SkipSkipsNothing DEF ScriptInv, Skip, vars
  <2> QED BY <2>1 DEF Promised!vars
<1>3. CASE Launch
  <2>1. complaints = {} /\ complaints' = {} /\ UNCHANGED Unpassed
        /\ shell = "loop" /\ shell' = "testing"
    BY <1>3 DEF Launch, ScriptInv, Untroubled, Unpassed, Entries
  <2> QED BY <2>1 DEF Promised!vars
<1>4. CASE Testing
  <2>1. UNCHANGED <<Unpassed, shell>> /\ shell = "testing" /\ complaints \subseteq complaints'
    BY <1>4, TestingScript, ComplaintsStay DEF ScriptInv, Testing, script, Unpassed, Entries
  <2>2. CASE complaints' = {}
    BY <2>1, <2>2 DEF Promised!vars
  <2>3. CASE complaints' # {}
    BY <2>1, <2>3 DEF Promised!Next, Promised!Complain
  <2> QED BY <2>2, <2>3
<1>5. CASE SaysPassed
  <2>1. complaints = {} /\ complaints' = {} /\ shell = "testing" /\ shell' = "loop"
    BY <1>5 DEF SaysPassed, VerdictHonest, vars
  <2>2. next \in Unpassed /\ Unpassed' = Unpassed \ {next}
    BY <1>5, PassedIsLess DEF ScriptInv
  <2> QED BY <2>1, <2>2 DEF Promised!Next, Promised!Pass
<1>6. CASE SaysFailed
  <2>1. UNCHANGED <<Unpassed, complaints>> /\ shell = "testing" /\ shell' = "failed"
    BY <1>6 DEF SaysFailed, vars, Unpassed, Entries
  <2> QED BY <2>1 DEF Promised!Next, Promised!GiveUp
<1>7. CASE AllPassed
  <2>1. /\ UNCHANGED <<Unpassed, complaints>> /\ complaints = {}
        /\ shell = "loop" /\ shell' = "All tests passed"
    BY <1>7 DEF AllPassed, vars, Unpassed, Entries, ScriptInv, Untroubled
  <2> QED BY <1>7, <2>1, NothingLeft DEF ScriptInv, Promised!Next, Promised!Finish
<1>8. CASE UNCHANGED run
  BY <1>8 DEF run, script, vars, Unpassed, Entries, Promised!vars
<1> QED BY <1>1, <1>2, <1>3, <1>4, <1>5, <1>6, <1>7, <1>8 DEF RunNext, Script

(* Whatever the directory holds, in its listing there is no test but those  *)
(* numbered.                                                               *)
LEMMA StartPromised == RunInit => Promised!Init
<1> SUFFICES ASSUME RunInit PROVE Promised!Init
  OBVIOUS
<1>1. Unpassed \subseteq Nat
  BY EntriesNumbered DEF RunInit, Unpassed
<1> QED BY <1>1 DEF RunInit, Promised!Init

(* ImplementsSuiteRun: run.sh keeps its word as long as no test is passed   *)
(* in which a condition failed, whatever the tests, kernel and directory.  *)
THEOREM RunnerKeepsItsWord == RunSpec /\ []VerdictHonest => ImplementsSuiteRun
<1>1. ScriptInv /\ ScriptInv' /\ VerdictHonest /\ [RunNext]_run
        => [Promised!Next]_(Promised!vars)
  BY RunRefines
<1> QED BY <1>1, StartScript, ScriptInvKept, StartPromised, PTL
        DEF RunSpec, ImplementsSuiteRun, Promised!Spec

(* ImplementsSuiteRun of every suite of accountable tests, as those of the  *)
(* repository are: "All tests passed" is said only if every executable has  *)
(* run, and no condition has failed.                                       *)
THEOREM AccountableSuiteRun == ASSUME Accountability PROVE RunSpec => ImplementsSuiteRun
<1>1. ScriptInv /\ VerdictHonest /\ [RunNext]_run => VerdictHonest'
  BY TrustKept
<1>2. RunSpec => []VerdictHonest
  BY <1>1, StartScript, ScriptInvKept, PTL DEF RunSpec
<1> QED BY <1>2, RunnerKeepsItsWord, PTL

-----------------------------------------------------------------------------
(* The loop of run.sh.  Out[d] is a set of <<test, build>> that are kept   *)
(* from passing on kernel d.                                               *)

KeepsOut(Out) ==
  shell = "testing" /\ verdict = "passed" => <<test, build>> \notin Out[kernel]

Listed(i) == <<dir.entries[i].test, dir.entries[i].build>>

KeptOut(Out) ==
  shell = "All tests passed" =>
    /\ dir.exists
    /\ \A i \in Entries : dir.entries[i].runnable => Listed(i) \notin Out[kernel]

(* The loop is in the directory, the test at hand is the entry it has got   *)
(* to, and the ones before have passed.                                    *)
Orderly(Out) ==
  /\ shell \in {"loop", "testing", "All tests passed"} => dir.exists
  /\ shell = "All tests passed" => next \notin Entries
  /\ shell = "testing" => <<test, build>> = Listed(next)
  /\ \A i \in Entries : i < next /\ dir.entries[i].runnable => Listed(i) \notin Out[kernel]

(* While a test runs it stays the same test on the same kernel.             *)
LEMMA StaticKept == ASSUME Next PROVE UNCHANGED static
<1>1. \A t \in Task : Computes(t) => UNCHANGED static
  BY DEF Computes, AtomicStore, Spin, AssertShared, AssertOwn, SetOk, MemoryFault, StoreMemory,
         CallMyFunction, Fault, HandlerReturns, Passive, Check, Abort
<1>2. \A t \in Task : CallsKernel(t) => UNCHANGED static
  BY DEF CallsKernel, Traced, RaiseSignal, SignalSetup, ReadToken, WriteToken, CloseStdin,
         UnmapSecondPage, ChangeUser, CreateKid, ExecSelf, CallFails, ExitProcess, ExitThread,
         JoinThread, WaitReports, WaitFails, PollReports, Passive, Check, Abort
<1>3. \A t \in Task : Ptraces(t) => UNCHANGED static
  BY DEF Ptraces, Query, Refused, PtraceUpdate, PtracePoke, PtraceResume, PtraceAttach,
         PtraceInterrupt, SendSignal, Passive, Check, Abort
<1>4. \A t \in Task : KernelActs(t) => UNCHANGED static
  BY DEF KernelActs, TakeSignal, SignalSpent, SignalKills, SignalHandled, EnterTrap, EntersStop,
         SyscallEntry, SyscallExit, StepTrap, Passive
<1>5. TestMain \/ RunnerCollects => UNCHANGED static
  BY DEF TestMain, TestMainSetupFails, TestMainForks, TestMainForkFails, RunnerCollects, Abort
<1> QED BY <1>1, <1>2, <1>3, <1>4, <1>5 DEF Next, Runs

(* Every step of run.sh or of a test keeps the loop in order, as long as    *)
(* verdicts keep out what they have to.                                    *)
LEMMA OrderlyKept ==
  ASSUME NEW Out, LoopInv, LoopInv', KeepsOut(Out), Orderly(Out), [RunNext]_run
  PROVE  Orderly(Out)'
<1>1. next \in Nat /\ Entries \subseteq Nat
  BY EntriesNumbered DEF LoopInv
<1>2. CASE FindsDirectory
  <2>1. UNCHANGED <<kernel, dir, next, Entries>>
    BY <1>2 DEF FindsDirectory, vars, static, Entries
  <2> QED BY <1>2, <2>1 DEF FindsDirectory, Orderly, Listed
<1>3. CASE Skip
  <2>1. /\ UNCHANGED <<kernel, dir, Entries>> /\ shell = "loop" /\ shell' = "loop"
        /\ next' = next + 1 /\ ~dir.entries[next].runnable
    BY <1>3 DEF Skip, vars, static, Entries
  <2>2. \A i \in Entries : i < next' => i < next \/ i = next
    BY <1>1, <2>1
  <2> QED BY <2>1, <2>2 DEF Orderly, Listed
<1>4. CASE Launch
  BY <1>4 DEF Launch, Orderly, Listed, Entries
<1>5. CASE Testing
  <2>1. UNCHANGED <<test, build, kernel, dir, next, shell>>
    BY <1>5, StaticKept DEF Testing, static, script
  <2> QED BY <2>1 DEF Orderly, Listed, Entries
<1>6. CASE SaysPassed
  <2>1. /\ UNCHANGED <<test, build, kernel, dir, Entries>> /\ shell = "testing"
        /\ shell' = "loop" /\ next' = next + 1 /\ verdict = "passed"
    BY <1>6 DEF SaysPassed, vars, static, Entries
  <2>2. \A i \in Entries : i < next' => i < next \/ i = next
    BY <1>1, <2>1
  <2>3. Listed(next) \notin Out[kernel]
    BY <2>1 DEF KeepsOut, Orderly
  <2> QED BY <2>1, <2>2, <2>3 DEF Orderly, Listed
<1>7. CASE SaysFailed
  BY <1>7 DEF SaysFailed, vars, static, Orderly, Listed, Entries
<1>8. CASE AllPassed
  BY <1>8 DEF AllPassed, vars, static, Orderly, Listed, Entries
<1>9. CASE UNCHANGED run
  BY <1>9 DEF run, script, vars, static, Orderly, Listed, Entries
<1> QED BY <1>2, <1>3, <1>4, <1>5, <1>6, <1>7, <1>8, <1>9 DEF RunNext, Script

(* At the end of the loop every executable of the directory is behind it.   *)
LEMMA OrderlyKeptOut ==
  ASSUME NEW Out, LoopInv, Orderly(Out)
  PROVE  KeptOut(Out)
<1>1. Len(dir.entries) \in Nat /\ Entries = 1 .. Len(dir.entries) /\ next \in Nat \ {0}
  BY EntriesNumbered DEF LoopInv
<1>2. next \notin Entries => \A i \in Entries : i < next
  BY <1>1
<1> QED BY <1>2 DEF Orderly, KeptOut

(* Nobody slips through: at the start the loop is in order, each step keeps *)
(* it so, and at its end nothing in the directory is what no verdict lets   *)
(* pass.                                                                   *)
LEMMA NobodySlipsThrough ==
  ASSUME NEW Out
  PROVE  /\ RunInit => LoopInv /\ Orderly(Out)
         /\ LoopInv /\ Orderly(Out) /\ KeepsOut(Out) /\ [RunNext]_run
              => LoopInv' /\ Orderly(Out)'
         /\ LoopInv /\ Orderly(Out) => KeptOut(Out)
<1>1. RunInit => LoopInv /\ Orderly(Out)
  <2> SUFFICES ASSUME RunInit PROVE Orderly(Out)
    BY StartScript DEF ScriptInv
  <2>1. Entries \subseteq Nat /\ \A i \in Entries : ~(i < 1)
    BY EntriesNumbered DEF RunInit
  <2> QED BY <2>1 DEF RunInit, Orderly
<1> QED BY <1>1, LoopInvKept, OrderlyKept, OrderlyKeptOut

(* SuiteNotices: if no test that is about the mistake of the kernel passes,  *)
(* then run.sh does not get to its last line in a directory with such a     *)
(* test.                                                                   *)
THEOREM SuiteNoticesMistakes == RunSpec /\ []Detected => []SuiteNotices
<1> DEFINE Out == [d \in Kernels |->
                     {e \in Tests \X Builds : d \in Quirky /\ e[1] \in DetectedBy(e[2])[d]}]
           Inv == LoopInv /\ Orderly(Out)
<1>1. RunInit => Inv
  BY NobodySlipsThrough
<1>2. Inv /\ Detected /\ [RunNext]_run => Inv'
  <2>1. LoopInv /\ Detected => KeepsOut(Out)
    <3> SUFFICES ASSUME LoopInv, Detected, verdict = "passed",
                        <<test, build>> \in Out[kernel]
                 PROVE  FALSE
      BY DEF KeepsOut
    <3>1. kernel \in Quirky /\ test \in DetectedBy(build)[kernel]
      BY DEF LoopInv
    <3> QED BY <3>1 DEF Detected
  <2> HIDE DEF Out
  <2> QED BY <2>1, NobodySlipsThrough
<1>3. Inv => SuiteNotices
  <2>1. Inv => KeptOut(Out)
    BY NobodySlipsThrough
  <2> SUFFICES ASSUME LoopInv, KeptOut(Out), kernel \in Quirky, shell = "All tests passed",
                      NEW i \in Entries, dir.entries[i].runnable,
                      dir.entries[i].test \in DetectedBy(dir.entries[i].build)[kernel]
               PROVE  FALSE
    BY <2>1 DEF SuiteNotices, KeptOut
  <2>2. dir.entries[i].test \in Tests /\ dir.entries[i].build \in Builds /\ kernel \in Kernels
    BY EntriesAre DEF LoopInv
  <2>3. Listed(i) \in Out[kernel]
    BY <2>2 DEF Listed
  <2> QED BY <2>3 DEF KeptOut
<1> HIDE DEF Inv
<1> QED BY <1>1, <1>2, <1>3, PTL DEF RunSpec
=============================================================================
