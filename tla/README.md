# A TLA+ model of the ptrace test suite

The repository is a suite of 46 small C++ programs that check whether a kernel,
or an emulator that translates system calls, implements `ptrace`, signals and
`waitpid` the way Linux does. Each program forks: the child is the **tracee**,
the parent the **tracer**, and their ASSERTs say what Linux does. `run.sh` runs
them one after the other.

A test suite is correct when

1. it raises **no false alarm**: on a kernel that behaves like Linux no ASSERT
   fails, whatever the schedule;
2. it **comes to an end**: no schedule leaves tracer and tracee waiting for each
   other, and no process is left over;
3. it **notices**: a kernel with a mistake does not get past the test about it;
4. its **report is honest**: run.sh never says "passed" of a test in which some
   task, not just the one whose exit status it sees, failed an ASSERT.

All four depend on the interleaving of up to three tasks, on pending signals and
on the kernel's decisions, which running the suite samples and this project
enumerates. They are asked of each test, and again of the suite that `run.sh`
runs out of the directory that `make` fills. Point 4, of a test and of the suite,
the types of all variables and the properties of the Makefile are also proved, and of
the other points what a test's text alone can guarantee: who is resumed has been waited
for, checks of shared memory do not race, no process is left, and a test that demands
what a kernel never delivers is not passed there. This is for every suite of tests that
has the form described below.

## Inventory

| component | source | state | operations | what makes it correct |
|---|---|---|---|---|
| harness | `src/common.h` | shared mapping (`*shared_int1`, `*shared_u64`, raw bytes), pipe, who failed an ASSERT | `TEST_MAIN` forks; `ASSERT`; `wait_exit`, `wait_terminate`; `execve_self`, `execve_other` | an ASSERT that fails anywhere is reported; no check of shared memory races with a writer |
| runner | `run.sh` | how far the loop has got, verdict of the test, the last line | look for the directory, skip what is no executable, run a test, wait for the end of its output, look at its status, stop or go on | "passed" only if nobody complained; every test is reported; "All tests passed" only if all did |
| signal tests | 14 files | dispositions, masks, pending signals, siginfo | `raise`, `sigqueue`, `sigaction`, `PTRACE_CONT` with a signal, `SETSIGINFO`, `SETSIGMASK` | the right stop, and the right siginfo in the handler |
| memory and error tests | 8 files | the mapping byte by byte | `PEEKDATA`, `POKEDATA`, requests on a task that is not stopped or not traced | words of 4 and 8 bytes, also across a page; `ESRCH`, `EIO` |
| process tests | 12 files | a forked process, a clone, a thread, a new image | `fork`, `clone`, `pthread_create`, `execve`, options and event stops | the events of a new task, group-stop of two threads, SIGCHLD, what survives an execve |
| tracing tests | 11 files | system-call stops, single steps, debug registers | `PTRACE_SYSCALL`, `SINGLESTEP`, `POKEUSER`, `SEIZE`, `INTERRUPT`, `ATTACH` | entry and exit stops in order; when a stop happens and when none |
| kernel under test | not in the repository | all of the above per task | everything the kernel decides by itself | it is the thing tested, so the model varies it |
| exec targets | `32-bit-main.cpp`, `64-bit-main.cpp` | none | `return 0` | the kind of image shows in `cs` |
| build | `Makefile` | `build/` with its programs and their age, the sources, the goal make is at | `make`, `make clean`, Ctrl-C; somebody edits, deletes and adds tests | what run.sh finds was made from what is in `src/`; make fails only for a reason |
| template | `template.cpp` | none | `return 0` on both sides | it passes, though nobody waits for its tracee |
| notes | `todo.txt`, `README.md` | none | none | the recipe "`make`, `./run.sh`" does what it says |

Tracer and tracee interact through the shared mapping (busy-waits on an atomic
int), through one pipe (two bytes `0xCAFE` let the tracee go on), through signals
and through `ptrace` and `waitpid`. What is hard: every test has at least two
tasks that run concurrently; a stop is reported later than it happens; a signal
may be pending, blocked or in delivery when the next one comes; a failing tracer
orphans its tracee; a failing tracee must be found out by the tracer, because
run.sh does not see its exit status; `fork()` may fail; two tests rely on
`usleep`. Between the tests the hazards are of another kind: run.sh trusts what
lies in `build/`, which make may have filled in part, long ago, or for tests that
are gone. PROJECT.json lists each such hazard at its line.

## Modules

| module | models |
|---|---|
| `PtraceDefs` | the vocabulary: signals, wait statuses as the `W*` macros take them apart, siginfo up to what an ASSERT can tell apart, kinds of ptrace-stop |
| `Statements` | the statements tests are written in; `WellFormed` and `IsProgram`, the form the proofs assume |
| `Kernel` | signals, stops, `waitpid`, creation and death of tasks; `Deviations`, kernels that get one thing wrong |
| `Harness` | one run of one test: `TEST_MAIN`, one action per kind of statement, what the kernel does by itself, `run.sh`; fairness |
| `SignalTests`, `MemoryTests`, `ProcessTests`, `TraceTests` | the tests, one definition per C++ function |
| `TestSuite` | the table of all tests by file name |
| `TestRun` | the abstract specification: tasks come and go, one may complain, the run is judged |
| `SuiteProperties` | what has to hold, and the refinement of `TestRun` |
| `Mistakes` | which tests are about which mistaken kernel; `Detected` |
| `Denials` | from the text of a test, what can come about at all on a kernel, and what a tracer waits for in vain; `Hopeless` tests |
| `MCSuite` | constants of the runs and the properties about single tests |
| `SuiteRun` | the abstract specification of run.sh: executables pass one by one, and none after a failed condition |
| `Runner` | run.sh: the loop around `Harness`, a new test with each `Launch`; the refinement of `SuiteRun` |
| `MCRunner` | the build directory of the whole suite, in the order of the glob |
| `Build`, `MCBuild` | the Makefile, the files it reads and makes, and run.sh seen from there |
| `KernelProofs`, `HarnessProofs`, `HonestProofs`, `TraceeProofs`, `RefinementProofs`, `DetectionProofs` | the theorems, each module on top of the one before; the last two include those about run.sh |
| `StopProofs` | theorems on top of `HonestProofs`: stops are observed before they are resumed, and checks are stable |
| `BuildProofs` | theorems about `Build` |

`Runner` extends `Harness` and composes with it: its step `Testing` is a step of
the test at hand, and `Launch` gives the test all the state it starts from.
`Build` stands beside them; it knows a test only as a file that compiles or not.

### How the state corresponds to the code

A task is `"tracer"`, `"tracee"` or `"kid"` (what the tracee forks, clones or
starts as a thread). `at[t]` is the function it is in and the statement it
executes next; statement *i* of `code[fn]` is one C++ statement of that function,
or one call together with the ASSERTs on what that call returned: between a call
and a check of its own result nothing can happen that changes the result. ASSERTs
on shared memory are statements of their own, because there something can.
`flag[t]` is the test's `bool ok` or `signal_happened`, `frame[t]` what a signal
handler interrupted, `k[t]` the task as the kernel sees it, `mem`, `int1` and
`pipe` the shared mapping and the pipe, `got` the pid of the tracer's last
`waitpid`, `complaints` the tasks that printed "Condition ... failed!", `verdict`
what run.sh prints of the test, `life` and `exit` whether a task lives and how it
ended. In `Runner`, `dir` is what the glob lists, `next` the entry the loop is at
and `shell` where the script is or its last line. In `Build`, `built` are the
programs in `build/`; the age of a file is kept as what became of the files it is
made from: `touched` if the `.cpp` is newer, `outdated` if `common.h` has changed
since. make looks at `touched` only.

Each action is a whole statement with its ASSERT: `Check(t, cond)` proceeds if
the condition holds and otherwise is `Abort(t)`, the `printf` and `exit(1)` of
the macro, which ends all threads of the process, orphans its tracees and tells
its parent. What the kernel does between two statements of a task is an action of
its own: `TakeSignal` (dequeue, signal-delivery-stop), `SignalSpent`,
`SignalKills`, `SignalHandled`, `EnterTrap` (group-stop, `PTRACE_INTERRUPT`),
`SyscallEntry`, `SyscallExit`, `StepTrap`.

### Abstractions

- A pending signal that is not blocked is taken before the task's next statement,
  as on the return from a system call. The exception is a blocked `waitpid`,
  which may find the dead child before or after the SIGCHLD sent along with it.
- `usleep` guarantees nothing and is no statement.
- The two pages of 4096 bytes are `PageBytes` bytes each; `shared_u64` is at 8,
  and the word across the boundary starts at `PageBytes - 2`. A word is four or
  eight bytes (`build`), and the sign extension of `long` to `u64` is kept.
- `attach-different-uid` asks for its effective uid in both processes and gets
  the same answer: it appears twice, with and without root.
- `siginfo` is a signal and an origin, one name per combination of `si_code`,
  `si_value` and `si_pid` that an ASSERT checks.
- Of a register value 16 bits are kept where the code has 32: 0xdeadbeef is 0xdead, and
  what the `int` registers of the 32-bit build make of it is its value with the sign of
  16 bits (`SavedReg`). The handler's write to the saved `rax` is kept (`Restored`).
- A `waitpid` that has no child leaves `status` uninitialised; what the ASSERTs
  then read is any status, and is chosen so only where the pid compared is the -1
  of a failed `fork()` (`Childless`). `main`'s fork fails where `ForkMayFail` says so. The
  tracee's own `fork`, `clone` and `pthread_create` fail on the kernel `clone_fails`,
  as `execve` does on `execve_fails` (`CallFails`); the tests go on regardless.
- A tracer's death lets its tracees go. The signal of a stop is delivered then only if
  no `waitpid` has collected the stop, since collecting it clears the signal the
  kernel would go on with.
- The `printf` and the `exit` of a failing ASSERT make no syscall-stops. It would make a
  difference only for a task that is being resumed with `PTRACE_SYSCALL` when its ASSERT fails, and in
  no test, on none of the 43 kernels and in neither build, is there such an execution.
- The image of an execve is the function `"exec"`; the environment variables that
  carry the descriptor numbers over are taken to arrive. The descriptors may not
  (`exec_closes_files`): then `mmap` fails, which nobody checks.
- After a failed `mmap` an access to the shared mapping queues a SIGSEGV, and the
  statement is repeated by whoever survives it. No test blocks that signal.
- The ASSERTs of the setup before `fork()` fail together or not at all
  (`no_memfd`); nothing concurrent has happened yet, so the first of them stands for
  all.
- The output of run.sh is its last line. All tests hold on to the output until they
  end, so the command substitution returns when no task is alive.
- make takes one goal after the other, as it does without `-j`; while it runs
  nobody edits; two changes of a file never have the same time stamp. `All` lists
  the goals of every test there may be, and make passes over those of the tests that
  are absent, which `$(wildcard)` does not find.
- A single step moves the tracee inside its current statement. It moves on to
  another statement only where it enters a signal handler, which the model has.

## The runs

The runs about single tests use `MCSuite`, those about run.sh `MCRunner` and those
about the Makefile `MCBuild`. The first two have `PageBytes = 24`, the smallest page on which the words
of the tests are where they are on a real one: `shared_u64` and the byte behind
it in the first page, and the word at the end across the boundary. The tests are
finite programs, tasks are three, each signal is pending at most once: the state
space is finite without any bound on steps.

`MCRunner` has the whole directory, 92 programs (45 tests in
both builds and the two main programs), in the order in which the glob sorts their names, and in
between a file that is no executable. Instead of cutting the suite down its runs
fix what a test does not vary, the order of the tests; each test still has all its
interleavings. `MCBuild` has two tests, one that executes a main program and one
that does not, and lets both tests and `common.h` be edited: that is enough for a
test to be broken, deleted, put back, up to date or not while the other is
anything else, which is what the properties relate. No bound on the number of
edits or of calls is needed.

| run | tests and kernels | checks |
|---|---|---|
| `conforming` | 44 entries, Linux, both builds | `TypeOK`, `AssertionsHold` (no false alarm), `NothingLeftBehind` (a tracer that returns 0 leaves no process), `ObservedBeforeResume` (no stop is resumed that waitpid has not reported), `ChecksAreStable` (nobody writes the shared mapping while somebody is about to check it), `EveryTestReported` (liveness) |
| `quirky` | all 46, 43 kernels with one mistake each, both builds | `Detected` (the tests about a mistake catch it in every schedule), `Unnoticed` (no test finds the two mistakes nothing looks at: `PTRACE_SETSIGMASK` ignored, and a crash of the program `execve-32bit` and `execve-64bit` change to), `VerdictHonest`, `ImplementsTestRun` (refinement) |
| `fork_fails` | `fork()` may fail | `TraceeRan`: a test passes only if its tracee lived and ended |
| `fork_fails_vacuous` | the same, two tests | violated: finding 5 |
| `stop_not_observed`, `execve_inject_mask`, `signal_handler_regs`, `failure_reported` | one test each | violated: findings 1 to 4 |
| `suite` | run.sh over six directories: the suite with and without root, with `stop-not-observed` or the template in its place, an empty directory and none; Linux and the 43 kernels | `SuiteNotices` (on the 41 kernels some test notices "All tests passed" is not said), `SuitePasses` (liveness: on Linux and on the two others it is), `ImplementsSuiteRun` (refinement) |
| `building` | make, clean, Ctrl-C, edits and run.sh in any order | `BuildTypeOK`, `ReadmeRecipe` (what has passed after make are the tests of `src/`, in both builds and from programs not older than their `.cpp`), `FailsForAReason` (make fails only if something does not compile), `CleanBuild` (after `make clean` and `make`, `build/` holds what it should and nothing else) |
| `header_stale`, `partial_build` | the same | violated: findings 6 and 7 |

The two entries left out of `conforming` are the ones that do not satisfy it:
`stop-not-observed` (finding 1), and `attach-different-uid` without root, whose
tracer returns without having waited for the tracee. Both are in `quirky`.
In `suite` the template stands in for `stop-not-observed` where every test has to
pass, since that test can fail (finding 1); the template's tracer does not wait either, nor does that of
`attach-different-uid` without root, and run.sh gets past the tracees both leave behind.
`attach_any_uid` is exempt from `SuiteNotices` without root, where the
only test about it does nothing.

Deadlock is not checked of tests and of run.sh: a test that has been judged stops,
and so does a test that hangs, which is what `EveryTestReported` is about, and
run.sh ends. `building` and its neighbours check it.

**Fairness.** `Runs(t)` is weakly fair for each task: a task that can run is
run some time, which is what a preemptive scheduler gives. Busy-waits are modelled
by the step that leaves the loop, so no fairness between two threads of one
process is assumed beyond that. `TEST_MAIN`'s fork and run.sh's collecting are
weakly fair too. In `Runner` the same holds of each task of the test at hand and
of the shell. No strong fairness is used, and none at all for the build, which
is used by hand.

**Refinement.** `TestRun` knows nothing of ptrace: tasks that are alive, who
complained, a verdict that may be "passed" only if nobody did. `running` is mapped
to the tasks whose `life` is in `Alive`. The run checks it for all tests on
mistaken kernels, where tasks die and complain in most of the ways there are.
`SuiteRun` knows a set of executables and whether a condition has failed; `left` is
mapped to the entries from `next` on that can be executed. A mistaken kernel on
which a test fails with no condition failed (a tracer that is killed) is the
reason why `GiveUp` does not ask for `trouble`.

## Findings

1. `stop-not-observed.cpp:19` relies on half a second for "give enough time to
   child to enter stop": the test can fail on a correct kernel (`StoppedInTime`).
   The test's purpose, to resume a stop no waitpid reported, does not need it: the
   tracee could announce itself, and the tracer repeat the peek while it gets ESRCH.
2. `execve-inject-mask.cpp:43` says no signal-delivery-stop is caused by the
   unmasking. The SIGTRAP of the execve was blocked too and stops the tracee
   exactly there; it is the stop the tracer waits for (`NoStopAtUnmask`).
3. `signal-handler-regs.cpp:10`: the ASSERT the test exists for is never
   evaluated, because line 36 passes signal 0 and so suppresses the SIGTRAP
   (`HandlerChecksRegs`). On the 32-bit build it could not hold as it stands: `gregs` is
   an array of `int`, whose sign ends up in the upper half of the `u64`.
4. `run.sh:18`: where the tracer fails an ASSERT of a tracee that is in order, the
   tracee is let go with the tracer's exit, and blocks for ever in `read()`, since it
   holds both ends of the pipe. It keeps the output open: the suite hangs and "failed"
   is not printed (`FailureReported`). In the run `peekdata-cross-page` meets a kernel that
   cannot peek at a word across two pages: the tracer fails at line 29, and the tracee
   goes on from `raise` to the `read` of line 14. On a kernel that drops a poke the
   tracee fails an ASSERT before it reads, and the report comes.
5. `common.h:75`: `fork() == -1` is not checked. `wait_exit(-1)` then compares -1
   with -1 and reads a status nobody wrote, and two tests can pass without a
   tracee (`TraceeRan`).

6. `Makefile:21`: a test's only prerequisite is its `.cpp`. After a change of
   `common.h`, which all tests include, `make` does nothing, and `./run.sh` reports on
   the tests as they were (`HeaderCurrent`).
7. `run.sh:13`: "All tests passed" is said of what happens to be in `build/`. Where
   g++ cannot build for 32 bits make stops at the first such program, and run.sh
   still finds all tests passed, though the README promises both builds; over an
   empty directory as well (`AllTestsRan`).

`Unnoticed` shows limits of tests and no disagreement: `setsigmask.cpp` checks
the bit of the signal being handled, which is blocked in its handler anyway, and
`execve-32bit.cpp:33` drops the result of `wait_exit`.

## What is proved

TLAPS checks nineteen theorems, for every value of the constants. Those about a test rest on
`PageBytesAssumption` (a page has at least 24 bytes) and `HarnessAssumption` (`Tests`
names programs of `Suite`, whose statements have operands of the right kind; `Builds` is
a subset of {32, 64}; `ForkMayFail` is a truth value), those about run.sh also on
`RunnerAssumption` (a directory lists tests of the suite), those about the Makefile on
`BuildAssumption` (the sources are a finite sequence of tests, no test is called like a
main program or `common.h`, and a test executes main programs only). TLC evaluates the
assumptions for the real suite in every run. `MCRunner` adds two on which no proof rests:
`EveryTestAccountable` and `PlainFromTheText` say what the theorems on points 4 and 3
mean for the real suite. So the theorems hold of any suite written
with these statements, of Linux and any set of the mistaken kernels that `Kernel` describes, of any length of test, and of any number
of sources.

Some theorems ask that a test has a certain form, which is a property of its text alone.
`SuiteProperties` defines the forms; this is how many of the 46 entries have them:

| form | in words | entries |
|---|---|---|
| `Contained` | only the tracer's own statements move it: it starts nobody but the tracee, execs nothing, has no handler | 46 |
| `Supervised` | it is contained, and the tracer waits for the end of the tracee, and of a forked process, before it exits | 43 |
| `Supervised` and `Demanding` | it also makes a request that needs a task | 40 |
| `Accountable` | it is supervised; or it is contained and `Mute`: the tracee by itself executes no ASSERT, or none in the program it changes to and the tracer has seen it change | 46, and the template and both main programs |
| `Contained` and `Demanding` | what `Hopeless` asks of a test, besides that each exit of its tracer lies behind a statement the kernel `Denies` | 42 |
| `Supervised` and `Disciplined` | the tracer also resumes only whom it has waited for, and nobody starts a thread | 40 |
| `Contained`, `Disciplined` and `TakesTurns` | the tracer resumes as above, and touches the shared mapping only while it holds the tracee, and nobody forks | 4 of the 6 that check the mapping |

**`TypeCorrect`: Spec => []TypeOK** (`HarnessProofs`). `TypeOK` alone is not
inductive: `PTRACE_CONT` injects the siginfo of the stop, so a signal-delivery-stop
must have one (`RecordOK`). `KernelProofs` shows of each operator of `Kernel` that
the record of a task stays well-typed and `Like` the one before: the same signal
dispositions, a thread if it was one, and no report of an execve if it had none. With these lemmas each action is shown to
be either *quiet* (nobody is created, ends or gets another program), or the
`Abort` of an ASSERT, or one of the nine kinds of action that start, end or
redirect a task: fork, clone, execve, exit, end of a thread, death by a signal,
entering and leaving a handler, installing one. The starting point is not `Init` but
`Newborn`, the state in which a test may start: `Init` is one such state, and so is
what `Launch` of `Runner` leaves behind, so that the proofs serve both.

**`VerdictIsHonest`: Spec => [](Accountable(code) => VerdictHonest)** (`TraceeProofs`, with
most of the argument in `HonestProofs`). run.sh looks
at one exit status, that of the tracer. A test is `Supervised` if its program has
the form 43 of the 46 entries have: before each exit the tracer waits for the end
of the tracee (and of a process the tracee forks) with a check that exit status 1
does not pass, and the tracer installs no handler, forks nothing more and execs
nothing. Then "passed" implies that *no* task failed an ASSERT, also not a thread
or a grandchild, on any kernel, in any schedule, with `fork()` failing or not.

The property is not inductive. The invariant `Honest` adds: a task that is not
dead has no exit status; only the kid is a thread and a thread does not outlive
its process; the tracer stays in its function, because it has no handler; who
the tracer has waited for is dead for good and not with status 1 (`ReapsDone`); an
exit status 0 of the tracer implies that all of it was waited for (`EndsReaped`);
and a complaint is a death with status 1, of a thread also that of the tracee
(`Complained`). The case that needs thought is `CreateKid`: a fork after the
tracer's wait for the kid would make `ReapsDone` false. It cannot happen, because
"the kid is over" is part of `Settled` only together with the end of the tracee,
and only a tracee that is alive forks. With `fork()` failing the waits are vacuous,
and so are the complaints.

The three entries that are not `Supervised` are `execve-32bit` and `execve-64bit`,
which drop the result of their last `wait_exit`, and `attach-different-uid`
without root. Neither are the template and the two main programs. Of these the tracer's
status says enough for another reason: they are `Mute`. `attach-different-uid` without
root, the template and the main programs have no ASSERT that the tracee executes. The tracees
of `execve-32bit` and `execve-64bit` have one, behind the `execve`, in case it fails; but the
tracer exits only after waitpid has shown it the event stop of the execve, and `main` of
the new program returns 0. The
invariant `Muted` says that the tracee is alone, without a handler, and in its function or in
the new program; that only an execve gives it an event stop of an execve, so that a tracer
behind such a wait has a tracee that has `Changed` (`WaitChanges`); and that a tracee that
complained is in a program that has an ASSERT. A failed `execve` is reported by its ASSERT
even so: the tracer then never gets to its exit with 0.

**`SupervisedLeavesNothing`: Spec => [](Supervised(code) => NothingLeftBehind)**
follows from the same invariant: an exit status 0 of the tracer means that the
tracee and the kid have been waited for, so neither is alive.

**`PassedTraceeRan`: Spec => [](Supervised(code) /\ Demanding(code) => TraceeRan)**
(`TraceeProofs`). main takes the -1 of a `fork()` that failed for a pid (finding 5), and a
wait for -1 proves nothing. What keeps most tests from passing is that a kernel refuses
every request for a task that is not there. The invariant: while there is no tracee
the tracer has come past no statement that needs one, and `got` still names the tracee
(`Unanswered`); a tracee that is over has a status, and a tracer exits with 0 only if
there was one (`Buried`). The lemma to go back to is `TracerGoesOn`: the tracer goes on by
its own steps only, one statement at a time, and past a wait only if waitpid reported or failed.
Not `Demanding` are `traceme-masked`, `esrch-not-stopped`, `esrch-not-traced` and
`attach-different-uid` without root. The first makes no request, the next two only one that has to fail with ESRCH, which is
also the answer about a task that does not exist, and the last exits at once.

**`ResumesObserved`: Spec /\ Supervised(code) /\ Disciplined(code) /\ [](exit["tracer"] \in
{NoStatus, Exited(0)}) => ObservedBeforeResume** (`StopProofs`). A test is
`Disciplined` if every resume that may succeed names a task that an earlier, checked
wait named and no resume in between (`WaitedFor`), if nobody but the tracer resumes, and if nobody
starts a thread, whose `execve` or end would take a stopped thread along. `WaitedFor` is
about the text of the tracer, `k[t].seen` about the kernel. The invariant `Watched` joins
them: who is `WaitedFor` at the tracer's statement is dead, or stopped and reported. It is
kept because nobody else can resume a stopped task: the lemmas `ComputesSpares`,
`CallsSpare`, `PtracesSpare`, `KernelSpares` go through all actions of all tasks.
`Threadless` and `Apart` (nobody else gets into the tracer's function) are needed for
that, and the invariant of `Contained` tests for `life["tracee"]`. The premise
about the tracer's status is needed because a tracer that fails an ASSERT releases its
tracees, stopped as they are; one that exits with 0 has none left (`TracersEnd`). The tests
the theorem leaves out are `stop-not-observed`, which violates the property on purpose
(finding 1), `group-stop` and `execve-thread` with their threads, and the three that are not
`Supervised`.

**`TurnsAreStable`: Spec /\ Contained(code) /\ Disciplined(code) /\ TakesTurns(code) =>
ChecksAreStable** (`StopProofs`). With the same invariant: of the two tasks of
such a test that could meet at the mapping one is the tracer, at a statement behind a wait,
and so the other does not run. This is the argument that `traceme`, `traceme-sigign`,
`traceme-sigign-explicit` and `pokedata` need no lock, and it needs no premise about the kernel.
`tracefork` has another argument: the forked process is not yet waited for when the tracer publishes its pid;
it checks later because Linux lets it begin with a SIGSTOP. `execve-thread` has threads.

**`RefinesTestRun`: Spec => ImplementsTestRun** (`RefinementProofs`), if all tests
are `Accountable`, as those of the repository are. Every action is `Invisible` for the abstract run, or it `Starts`
a task, or it `Ends` or `Complains`; which it is follows from the same division of
the actions as in the invariance proofs. The verdict is allowed because of
`VerdictHonest`, and a step of `Start` because somebody alive takes it.

**`RunnerKeepsItsWord`: RunSpec /\ []VerdictHonest => ImplementsSuiteRun**
(`RefinementProofs`), for any tests, accountable or not: what run.sh adds to the verdicts
is right if they are. The invariant
`ScriptInv` says that while a test runs the invariant `VerdictInv` of `VerdictIsHonest` holds and `next` is at an
executable entry (`LoopInv`), and that no condition has failed when the loop looks
for the next (`Untroubled`). The refinement mapping counts what is left from `next` on: `SaysPassed`
takes one element away (`PassedIsLess`), `Skip` takes none (`SkipSkipsNothing`), and
at the end none is left (`NothingLeft`).

**`AccountableSuiteRun`: RunSpec => ImplementsSuiteRun** discharges the proviso if all
tests are `Accountable`. All programs of the repository are: `MCRunner` assumes
`EveryTestAccountable` of the 46 entries, the template and the main programs, and TLC
evaluates that in `suite`. So point 4 holds of the real suite, of any part of it and in any
order, with `fork()` failing or not, of which TLC checks six directories and a `fork()`
that works.

**`HopelessFails`: Spec => [](Hopeless(code, kernel, build) => verdict # "passed")**
(`DetectionProofs`) is point 3, as far as the text of a test shows it. Take `single_step` on
the kernel that ignores `PTRACE_SINGLESTEP`: its tracer asserts that waitpid reports a
SIGTRAP, and the only SIGTRAPs of this program would come from a step. `Denials`
computes from a program and a kernel which signals, events, kinds of stop, exit statuses
and register values there can be at all (`SignalsOf`, `EventsOf`, `StopsOf`, `ExitsOf`,
`ValuesOf`), an upper bound that does not ask when or in which order. A statement of the
tracer is *denied* if it demands something outside, or an answer this kernel never gives
(`Denies`); a test is `Hopeless` if every exit of its tracer is behind a denied statement, or if
TEST_MAIN does not get past its own checks.

The invariant `Explained` says that nothing happens without a cause: of each task every
pending, due or remembered siginfo, option, event, kind of stop, mode, and the three registers
the tests look at are in those sets (`Fitting`); so are the exit statuses of all but the tracer
(`EndsExplained`), since nobody else gets into its function (`Elsewhere`); without `memfd_create`
there is no tracee and without `mmap` no mapping (`Unfounded`). It is kept
by every action of every task, through lemmas about each operator on the record of a
task (`SentFit`, `StopFit`, `ResumedFit` and so on). Its consequence is `NobodyDenied`: while there is a tracee
the tracer does not move past a denied statement, whatever waitpid and ptrace answer. So an exit
with status 0 has no denied statement before it (`Unhelped`). Before there is a tracee
`Unanswered` of `PassedTraceeRan` keeps the tracer from its exit, which is why a hopeless test has to
be `Demanding`: with a failing `fork()` a wait for what cannot come may well be answered.

`DetectedBy` says of 41 kernels which tests are about them: with the two builds 280 cases, of which 194
are hopeless; no other case is, and none on Linux or on the two kernels the suite is blind to. TLC evaluates that
(`PlainFromTheText`, in `suite`).

**`DetectsPlainMistakes`: Spec => [](kernel \in PlainMistakes => Detected)**: all tests that
are about a plain mistake are hopeless. For the real suite that is so of 17 of the
41 kernels, for instance the ones without group-stops, without the SIGTRAP of an execve, with a wrong
kind of event for a fork, or with an `execve` that fails.
What is left to TLC is about order and not about possibility:
that a signal was ignored *when* it was raised, that a word reads otherwise *after* it was
written, that one stop does not follow upon another.

**`HopelessNoticed`: RunSpec => []KeptOut(NoChance)** and **`SuiteNoticesPlainMistakes`:
RunSpec => [](kernel \in PlainMistakes => SuiteNotices)**: "All tests passed" is not said over a
directory with a hopeless test in it. The loop adds `Orderly`: what lies before `next` has been run and passed, and the test
at hand is the entry at `next`. By the first theorem run.sh does not get
through the real suite on 22 of the 41 kernels (with root; one less without), those with at least one hopeless test.
**`SuiteNoticesMistakes`: RunSpec /\ []Detected => []SuiteNotices** (`RefinementProofs`) is about the loop alone:
whatever the tests and the order in which the directory lists them, the suite notices a
mistake if the test about it does. With the run `quirky`, which checks `Detected` of every test by itself, that
gives `SuiteNotices` for every directory made of tests of the suite, of which `suite` checks six.

**`BuildTypeCorrect`, `RecipeWorks`, `FailureHasReason`, `CleanThenMake`** (`BuildProofs`):
`BuildTypeOK`, `ReadmeRecipe`, `FailsForAReason` and `CleanBuild` always hold of
`BuildSpec`, with any number of tests and whatever is edited, deleted and interrupted. The
invariant says what make has done so far: the directory exists before it comes to a
program (`FolderFirst`), all goals before the one it is at are up to date (`SoFar`), so
that a make that is over has left all that was wanted (`MadeIsUpToDate`); and since a clean that
succeeded only programs of the present tests have appeared (`OnlyFresh`). `FailsForAReason`
depends on the order of the goals, which `AllInOrder` states: g++ would fail for want of a
directory if it did not come first. That every program wanted is a goal is `WantedIsGoal`.

**`PeekAgrees`** (`KernelProofs`), about the comparison in `peekdata.cpp:25` and its
like: once a u64 has been written anywhere in the mapping, also across the
boundary of the pages, `PTRACE_PEEKDATA` yields what the tests compare it with, except on the 32-bit
build if its bit 31 is set. `ptrace` returns a long, which becomes a u64 with its sign; the constant of the tests,
`0xABCDEF0123456789`, has bit 31 clear, and so have the bytes of the unaligned test.

**Only model-checked:** `AssertionsHold` and `Unnoticed`, and `Detected` on the 24 kernels whose mistake is
not plain, are about
what the given programs compute on given kernels, not about a form they have; so are
`ObservedBeforeResume` and `ChecksAreStable` for the tests named above, and `TraceeRan`
for the tests that are not `Demanding`. `EveryTestReported` and `SuitePasses` are
liveness under fairness, which TLAPS does not do here.

## Not modelled

- the environment variables and paths around an execve, with the ASSERTs on `getenv`
  and `setenv`: an image that lost them would take itself for a new test and fork
  again, for which the three tasks of the model do not suffice;
- one failing call of the setup rather than another, before anything concurrent;
- a Ctrl-C at run.sh, or a signal to a test from outside;
- make with `-j`, edits while make runs, time stamps that are equal;
- instructions inside a statement, so where exactly a single step ends;
- ptrace requests the tests do not use (`DETACH`, `LISTEN`, `vfork` events);
- `ulimit -c 0`, the wording of run.sh, `todo.txt`.

## Plan

1. (done) The harness, the kernel, all tests, the properties and runs of single tests,
   `TypeCorrect` and `VerdictIsHonest`.
2. (done) run.sh over the whole suite with `SuiteRun`, the Makefile, the setup before the
   fork, `mmap` and `execve` that fail, twenty more mistaken kernels; the refinements
   of `TestRun` and `SuiteRun` as theorems.
3. Two mistakes at once, and a table of which test is the only one to notice which.
4. (done) Proofs: that a stop is resumed only after it was seen, that checks of the mapping
   are stable, that a passed test had a tracee, and the Makefile.
5. (done) Proofs: run.sh over the real directory, with the tests in it whose tracers do not
   wait for the end of their tracees.
6. (done) Proofs: that the suite notices, where the text of the tests shows it, and that
   the loop of run.sh loses nothing of it.
7. Proofs: `ChecksAreStable` for tests that fork, on a kernel that stops what is forked.
