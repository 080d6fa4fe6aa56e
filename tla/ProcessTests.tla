---------------------------- MODULE ProcessTests ----------------------------
(***************************************************************************)
(* The tests in which the tracee forks, clones, starts a thread or execs.  *)
(***************************************************************************)
EXTENDS Statements

OptionsStop(s, O) == <<Wait("tracee", StopSig(s)), SetOptions("tracee", O)>>

(* The event of the new task, its pid, and the SIGSTOP it starts with. *)
NewTaskSeen(e, between) ==
  <<Wait("tracee", {EventStop(e)}), GetEventMsg("tracee")>> \o between \o
  <<Wait("kid", StopSig("SIGSTOP"))>>

WaitsForKid == <<Wait("kid", {Exited(0)}), Exit(0)>>

-----------------------------------------------------------------------------
TraceforkTracee == <<Traceme, Raise("SIGTRAP"), Fork>> \o WaitsForKid

TraceforkKid == <<AssertInt(PidOf["kid"]), Exit(0)>>          \* fork_main

(* Variant of TraceforkTracer: the pid is published after the tasks run. *)
TraceforkTracerStoresLate ==
  OptionsStop("SIGTRAP", {"TRACEFORK"}) \o <<Cont("tracee", NoSig)>> \o
  NewTaskSeen("FORK", <<>>) \o
  <<Cont("kid", NoSig), Cont("tracee", NoSig), Store(PidOf["kid"]), WaitExit("kid"),
    Wait("tracee", StopSig("SIGCHLD")), Resume("tracee", "cont", NoSig, AnyOutcome),
    WaitExit("tracee"), Exit(0)>>

(* The tracer publishes the pid before it lets the new task run. *)
TraceforkTracer ==
  OptionsStop("SIGTRAP", {"TRACEFORK"}) \o <<Cont("tracee", NoSig)>> \o
  NewTaskSeen("FORK", <<Store(PidOf["kid"])>>) \o
  <<Cont("kid", NoSig), Cont("tracee", NoSig), WaitExit("kid"),
    Wait("tracee", StopSig("SIGCHLD")), Resume("tracee", "cont", NoSig, AnyOutcome),
    WaitExit("tracee"), Exit(0)>>

TracecloneTracee == <<Traceme, Raise("SIGTRAP"), Clone, Exit(0)>>

TracecloneKid == <<ThreadExit>>                               \* clone_main

TracecloneTracer ==
  OptionsStop("SIGTRAP", {"TRACECLONE"}) \o <<Cont("tracee", NoSig)>> \o
  NewTaskSeen("CLONE", <<>>) \o
  <<GetSiginfo("kid", {[signo |-> "SIGSTOP", origin |-> "auto"]}, {"ok"}),
    Cont("kid", NoSig), Cont("tracee", NoSig), WaitExit("kid"), WaitExit("tracee"),
    Exit(0)>>

(* clone(SIGCHLD) is a fork. *)
CloneForkFlagsTracee == <<Traceme, Raise("SIGSTOP"), Fork>> \o WaitsForKid

CloneForkFlagsKid == <<Exit(0)>>

CloneForkFlagsTracer ==
  OptionsStop("SIGSTOP", {"TRACECLONE", "TRACEFORK"}) \o <<Cont("tracee", NoSig)>> \o
  NewTaskSeen("FORK", <<>>) \o
  <<Cont("kid", NoSig), Cont("tracee", NoSig), WaitExit("kid"),
    Wait("tracee", StopSig("SIGCHLD")), Cont("tracee", NoSig), WaitExit("tracee"), Exit(0)>>

ForkSyscallTracee == <<Traceme, Raise("SIGSTOP"), Fork>> \o WaitsForKid

ForkSyscallKid == <<Exit(0)>>

(* The event stop comes between the entry and the exit of the system call. *)
ForkSyscallTracer ==
  LET ToSyscall == Resume("tracee", "syscall", NoSig, {"ok"}) IN
  OptionsStop("SIGSTOP", {"TRACEFORK", "TRACECLONE", "TRACESYSGOOD"}) \o
  <<ToSyscall, Wait("tracee", {SyscallGood}),
    GetSyscallInfo("tracee", "entry", "clone", 0), ToSyscall>> \o
  NewTaskSeen("FORK", <<>>) \o
  <<Cont("kid", NoSig), ToSyscall, Wait("tracee", {SyscallGood}),
    GetSyscallStop("tracee", "exit"),
    Cont("tracee", NoSig), WaitExit("kid"),
    Wait("tracee", StopSig("SIGCHLD")), Cont("tracee", NoSig), WaitExit("tracee"), Exit(0)>>

-----------------------------------------------------------------------------
(* group-stop: an injected SIGSTOP stops every thread, one report for each. *)

GroupStopTracee ==
  <<Store(0), Traceme, PthreadCreate, SpinUntil(1), Raise("SIGSTOP"), PthreadJoin,
    ReadPipe, Exit(0)>>

GroupStopKid    == <<Traceme, Store(1), SpinWhile(1), ThreadExit>>     \* pthread_main

GroupStopTracer ==
  <<Wait("tracee", StopSig("SIGSTOP")), GetSiginfo("tracee", Info, {"ok"}),
    Cont("tracee", "SIGSTOP"),
    Wait("tracee", StopSig("SIGSTOP")), GetSiginfo("tracee", Info, {"EINVAL"}),
    Cont("tracee", NoSig),
    Wait("any", StopSig("SIGSTOP")), GetSiginfo("got", Info, {"EINVAL"}),
    Store(2), Cont("got", NoSig), Wait("got", {Exited(0)}),
    WritePipe, WaitExit("tracee"), Exit(0)>>

-----------------------------------------------------------------------------
(* execve: reported as SIGTRAP, or as an event to a tracer that asked. *)

ExecveTracee == <<Traceme, ExecveSelf, Unreachable>>

ExecveMain == <<Exit(42)>>                                    \* execve_main

ExecveTracer ==
  <<Wait("tracee", StopSig("SIGTRAP")), Cont("tracee", NoSig),
    Wait("tracee", {Exited(42)}), Exit(0)>>

(* The handler is gone after the execve: SIGUSR1 kills. *)
ExecveInjectTracee ==
  <<Sigaction("SIGUSR1", "handler"), Traceme, ExecveSelf, Unreachable>>

ExecveInjectTracer ==
  <<Wait("tracee", StopSig("SIGTRAP")), Cont("tracee", "SIGUSR1"),
    Wait("tracee", {Signaled("SIGUSR1")}), Exit(0)>>

ExecveInjectIgnTracee ==
  <<Sigaction("SIGURG", "handler"), Traceme, ExecveSelf, Unreachable>>

ExecveInjectIgnTracer ==
  <<Wait("tracee", StopSig("SIGTRAP")), Cont("tracee", "SIGURG"),
    Wait("tracee", {Exited(42)}), Exit(0)>>

(* The mask outlives the execve, and the SIGTRAP of the execve is blocked too. *)
ExecveInjectMaskTracee ==
  <<SetMask(Signal \ {"SIGSTOP"}), Traceme, ExecveSelf, Unreachable>>

ExecveInjectMaskMain ==
  <<Sigaction("SIGUSR1", "handler"), SetMask({}), AssertFlag, Exit(42)>>

ExecveInjectMaskHandler == <<AssertIn("exec"), SetFlag, Sigreturn>>

ExecveInjectMaskTracer ==
  <<Wait("tracee", StopSig("SIGTRAP")), Cont("tracee", "SIGUSR1"),
    Wait("tracee", {Exited(42)}), Exit(0)>>

(* execve by a second thread: it becomes the leader, the old one is gone. *)
ExecveThreadTracee == <<PthreadCreate, Pause, Exit(1)>>

(* Variant of ExecveThreadKid: it stores its own tid instead of getpid(). *)
ExecveThreadKidStoresTid ==
  <<Store(PidOf["kid"]), Traceme, AssertThread(TRUE), ExecveSelf, Unreachable>>

ExecveThreadKid ==
  <<Store(PidOf["tracee"]), Traceme, AssertThread(TRUE), ExecveSelf, Unreachable>>

ExecveThreadMain == <<AssertThread(FALSE), AssertInt(PidOf["tracee"]), Exit(42)>>

ExecveThreadTracer ==
  <<Wait("any", StopSig("SIGTRAP")), Cont("tracee", NoSig),
    Wait("tracee", {Exited(42)}), Exit(0)>>

(* execve-32bit and execve-64bit: cs tells what the new program is. *)
ExecveOtherTracee(bits) == <<Traceme, Raise("SIGURG"), Execve(bits), Unreachable>>

ExecveOtherTracer(bits) ==
  OptionsStop("SIGURG", {"TRACEEXEC"}) \o
  <<Cont("tracee", NoSig), Wait("tracee", {EventStop("EXEC")}),
    PeekUser("tracee", "cs", bits, {"ok"}), Cont("tracee", NoSig),
    UncheckedWait("tracee"), Exit(0)>>

OtherMain == <<Exit(0)>>

(* template.cpp: what a new test starts from. *)
TemplateTracee == <<Exit(0)>>
TemplateTracer == <<Exit(0)>>
=============================================================================
