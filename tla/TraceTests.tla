----------------------------- MODULE TraceTests -----------------------------
(***************************************************************************)
(* The tests of system-call stops, single-stepping, breakpoints, and of    *)
(* the two ways to become the tracer of a task that did not ask for it.    *)
(***************************************************************************)
EXTENDS Statements

ToSyscall    == Resume("tracee", "syscall", NoSig, {"ok"})
Released     == <<Cont("tracee", NoSig), WaitExit("tracee"), Exit(0)>>
Continued == <<Cont("tracee", NoSig), WritePipe, WaitExit("tracee"), Exit(0)>>
Reader       == <<ReadPipe, Exit(0)>>

-----------------------------------------------------------------------------
(* syscall: the write comes while the read is stopped at its entry. *)
SyscallTracee == <<Traceme, Raise("SIGURG")>> \o Reader

SyscallTracer ==
  <<Wait("tracee", StopSig("SIGURG")), ToSyscall, Wait("tracee", StopSig("SIGTRAP")),
    WritePipe, PeekNr("tracee", "read"), ToSyscall,
    Wait("tracee", StopSig("SIGTRAP")), PeekUser("tracee", "ax", 2, {"ok"})>> \o Released

SyscallExitTracee == <<Traceme, Raise("SIGURG"), Close(0), Exit(0)>>

SyscallExitTracer ==
  <<Wait("tracee", StopSig("SIGURG")), SetOptions("tracee", {"TRACESYSGOOD"}), ToSyscall,
    Wait("tracee", {SyscallGood}), GetSyscallInfo("tracee", "entry", "close", 0),
    ToSyscall,
    Wait("tracee", {SyscallGood}), GetSyscallInfo("tracee", "exit", "close", 0),
    PeekUser("tracee", "ax", 0, {"ok"})>> \o Released

ChangeSyscallArgTracee == <<Traceme, Raise("SIGURG"), Exit(42)>>

ChangeSyscallArgTracer ==
  <<Wait("tracee", StopSig("SIGURG")), SetOptions("tracee", {"TRACESYSGOOD"}), ToSyscall,
    Wait("tracee", {SyscallGood}), GetSyscallInfo("tracee", "entry", "exit_group", 42),
    PokeUser("tracee", "arg", 0)>> \o Released

BadGetSyscallInfoTracee == <<Traceme, Raise("SIGURG"), Exit(0)>>

BadGetSyscallInfoTracer ==
  <<Wait("tracee", AnyStopped), GetSyscallInfo("tracee", "none", "raise", 0)>> \o Released

-----------------------------------------------------------------------------
SingleStepTracee == <<Traceme, Raise("SIGSTOP"), Exit(0)>>

SingleStepTracer ==
  <<Wait("tracee", StopSig("SIGSTOP")), Resume("tracee", "step", NoSig, AnyOutcome),
    Wait("tracee", StopSig("SIGTRAP")),
    GetSiginfo("tracee", {i \in Info : i.origin = "TRAP_TRACE"}, AnyOutcome)>> \o Released

(* The step ends at the first instruction of the handler. *)
SingleStepInjectTracee ==
  <<Sigaction("SIGURG", "handler"), Traceme, Raise("SIGURG"), AssertFlag, Exit(0)>>

SingleStepInjectHandler == <<SetFlag, Sigreturn>>

SingleStepInjectTracer ==
  <<Wait("tracee", StopSig("SIGURG")), Resume("tracee", "step", "SIGURG", AnyOutcome),
    Wait("tracee", StopSig("SIGTRAP")), PeekIp("tracee", "handler", 1, AnyOutcome),
    GetSiginfo("tracee", Info \cup {NoInfo}, AnyOutcome)>> \o Released

(* The breakpoint is taken on the first instruction of my_func. *)
HwBreakpointTracee == <<Traceme, Raise("SIGSTOP"), CallMyFunc, AssertFlag, Exit(0)>>

HwBreakpointTracer ==
  <<Wait("tracee", StopSig("SIGSTOP")),
    PokeUser("tracee", "dr0", 1), PokeUser("tracee", "dr7", 3), Cont("tracee", NoSig),
    Wait("tracee", StopSig("SIGTRAP")),
    GetSiginfo("tracee", {[signo |-> "SIGTRAP", origin |-> "TRAP_HWBKPT"]}, {"ok"})>>
    \o Released

(* rip is behind the one byte of int3. *)
Int3Tracee == <<Traceme, Int3, Exit(0)>>

Int3Tracer ==
  <<Wait("tracee", StopSig("SIGTRAP")), PeekIp("tracee", "tracee", 3, {"ok"}),
    Resume("tracee", "cont", NoSig, AnyOutcome), WaitExit("tracee"), Exit(0)>>

-----------------------------------------------------------------------------
(* seize: no stop until PTRACE_INTERRUPT asks for one. *)
SeizeTracee == Reader

SeizeTracer ==
  <<Seize("tracee"), WaitNohang("tracee"), Interrupt("tracee"),
    Wait("tracee", {EventStop("STOP")})>> \o Continued

(* A second SIGSTOP, sent while the task is stopped, is a second stop. *)
AttachStopContStopTracee == Reader

AttachStopContStopTracer ==
  <<Attach("tracee", {"ok"}), Wait("tracee", {StoppedBy("SIGSTOP")}),
    Tgkill("tracee", "SIGSTOP"), Cont("tracee", NoSig),
    Wait("tracee", {StoppedBy("SIGSTOP")})>> \o Continued

(* The test skips itself unless it runs as root. *)
AttachDifferentUidTracee(root) ==
  IF root THEN <<Setresuid("65533"), FetchAdd>> \o Reader ELSE <<Exit(0)>>

AttachDifferentUidTracer(root) ==
  IF root
  THEN <<Setresuid("65534"), SpinWhile(0), Attach("tracee", {"EPERM"}), WritePipe,
         WaitExit("tracee"), Exit(0)>>
  ELSE <<Store(66), Exit(0)>>
=============================================================================
