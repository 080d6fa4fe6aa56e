----------------------------- MODULE PtraceDefs -----------------------------
(***************************************************************************)
(* The vocabulary of the ptrace test suite: the signals, wait statuses and *)
(* siginfo values its ASSERTs can tell apart, and the kinds of ptrace-stop *)
(* a tracee can be in.                                                     *)
(***************************************************************************)
EXTENDS Integers, Sequences

(* A test runs at most three tasks: the tracer (the process run.sh starts), *)
(* the tracee it forks, and the one process or thread a tracee creates.     *)
Task == {"tracer", "tracee", "kid"}

Signal == {"SIGSTOP", "SIGTRAP", "SIGURG", "SIGUSR1", "SIGUSR2", "SIGPWR",
           "SIGCHLD", "SIGSEGV", "SIG53"}
NoSig  == "none"
BadSig == "invalid"         \* a number that is no signal: -5 in bad-cont.cpp

(* What SIG_DFL does: ignore, stop the process, or (all the others) kill it. *)
DefaultIgnore == {"SIGURG", "SIGCHLD"}
DefaultStop   == {"SIGSTOP"}

(* siginfo: the signal and where it came from.  One name stands for a      *)
(* combination of si_code, si_value and si_pid that some ASSERT checks.    *)
Origin == {"raise",          \* SI_TKILL
           "sigqueue",       \* SI_QUEUE, si_value 0xDEADBEEF
           "tracer",         \* SI_USER, si_pid and si_uid of the tracer
           "setsiginfo",     \* whatever PTRACE_SETSIGINFO wrote
           "auto",           \* si_code 0, the SIGSTOP of an auto-attached task
           "exec",           \* si_code 0, the SIGTRAP of an untraced execve
           "child",          \* CLD_EXITED
           "TRAP_TRACE", "TRAP_HWBKPT", "TRAP_BRKPT", "SEGV_MAPERR"}
Info   == [signo : Signal, origin : Origin]
NoInfo == [signo |-> NoSig, origin |-> "none"]

(* A wait status, as the W* macros and (status >> 8) take it apart. *)
Event   == {"FORK", "CLONE", "EXEC", "STOP"}
Options == {"TRACEFORK", "TRACECLONE", "TRACEEXEC", "TRACESYSGOOD"}
Status  == [kind : {"none", "stopped", "exited", "signaled"},
            sig  : Signal \cup {NoSig},
            note : Event \cup {"none", "0x80"},
            code : Nat]

NoStatus     == [kind |-> "none", sig |-> NoSig, note |-> "none", code |-> 0]
Exited(c)    == [NoStatus EXCEPT !.kind = "exited", !.code = c]
Signaled(s)  == [NoStatus EXCEPT !.kind = "signaled", !.sig = s]
StoppedBy(s) == [NoStatus EXCEPT !.kind = "stopped", !.sig = s]
EventStop(e) == [StoppedBy("SIGTRAP") EXCEPT !.note = e]
SyscallGood  == [StoppedBy("SIGTRAP") EXCEPT !.note = "0x80"]

(* WIFSTOPPED(status) && WSTOPSIG(status) == s: says nothing of the event. *)
StopSig(s)  == {StoppedBy(s)} \cup
               (IF s = "SIGTRAP" THEN {EventStop(e) : e \in Event} ELSE {})
AnyStopped  == {StoppedBy(s) : s \in Signal} \cup {EventStop(e) : e \in Event}
                 \cup {SyscallGood}
AnyExit     == {Exited(0), Exited(1), Exited(42)} \cup {Signaled(s) : s \in Signal}
AnyStatus   == AnyStopped \cup AnyExit

(* The ptrace-stops.  "signal": signal-delivery-stop; "group": group-stop;  *)
(* "entry"/"exit": syscall-stops; "event": PTRACE_EVENT stops; "notify": the *)
(* SIGTRAP reported when a single-stepped task enters a signal handler.      *)
StopKind == {"none", "signal", "group", "entry", "exit", "event", "notify"}

Life  == {"absent", "running", "stopped", "jobstop", "zombie", "gone"}
Alive == {"running", "stopped", "jobstop"}

Outcome == {"ok", "ESRCH", "EIO", "EINVAL", "EPERM"}
Byte    == 0 .. 255
=============================================================================
