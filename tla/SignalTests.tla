---------------------------- MODULE SignalTests ----------------------------
(***************************************************************************)
(* The tests about signals: signal-delivery-stop, what PTRACE_CONT injects, *)
(* PTRACE_SETSIGINFO and PTRACE_SETSIGMASK.  One definition is one function *)
(* of a test, as a sequence of the statements of Statements.tla.           *)
(***************************************************************************)
EXTENDS Statements

Blockable == Signal \ {"SIGSTOP"}

Queued     == [signo |-> "SIGUSR1", origin |-> "sigqueue"]
DeadBeef   == 57005                       \* 0xDEAD, the upper half of 0xdeadbeef
From(s, o) == [signo |-> s, origin |-> o]

(* void signal_handler: its ASSERTs on siginfo, then signal_happened = true *)
Handler(S) == <<AssertInfo(S), SetFlag, Sigreturn>>

-----------------------------------------------------------------------------
(* traceme, traceme-sigign, traceme-sigign-explicit: a traced task stops    *)
(* for a signal even when its disposition is to ignore it.                 *)

TracemeTracee ==
  <<Traceme, FetchAdd, Raise("SIGSTOP"), FetchAdd, ReadPipe, Exit(0)>>

(* Variants of TracemeTracer: the first waitpid is missing; the last check  *)
(* comes before the tracee's exit; the byte for the tracee is never written. *)
TracemeTracerUnobserved ==
  <<SpinUntil(1), Resume("tracee", "cont", NoSig, AnyOutcome), WritePipe,
    WaitExit("tracee"), AssertInt(2), Exit(0)>>

TracemeTracerChecksEarly ==
  <<Wait("tracee", {StoppedBy("SIGSTOP")}), AssertInt(1), Cont("tracee", NoSig), WritePipe,
    AssertInt(2), WaitExit("tracee"), Exit(0)>>

TracemeTracerNoToken ==
  <<Wait("tracee", {StoppedBy("SIGSTOP")}), AssertInt(1), Cont("tracee", NoSig),
    WaitExit("tracee"), AssertInt(2), Exit(0)>>

TracemeTracer ==
  <<Wait("tracee", {StoppedBy("SIGSTOP")}), AssertInt(1), Cont("tracee", NoSig), WritePipe,
    WaitExit("tracee"), AssertInt(2), Exit(0)>>

TracemeSigignTracee ==
  <<Traceme, FetchAdd, Raise("SIGURG"), FetchAdd, ReadPipe, Exit(0)>>

TracemeSigignTracer ==
  <<Wait("tracee", {StoppedBy("SIGURG")}), AssertInt(1), Cont("tracee", "SIGURG"), WritePipe,
    WaitExit("tracee"), AssertInt(2), Exit(0)>>

TracemeSigignExplicitTracee ==
  <<Sigaction("SIGPWR", "ign"), Traceme, FetchAdd, Raise("SIGPWR"), FetchAdd, ReadPipe,
    Exit(0)>>

TracemeSigignExplicitTracer ==
  <<Wait("tracee", {StoppedBy("SIGPWR")}), AssertInt(1), Cont("tracee", "SIGURG"), WritePipe,
    WaitExit("tracee"), AssertInt(2), Exit(0)>>

(* traceme-masked: a blocked signal is no reason to stop. *)
TracemeMaskedTracee ==
  <<SetMask(Blockable), Traceme, Raise("SIGURG"), ReadPipe, Exit(0)>>

(* Variant of TracemeMaskedTracer: wait_exit without its ASSERT. *)
TracemeMaskedTracerUnchecked == <<WritePipe, UncheckedWait("tracee"), Exit(0)>>

TracemeMaskedTracer == <<WritePipe, WaitExit("tracee"), Exit(0)>>

-----------------------------------------------------------------------------
(* cont-*: the signal a PTRACE_CONT injects keeps the siginfo of the one    *)
(* that stopped the task, or gets one that names the tracer.               *)

QueuesToItself(after) ==
  <<Sigaction("SIGUSR1", "handler"), Sigaction("SIGUSR2", "handler"), Traceme,
    Sigqueue("SIGUSR1")>> \o after

ContSameTracee == QueuesToItself(<<AssertFlag, Exit(0)>>)

ContSameHandler == Handler({Queued})

ContSameTracer ==
  <<Wait("tracee", {StoppedBy("SIGUSR1")}), Cont("tracee", "SIGUSR1"), WaitExit("tracee"),
    Exit(0)>>

ContDifferentTracee == QueuesToItself(<<AssertFlag, Exit(0)>>)

ContDifferentHandler == Handler({From("SIGUSR2", "tracer")})

ContDifferentTracer ==
  <<Wait("tracee", {StoppedBy("SIGUSR1")}), Cont("tracee", "SIGUSR2"), WaitExit("tracee"),
    Exit(0)>>

ContDifferentTermTracee == QueuesToItself(<<Unreachable>>)

ContDifferentTermHandler == <<Unreachable>>

ContDifferentTermTracer ==
  <<Wait("tracee", {StoppedBy("SIGUSR1")}), Cont("tracee", "SIGPWR"),
    WaitTerm("tracee", "SIGPWR"), Exit(0)>>

ContDifferentSetsiginfoTracee == QueuesToItself(<<AssertFlag, Exit(0)>>)

ContDifferentSetsiginfoHandler == Handler({From("SIGUSR2", "setsiginfo")})

ContDifferentSetsiginfoTracer ==
  <<Wait("tracee", {StoppedBy("SIGUSR1")}),
    SetSiginfo("tracee", From("SIGUSR2", "setsiginfo")),
    Cont("tracee", "SIGUSR2"), WaitExit("tracee"), Exit(0)>>

(* bad-cont: a signal number that does not exist is refused. *)
BadContTracee == <<Traceme, Raise("SIGURG"), Exit(0)>>

BadContTracer ==
  <<Wait("tracee", AnyStatus), Resume("tracee", "cont", BadSig, {"EIO"}),
    Cont("tracee", NoSig), Wait("tracee", {Exited(0)}), Exit(0)>>

(* sigsegv-continue: the fault stops the task, injected it kills it. *)
SigsegvContinueTracee == <<Traceme, Segv, Exit(0)>>

SigsegvContinueTracer ==
  <<Wait("tracee", StopSig("SIGSEGV")), Cont("tracee", "SIGSEGV"),
    Wait("tracee", {Signaled("SIGSEGV")}), Exit(0)>>

-----------------------------------------------------------------------------
(* What the tracer writes into the stopped task. *)

HandlesUrg(s) ==
  <<Sigaction(s, "handler"), Traceme, Raise("SIGURG"), ReadPipe, AssertFlag, Exit(0)>>

SetsiginfoTracee == HandlesUrg("SIGUSR1")

SetsiginfoHandler ==
  Handler({i \in Info : i.origin = "setsiginfo"})      \* si_code only

SetsiginfoTracer ==
  <<Wait("tracee", StopSig("SIGURG")), GetSiginfo("tracee", Info, {"ok"}),
    SetSiginfo("tracee", From("SIGUSR1", "setsiginfo")),
    Cont("tracee", "SIGUSR1"), WritePipe, WaitExit("tracee"), Exit(0)>>

SetsigmaskTracee == HandlesUrg("SIGURG")

SetsigmaskHandler == <<AssertMasked, SetFlag, Sigreturn>>

SetsigmaskTracer ==
  <<Wait("tracee", StopSig("SIGURG")), SetSigmask("tracee", Blockable \ {"SIGURG"}),
    Cont("tracee", "SIGURG"), WritePipe, WaitExit("tracee"), Exit(0)>>

(* The PTRACE_CONT passes 0: this handler has nothing to handle. *)
SignalHandlerRegsTracee ==
  <<Sigaction("SIGTRAP", "handler"), Traceme, Raise("SIGTRAP"), Exit(0)>>

SignalHandlerRegsHandler == <<AssertReg("ax", DeadBeef), SigreturnWith(0)>>

SignalHandlerRegsTracer ==
  <<Wait("tracee", StopSig("SIGTRAP")), PokeUser("tracee", "ax", DeadBeef),
    Cont("tracee", NoSig), WaitExit("tracee"), Exit(0)>>

(* group-stop-inject: an injected signal 53 takes the place of SIGSTOP. *)
GroupStopInjectTracee ==
  <<Sigaction("SIG53", "handler"), Traceme, Raise("SIGSTOP"), AssertFlag, ReadPipe, Exit(0)>>

GroupStopInjectHandler == Handler({i \in Info : i.signo = "SIG53"})

GroupStopInjectTracer ==
  <<Wait("tracee", StopSig("SIGSTOP")), GetSiginfo("tracee", Info, {"ok"}),
    Cont("tracee", "SIG53"), WritePipe, WaitExit("tracee"), Exit(0)>>
=============================================================================
