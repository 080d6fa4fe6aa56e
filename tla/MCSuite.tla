------------------------------ MODULE MCSuite ------------------------------
(***************************************************************************)
(* Values for the constants of Harness: the tests of the suite, the kernels *)
(* they run on, and the properties that name a test.                       *)
(***************************************************************************)
EXTENDS Mistakes

AllBuilds    == {32, 64}
Build64      == {64}
Linux        == {"linux"}

(* stop-not-observed leaves it to usleep to bring tracee and tracer in order, *)
(* attach-different-uid without root ends without waiting for the tracee.   *)
Orderly == AllTestNames \ {"stop_not_observed", "attach_different_uid_skipped"}

-----------------------------------------------------------------------------
(* PTRACE_SETSIGMASK may do nothing at all: setsigmask.cpp only looks at the *)
(* bit of the signal being handled, which is blocked either way.  And the  *)
(* image execve-32bit and execve-64bit switch to may crash at once: they   *)
(* drop the result of the wait_exit that would tell them.                  *)
Unnoticed ==
  kernel \in BlindSpots /\ test # "stop_not_observed" => verdict # "failed"

-----------------------------------------------------------------------------
(* fork() fails: tracer_main gets the pid -1. *)

(* Two tests demand nothing but an ESRCH or an exit status nobody wrote.    *)
Vacuous     == {"esrch_not_traced", "traceme_masked"}
NotVacuous  == Orderly \ Vacuous
VacuousOnes == Vacuous

-----------------------------------------------------------------------------
(* What the comments and conditions of single tests say of them. *)

OnlyStopNotObserved == {"stop_not_observed"}
OnlyExecveInjectMask == {"execve_inject_mask"}
OnlySignalHandlerRegs == {"signal_handler_regs"}
OnlyPeekdataCrossPage == {"peekdata_cross_page"}
FaultsAcrossPages == {"faults_across_pages"}

(* stop-not-observed.cpp: usleep gives the tracee enough time to stop. *)
StoppedInTime == "tracer" \notin complaints

(* execve-inject-mask.cpp: no signal-delivery-stop at the unmasking. *)
NoStopAtUnmask ==
  at["tracee"] = [fn |-> "exec", pc |-> 3] => k["tracee"].stop # "signal"

(* signal-handler-regs.cpp: the handler finds 0xdeadbeef in rax. *)
HandlerChecksRegs == <>(at["tracee"].fn = "handler")

(* run.sh: a test that fails is reported as failed, and does not leave a     *)
(* tracee behind that waits for the pipe and keeps run.sh from its verdict. *)
FailureReported == complaints # {} ~> verdict = "failed"
=============================================================================
