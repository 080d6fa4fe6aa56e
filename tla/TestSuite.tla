----------------------------- MODULE TestSuite -----------------------------
(***************************************************************************)
(* All tests of the suite, by file name ("-" written as "_").              *)
(***************************************************************************)
EXTENDS SignalTests, MemoryTests, ProcessTests, TraceTests

(* A test with a third body: its signal_handler, kid or execve_main. *)
With(tracer, tracee, f, body) == WithFn(Test(tracer, tracee), f, body)

AllTests == [
  (* signals *)
  traceme      |-> Test(TracemeTracer, TracemeTracee),
  traceme_sigign |-> Test(TracemeSigignTracer, TracemeSigignTracee),
  traceme_sigign_explicit |->
    Test(TracemeSigignExplicitTracer, TracemeSigignExplicitTracee),
  traceme_masked |-> Test(TracemeMaskedTracer, TracemeMaskedTracee),
  cont_same    |-> With(ContSameTracer, ContSameTracee, "handler", ContSameHandler),
  cont_different |->
    With(ContDifferentTracer, ContDifferentTracee, "handler", ContDifferentHandler),
  cont_different_term |->
    With(ContDifferentTermTracer, ContDifferentTermTracee, "handler",
         ContDifferentTermHandler),
  cont_different_setsiginfo |->
    With(ContDifferentSetsiginfoTracer, ContDifferentSetsiginfoTracee, "handler",
         ContDifferentSetsiginfoHandler),
  bad_cont     |-> Test(BadContTracer, BadContTracee),
  sigsegv_continue |-> Test(SigsegvContinueTracer, SigsegvContinueTracee),
  setsiginfo   |-> With(SetsiginfoTracer, SetsiginfoTracee, "handler", SetsiginfoHandler),
  setsigmask   |-> With(SetsigmaskTracer, SetsigmaskTracee, "handler", SetsigmaskHandler),
  signal_handler_regs |->
    With(SignalHandlerRegsTracer, SignalHandlerRegsTracee, "handler",
         SignalHandlerRegsHandler),
  group_stop_inject |->
    With(GroupStopInjectTracer, GroupStopInjectTracee, "handler", GroupStopInjectHandler),
  (* memory and errors *)
  peekdata     |-> Test(PeekdataTracer, PeekdataTracee),
  peekdata_unaligned |-> Test(PeekdataUnalignedTracer, PeekdataUnalignedTracee),
  peekdata_cross_page |-> Test(PeekdataCrossPageTracer, PeekdataCrossPageTracee),
  peekdata_fault |-> Test(PeekdataFaultTracer, PeekdataFaultTracee),
  pokedata     |-> Test(PokedataTracer, PokedataTracee),
  stop_not_observed |-> Test(StopNotObservedTracer, StopNotObservedTracee),
  esrch_not_stopped |-> Test(EsrchNotStoppedTracer, EsrchNotStoppedTracee),
  esrch_not_traced |-> Test(EsrchNotTracedTracer, EsrchNotTracedTracee),
  (* processes, threads and execve *)
  tracefork    |-> With(TraceforkTracer, TraceforkTracee, "kid", TraceforkKid),
  traceclone   |-> With(TracecloneTracer, TracecloneTracee, "kid", TracecloneKid),
  clone_fork_flags |->
    With(CloneForkFlagsTracer, CloneForkFlagsTracee, "kid", CloneForkFlagsKid),
  fork_syscall |-> With(ForkSyscallTracer, ForkSyscallTracee, "kid", ForkSyscallKid),
  group_stop   |-> With(GroupStopTracer, GroupStopTracee, "kid", GroupStopKid),
  execve       |-> With(ExecveTracer, ExecveTracee, "exec", ExecveMain),
  execve_inject |-> WithFn(With(ExecveInjectTracer, ExecveInjectTracee, "exec", ExecveMain),
                           "handler", <<Unreachable>>),
  execve_inject_ign |->
    WithFn(With(ExecveInjectIgnTracer, ExecveInjectIgnTracee, "exec", ExecveMain),
           "handler", <<Unreachable>>),
  execve_inject_mask |->
    WithFn(With(ExecveInjectMaskTracer, ExecveInjectMaskTracee, "exec",
                ExecveInjectMaskMain),
           "handler", ExecveInjectMaskHandler),
  execve_thread |->
    WithFn(With(ExecveThreadTracer, ExecveThreadTracee, "exec", ExecveThreadMain),
           "kid", ExecveThreadKid),
  execve_32bit |->
    With(ExecveOtherTracer(32), ExecveOtherTracee(32), "exec", OtherMain),
  execve_64bit |->
    With(ExecveOtherTracer(64), ExecveOtherTracee(64), "exec", OtherMain),
  (* system calls, stepping, breakpoints, attaching *)
  syscall      |-> Test(SyscallTracer, SyscallTracee),
  syscall_exit |-> Test(SyscallExitTracer, SyscallExitTracee),
  change_syscall_arg |-> Test(ChangeSyscallArgTracer, ChangeSyscallArgTracee),
  bad_get_syscall_info |-> Test(BadGetSyscallInfoTracer, BadGetSyscallInfoTracee),
  single_step  |-> Test(SingleStepTracer, SingleStepTracee),
  single_step_inject |->
    With(SingleStepInjectTracer, SingleStepInjectTracee, "handler",
         SingleStepInjectHandler),
  hw_breakpoint |-> Test(HwBreakpointTracer, HwBreakpointTracee),
  int3         |-> Test(Int3Tracer, Int3Tracee),
  seize        |-> Test(SeizeTracer, SeizeTracee),
  attach_stop_cont_stop |-> Test(AttachStopContStopTracer, AttachStopContStopTracee),
  attach_different_uid |->
    Test(AttachDifferentUidTracer(TRUE), AttachDifferentUidTracee(TRUE)),
  attach_different_uid_skipped |->
    Test(AttachDifferentUidTracer(FALSE), AttachDifferentUidTracee(FALSE))]
=============================================================================
