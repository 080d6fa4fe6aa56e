------------------------------ MODULE Harness -------------------------------
(***************************************************************************)
(* One run of one test: TEST_MAIN of common.h forks, the tracee and the    *)
(* tracer execute their functions statement by statement on the kernel of  *)
(* Kernel.tla, a failing ASSERT prints its condition and exits with 1, and *)
(* run.sh collects the output and the exit status of the tracer.           *)
(***************************************************************************)
EXTENDS Kernel

CONSTANTS
  Suite,        \* [test name -> [Fn -> Seq(statement)]]
  Tests,        \* the tests to run, a subset of DOMAIN Suite
  Kernels,      \* the kernels to run them on
  Builds,       \* the binaries to run, a subset of {32, 64}
  ForkMayFail   \* can the fork() of TEST_MAIN return -1

ASSUME HarnessAssumption ==
  /\ Tests \subseteq DOMAIN Suite
  /\ \A name \in Tests : IsProgram(Suite[name])
  /\ Builds \subseteq {32, 64}
  /\ ForkMayFail \in BOOLEAN

VARIABLES
  test,         \* the test that runs
  code,         \* its program: the body of each function
  int1,         \* *shared_int1
  pipe,         \* are the two bytes 0xCAFE in the pipe
  got,          \* the task the tracer's last waitpid reported
  complaints,   \* tasks that printed "Condition ... failed!"
  verdict       \* what run.sh says of the test

static  == <<test, code, kernel, build>>
control == <<at, frame, flag>>
memory  == <<int1, mem, pipe>>
vars    == <<static, control, memory, life, exit, k, got, complaints, verdict>>

Code(t) == code[at[t].fn]
Here(t) == Code(t)[at[t].pc]

NoFrame == [fn |-> "tracee", pc |-> 0, mask |-> {}, info |-> NoInfo]

-----------------------------------------------------------------------------
(* Executing statements.  At(t, op): t is about to execute a statement op. *)

At(t, op) ==
  /\ Ready(t)
  /\ at[t].pc \in DOMAIN Code(t)
  /\ Here(t).op = op

(* A system call of a PTRACE_SYSCALL'ed task runs after its entry stop. *)
InSyscall(t, op) == At(t, op) /\ (k[t].mode # "syscall" \/ k[t].phase = "entered")

Goto(t, pc)  == at' = [at EXCEPT ![t].pc = pc] /\ UNCHANGED <<frame, flag>>
Proceed(t)   == Goto(t, at[t].pc + 1)
Returns(t, v) == k' = [k EXCEPT ![t] = Ret(@, v)]

Passive      == UNCHANGED <<life, exit, complaints, verdict, got, static>>

(* Variant of Abort: ASSERT prints the condition and goes on. *)
AbortGoesOn(t) ==
  /\ complaints' = complaints \cup {t}
  /\ Proceed(t)
  /\ UNCHANGED <<memory, life, exit, k, got, verdict, static>>

(* ASSERT failed: the condition is printed, exit(1) ends the whole process. *)
Abort(t) ==
  /\ complaints' = complaints \cup {t}
  /\ Die(Members(t), Exited(1))
  /\ UNCHANGED <<control, memory, got, verdict, static>>

Check(t, cond) ==
  \/ cond /\ Proceed(t) /\ UNCHANGED <<memory, life, exit, k, got, complaints, verdict, static>>
  \/ ~cond /\ Abort(t)

-----------------------------------------------------------------------------
(* TEST_MAIN. *)

(* memfd_create, ftruncate and pipe are checked, mmap is not (see Mapped).  *)
TestMainSetupFails ==
  /\ Quirk("no_memfd")
  /\ life["tracer"] = "running" /\ at["tracer"].pc = 0
  /\ Abort("tracer")

TestMainForks ==
  /\ ~Quirk("no_memfd")
  /\ life["tracer"] = "running" /\ at["tracer"].pc = 0
  /\ life' = [life EXCEPT !["tracee"] = "running"]
  /\ Goto("tracer", 1)
  /\ UNCHANGED <<memory, exit, k, got, complaints, verdict, static>>

(* fork() == -1 is not 0, so main calls tracer_main(-1). *)
TestMainForkFails ==
  /\ ForkMayFail /\ ~Quirk("no_memfd")
  /\ life["tracer"] = "running" /\ at["tracer"].pc = 0
  /\ Goto("tracer", 1)
  /\ UNCHANGED <<memory, life, exit, k, got, complaints, verdict, static>>

-----------------------------------------------------------------------------
(* Ordinary code. *)

(* The statement touches the int, or the bytes, of the shared mapping. *)
IntOps == {"fetch_add", "store", "spin_while", "spin_until", "assert_int"}

IntMapped == Mapped(0, 4)

(* mmap() has failed and nobody has looked: every access is a fault. *)
MemoryFault(t) ==
  /\ \/ ~IntMapped /\ \E op \in IntOps : At(t, op)
     \/ At(t, "store_bytes") /\ ~Mapped(Here(t).addr, Len(Here(t).bytes))
     \/ At(t, "assert_word") /\ ~Mapped(Here(t).addr, WordBytes)
  /\ k' = [k EXCEPT ![t] = Sent(@, Segfault)]
  /\ UNCHANGED <<control, memory>> /\ Passive

AtomicStore(t) ==
  /\ IntMapped
  /\ \/ At(t, "fetch_add") /\ int1' = int1 + 1
     \/ At(t, "store")     /\ int1' = Here(t).n
  /\ Proceed(t)
  /\ UNCHANGED <<mem, pipe, k>> /\ Passive

(* A busy-wait leaves its loop; the turns it makes change nothing. *)
Spin(t) ==
  /\ IntMapped
  /\ \/ At(t, "spin_while") /\ int1 # Here(t).n
     \/ At(t, "spin_until") /\ int1 = Here(t).n
  /\ Proceed(t)
  /\ UNCHANGED <<memory, k>> /\ Passive

AssertShared(t) ==
  \/ At(t, "assert_int") /\ IntMapped /\ Check(t, int1 = Here(t).n)
  \/ /\ At(t, "assert_word") /\ Mapped(Here(t).addr, WordBytes)
     /\ Check(t, \A b \in 1 .. WordBytes : LowBytes(Here(t).addr)[b] = Here(t).bytes[b])

(* gregs of the 32-bit build are ints, which `u64 rax' sign-extends; in the  *)
(* model such a register has 16 bits.                                      *)
SavedReg(v) == IF build = 32 /\ v >= 2^15 THEN v - 2^16 ELSE v

AssertOwn(t) ==
  \/ At(t, "assert_flag")   /\ Check(t, flag[t])
  \/ At(t, "assert_info")   /\ Check(t, frame[t].info \in Here(t).infos)
  \/ At(t, "assert_masked") /\ Check(t, frame[t].info.signo \in k[t].mask)
  \/ At(t, "assert_in")     /\ Check(t, frame[t].fn = Here(t).fn)
  \/ At(t, "assert_reg")    /\ Check(t, SavedReg(k[t].regs[Here(t).reg]) = Here(t).n)
  \/ At(t, "assert_thread") /\ Check(t, k[t].thread = Here(t).thread)
  \/ At(t, "unreachable")   /\ Check(t, FALSE)

SetOk(t) ==
  /\ At(t, "set_flag")
  /\ flag' = [flag EXCEPT ![t] = TRUE]
  /\ at' = [at EXCEPT ![t].pc = @ + 1]
  /\ UNCHANGED <<frame, memory, k>> /\ Passive

StoreMemory(t) ==
  /\ At(t, "store_bytes") /\ Mapped(Here(t).addr, Len(Here(t).bytes))
  /\ mem' = Written(Here(t).addr, Here(t).bytes, Len(Here(t).bytes))
  /\ Proceed(t)
  /\ UNCHANGED <<int1, pipe, k>> /\ Passive

(* my_func(); an armed debug register traps before its first instruction. *)
CallMyFunction(t) ==
  /\ At(t, "call")
  /\ LET armed == k[t].regs["dr0"] = 1 /\ k[t].regs["dr7"] = 3 /\ k[t].regs["rf"] = 0 IN
     \/ /\ armed
        /\ k' = [k EXCEPT ![t] = [Sent(@, [signo |-> "SIGTRAP", origin |-> "TRAP_HWBKPT"])
                                  EXCEPT !.regs["rf"] = 1]]
        /\ UNCHANGED control
     \/ /\ ~armed
        /\ flag' = [flag EXCEPT ![t] = TRUE]
        /\ at' = [at EXCEPT ![t].pc = @ + 1]
        /\ UNCHANGED <<frame, k>>
  /\ UNCHANGED memory /\ Passive

(* int3 traps behind the instruction, the null store on it. *)
Fault(t) ==
  /\ \/ /\ At(t, "int3")
        /\ IF Quirk("traps_on_int3") THEN UNCHANGED control ELSE Proceed(t)
        /\ k' = [k EXCEPT ![t] = Sent(@, [signo |-> "SIGTRAP", origin |-> "TRAP_BRKPT"])]
     \/ /\ At(t, "segv") /\ UNCHANGED control
        /\ k' = [k EXCEPT ![t] = Sent(@, Segfault)]
  /\ UNCHANGED memory /\ Passive

(* Back to what was interrupted, with the rax the handler left in its gregs. *)
Restored(t) ==
  [k[t] EXCEPT !.mask = frame[t].mask,
               !.regs["ax"] = IF "ax" \in DOMAIN Here(t) THEN Here(t).ax ELSE k[t].regs["ax"]]

HandlerReturns(t) ==
  /\ At(t, "sigreturn")
  /\ at' = [at EXCEPT ![t] = [fn |-> frame[t].fn, pc |-> frame[t].pc]]
  /\ k' = [k EXCEPT ![t] = Restored(t)]
  /\ frame' = [frame EXCEPT ![t] = NoFrame]
  /\ UNCHANGED <<flag, memory>> /\ Passive

-----------------------------------------------------------------------------
(* System calls that concern the caller. *)

(* PTRACE_TRACEME: the parent of the caller's process becomes its tracer.  *)
Traced(t) ==
  /\ InSyscall(t, "traceme")
  /\ k' = [k EXCEPT ![t] = [Ret(@, 0) EXCEPT !.traced = TRUE]]
  /\ Proceed(t)
  /\ UNCHANGED memory /\ Passive

(* raise and sigqueue(getpid()): the signal is taken before they return. *)
RaiseSignal(t) ==
  /\ InSyscall(t, "raise")
  /\ k' = [k EXCEPT ![t] = Sent(Ret(@, 0),
                                [signo |-> Here(t).sig, origin |-> Here(t).origin])]
  /\ Proceed(t)
  /\ UNCHANGED memory /\ Passive

SignalSetup(t) ==
  /\ \/ /\ InSyscall(t, "setmask")
        /\ k' = [k EXCEPT ![t] = [Ret(@, 0) EXCEPT !.mask = Here(t).sigs]]
     \/ /\ InSyscall(t, "sigaction")
        /\ k' = [k EXCEPT ![t] = [Ret(@, 0) EXCEPT !.act[Here(t).sig] = Here(t).disp]]
  /\ Proceed(t)
  /\ UNCHANGED memory /\ Passive

ReadToken(t) ==
  /\ InSyscall(t, "read") /\ pipe
  /\ pipe' = FALSE
  /\ Returns(t, 2) /\ Proceed(t)
  /\ UNCHANGED <<int1, mem>> /\ Passive

WriteToken(t) ==
  /\ InSyscall(t, "write")
  /\ pipe' = TRUE
  /\ Returns(t, 2) /\ Proceed(t)
  /\ UNCHANGED <<int1, mem>> /\ Passive

CloseStdin(t) ==
  /\ InSyscall(t, "close")
  /\ Returns(t, 0) /\ Proceed(t)
  /\ UNCHANGED memory /\ Passive

(* Variant of UnmapSecondPage: the mapping has only one page afterwards. *)
UnmapShrinks(t) ==
  /\ InSyscall(t, "munmap")
  /\ mem' = [b \in 0 .. (PageBytes - 1) |-> mem[b]]
  /\ Returns(t, 0) /\ Proceed(t)
  /\ UNCHANGED <<int1, pipe>> /\ Passive

(* One page behind MAP_FAILED is no address munmap() takes. *)
UnmapSecondPage(t) ==
  /\ InSyscall(t, "munmap")
  /\ \/ /\ IntMapped
        /\ mem' = [b \in Addr |-> IF b >= PageBytes THEN Unmapped ELSE mem[b]]
        /\ Returns(t, 0) /\ Proceed(t)
        /\ UNCHANGED <<int1, pipe>> /\ Passive
     \/ ~IntMapped /\ Abort(t)

ChangeUser(t) ==
  /\ InSyscall(t, "setresuid")
  /\ k' = [k EXCEPT ![t] = [Ret(@, 0) EXCEPT !.uid = Here(t).uid]]
  /\ Proceed(t)
  /\ UNCHANGED memory /\ Passive

-----------------------------------------------------------------------------
(* Creation, execve and exit. *)

CreateKid(t) ==
  /\ InSyscall(t, "clone") /\ life["kid"] = "absent" /\ ~Quirk("clone_fails")
  /\ LET event == CloneEvent(k[t], Here(t))
         r     == Ret(k[t], PidOf["kid"])
     IN  /\ k' = [k EXCEPT !["kid"] = Child(k[t], Here(t)),
                           ![t] = IF event = "none" THEN r ELSE EventStopped(r, event)]
         /\ life' = [life EXCEPT !["kid"] = "running",
                                 ![t] = IF event = "none" THEN @ ELSE "stopped"]
  /\ at' = [at EXCEPT ![t].pc = @ + 1, !["kid"] = [fn |-> "kid", pc |-> 1]]
  /\ flag' = [flag EXCEPT !["kid"] = flag[t]]
  /\ UNCHANGED <<frame, memory, exit, got, complaints, verdict, static>>

(* The new image maps the memory again, by the descriptor whose number is   *)
(* in its environment, and looks at the result no more than the old one.   *)
Remapped == IF Quirk("exec_closes_files") THEN [b \in Addr |-> Unmapped] ELSE mem

(* execve replaces the program; when a second thread does it, it takes the  *)
(* place (and the pid) of the leader, which is gone with its other threads. *)
ExecSelf(t) ==
  /\ InSyscall(t, "execve") /\ ~Quirk("execve_fails")
  /\ LET q == Execed(Ret(k[t], 0), IF Here(t).n = 0 \/ Quirk("exec_keeps_bits") THEN build
                                   ELSE Here(t).n)
         r == IF Here(t).n # 0 /\ Quirk("other_image_crashes") THEN Sent(q, Segfault) ELSE q
         u == IF k[t].thread THEN "tracee" ELSE t
     IN  /\ k' = [k EXCEPT ![u] = r, ![t] = IF u = t THEN r ELSE NewTask]
         /\ life' = [life EXCEPT ![u] = IF r.stop = "event" THEN "stopped" ELSE "running",
                                 ![t] = IF u # t THEN "gone"
                                        ELSE IF r.stop = "event" THEN "stopped"
                                        ELSE "running"]
         /\ at' = [at EXCEPT ![u] = [fn |-> "exec", pc |-> 1]]
         /\ flag' = [flag EXCEPT ![u] = FALSE]
         /\ frame' = [frame EXCEPT ![u] = NoFrame]
  /\ mem' = Remapped
  /\ UNCHANGED <<int1, pipe, exit, got, complaints, verdict, static>>

(* execve returns to the ASSERT(false) behind it; fork, clone and            *)
(* pthread_create to a tracee that takes their -1 for a child, or ignores it. *)
CallFails(t) ==
  /\ \/ InSyscall(t, "execve") /\ Quirk("execve_fails")
     \/ InSyscall(t, "clone") /\ Quirk("clone_fails")
  /\ Returns(t, NoSys) /\ Proceed(t)
  /\ UNCHANGED memory /\ Passive

(* return from main or exit(n); POKEUSER may have changed the argument. *)
ExitProcess(t) ==
  /\ InSyscall(t, "exit_group")
  /\ Die(Members(t), Exited(IF k[t].regs["arg"] = OwnArg THEN Here(t).n
                            ELSE k[t].regs["arg"]))
  /\ UNCHANGED <<control, memory, got, complaints, verdict, static>>

ExitThread(t) ==
  /\ InSyscall(t, "exit")
  /\ Die({t}, Exited(0))
  /\ UNCHANGED <<control, memory, got, complaints, verdict, static>>

JoinThread(t) ==
  /\ InSyscall(t, "join") /\ life["kid"] \in {"zombie", "gone"}
  /\ Returns(t, 0) /\ Proceed(t)
  /\ UNCHANGED memory /\ Passive

-----------------------------------------------------------------------------
(* waitpid.  A blocked waitpid may find the dead child before the SIGCHLD   *)
(* sent along with it is taken.                                            *)

Waits(t) ==
  /\ life[t] = "running" /\ at[t].pc \in DOMAIN Code(t) /\ Here(t).op = "wait"
  /\ ~Interrupted([k[t] EXCEPT !.pend = {i \in @ : i # ChildInfo}])
  /\ k[t].mode # "syscall" \/ k[t].phase = "entered"

Targets(t) ==
  IF Here(t).who = "any" THEN Children(t)
  ELSE {IF Here(t).who = "got" THEN got ELSE Here(t).who} \cap Children(t)

WaitReports(t) ==
  /\ Waits(t)
  /\ \E u \in Targets(t) :
       /\ Reportable(t, u)
       /\ \/ /\ StatusOf(u) \in Here(t).ok
             /\ Collect(t, u)
             /\ got' = IF t = "tracer" THEN u ELSE got
             /\ Proceed(t)
             /\ UNCHANGED <<memory, exit, complaints, verdict, static>>
          \/ /\ StatusOf(u) \notin Here(t).ok
             /\ Abort(t)

(* waitpid has no child to wait for and returns -1.  That is the pid it was *)
(* given when the caller's fork() failed, and then nothing stops the        *)
(* ASSERTs from reading a status that was never written.                    *)
Childless(t) ==
  life["tracee"] = "absent" \/ (t = "tracee" /\ life["kid"] = "absent")

WaitFails(t) ==
  /\ Waits(t) /\ Targets(t) = {}
  /\ \/ NoStatus \notin Here(t).ok /\ Abort(t)
     \/ /\ Childless(t) \/ NoStatus \in Here(t).ok
        /\ Proceed(t)
        /\ UNCHANGED <<memory, k>> /\ Passive

PollReports(t) ==
  /\ At(t, "wait_nohang")
  /\ Check(t, Here(t).who \in Children(t) /\ ~Reportable(t, Here(t).who))

-----------------------------------------------------------------------------
(* ptrace requests and signals of the tracer. *)

Subject(t) == IF Here(t).who = "got" THEN got ELSE Here(t).who

(* Requests find a tracee that is stopped, whether waitpid has said so or not. *)
Found(s, u) ==
  \/ k[u].traced /\ life[u] = "stopped" /\ (Quirk("needs_report") => k[u].seen)
  \/ s.op = "peek" /\ Quirk("peeks_running") /\ k[u].traced /\ life[u] = "running"
  \/ s.op = "peek" /\ Quirk("peeks_untraced") /\ ~k[u].traced /\ life[u] \in Alive

Result(t) ==
  LET s == Here(t) u == Subject(t) IN
  CASE ~Found(s, u) -> "ESRCH"
    [] OTHER ->
       CASE s.op \in {"peek", "peek_raw", "poke"} /\ ~Readable(s.addr) -> "EIO"
         [] s.op = "resume" /\ s.sig = BadSig /\ ~Quirk("accepts_bad_signal") -> "EIO"
         [] /\ s.op = "getsiginfo" /\ k[u].stop = "group"
            /\ ~Quirk("group_has_siginfo") -> "EINVAL"
         [] OTHER -> "ok"

(* What the ASSERTs on the data of a successful query demand. *)
Confirms(s, u) ==
  CASE s.op = "peek"     -> PeekedWord(s.addr) = Truncated(s.bytes)
    [] s.op = "peek_raw" -> \A b \in 1 .. WordBytes : mem[s.addr + b - 1] = s.bytes[b]
    [] s.op = "peekuser" -> k[u].regs[s.reg] = s.n
    [] s.op = "peek_nr"  -> Here(u).op = s.nr
    [] s.op = "peek_ip"  -> at[u] = [fn |-> s.fn, pc |-> s.pc]
    [] s.op = "getsiginfo"  -> k[u].info \in s.infos
    [] s.op = "geteventmsg" -> k[u].stop = "event"
    [] s.op = "get_syscall_info" ->
         CASE s.at = "entry" -> k[u].stop = "entry" /\ Here(u).op = s.nr
                                /\ ("n" \in DOMAIN Here(u) => Here(u).n = s.n)
           [] s.at = "exit"  -> k[u].stop = "exit"
                                /\ ("n" \in DOMAIN s => k[u].regs["ax"] = s.n)
           [] OTHER          -> k[u].stop \notin {"entry", "exit"}
                                /\ ~Quirk("syscall_info_always")

Query(t) ==
  /\ \E op \in QueryOps : At(t, op)
  /\ Check(t, /\ Result(t) \in Here(t).exp
              /\ Result(t) = "ok" => Confirms(Here(t), Subject(t)))

(* A request that is refused changes nothing. *)
Refused(t) ==
  /\ \E op \in UpdateOps \cup {"poke", "resume"} : At(t, op)
  /\ Result(t) # "ok"
  /\ Check(t, Result(t) \in Here(t).exp)

Accepted(t, op) == At(t, op) /\ Result(t) = "ok"

Updated(r, s) ==
  CASE s.op = "setoptions" -> [r EXCEPT !.opts = s.opts]
    [] s.op = "setsiginfo" -> IF Quirk("drops_setsiginfo") THEN r
                              ELSE [r EXCEPT !.info = s.info]
    [] s.op = "setsigmask" -> IF Quirk("drops_setsigmask") THEN r ELSE [r EXCEPT !.mask = s.sigs]
    [] s.op = "pokeuser"   -> IF Quirk("drops_pokeuser") THEN r
                              ELSE [r EXCEPT !.regs[s.reg] = s.n]

PtraceUpdate(t) ==
  /\ \E op \in UpdateOps : Accepted(t, op)
  /\ k' = [k EXCEPT ![Subject(t)] = Updated(@, Here(t))]
  /\ Proceed(t)
  /\ UNCHANGED memory /\ Passive

PtracePoke(t) ==
  /\ Accepted(t, "poke")
  /\ mem' = IF Quirk("drops_poke") THEN mem
            ELSE Written(Here(t).addr, Here(t).bytes, WordBytes)
  /\ Proceed(t)
  /\ UNCHANGED <<int1, pipe, k>> /\ Passive

PtraceResume(t) ==
  /\ Accepted(t, "resume")
  /\ \/ /\ "ok" \in Here(t).exp
        /\ k' = [k EXCEPT ![Subject(t)] = Resumed(@, Here(t).mode, Here(t).sig)]
        /\ life' = [life EXCEPT ![Subject(t)] = "running"]
        /\ Proceed(t)
        /\ UNCHANGED <<memory, exit, got, complaints, verdict, static>>
     \/ "ok" \notin Here(t).exp /\ Abort(t)

MayAttach(t, u) == /\ ~k[u].traced
                   /\ k[t].uid \in {"root", k[u].uid} \/ Quirk("attach_any_uid")

PtraceAttach(t) ==
  /\ At(t, "attach") \/ At(t, "seize")
  /\ LET s == Here(t)
         outcome == CASE life[s.who] \notin Alive -> "ESRCH"
                      [] life[s.who] \in Alive /\ ~MayAttach(t, s.who) -> "EPERM"
                      [] OTHER -> "ok"
     IN  \/ /\ outcome = "ok" /\ "ok" \in s.exp
            /\ k' = [k EXCEPT ![s.who] =
                 LET r == [@ EXCEPT !.traced = TRUE, !.seized = (s.op = "seize")]
                 IN  IF s.op = "seize" /\ ~Quirk("seize_stops") THEN r
                     ELSE Sent(r, [signo |-> "SIGSTOP", origin |-> "tracer"])]
            /\ Proceed(t)
            /\ UNCHANGED memory /\ Passive
         \/ outcome # "ok" /\ Check(t, outcome \in s.exp)
         \/ outcome = "ok" /\ "ok" \notin s.exp /\ Abort(t)

PtraceInterrupt(t) ==
  /\ At(t, "interrupt")
  /\ LET u == Here(t).who IN
       \/ /\ k[u].seized /\ life[u] \in {"running", "stopped"}
          /\ k' = [k EXCEPT ![u].trap = IF life[u] = "running" /\ ~Quirk("ignores_interrupt")
                                        THEN "interrupt" ELSE @]
          /\ Proceed(t)
          /\ UNCHANGED memory /\ Passive
       \/ ~(k[u].seized /\ life[u] \in {"running", "stopped"}) /\ Abort(t)

SendSignal(t) ==
  /\ At(t, "tgkill")
  /\ LET u == Here(t).who IN
       \/ /\ life[u] \in Alive \cup {"zombie"}
          /\ k' = IF Quirk("loses_second_stop") /\ life[u] = "stopped" THEN k
                  ELSE [k EXCEPT ![u] = Sent(@, [signo |-> Here(t).sig, origin |-> "tracer"])]
          /\ Proceed(t)
          /\ UNCHANGED memory /\ Passive
       \/ life[u] \notin Alive \cup {"zombie"} /\ Abort(t)

-----------------------------------------------------------------------------
(* What the kernel does on behalf of a running task. *)

EntersStop(t, r) == /\ k' = [k EXCEPT ![t] = r]
                    /\ life' = [life EXCEPT ![t] = "stopped"]
                    /\ UNCHANGED <<control, memory, exit, got, complaints, verdict, static>>

(* A signal is dequeued: signal-delivery-stop if the task is traced. *)
TakeSignal(t) ==
  /\ life[t] = "running"
  /\ k[t].phase # "leaving" /\ k[t].due = NoInfo /\ k[t].trap = "none"
  /\ \E i \in Deliverable(k[t]) :
       LET r == [k[t] EXCEPT !.pend = @ \ {i}] IN
         \/ k[t].traced /\ EntersStop(t, [Stop(r, "signal") EXCEPT !.info = i])
         \/ /\ ~k[t].traced
            /\ k' = [k EXCEPT ![t] = [r EXCEPT !.due = i]]
            /\ UNCHANGED <<control, memory>> /\ Passive

Due(t) == life[t] = "running" /\ k[t].due # NoInfo
Consumed(t) == [k[t] EXCEPT !.due = NoInfo]

(* The signal that is due is one whose default is to kill. *)
Lethal(t) == LET s == k[t].due.signo IN
  s \notin k[t].mask /\ k[t].act[s] = "dfl" /\ s \notin DefaultIgnore \cup DefaultStop

(* The signal that is due is blocked meanwhile, or ignored, or stops the    *)
(* process: every thread of it has to enter the group-stop.                *)
SignalSpent(t) ==
  /\ Due(t)
  /\ LET i == k[t].due s == k[t].due.signo IN
       \/ /\ s \in k[t].mask
          /\ k' = [k EXCEPT ![t] = [Consumed(t) EXCEPT !.pend = @ \cup {i}]]
       \/ /\ s \notin k[t].mask
          /\ Ignored(k[t], s) \/ (Quirk("survives_default") /\ Lethal(t))
          /\ k' = [k EXCEPT ![t] = Consumed(t)]
       \/ /\ s \notin k[t].mask /\ k[t].act[s] = "dfl" /\ s \in DefaultStop
          /\ k' = [u \in Task |->
                     LET r == IF u = t THEN Consumed(t) ELSE k[u]
                     IN  IF u \in Members(t) /\ life[u] # "jobstop"
                            /\ ~Quirk("skips_group_stop")
                         THEN [r EXCEPT !.trap = "group"] ELSE r]
  /\ UNCHANGED <<control, memory>> /\ Passive

SignalKills(t) ==
  /\ Due(t) /\ Lethal(t) /\ ~Quirk("survives_default")
  /\ Die(Members(t), Signaled(k[t].due.signo))
  /\ UNCHANGED <<control, memory, got, complaints, verdict, static>>

(* The handler's frame is pushed and the signal blocked (no SA_NODEFER).   *)
(* A task that is being single-stepped stops at the handler's first        *)
(* instruction.                                                            *)
SignalHandled(t) ==
  /\ Due(t)
  /\ LET i == k[t].due
         r == [Consumed(t) EXCEPT !.mask = IF Quirk("handler_unmasked") THEN @
                                           ELSE @ \cup {i.signo}]
     IN  /\ i.signo \notin k[t].mask /\ k[t].act[i.signo] = "handler"
         /\ frame' = [frame EXCEPT ![t] = [fn |-> at[t].fn, pc |-> at[t].pc,
                                           mask |-> k[t].mask, info |-> i]]
         /\ at' = [at EXCEPT ![t] = [fn |-> "handler", pc |-> 1]]
         /\ k' = [k EXCEPT ![t] = IF k[t].mode = "step" THEN Stop(r, "notify") ELSE r]
         /\ life' = [life EXCEPT ![t] = IF k[t].mode = "step" THEN "stopped" ELSE @]
  /\ UNCHANGED <<flag, memory, exit, got, complaints, verdict, static>>

(* Group-stop and PTRACE_INTERRUPT. *)
EnterTrap(t) ==
  /\ life[t] = "running" /\ k[t].due = NoInfo /\ k[t].trap # "none"
  /\ LET r == [k[t] EXCEPT !.trap = "none"] IN
       \/ k[t].trap = "group" /\ k[t].traced /\ EntersStop(t, Stop(r, "group"))
       \/ /\ k[t].trap = "group" /\ ~k[t].traced
          /\ k' = [k EXCEPT ![t] = r]
          /\ life' = [life EXCEPT ![t] = "jobstop"]
          /\ UNCHANGED <<control, memory, exit, got, complaints, verdict, static>>
       \/ /\ k[t].trap = "interrupt"
          /\ EntersStop(t, [Stop(r, "event") EXCEPT !.event = "STOP"])

SyscallEntry(t) ==
  /\ Ready(t) /\ k[t].traced /\ k[t].mode = "syscall" /\ k[t].phase = "user"
  /\ at[t].pc \in DOMAIN Code(t) /\ Here(t).op \in SyscallOps
  /\ EntersStop(t, [Stop(k[t], "entry") EXCEPT !.phase = "entered", !.regs["ax"] = NoSys])

SyscallExit(t) ==
  /\ life[t] = "running" /\ k[t].phase = "leaving"
  /\ EntersStop(t, [Stop(k[t], "exit") EXCEPT !.phase = "user"])

(* One instruction of the current statement has run. *)
StepTrap(t) ==
  /\ life[t] = "running" /\ k[t].mode = "step"
  /\ k[t].due = NoInfo /\ k[t].trap = "none" /\ k[t].phase = "user"
  /\ k' = [k EXCEPT ![t] = [Sent(@, [signo |-> "SIGTRAP", origin |-> "TRAP_TRACE"])
                            EXCEPT !.mode = "cont"]]
  /\ UNCHANGED <<control, memory>> /\ Passive

-----------------------------------------------------------------------------
(* run.sh: $(...) reads until nobody holds the output open any more, then   *)
(* the exit status of the test decides.                                    *)

(* Variant of RunnerCollects: run.sh does not look at the exit status. *)
RunnerIgnoresStatus ==
  /\ verdict = "running"
  /\ \A t \in Task : life[t] \notin Alive
  /\ verdict' = IF exit["tracer"].kind = "exited" THEN "passed" ELSE "failed"
  /\ UNCHANGED <<control, memory, life, exit, k, got, complaints, static>>

RunnerCollects ==
  /\ verdict = "running"
  /\ \A t \in Task : life[t] \notin Alive
  /\ verdict' = IF exit["tracer"] = Exited(0) THEN "passed" ELSE "failed"
  /\ UNCHANGED <<control, memory, life, exit, k, got, complaints, static>>

-----------------------------------------------------------------------------
Init ==
  /\ test \in Tests /\ code = Suite[test]
  /\ kernel \in Kernels /\ build \in Builds
  /\ life = [t \in Task |-> IF t = "tracer" THEN "running" ELSE "absent"]
  /\ exit = [t \in Task |-> NoStatus]
  /\ at = [t \in Task |-> [fn |-> t, pc |-> IF t = "tracer" THEN 0 ELSE 1]]
  /\ frame = [t \in Task |-> NoFrame]
  /\ flag = [t \in Task |-> FALSE]
  /\ k = [t \in Task |-> NewTask]
  /\ mem = [b \in Addr |-> IF Quirk("mmap_fails") THEN Unmapped ELSE 0]
  /\ int1 = 0 /\ pipe = FALSE /\ got = "tracee"
  /\ complaints = {} /\ verdict = "running"

Computes(t) ==
  \/ AtomicStore(t) \/ Spin(t) \/ AssertShared(t) \/ AssertOwn(t) \/ SetOk(t)
  \/ MemoryFault(t) \/ StoreMemory(t) \/ CallMyFunction(t) \/ Fault(t) \/ HandlerReturns(t)

CallsKernel(t) ==
  \/ Traced(t) \/ RaiseSignal(t) \/ SignalSetup(t) \/ ReadToken(t) \/ WriteToken(t)
  \/ CloseStdin(t) \/ UnmapSecondPage(t) \/ ChangeUser(t) \/ CreateKid(t)
  \/ ExecSelf(t) \/ CallFails(t) \/ ExitProcess(t) \/ ExitThread(t) \/ JoinThread(t)
  \/ WaitReports(t) \/ WaitFails(t) \/ PollReports(t)

Ptraces(t) ==
  \/ Query(t) \/ Refused(t) \/ PtraceUpdate(t) \/ PtracePoke(t) \/ PtraceResume(t)
  \/ PtraceAttach(t) \/ PtraceInterrupt(t) \/ SendSignal(t)

KernelActs(t) ==
  \/ TakeSignal(t) \/ SignalSpent(t) \/ SignalKills(t) \/ SignalHandled(t)
  \/ EnterTrap(t) \/ SyscallEntry(t) \/ SyscallExit(t) \/ StepTrap(t)

Runs(t) == Computes(t) \/ CallsKernel(t) \/ Ptraces(t) \/ KernelActs(t)

TestMain == TestMainSetupFails \/ TestMainForks \/ TestMainForkFails

Next ==
  \/ TestMain \/ RunnerCollects
  \/ \E t \in Task : Runs(t)

(* The scheduler runs every task that can run; run.sh is one of them. *)
Fairness ==
  /\ \A t \in Task : WF_vars(Runs(t))
  /\ WF_vars(TestMain)
  /\ WF_vars(RunnerCollects)

Spec == Init /\ [][Next]_vars /\ Fairness
=============================================================================
