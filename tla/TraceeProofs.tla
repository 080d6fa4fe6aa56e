---------------------------- MODULE TraceeProofs ----------------------------
(***************************************************************************)
(* What "passed" says of the tracee, with a fork() that may fail: that it  *)
(* ran to an end, TraceeRan, and that no condition failed in it,           *)
(* VerdictHonest also of the tests that do not wait for its end.           *)
(*                                                                         *)
(* main does not look at what fork() returned, and a wait_exit for a child *)
(* that never was checks a status nobody wrote.  What keeps such a run     *)
(* from passing is that the kernel refuses every request for a task that   *)
(* does not exist: the tracer has come past no request that needs one, so  *)
(* that a test that makes such a request does not get to its exit.         *)
(***************************************************************************)
EXTENDS HonestProofs

(* Nobody answers for a tracee that never was: the tracer has come past no  *)
(* request that needs one, and `got' still names it.                       *)
Unanswered ==
  life["tracee"] = "absent" =>
    /\ got = "tracee"
    /\ \A j \in 1 .. (at["tracer"].pc - 1) : ~NeedsTask(code["tracer"][j])

(* A tracee that is over has an exit status, and the tracer does not exit   *)
(* with 0 without one.                                                     *)
Buried ==
  /\ life["tracee"] \in Dead => exit["tracee"] # NoStatus
  /\ exit["tracer"] = Exited(0) => life["tracee"] # "absent"

RanInv == HonestInv /\ (Contained(code) /\ Demanding(code) => Unanswered /\ Buried)

-----------------------------------------------------------------------------
(* The steps. *)

(* What an exit status says of its kind. *)
LEMMA StatusKinds ==
  \A c : Exited(c).kind = "exited" /\ Signaled(c).kind = "signaled"
BY DEF Exited, Signaled, NoStatus

(* The tracer of a contained test has no signal handler. *)
LEMMA NoHandler ==
  ASSUME TypeInv, Honest
  PROVE  ~SignalHandled("tracer") /\ (Contained(code) => ~HandlerReturns("tracer"))
<1>1. ASSUME HandlerReturns("tracer"), Contained(code) PROVE FALSE
  BY <1>1, AtRuns DEF HandlerReturns, Contained, Here, Code, Honest, InOwnFunction
<1>2. ASSUME SignalHandled("tracer") PROVE FALSE
  <2>1. k["tracer"].due \in Info
    BY <1>2 DEF SignalHandled, Due, TypeInv, KernelOK, TaskRec, Task
  <2>2. k["tracer"].act[k["tracer"].due.signo] = "handler"
    BY <1>2 DEF SignalHandled
  <2> QED BY <2>1, <2>2 DEF Honest, InOwnFunction, Info
<1> QED BY <1>1, <1>2

(* Alone after a fork() that failed, the tracer can make no request of a    *)
(* task: the kernel refuses it, and that is the end of the tracer.         *)
LEMMA NobodyAnswers ==
  ASSUME TypeInv, Honest, life["tracee"] = "absent", got = "tracee", Runs("tracer"),
         NeedsTask(Here("tracer"))
  PROVE  at'["tracer"] = at["tracer"]
<1> DEFINE s == Here("tracer")
<1>1. /\ life["kid"] = "absent"
      /\ s.op \in QueryOps \cup UpdateOps \cup {"poke", "resume", "attach", "seize", "interrupt",
                                               "tgkill", "wait_nohang"}
      /\ s.who \in {"tracee", "kid", "got"}
      /\ s.op \notin {"tgkill", "wait_nohang"} => "ESRCH" \notin s.exp
  BY DEF NeedsTask, Honest, Family
<1>2. \A op : At("tracer", op) \/ InSyscall("tracer", op) => op = s.op
  BY AtRuns
<1>3. ASSUME Abort("tracer") PROVE at'["tracer"] = at["tracer"]
  BY <1>3 DEF Abort, control
<1>4. life[Subject("tracer")] = "absent" /\ (s.who # "got" => life[s.who] = "absent")
  BY <1>1 DEF Subject
<1>5. Result("tracer") = "ESRCH"
  BY <1>1, <1>4 DEF Result, Found, Alive
<1>6. CASE Computes("tracer")
  BY <1>1, <1>2, <1>6
     DEF Computes, AtomicStore, Spin, AssertShared, AssertOwn, SetOk, MemoryFault, IntOps,
         StoreMemory, CallMyFunction, Fault, HandlerReturns, QueryOps, UpdateOps
<1>7. CASE CallsKernel("tracer")
  <2>1. CASE PollReports("tracer")
    <3>1. s.op = "wait_nohang" /\ s.who \notin Children("tracer")
      BY <1>1, <1>2, <2>1, HereFits DEF PollReports, Children
    <3> QED BY <1>3, <2>1, <3>1 DEF PollReports, Check
  <2> QED
    BY <1>1, <1>2, <1>7, <2>1
       DEF CallsKernel, Traced, RaiseSignal, SignalSetup, ReadToken, WriteToken, CloseStdin,
           UnmapSecondPage, ChangeUser, CreateKid, ExecSelf, CallFails, ExitProcess, ExitThread,
           JoinThread, WaitReports, WaitFails, Waits, QueryOps, UpdateOps
<1>8. CASE Ptraces("tracer")
  <2>0. s.op \in {"attach", "seize", "interrupt", "tgkill"} => life[s.who] = "absent"
    <3>1. (\E op : At("tracer", op)) => (s.op \in {"attach", "seize", "interrupt", "tgkill"}
                                           => s.who \in Task)
      BY AtRuns, HereFits DEF WellFormed, Task
    <3>2. \E op : At("tracer", op)
      BY <1>8 DEF Ptraces, Query, Refused, PtraceUpdate, PtracePoke, PtraceResume, Accepted,
                  PtraceAttach, PtraceInterrupt, SendSignal
    <3> QED BY <1>4, <3>1, <3>2 DEF Task
  <2>1. CASE Query("tracer") \/ Refused("tracer")
    <3>1. s.op \in QueryOps \cup UpdateOps \cup {"poke", "resume"}
      BY <1>2, <2>1 DEF Query, Refused
    <3>2. "ESRCH" \notin s.exp
      BY <1>1, <3>1 DEF QueryOps, UpdateOps
    <3> QED BY <1>3, <1>5, <2>1, <3>2 DEF Query, Refused, Check
  <2>2. CASE PtraceUpdate("tracer") \/ PtracePoke("tracer") \/ PtraceResume("tracer")
    BY <1>5, <2>2 DEF PtraceUpdate, PtracePoke, PtraceResume, Accepted
  <2>3. CASE PtraceAttach("tracer")
    <3>1. s.op \in {"attach", "seize"}
      BY <1>2, <2>3 DEF PtraceAttach
    <3>2. life[s.who] \notin Alive /\ "ESRCH" \notin s.exp
      BY <1>1, <2>0, <3>1 DEF Alive
    <3> QED BY <1>3, <2>3, <3>2 DEF PtraceAttach, Check
  <2>4. CASE PtraceInterrupt("tracer") \/ SendSignal("tracer")
    <3>1. s.op \in {"interrupt", "tgkill"}
      BY <1>2, <2>4 DEF PtraceInterrupt, SendSignal
    <3>2. life[s.who] = "absent"
      BY <2>0, <3>1
    <3> QED BY <1>3, <2>4, <3>2 DEF PtraceInterrupt, SendSignal, Alive
  <2> QED BY <1>8, <2>1, <2>2, <2>3, <2>4 DEF Ptraces
<1>9. CASE KernelActs("tracer")
  <2>1. ~SignalHandled("tracer")
    BY NoHandler
  <2> QED
    BY <1>9, <2>1 DEF KernelActs, TakeSignal, SignalSpent, SignalKills, EnterTrap, SyscallEntry,
                      SyscallExit, StepTrap, EntersStop, control
<1> QED BY <1>6, <1>7, <1>8, <1>9 DEF Runs

(* A step of a task: the tracer and the tracee either live on or die with a *)
(* status, and only by its own exit does the tracer get to Exited(0).      *)
LEMMA RunsEnd ==
  ASSUME TypeInv, Honest, Contained(code), NEW t \in Task, Runs(t)
  PROVE  /\ \A u \in {"tracer", "tracee"} :
              \/ Ages(life[u], life'[u]) /\ exit'[u] = exit[u]
              \/ /\ life[u] \in Alive /\ life'[u] \in Dead
                 /\ exit'[u].kind \in {"exited", "signaled"}
         /\ exit'["tracer"] = Exited(0) =>
              exit["tracer"] = Exited(0) \/ ExitProcess("tracer")
<1>1. CASE Quiet(t)
  BY <1>1 DEF Quiet, Task
<1>2. ASSUME NEW status \in Status, status.kind \in {"exited", "signaled"}, Die(Members(t), status)
      PROVE  /\ \A u \in {"tracer", "tracee"} :
                  \/ Ages(life[u], life'[u]) /\ exit'[u] = exit[u]
                  \/ /\ life[u] \in Alive /\ life'[u] \in Dead
                     /\ exit'[u].kind \in {"exited", "signaled"}
             /\ exit'["tracer"] = Exited(0) =>
                  exit["tracer"] = Exited(0) \/ (t = "tracer" /\ status = Exited(0))
  <2>1. /\ Members(t) \in SUBSET Task /\ \A u \in Members(t) : life[u] \in Alive
        /\ "tracer" \in Members(t) => t = "tracer"
    BY MembersAreTasks, MembersFacts
  <2> QED BY <1>2, <2>1, DieEnds DEF TypeInv, Task
<1>3. \A c : Exited(c).kind = "exited" /\ Signaled(c).kind = "signaled"
  BY StatusKinds
<1>4. CASE Abort(t)
  <2>1. Exited(1) \in Status
    BY DEF Exited, NoStatus, Status, NoSig
  <2> QED BY <1>2, <1>3, <1>4, <2>1, StatusesDiffer DEF Abort
<1>5. CASE HandlerReturns(t) \/ SignalHandled(t) \/ SignalSetup(t)
  BY <1>5 DEF HandlerReturns, SignalHandled, SignalSetup, Due, Passive, Ages, Alive, Dead, Task,
              TypeInv, KernelOK
<1>6. CASE CreateKid(t)
  BY <1>6, CreateKidTypes DEF CreateKid, Task
<1>7. CASE ExecSelf(t)
  <2>1. UNCHANGED exit
    BY <1>7 DEF ExecSelf
  <2>2. /\ life[t] = "running" /\ life'[Successor(t)] \in Alive
        /\ \A u \in Task \ {t, Successor(t)} : life'[u] = life[u]
    BY <1>7, ExecSelfTypes
  <2>3. Successor(t) = t \/ (Successor(t) = "tracee" /\ t = "kid" /\ life["tracee"] \in Alive)
    BY <2>2 DEF Successor, Honest, Family, Alive
  <2> QED BY <2>1, <2>2, <2>3, LivesDisjoint DEF Ages, Task, Alive, TypeInv, KernelOK
<1>8. CASE ExitProcess(t)
  <2> DEFINE c == IF k[t].regs["arg"] = OwnArg THEN Here(t).n ELSE k[t].regs["arg"]
  <2>1. at[t].pc \in DOMAIN Code(t) /\ Here(t).op = "exit_group"
    BY <1>8, AtRuns DEF ExitProcess
  <2>2. Here(t).n \in Nat /\ k[t] \in TaskRec
    BY <2>1, HereFits DEF WellFormed, TypeInv, KernelOK
  <2>3. c \in Nat
    BY <2>2 DEF TaskRec, Reg
  <2>4. Exited(c) \in Status
    BY <2>3 DEF Exited, NoStatus, Status, NoSig
  <2>5. Die(Members(t), Exited(c))
    BY <1>8 DEF ExitProcess
  <2> HIDE DEF c
  <2> QED BY <1>2, <1>3, <1>8, <2>4, <2>5
<1>9. CASE ExitThread(t)
  <2>1. at[t].pc \in DOMAIN code[at[t].fn] /\ code[at[t].fn][at[t].pc].op = "exit"
    BY <1>9, AtRuns DEF ExitThread, Here, Code
  <2>2. at[t].fn \in Fn
    BY DEF TypeInv, ControlOK
  <2>3. t = "kid"
    BY <2>1, <2>2 DEF Contained, Honest, InOwnFunction, Task, Fn
  <2>4. {t} \in SUBSET Task /\ Exited(0) \in Status /\ Die({t}, Exited(0))
    BY <1>9 DEF ExitThread, Exited, NoStatus, Status, NoSig
  <2> QED BY <2>3, <2>4, DieEnds DEF TypeInv, Task
<1>10. CASE SignalKills(t)
  <2> DEFINE s == Signaled(k[t].due.signo)
  <2>1. k[t].due \in Info
    BY <1>10 DEF SignalKills, Due, TypeInv, KernelOK, TaskRec
  <2>2. s \in Status /\ s # Exited(0) /\ Die(Members(t), s)
    BY <1>10, <2>1, StatusesDiffer DEF Signaled, NoStatus, Status, NoSig, Info, SignalKills
  <2>3. s.kind = "signaled"
    BY <1>3
  <2> HIDE DEF s
  <2> QED BY <1>2, <2>2, <2>3
<1>11. CASE (WaitReports(t) \/ WaitFails(t)) /\ ~Abort(t)
  BY <1>11, WaitTypes DEF Task
<1>12. CASE Computes(t)
  BY <1>1, <1>4, <1>5, <1>12, ComputesSteps
<1>13. CASE CallsKernel(t)
  BY <1>1, <1>4, <1>5, <1>6, <1>7, <1>8, <1>9, <1>11, <1>13, CallsQuietly DEF CallsKernel
<1>14. CASE Ptraces(t)
  BY <1>1, <1>4, <1>14, PtracesSteps
<1>15. CASE KernelActs(t)
  BY <1>1, <1>5, <1>10, <1>15, KernelActsSteps
<1> QED BY <1>12, <1>13, <1>14, <1>15 DEF Runs

(* The tracer goes on statement by statement, by its own steps, and only its *)
(* own waitpid, behind which it is only when that has returned, gives it     *)
(* another task to call the one it waited for.                             *)
LEMMA TracerGoesOn ==
  ASSUME TypeInv, Honest, Contained(code), NEW t \in Task, Runs(t)
  PROVE  /\ \/ at'["tracer"].pc = at["tracer"].pc
            \/ /\ t = "tracer" /\ at'["tracer"].pc = at["tracer"].pc + 1
               /\ Here(t).op = "wait" => (WaitReports(t) \/ WaitFails(t)) /\ ~Abort(t)
         /\ got' = got \/ (t = "tracer" /\ WaitReports(t))
<1>1. Proceed(t) => /\ at'[t].pc = at[t].pc + 1
                    /\ \A u \in Task \ {t} : at'[u] = at[u]
  BY DEF Proceed, Goto, TypeInv, ControlOK
<1>2. CASE Quiet(t)
  BY <1>2 DEF Quiet, TypeInv, ControlOK, Task
<1>3. CASE Abort(t) \/ ExitProcess(t) \/ ExitThread(t) \/ SignalKills(t)
  BY <1>3 DEF Abort, ExitProcess, ExitThread, SignalKills, control
<1>4. CASE HandlerReturns(t) \/ SignalHandled(t)
  <2>1. t # "tracer"
    BY <1>4, NoHandler
  <2> QED BY <1>4, <2>1 DEF HandlerReturns, SignalHandled, Passive, TypeInv, ControlOK, Task
<1>5. CASE SignalSetup(t)
  BY <1>1, <1>5, AtRuns DEF SignalSetup, Passive, Task
<1>6. CASE CreateKid(t) \/ ExecSelf(t)
  <2>1. at[t].pc \in DOMAIN Code(t) /\ Here(t).op \in {"clone", "execve"}
    BY <1>6, AtRuns DEF CreateKid, ExecSelf
  <2>2. t # "tracer"
    BY <2>1 DEF Contained, Here, Code, Honest, InOwnFunction
  <2> QED BY <1>6, <2>2 DEF CreateKid, ExecSelf, TypeInv, ControlOK, Task
<1>7. CASE (WaitReports(t) \/ WaitFails(t)) /\ ~Abort(t)
  BY <1>1, <1>7 DEF WaitReports, WaitFails, Passive, Task
<1>8. CASE Computes(t)
  BY <1>2, <1>3, <1>4, <1>8, ComputesSteps
<1>9. CASE CallsKernel(t)
  BY <1>2, <1>3, <1>5, <1>6, <1>7, <1>9, CallsQuietly DEF CallsKernel
<1>10. CASE Ptraces(t)
  BY <1>2, <1>3, <1>10, PtracesSteps
<1>11. CASE KernelActs(t)
  BY <1>2, <1>3, <1>4, <1>11, KernelActsSteps
<1> QED BY <1>8, <1>9, <1>10, <1>11 DEF Runs

(* Alone, the tracer goes on past no request.                              *)
LEMMA RunsUnanswered ==
  ASSUME TypeInv, TypeInv', Honest, Contained(code), NEW t \in Task, Runs(t), Unanswered,
         life["tracee"] = "absent", UNCHANGED code
  PROVE  Unanswered'
<1>1. life["kid"] = "absent" /\ got = "tracee"
  BY DEF Honest, Family, Unanswered
<1>2. t = "tracer"
  BY <1>1, RunsRunning DEF Task
<1>3. at["tracer"].pc \in Nat
  BY DEF TypeInv, ControlOK, Task
<1>4. Here("tracer") = code["tracer"][at["tracer"].pc]
  BY DEF Here, Code, Honest, InOwnFunction
<1>5. ~WaitReports("tracer")
  BY <1>1 DEF WaitReports, Targets, Children, Task
<1>6. /\ got' = got
      /\ at'["tracer"].pc = at["tracer"].pc \/ at'["tracer"].pc = at["tracer"].pc + 1
  BY <1>2, <1>5, TracerGoesOn
<1>7. at'["tracer"].pc # at["tracer"].pc => ~NeedsTask(code["tracer"][at["tracer"].pc])
  BY <1>1, <1>2, <1>3, <1>4, NobodyAnswers
<1>8. ASSUME NEW j \in 1 .. (at'["tracer"].pc - 1), NeedsTask(code["tracer"][j])
      PROVE  FALSE
  <2>1. j \in 1 .. (at["tracer"].pc - 1)
    BY <1>3, <1>6, <1>7, <1>8
  <2> QED BY <1>8, <2>1 DEF Unanswered
<1> QED BY <1>1, <1>6, <1>8 DEF Unanswered

(* Every step of a task preserves the rest of the invariant. *)
LEMMA RunsRan ==
  ASSUME TypeInv, TypeInv', Honest, Contained(code), Demanding(code), Unanswered, Buried,
         NEW t \in Task, Runs(t), UNCHANGED code
  PROVE  Unanswered' /\ Buried'
<1>1. /\ \A u \in {"tracer", "tracee"} :
           \/ Ages(life[u], life'[u]) /\ exit'[u] = exit[u]
           \/ life[u] \in Alive /\ life'[u] \in Dead /\ exit'[u].kind \in {"exited", "signaled"}
      /\ exit'["tracer"] = Exited(0) =>
           exit["tracer"] = Exited(0) \/ ExitProcess("tracer")
  BY RunsEnd
<1>2. /\ life \in [Task -> Life] /\ life' \in [Task -> Life]
      /\ NoStatus.kind = "none"
  BY DEF TypeInv, KernelOK, NoStatus
<1>3. life'["tracee"] = "absent" => life["tracee"] = "absent"
  BY <1>1, <1>2, LivesDisjoint DEF Ages, Task
<1>4. Unanswered'
  BY <1>3, RunsUnanswered DEF Unanswered
<1>5. life'["tracee"] \in Dead => exit'["tracee"] # NoStatus
  BY <1>1, <1>2, LivesDisjoint DEF Ages, Task, Buried
<1>6. ASSUME ExitProcess("tracer") PROVE life["tracee"] # "absent"
  <2>1. at["tracer"].pc \in DOMAIN Code("tracer") /\ Here("tracer").op = "exit_group"
    BY <1>6, AtRuns DEF ExitProcess
  <2>2. /\ at["tracer"].pc \in DOMAIN code["tracer"]
        /\ code["tracer"][at["tracer"].pc].op = "exit_group"
    BY <2>1 DEF Here, Code, Honest, InOwnFunction
  <2>3. PICK j \in 1 .. (at["tracer"].pc - 1) : NeedsTask(code["tracer"][j])
    BY <2>2 DEF Demanding
  <2> QED BY <2>3 DEF Unanswered
<1>7. exit'["tracer"] = Exited(0) => life'["tracee"] # "absent"
  BY <1>1, <1>3, <1>6 DEF Buried
<1> QED BY <1>4, <1>5, <1>7 DEF Buried

-----------------------------------------------------------------------------
(* The theorem. *)

(* A test that has just started has asked nobody anything. *)
LEMMA NewbornRan == Newborn => RanInv
<1> SUFFICES ASSUME Newborn PROVE Unanswered /\ Buried
  BY NewbornHonest DEF RanInv
<1>1. at["tracer"].pc \in {0, 1}
  BY DEF Newborn, Task
<1> QED BY <1>1, StatusesDiffer DEF Newborn, Unanswered, Buried, Dead, Task

(* Every step preserves the invariant. *)
LEMMA NextRan == RanInv /\ [Next]_vars => RanInv'
<1> SUFFICES ASSUME RanInv, [Next]_vars PROVE RanInv'
  OBVIOUS
<1>1. HonestInv /\ HonestInv' /\ TypeInv /\ TypeInv'
  BY NextHonest DEF RanInv, HonestInv
<1>2. UNCHANGED code
  BY <1>1, TestMainHonest, CollectedTypes, RunsHonest DEF Next, vars, static
<1>3. (Contained(code)' <=> Contained(code)) /\ (Demanding(code)' <=> Demanding(code))
  BY <1>2 DEF Contained, Demanding
<1>4. SUFFICES ASSUME Contained(code), Demanding(code)
               PROVE  Unanswered' /\ Buried'
  BY <1>1, <1>3 DEF RanInv
<1>5. Honest /\ Unanswered /\ Buried
  BY <1>4 DEF RanInv, HonestInv
<1>6. CASE TestMain
  <2>1. life["tracer"] = "running" /\ at["tracer"].pc = 0
    BY <1>6 DEF TestMain, TestMainSetupFails, TestMainForks, TestMainForkFails
  <2>2. life["tracee"] = "absent" /\ exit["tracer"] = NoStatus /\ got = "tracee"
    BY <1>5, <2>1 DEF Honest, Family, Recorded, Dead, Task, Unanswered
  <2>3. CASE TestMainSetupFails
    <3>1. Abort("tracer")
      BY <2>3 DEF TestMainSetupFails
    <3>2. Exited(1) \in Status /\ Members("tracer") \in SUBSET Task
      BY MembersAreTasks DEF Exited, NoStatus, Status, NoSig, Task
    <3>3. "tracer" \in Members("tracer") /\ "tracee" \notin Members("tracer")
      BY <2>1 DEF Members, Process, Alive
    <3>4. exit'["tracer"] = Exited(1) /\ life'["tracee"] = "absent"
      BY <1>1, <2>2, <3>1, <3>2, <3>3, DieEnds DEF Abort, TypeInv, Ages, Task
    <3> QED BY <1>5, <2>1, <2>2, <3>1, <3>4, StatusesDiffer
            DEF Abort, control, Unanswered, Buried, Dead
  <2>4. CASE TestMainForks \/ TestMainForkFails
    <3>1. at'["tracer"].pc = 1 /\ UNCHANGED <<exit, got>>
      BY <2>4, <1>1 DEF TestMainForks, TestMainForkFails, Goto, TypeInv, ControlOK, Task
    <3>2. life'["tracee"] \in {"absent", "running"}
      BY <2>2, <2>4, <1>1 DEF TestMainForks, TestMainForkFails, TypeInv, KernelOK, Task
    <3> QED BY <2>2, <3>1, <3>2, StatusesDiffer DEF Unanswered, Buried, Dead
  <2> QED BY <1>6, <2>3, <2>4 DEF TestMain
<1>7. CASE RunnerCollects \/ UNCHANGED vars
  BY <1>2, <1>5, <1>7 DEF RunnerCollects, vars, control, Unanswered, Buried
<1>8. CASE \E t \in Task : Runs(t)
  BY <1>1, <1>2, <1>4, <1>5, <1>8, RunsRan
<1> QED BY <1>6, <1>7, <1>8 DEF Next

(* The invariant implies the property. *)
LEMMA RanVerdict == RanInv => (Supervised(code) /\ Demanding(code) => TraceeRan)
<1> SUFFICES ASSUME RanInv, Supervised(code), Demanding(code), verdict = "passed"
             PROVE  exit["tracee"] # NoStatus
  BY DEF TraceeRan
<1>1. Honest /\ Buried /\ life["tracee"] \in Life
  BY DEF RanInv, HonestInv, TypeInv, KernelOK, Task, Supervised
<1>2. exit["tracer"] = Exited(0)
  BY <1>1 DEF Honest, Judged
<1>3. life["tracee"] \notin Alive /\ life["tracee"] # "absent"
  BY <1>1, <1>2 DEF Honest, EndsReaped, Settled, Buried
<1> QED BY <1>1, <1>3, LivesDisjoint DEF Buried

(* TraceeRan: run.sh passes no test that waits for its tracee and requests  *)
(* anything of it unless there was a tracee and it ran to an end, although  *)
(* the harness does not look whether fork() has failed.                    *)
THEOREM PassedTraceeRan == Spec => [](Supervised(code) /\ Demanding(code) => TraceeRan)
<1>1. Spec => []RanInv
  BY InitNewborn, NewbornRan, NextRan, PTL DEF Spec
<1> QED BY <1>1, RanVerdict, PTL

-----------------------------------------------------------------------------
(* VerdictHonest, of accountable tests.  The tracer of a mute test does not *)
(* wait for the end of its tracee, or takes any status for it; but then the *)
(* tracee executes no ASSERT, or executes another program when the tracer   *)
(* exits, which it knows from the event stop that only execve reports.     *)

(* There is no tracee, or it has gone through its execve. *)
Changed == life["tracee"] = "absent" \/ at["tracee"].fn = "exec"

(* Without handlers and without company the tracee executes its function    *)
(* or, behind an execve, its other program.                                *)
Muted ==
  /\ life["kid"] = "absent"
  /\ at["tracee"].fn \in {"tracee", "exec"}
  /\ at["tracee"].fn = "exec" => ~Silent(code["tracee"])
  /\ \A s \in Signal : k["tracee"].act[s] # "handler"
  /\ k["tracee"].event = "EXEC" => at["tracee"].fn = "exec"
  /\ life["tracee"] \in Dead => exit["tracee"].kind # "stopped"
  /\ "tracee" \in complaints => ~Silent(Code("tracee"))
  /\ \A j \in 1 .. (at["tracer"].pc - 1) : AwaitsExec(code["tracer"][j]) => Changed
  /\ exit["tracer"] = Exited(0) => Silent(code["tracee"]) \/ Changed

VerdictInv == HonestInv /\ (Contained(code) /\ Mute(code) => Muted)

(* Only an execve event has the status of one. *)
LEMMA ExecReported == ASSUME NEW r, StopStatus(r) = EventStop("EXEC") PROVE r.event = "EXEC"
<1>1. /\ \A e : EventStop(e).note = e
      /\ \A s : StoppedBy(s).note = "none"
      /\ SyscallGood.note = "0x80"
  BY DEF EventStop, StoppedBy, SyscallGood, NoStatus
<1> QED BY <1>1 DEF StopStatus

(* A task that complains does so at a statement that is not silent. *)
LEMMA OnlyAssertsComplain ==
  ASSUME NEW t \in Task, Runs(t), complaints' # complaints
  PROVE  /\ complaints' = complaints \cup {t}
         /\ at[t].pc \in DOMAIN Code(t) /\ Here(t).op \notin SilentOps
<1> DEFINE Loud == /\ at[t].pc \in DOMAIN Code(t) /\ Here(t).op \notin SilentOps
<1>1. Abort(t) => complaints' = complaints \cup {t}
  BY DEF Abort
<1>2. \A c : Check(t, c) => complaints' = complaints \/ complaints' = complaints \cup {t}
  BY DEF Check, Abort
<1>3. \A op : At(t, op) \/ InSyscall(t, op) => at[t].pc \in DOMAIN Code(t) /\ Here(t).op = op
  BY AtRuns
<1>4. CASE Computes(t)
  <2>1. CASE AssertShared(t) \/ AssertOwn(t)
    <3>1. Loud
      <4>1. \E op \in {"assert_int", "assert_word", "assert_flag", "assert_info",
                       "assert_masked", "assert_in", "assert_reg", "assert_thread", "unreachable"} : At(t, op)
        BY <2>1, Zenon DEF AssertShared, AssertOwn
      <4> QED BY <1>3, <4>1 DEF SilentOps
    <3>2. complaints' = complaints \/ Abort(t)
      BY <2>1 DEF AssertShared, AssertOwn, Check
    <3> QED BY <1>1, <3>1, <3>2
  <2>2. AtomicStore(t) \/ Spin(t) \/ SetOk(t) \/ MemoryFault(t) \/ StoreMemory(t)
          \/ CallMyFunction(t) \/ Fault(t) \/ HandlerReturns(t) => complaints' = complaints
    BY DEF AtomicStore, Spin, SetOk, MemoryFault, StoreMemory, CallMyFunction, Fault,
           HandlerReturns, Passive
  <2> QED BY <1>4, <2>1, <2>2 DEF Computes
<1>5. CASE CallsKernel(t)
  <2>1. CASE UnmapSecondPage(t)
    BY <1>1, <1>3, <2>1 DEF UnmapSecondPage, Passive, SilentOps
  <2>2. CASE WaitReports(t) \/ WaitFails(t)
    BY <1>1, <2>2 DEF WaitReports, WaitFails, Waits, Passive, SilentOps
  <2>3. CASE PollReports(t)
    BY <1>2, <1>3, <2>3 DEF PollReports, SilentOps
  <2>4. Traced(t) \/ RaiseSignal(t) \/ SignalSetup(t) \/ ReadToken(t) \/ WriteToken(t)
          \/ CloseStdin(t) \/ ChangeUser(t) \/ CreateKid(t) \/ ExecSelf(t) \/ CallFails(t)
          => complaints' = complaints
    BY DEF Traced, RaiseSignal, SignalSetup, ReadToken, WriteToken, CloseStdin,
           ChangeUser, CreateKid, ExecSelf, CallFails, Passive
  <2>5. ExitProcess(t) \/ ExitThread(t) \/ JoinThread(t) => complaints' = complaints
    BY DEF ExitProcess, ExitThread, JoinThread, Passive
  <2> QED BY <1>5, <2>1, <2>2, <2>3, <2>4, <2>5 DEF CallsKernel
<1>6. CASE Ptraces(t)
  <2>1. CASE Query(t) \/ Refused(t)
    BY <1>2, <1>3, <2>1 DEF Query, Refused, QueryOps, UpdateOps, SilentOps
  <2>2. CASE PtraceAttach(t)
    BY <1>1, <1>2, <1>3, <2>2 DEF PtraceAttach, Passive, SilentOps
  <2>3. CASE PtraceResume(t) \/ PtraceInterrupt(t) \/ SendSignal(t)
    BY <1>1, <1>3, <2>3
       DEF PtraceResume, PtraceInterrupt, SendSignal, Accepted, Passive, SilentOps
  <2>4. PtraceUpdate(t) \/ PtracePoke(t) => complaints' = complaints
    BY DEF PtraceUpdate, PtracePoke, Passive
  <2> QED BY <1>6, <2>1, <2>2, <2>3, <2>4 DEF Ptraces
<1>7. CASE KernelActs(t)
  <2>1. TakeSignal(t) \/ EnterTrap(t) => complaints' = complaints
    BY DEF TakeSignal, EnterTrap, EntersStop, Passive
  <2>2. SignalSpent(t) \/ SignalKills(t) \/ SignalHandled(t) => complaints' = complaints
    BY Zenon DEF SignalSpent, SignalKills, SignalHandled, Passive
  <2>3. SyscallEntry(t) \/ SyscallExit(t) \/ StepTrap(t) => complaints' = complaints
    BY DEF SyscallEntry, SyscallExit, StepTrap, EntersStop, Passive
  <2> QED BY <1>7, <2>1, <2>2, <2>3 DEF KernelActs
<1> QED BY <1>4, <1>5, <1>6, <1>7 DEF Runs

(* A step that is no clone, execve, sigaction or signal handler's leaves    *)
(* everybody in his function, with his dispositions, and makes no kid.     *)
LEMMA RunsAlike ==
  ASSUME TypeInv, TypeInv', Honest, NEW t \in Task, Runs(t), ~CreateKid(t), ~ExecSelf(t),
         ~HandlerReturns(t), ~SignalHandled(t)
  PROVE  /\ \A u \in Task : at'[u].fn = at[u].fn
         /\ \A u \in Task : life[u] = "absent" => life'[u] = "absent"
         /\ RecordsKept \/ SignalSetup(t)
<1>1. Proceed(t) => \A u \in Task : at'[u].fn = at[u].fn
  BY DEF Proceed, Goto, TypeInv, ControlOK
<1>2. CASE Quiet(t)
  BY <1>2 DEF Quiet, Ages, TypeInv, ControlOK
<1>3. ASSUME NEW G \in SUBSET Task, NEW status \in Status, Die(G, status), UNCHANGED control,
             \A u \in G : life[u] \in Alive
      PROVE  /\ \A u \in Task : at'[u].fn = at[u].fn
             /\ \A u \in Task : life[u] = "absent" => life'[u] = "absent"
             /\ RecordsKept
  <2>1. /\ RecordsKept
        /\ \A u \in Task \ G : Ages(life[u], life'[u])
    BY <1>3, DieEnds DEF TypeInv
  <2>2. \A u \in G : life[u] # "absent"
    BY <1>3, LivesDisjoint
  <2> QED BY <1>3, <2>1, <2>2 DEF Ages, control
<1>4. /\ Members(t) \in SUBSET Task /\ \A u \in Members(t) : life[u] \in Alive
  BY MembersAreTasks, MembersFacts
<1>5. CASE Abort(t)
  <2>1. Exited(1) \in Status
    BY DEF Exited, NoStatus, Status, NoSig
  <2> QED BY <1>3, <1>4, <1>5, <2>1 DEF Abort
<1>6. CASE ExitProcess(t) \/ ExitThread(t) \/ SignalKills(t)
  <2>1. life[t] = "running"
    BY <1>6, AtRuns DEF ExitProcess, ExitThread, SignalKills, Due
  <2>2. t \in Members(t) /\ life[t] \in Alive
    BY <2>1, MembersFacts DEF Honest, Family, Alive
  <2>3. PICK G, status : /\ t \in G /\ G \in SUBSET Task /\ Die(G, status)
                         /\ UNCHANGED control /\ \A u \in G : life[u] \in Alive
    BY <1>4, <1>6, <2>2, MembersAreTasks DEF ExitProcess, ExitThread, SignalKills
  <2>4. status \in Status
    <3>1. exit' = [u \in Task |-> IF u \in G THEN status ELSE exit[u]]
      BY <2>3 DEF Die
    <3> QED BY <2>3, <3>1 DEF TypeInv, KernelOK
  <2> QED BY <1>3, <2>3, <2>4
<1>7. CASE SignalSetup(t)
  BY <1>1, <1>7 DEF SignalSetup, Passive
<1>8. CASE (WaitReports(t) \/ WaitFails(t)) /\ ~Abort(t)
  BY <1>1, <1>8, WaitTypes DEF Ages
<1>9. CASE Computes(t)
  BY <1>2, <1>5, <1>9, ComputesSteps
<1>10. CASE CallsKernel(t)
  BY <1>2, <1>5, <1>6, <1>7, <1>8, <1>10, CallsQuietly DEF CallsKernel
<1>11. CASE Ptraces(t)
  BY <1>2, <1>5, <1>11, PtracesSteps
<1>12. CASE KernelActs(t)
  BY <1>2, <1>6, <1>12, KernelActsSteps
<1> QED BY <1>9, <1>10, <1>11, <1>12 DEF Runs

(* In a mute test nobody creates a task or has a signal handler, and only    *)
(* the tracee calls execve.                                                *)
LEMMA MuteSteps ==
  ASSUME TypeInv, Honest, Contained(code), Mute(code), Muted, NEW t \in Task, Runs(t)
  PROVE  /\ t \in {"tracer", "tracee"} /\ ~CreateKid(t)
         /\ ~HandlerReturns(t) /\ ~SignalHandled(t)
         /\ ExecSelf(t) => t = "tracee"
         /\ SignalSetup(t) => /\ k'["tracee"].act = k["tracee"].act
                              /\ k'["tracee"].event = k["tracee"].event
<1>1. t \in {"tracer", "tracee"}
  BY RunsRunning DEF Muted, Task
<1>2. \A op : At(t, op) \/ InSyscall(t, op) =>
        at[t].pc \in DOMAIN code[at[t].fn] /\ code[at[t].fn][at[t].pc].op = op
  BY AtRuns DEF Here, Code
<1>3. at["tracer"].fn = "tracer" /\ at["tracee"].fn \in {"tracee", "exec"}
  BY DEF Honest, InOwnFunction, Muted
<1>4. ~CreateKid(t)
  BY <1>1, <1>2, <1>3 DEF CreateKid, Contained, Mute
<1>5. ~HandlerReturns(t)
  BY <1>1, <1>2, <1>3 DEF HandlerReturns, Contained, Mute
<1>6. ~SignalHandled(t)
  <2>1. ASSUME SignalHandled("tracee") PROVE FALSE
    <3>1. k["tracee"].due \in Info
      BY <2>1 DEF SignalHandled, Due, TypeInv, KernelOK, TaskRec, Task
    <3>2. k["tracee"].act[k["tracee"].due.signo] = "handler"
      BY <2>1 DEF SignalHandled
    <3> QED BY <3>1, <3>2 DEF Muted, Info
  <2> QED BY <1>1, <2>1, NoHandler
<1>7. ExecSelf(t) => t = "tracee"
  BY <1>1, <1>2, <1>3 DEF ExecSelf, Contained
<1>8. ASSUME SignalSetup(t)
      PROVE  /\ k'["tracee"].act = k["tracee"].act
             /\ k'["tracee"].event = k["tracee"].event
  <2> DEFINE m == [Ret(k[t], 0) EXCEPT !.mask = Here(t).sigs]
  <2>1. ~InSyscall(t, "sigaction")
    BY <1>1, <1>2, <1>3 DEF Contained, Mute
  <2>2. k' = [k EXCEPT ![t] = m] /\ k \in [Task -> TaskRec]
    BY <1>8, <2>1 DEF SignalSetup, TypeInv, KernelOK
  <2>3. m.act = k[t].act /\ m.event = k[t].event
    BY DEF Ret
  <2> HIDE DEF m
  <2> QED BY <2>2, <2>3 DEF Task
<1> QED BY <1>1, <1>4, <1>5, <1>6, <1>7, <1>8

(* The tracer's waitpid that finds the event stop of an execve.            *)
LEMMA WaitChanges ==
  ASSUME TypeInv, Muted, WaitReports("tracer") \/ WaitFails("tracer"), ~Abort("tracer"),
         AwaitsExec(Here("tracer"))
  PROVE  Changed
<1>1. Here("tracer").who = "tracee" /\ Here("tracer").ok = {EventStop("EXEC")}
  BY DEF AwaitsExec
<1>2. EventStop("EXEC").kind = "stopped" /\ NoStatus.kind = "none"
  BY DEF EventStop, StoppedBy, NoStatus
<1>3. CASE WaitReports("tracer")
  <2>1. PICK u \in Targets("tracer") : StatusOf(u) \in Here("tracer").ok
    BY <1>3 DEF WaitReports
  <2>2. u = "tracee" /\ StatusOf("tracee") = EventStop("EXEC")
    BY <1>1, <2>1 DEF Targets
  <2>3. life["tracee"] # "zombie"
    BY <1>2, <2>2 DEF StatusOf, Muted, Dead
  <2> QED BY <2>2, <2>3, ExecReported DEF StatusOf, Muted, Changed
<1>4. CASE WaitFails("tracer")
  BY <1>1, <1>2, <1>4 DEF WaitFails, Childless, Changed
<1> QED BY <1>3, <1>4

(* The tracer of a mute test exits when its tracee is silent, or changed.   *)
LEMMA ExitMuted ==
  ASSUME Honest, Mute(code), Muted, ExitProcess("tracer")
  PROVE  Silent(code["tracee"]) \/ Changed
<1>1. at["tracer"].pc \in DOMAIN code["tracer"] /\ code["tracer"][at["tracer"].pc].op = "exit_group"
  BY AtRuns DEF ExitProcess, Here, Code, Honest, InOwnFunction
<1>2. ASSUME ~Silent(code["tracee"]) PROVE Changed
  <2>1. PICK j \in 1 .. (at["tracer"].pc - 1) : AwaitsExec(code["tracer"][j])
    BY <1>1, <1>2 DEF Mute
  <2> QED BY <2>1 DEF Muted
<1> QED BY <1>2

(* execve of the tracee. *)
LEMMA ExecMuted ==
  ASSUME TypeInv, TypeInv', Honest, Muted, ExecSelf("tracee"), UNCHANGED code
  PROVE  Muted'
<1>1. Successor("tracee") = "tracee"
  BY DEF Successor
<1>2. /\ life["tracee"] = "running" /\ life'["tracee"] \in Alive
      /\ \A s \in Signal : k'["tracee"].act[s] # "handler"
      /\ life'["kid"] = "absent"
  BY <1>1, ExecSelfTypes DEF Muted, Task
<1>3. /\ at' = [at EXCEPT !["tracee"] = [fn |-> "exec", pc |-> 1]]
      /\ UNCHANGED <<exit, complaints>>
  BY <1>1 DEF ExecSelf, Successor
<1>4. at'["tracee"].fn = "exec"
  BY <1>3 DEF TypeInv, ControlOK, Task
<1>5. ~Silent(code["tracee"])
  <2>1. at["tracee"].pc \in DOMAIN code[at["tracee"].fn]
        /\ code[at["tracee"].fn][at["tracee"].pc].op = "execve"
    BY AtRuns DEF ExecSelf, Here, Code
  <2> QED BY <2>1 DEF Muted, Silent, SilentOps
<1>6. "tracee" \notin complaints
  BY <1>2, LivesDisjoint DEF Honest, Complained, Alive
<1>7. life'["tracee"] \notin Dead
  BY <1>2, LivesDisjoint
<1> QED BY <1>2, <1>3, <1>4, <1>5, <1>6, <1>7 DEF Muted, Changed

(* Every step of a task keeps a mute test mute. *)
LEMMA RunsMuted ==
  ASSUME TypeInv, TypeInv', Honest, Contained(code), Mute(code), Muted, NEW t \in Task, Runs(t),
         UNCHANGED code
  PROVE  Muted'
<1>1. CASE ExecSelf(t)
  BY <1>1, MuteSteps, ExecMuted
<1>2. CASE ~ExecSelf(t)
  <2>1. /\ \A u \in Task : at'[u].fn = at[u].fn
        /\ \A u \in Task : life[u] = "absent" => life'[u] = "absent"
        /\ RecordsKept \/ SignalSetup(t)
    BY <1>2, MuteSteps, RunsAlike
  <2>2. /\ at'["tracee"].fn = at["tracee"].fn
        /\ life'["kid"] = "absent"
        /\ Changed => Changed'
    BY <2>1 DEF Changed, Muted, Task
  <2>3. /\ k'["tracee"].act = k["tracee"].act
        /\ k'["tracee"].event = "EXEC" => k["tracee"].event = "EXEC"
    BY <2>1, MuteSteps DEF RecordsKept, Like, Task
  <2>4. /\ \A u \in {"tracer", "tracee"} :
             \/ Ages(life[u], life'[u]) /\ exit'[u] = exit[u]
             \/ /\ life[u] \in Alive /\ life'[u] \in Dead
                /\ exit'[u].kind \in {"exited", "signaled"}
        /\ exit'["tracer"] = Exited(0) =>
             exit["tracer"] = Exited(0) \/ ExitProcess("tracer")
    BY RunsEnd
  <2>5. life'["tracee"] \in Dead => exit'["tracee"].kind # "stopped"
    BY <2>4, LivesDisjoint DEF Ages, Muted, TypeInv, KernelOK, Task
  <2>6. "tracee" \in complaints' => ~Silent(Code("tracee"))'
    <3>1. Code("tracee")' = Code("tracee")
      BY <2>2 DEF Code
    <3>2. ASSUME "tracee" \in complaints', "tracee" \notin complaints
          PROVE  ~Silent(Code("tracee"))
      <4>1. t = "tracee" /\ at[t].pc \in DOMAIN Code(t) /\ Here(t).op \notin SilentOps
        BY <3>2, OnlyAssertsComplain
      <4> QED BY <4>1 DEF Silent, Here
    <3>3. ~Silent(Code("tracee"))' <=> ~Silent(Code("tracee"))
      BY <3>1 DEF Silent
    <3> QED BY <3>2, <3>3 DEF Muted
  <2>7. ASSUME NEW j \in 1 .. (at'["tracer"].pc - 1), AwaitsExec(code["tracer"][j])
        PROVE  Changed'
    <3>1. CASE j \in 1 .. (at["tracer"].pc - 1)
      BY <2>2, <2>7, <3>1 DEF Muted
    <3>2. CASE j \notin 1 .. (at["tracer"].pc - 1)
      <4>1. at["tracer"].pc \in Nat
        BY DEF TypeInv, ControlOK, Task
      <4>2. /\ t = "tracer" /\ j = at["tracer"].pc
            /\ Here(t).op = "wait" => (WaitReports(t) \/ WaitFails(t)) /\ ~Abort(t)
        BY <3>2, <4>1, TracerGoesOn
      <4>3. Here(t) = code["tracer"][j]
        BY <4>2 DEF Here, Code, Honest, InOwnFunction
      <4>4. Changed
        BY <2>7, <4>2, <4>3, WaitChanges DEF AwaitsExec
      <4> QED BY <2>2, <4>4
    <3> QED BY <3>1, <3>2
  <2>8. exit'["tracer"] = Exited(0) => Silent(code["tracee"]) \/ Changed'
    BY <2>2, <2>4, ExitMuted DEF Muted
  <2> QED BY <2>2, <2>3, <2>5, <2>6, <2>7, <2>8 DEF Muted
<1> QED BY <1>1, <1>2

(* A test that has just started has a tracee without history, or none.      *)
LEMMA NewbornMuted == Newborn => VerdictInv
<1> SUFFICES ASSUME Newborn PROVE Muted
  BY NewbornHonest DEF VerdictInv
<1>1. \A t \in Task : at[t].fn = t /\ k[t] = NewTask /\ exit[t] = NoStatus
  <2>1. \A t \in Task : k[t] = NewTask /\ exit[t] = NoStatus
    BY Zenon DEF Newborn
  <2>2. \A t \in Task : at[t].fn = t
    <3>1. PICK pc : at = [t \in Task |-> [fn |-> t, pc |-> IF t = "tracer" THEN pc ELSE 1]]
      BY Zenon DEF Newborn
    <3> QED BY <3>1
  <2> QED BY <2>1, <2>2
<1>2. life["kid"] = "absent" /\ life["tracee"] = "absent" /\ complaints = {}
  BY DEF Newborn, Task
<1> QED BY <1>1, <1>2, StatusesDiffer DEF Muted, Changed, NewTask, Dead, Task

(* fork() succeeds or fails: the tracer has not waited for anybody yet.     *)
LEMMA TestMainMuted ==
  ASSUME TypeInv, TypeInv', Honest, Muted, TestMain, UNCHANGED code
  PROVE  Muted'
<1>1. life["tracer"] = "running" /\ at["tracer"].pc = 0
  BY DEF TestMain, TestMainSetupFails, TestMainForks, TestMainForkFails
<1>2. /\ life["tracee"] = "absent" /\ life["kid"] = "absent" /\ exit["tracer"] = NoStatus
  BY <1>1 DEF Honest, Family, Recorded, Dead, Task
<1>3. "tracee" \notin complaints
  BY <1>2 DEF Honest, Complained, Dead
<1>4. CASE TestMainSetupFails
  <2>1. Abort("tracer")
    BY <1>4 DEF TestMainSetupFails
  <2>2. Exited(1) \in Status /\ {"tracer"} \in SUBSET Task
    BY DEF Exited, NoStatus, Status, NoSig, Task
  <2>3. Members("tracer") = {"tracer"}
    BY <1>1 DEF Members, Process, Alive, Task
  <2>4. Die({"tracer"}, Exited(1)) /\ KernelOK
    BY <2>1, <2>3 DEF Abort, TypeInv
  <2>5. /\ RecordsKept /\ exit'["tracer"] = Exited(1)
        /\ \A u \in Task \ {"tracer"} : Ages(life[u], life'[u])
    BY <2>2, <2>4, DieEnds
  <2>6. /\ RecordsKept /\ life'["tracee"] = "absent" /\ life'["kid"] = "absent"
        /\ exit'["tracer"] = Exited(1)
    BY <1>2, <2>5 DEF Ages, Task
  <2>7. /\ k'["tracee"].act = k["tracee"].act
        /\ k'["tracee"].event = "EXEC" => k["tracee"].event = "EXEC"
    BY <2>6 DEF RecordsKept, Like, Task
  <2>8. UNCHANGED at /\ "tracee" \notin complaints'
    BY <1>3, <2>1 DEF Abort, control
  <2>9. exit'["tracer"] # Exited(0) /\ life'["tracee"] \notin Dead /\ Changed'
    BY <2>6, StatusesDiffer DEF Changed, Dead
  <2> QED BY <1>1, <2>6, <2>7, <2>8, <2>9 DEF Muted
<1>5. CASE TestMainForks \/ TestMainForkFails
  <2>1. UNCHANGED <<k, exit, complaints>>
    BY <1>5, ForkTypes
  <2>2. at'["tracer"].pc = 1 /\ at'["tracee"] = at["tracee"]
    BY <1>5 DEF TestMainForks, TestMainForkFails, Goto, TypeInv, ControlOK, Task
  <2>3. life'["kid"] = "absent" /\ life'["tracee"] \in {"absent", "running"}
    BY <1>2, <1>5 DEF TestMainForks, TestMainForkFails, TypeInv, KernelOK, Task
  <2> QED BY <1>2, <1>3, <2>1, <2>2, <2>3, StatusesDiffer DEF Muted, Changed, Dead
<1> QED BY <1>4, <1>5 DEF TestMain

(* Every step preserves the invariant. *)
LEMMA NextVerdict == VerdictInv /\ [Next]_vars => VerdictInv'
<1> SUFFICES ASSUME VerdictInv, [Next]_vars PROVE VerdictInv'
  OBVIOUS
<1>1. HonestInv /\ HonestInv' /\ TypeInv /\ TypeInv'
  BY NextHonest DEF VerdictInv, HonestInv
<1>2. UNCHANGED code
  BY <1>1, TestMainHonest, CollectedTypes, RunsHonest DEF Next, vars, static
<1>3. (Contained(code)' <=> Contained(code)) /\ (Mute(code)' <=> Mute(code))
  BY <1>2 DEF Contained, Mute, Silent
<1>4. SUFFICES ASSUME Contained(code), Mute(code) PROVE Muted'
  BY <1>1, <1>3 DEF VerdictInv
<1>5. Honest /\ Muted
  BY <1>4 DEF VerdictInv, HonestInv
<1>6. CASE TestMain
  BY <1>1, <1>2, <1>5, <1>6, TestMainMuted
<1>7. CASE RunnerCollects \/ UNCHANGED vars
  BY <1>2, <1>5, <1>7 DEF RunnerCollects, vars, control, Muted, Changed, Code, Silent
<1>8. CASE \E t \in Task : Runs(t)
  BY <1>1, <1>2, <1>4, <1>5, <1>8, RunsMuted
<1> QED BY <1>6, <1>7, <1>8 DEF Next

(* The invariant implies the property: with exit status 0 the tracer has    *)
(* not complained, and the tracee is in a function without an ASSERT.      *)
LEMMA AccountableVerdict == VerdictInv => (Accountable(code) => VerdictHonest)
<1> SUFFICES ASSUME VerdictInv, Accountable(code), verdict = "passed", NEW u \in complaints
             PROVE  FALSE
  BY DEF VerdictHonest
<1>1. CASE Supervised(code)
  BY <1>1, SupervisedVerdict DEF VerdictInv, VerdictHonest
<1>2. CASE Contained(code) /\ Mute(code)
  <2>1. Honest /\ Muted /\ complaints \subseteq Task
    BY <1>2 DEF VerdictInv, HonestInv, TypeInv, RestOK
  <2>2. exit["tracer"] = Exited(0) /\ life[u] \in Dead /\ exit[u] = Exited(1)
    BY <2>1 DEF Honest, Judged, Complained
  <2>3. u = "tracee"
    BY <2>1, <2>2, StatusesDiffer DEF Muted, Dead, Task
  <2>4. ~Silent(Code("tracee")) /\ (Silent(code["tracee"]) \/ at["tracee"].fn = "exec")
    BY <2>1, <2>2, <2>3 DEF Muted, Changed, Dead
  <2>5. at["tracee"].fn = "exec" => ~Silent(code["tracee"]) /\ Silent(code["exec"])
    BY <1>2, <2>1 DEF Muted, Mute
  <2> QED BY <2>1, <2>4, <2>5 DEF Muted, Code
<1> QED BY <1>1, <1>2 DEF Accountable

(* VerdictHonest: run.sh says "passed" of no accountable test in which a    *)
(* task, the tracer or another, has printed a failed condition.            *)
THEOREM VerdictIsHonest == Spec => [](Accountable(code) => VerdictHonest)
<1>1. Spec => []VerdictInv
  BY InitNewborn, NewbornMuted, NextVerdict, PTL DEF Spec
<1> QED BY <1>1, AccountableVerdict, PTL
=============================================================================
