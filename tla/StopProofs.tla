----------------------------- MODULE StopProofs -----------------------------
(***************************************************************************)
(* ObservedBeforeResume for every suite: a stopped task runs again only     *)
(* when the tracer has collected its stop with waitpid.                    *)
(*                                                                         *)
(* The tracer's program says whom it has waited for, the state which stops *)
(* waitpid has reported.  The invariant relates the two: who has been       *)
(* waited for and not been resumed since has been reported and is stopped   *)
(* still, or dead.  What could break it in between are the steps of all     *)
(* others, which therefore are shown to spare a stopped task: all but the   *)
(* end of the tracer, which releases it.                                   *)
(***************************************************************************)
EXTENDS TraceeProofs

Named(w) == IF w = "got" THEN got ELSE w

(* waitpid has reported u, and nobody has resumed it. *)
Watches(u) == life[u] \in Dead \/ (life[u] = "stopped" /\ k[u].seen)

Threadless == \A u \in Task : ~k[u].thread

(* Nobody but the tracer executes the tracer's function. *)
Apart == \A u \in Task \ {"tracer"} : at[u].fn # "tracer" /\ frame[u].fn # "tracer"

Watched ==
  life["tracer"] \in Alive /\ life["tracee"] # "absent" =>
    \A w \in Task \cup {"got"} :
      WaitedFor(code["tracer"], at["tracer"].pc, w) => Watches(Named(w))

Watchful == Threadless /\ Apart /\ Watched

WatchInv == HonestInv /\ (Contained(code) /\ Disciplined(code) => Watchful)

(* A stopped task stays stopped, and reported if it was. *)
Spared(u) ==
  life[u] = "stopped" => life'[u] = "stopped" /\ (k[u].seen => k'[u].seen)

-----------------------------------------------------------------------------
(* What spares a stopped task. *)

(* A signal that is sent leaves the report of a stop alone, and so does     *)
(* what a ptrace request writes.                                           *)
LEMMA SeenKept ==
  ASSUME NEW r \in TaskRec
  PROVE  /\ \A i : Sent(r, i).seen = r.seen
         /\ \A s : s.op \in UpdateOps => Updated(r, s).seen = r.seen
<1>1. \A i : Sent(r, i).seen = r.seen
  BY DEF Sent, TaskRec
<1>2. ASSUME NEW s, s.op \in UpdateOps PROVE Updated(r, s).seen = r.seen
  BY <1>2 DEF Updated, UpdateOps, TaskRec
<1> QED BY <1>1, <1>2

(* A step that changes nobody's life or record but that of its task. *)
LEMMA OwnSpares ==
  ASSUME TypeInv, NEW t \in Task, life[t] = "running",
         \A u \in Task \ {t} : life'[u] = life[u] /\ k'[u] = k[u]
  PROVE  \A u \in Task : Spared(u)
BY DEF Spared

(* A step that changes some records, but no report. *)
LEMMA RecordSpares ==
  ASSUME UNCHANGED life, \A u \in Task : k[u].seen => k'[u].seen
  PROVE  \A u \in Task : Spared(u)
BY DEF Spared

(* The death of a task that is not the tracer spares the others; that of    *)
(* the tracer kills nobody.                                                *)
LEMMA DeathSpares ==
  ASSUME TypeInv, NEW t \in Task, life[t] = "running", NEW status \in Status, Die({t}, status)
  PROVE  \/ \A u \in Task : Spared(u)
         \/ /\ t = "tracer" /\ life'["tracer"] \in Dead
            /\ \A u \in Task \ {"tracer"} : Ages(life[u], life'[u])
<1>1. CASE t = "tracer"
  BY <1>1, DieEnds DEF TypeInv, Task
<1>2. CASE t # "tracer"
  <2> SUFFICES ASSUME NEW u \in Task, life[u] = "stopped" PROVE Spared(u)
    BY DEF Spared
  <2>1. u # t
    OBVIOUS
  <2>2. life'[u] = "stopped"
    BY <1>2, <2>1 DEF Die
  <2>3. k'[u] \in {k[u], Sent(k[u], ChildInfo)}
    BY <1>2 DEF Die
  <2>4. k[u] \in TaskRec
    BY DEF TypeInv, KernelOK
  <2> QED BY <2>2, <2>3, <2>4, SeenKept DEF Spared
<1> QED BY <1>1, <1>2

(* Without threads a process is one task, and its end the death of one.     *)
Ends(t) == \E status \in Status : Die({t}, status)

LEMMA EndsAlone ==
  ASSUME TypeInv, Threadless, NEW t \in Task, life[t] = "running",
         Abort(t) \/ ExitProcess(t) \/ ExitThread(t) \/ SignalKills(t)
  PROVE  Ends(t)
<1>1. Members(t) = {t}
  BY DEF Members, Process, Threadless, Task, Alive
<1>2. CASE Abort(t)
  <2>1. Exited(1) \in Status
    BY DEF Exited, NoStatus, Status, NoSig
  <2> QED BY <1>1, <1>2, <2>1 DEF Abort, Ends
<1>3. CASE ExitProcess(t)
  <2> DEFINE c == IF k[t].regs["arg"] = OwnArg THEN Here(t).n ELSE k[t].regs["arg"]
  <2>1. at[t].pc \in DOMAIN Code(t) /\ Here(t).op = "exit_group"
    BY <1>3, AtRuns DEF ExitProcess
  <2>2. Here(t).n \in Nat /\ k[t] \in TaskRec
    BY <2>1, HereFits DEF WellFormed, TypeInv, KernelOK
  <2>3. c \in Nat
    BY <2>2 DEF TaskRec, Reg
  <2>4. Exited(c) \in Status
    BY <2>3 DEF Exited, NoStatus, Status, NoSig
  <2>5. Die({t}, Exited(c))
    BY <1>1, <1>3 DEF ExitProcess
  <2> HIDE DEF c
  <2> QED BY <2>4, <2>5 DEF Ends
<1>4. CASE ExitThread(t)
  <2>1. Exited(0) \in Status
    BY DEF Exited, NoStatus, Status, NoSig
  <2> QED BY <1>4, <2>1 DEF ExitThread, Ends
<1>5. CASE SignalKills(t)
  <2>1. k[t].due \in Info
    BY <1>5 DEF SignalKills, Due, TypeInv, KernelOK, TaskRec
  <2>2. Signaled(k[t].due.signo) \in Status
    BY <2>1 DEF Signaled, NoStatus, Status, NoSig, Info
  <2> QED BY <1>1, <1>5, <2>2 DEF SignalKills, Ends
<1> QED BY <1>2, <1>3, <1>4, <1>5

(* The program of a task. *)
LEMMA ComputesSpares ==
  ASSUME TypeInv, NEW t \in Task, Computes(t), ~Abort(t)
  PROVE  \A u \in Task : Spared(u)
<1>1. life[t] = "running"
  BY RunsRunning DEF Runs
<1>2. \A u \in Task \ {t} : life'[u] = life[u] /\ k'[u] = k[u]
  BY DEF Computes, AtomicStore, Spin, AssertShared, AssertOwn, Check, SetOk, MemoryFault,
         StoreMemory, CallMyFunction, Fault, HandlerReturns, Passive, TypeInv, KernelOK
<1> QED BY <1>1, <1>2, OwnSpares

(* Its system calls: the kid that is created was not there before, and no   *)
(* thread's execve takes the leader's place.                               *)
LEMMA CallsSpare ==
  ASSUME TypeInv, Threadless, NEW t \in Task, CallsKernel(t), ~Abort(t),
         ~ExitProcess(t), ~ExitThread(t)
  PROVE  \A u \in Task : Spared(u)
<1>1. life[t] = "running"
  BY RunsRunning DEF Runs
<1>2. CASE \/ Traced(t) \/ RaiseSignal(t) \/ SignalSetup(t) \/ ReadToken(t) \/ WriteToken(t)
           \/ CloseStdin(t) \/ UnmapSecondPage(t) \/ ChangeUser(t) \/ CallFails(t)
           \/ JoinThread(t) \/ WaitFails(t) \/ PollReports(t)
  <2>1. \A u \in Task \ {t} : life'[u] = life[u] /\ k'[u] = k[u]
    BY <1>2 DEF Traced, RaiseSignal, SignalSetup, ReadToken, WriteToken, CloseStdin,
                UnmapSecondPage, ChangeUser, CallFails, JoinThread, WaitFails, PollReports,
                Check, Passive, Returns, TypeInv, KernelOK
  <2> QED BY <1>1, <2>1, OwnSpares
<1>3. CASE CreateKid(t)
  <2>1. life["kid"] = "absent"
    BY <1>3 DEF CreateKid
  <2>2. \A u \in Task \ {t, "kid"} : life'[u] = life[u] /\ k'[u] = k[u]
    BY <1>3 DEF CreateKid, TypeInv, KernelOK
  <2> QED BY <1>1, <2>1, <2>2 DEF Spared
<1>4. CASE ExecSelf(t)
  <2>1. Successor(t) = t
    BY DEF Successor, Threadless
  <2>2. \A u \in Task \ {t, Successor(t)} : life'[u] = life[u] /\ k'[u] = k[u]
    BY <1>4, ExecSelfTypes
  <2> QED BY <1>1, <2>1, <2>2, OwnSpares
<1>5. CASE WaitReports(t)
  <2>1. PICK v \in Targets(t) : Collect(t, v)
    BY <1>5 DEF WaitReports
  <2>2. \A u \in Task : life[u] = "stopped" => life'[u] = "stopped"
    BY <2>1 DEF Collect, TypeInv, KernelOK
  <2>3. ASSUME NEW u \in Task, k[u].seen PROVE k'[u].seen
    <3>1. k'[u] \in {k[u], Sent(k[u], ChildInfo), [k[u] EXCEPT !.traced = FALSE],
                     [k[u] EXCEPT !.seen = TRUE]}
      BY <2>1 DEF Collect
    <3>2. k[u] \in TaskRec
      BY DEF TypeInv, KernelOK
    <3>3. Sent(k[u], ChildInfo).seen = k[u].seen
      BY <3>2, SeenKept
    <3> QED BY <2>3, <3>1, <3>2, <3>3 DEF TaskRec
  <2> QED BY <2>2, <2>3 DEF Spared
<1> QED BY <1>2, <1>3, <1>4, <1>5 DEF CallsKernel

(* The task that a granted PTRACE_CONT lets run. *)
Resumes(t) ==
  /\ At(t, "resume") /\ "ok" \in Here(t).exp
  /\ Proceed(t) /\ UNCHANGED got
  /\ \A u \in Task \ {Subject(t)} : Spared(u)

(* Its ptrace requests: all but a PTRACE_CONT that is granted.              *)
LEMMA PtracesSpare ==
  ASSUME TypeInv, NEW t \in Task, Ptraces(t), ~Abort(t)
  PROVE  (\A u \in Task : Spared(u)) \/ Resumes(t)
<1>0. k \in [Task -> TaskRec] /\ life \in [Task -> Life]
  BY DEF TypeInv, KernelOK
<1>1. CASE Query(t) \/ Refused(t) \/ PtracePoke(t)
  BY <1>1, RecordSpares DEF Query, Refused, PtracePoke, Check, Passive
<1>2. CASE PtraceUpdate(t)
  <2>1. PICK op \in UpdateOps : At(t, op)
    BY <1>2 DEF PtraceUpdate, Accepted
  <2>2. Here(t).op \in UpdateOps
    BY <2>1, AtRuns
  <2>3. UNCHANGED life /\ k' = [k EXCEPT ![Subject(t)] = Updated(@, Here(t))]
    BY <1>2 DEF PtraceUpdate, Passive
  <2>4. \A u \in Task : k'[u] \in {k[u], Updated(k[u], Here(t))}
    BY <1>0, <2>3
  <2> QED BY <1>0, <2>2, <2>3, <2>4, SeenKept, RecordSpares
<1>3. CASE PtraceResume(t)
  <2>1. At(t, "resume") /\ "ok" \in Here(t).exp /\ Proceed(t) /\ UNCHANGED got
    BY <1>3 DEF PtraceResume, Accepted
  <2>2. \A u \in Task \ {Subject(t)} : life'[u] = life[u] /\ k'[u] = k[u]
    BY <1>0, <1>3 DEF PtraceResume
  <2> QED BY <2>1, <2>2 DEF Resumes, Spared
<1>4. CASE PtraceAttach(t)
  <2>1. UNCHANGED life
    BY <1>4 DEF PtraceAttach, Check, Passive
  <2> DEFINE s == Here(t)
             b == (s.op = "seize")
             r == [k[s.who] EXCEPT !.traced = TRUE, !.seized = b]
             i == [signo |-> "SIGSTOP", origin |-> "tracer"]
             q == IF s.op = "seize" /\ ~Quirk("seize_stops") THEN r ELSE Sent(r, i)
  <2>2. UNCHANGED k \/ k' = [k EXCEPT ![s.who] = q]
    BY <1>4 DEF PtraceAttach, Check
  <2>3. s.who \in Task
    BY <1>4, AtRuns, HereFits DEF PtraceAttach, WellFormed
  <2>4. r \in TaskRec /\ r.seen = k[s.who].seen
    <3>1. b \in BOOLEAN
      OBVIOUS
    <3>2. k[s.who] \in TaskRec
      BY <1>0, <2>3
    <3> HIDE DEF b
    <3> QED BY <3>1, <3>2 DEF TaskRec
  <2> HIDE DEF r, i
  <2>5. q.seen = k[s.who].seen
    BY <2>4, SeenKept
  <2> HIDE DEF q
  <2>6. \A u \in Task : k[u].seen => k'[u].seen
    BY <1>0, <2>2, <2>3, <2>5
  <2> QED BY <2>1, <2>6, RecordSpares
<1>5. CASE PtraceInterrupt(t)
  <2>1. UNCHANGED life
    BY <1>5 DEF PtraceInterrupt, Passive
  <2>2. PICK p : UNCHANGED k \/ k' = [k EXCEPT ![Here(t).who].trap = p]
    BY <1>5 DEF PtraceInterrupt
  <2>3. \A u \in Task : k'[u].seen = k[u].seen
    BY <1>0, <2>2 DEF TaskRec
  <2> QED BY <2>1, <2>3, RecordSpares
<1>6. CASE SendSignal(t)
  <2> DEFINE i == [signo |-> Here(t).sig, origin |-> "tracer"]
  <2>1. UNCHANGED life
    BY <1>6 DEF SendSignal, Passive
  <2>2. \A u \in Task : k'[u] \in {k[u], Sent(k[u], i)}
    BY <1>0, <1>6 DEF SendSignal
  <2> HIDE DEF i
  <2> QED BY <1>0, <2>1, <2>2, SeenKept, RecordSpares
<1> QED BY <1>1, <1>2, <1>3, <1>4, <1>5, <1>6 DEF Ptraces

(* The kernel, which stops the task at hand and nobody else, and asks the   *)
(* threads of its process for a stop of their own.                         *)
LEMMA KernelSpares ==
  ASSUME TypeInv, NEW t \in Task, KernelActs(t), ~SignalKills(t)
  PROVE  \A u \in Task : Spared(u)
<1>0. k \in [Task -> TaskRec] /\ life \in [Task -> Life] /\ life[t] = "running"
  BY RunsRunning DEF TypeInv, KernelOK, Runs
<1>1. CASE SignalSpent(t)
  <2>1. UNCHANGED life
    BY <1>1 DEF SignalSpent, Passive
  <2>2. \A u \in Task \ {t} : k'[u] \in {k[u], [k[u] EXCEPT !.trap = "group"]}
    BY <1>0, <1>1 DEF SignalSpent
  <2>3. \A u \in Task : [k[u] EXCEPT !.trap = "group"].seen = k[u].seen
    BY <1>0 DEF TaskRec
  <2> QED BY <1>0, <2>1, <2>2, <2>3 DEF Spared
<1>2. CASE ~SignalSpent(t)
  <2>1. \A u \in Task \ {t} : life'[u] = life[u] /\ k'[u] = k[u]
    BY <1>0, <1>2 DEF KernelActs, TakeSignal, SignalHandled, EnterTrap, SyscallEntry, SyscallExit,
                      StepTrap, EntersStop, Passive
  <2> QED BY <1>0, <2>1, OwnSpares
<1> QED BY <1>1, <1>2

(* All steps of a task together. *)
LEMMA RunsSpares ==
  ASSUME TypeInv, Threadless, NEW t \in Task, Runs(t)
  PROVE  \/ \A u \in Task : Spared(u)
         \/ /\ t = "tracer" /\ life'["tracer"] \in Dead
            /\ \A u \in Task \ {"tracer"} : Ages(life[u], life'[u])
         \/ Resumes(t)
<1>1. CASE Abort(t) \/ ExitProcess(t) \/ ExitThread(t) \/ SignalKills(t)
  BY <1>1, RunsRunning, EndsAlone, DeathSpares DEF Ends
<1>2. CASE ~(Abort(t) \/ ExitProcess(t) \/ ExitThread(t) \/ SignalKills(t))
  BY <1>2, ComputesSpares, CallsSpare, PtracesSpare, KernelSpares DEF Runs
<1> QED BY <1>1, <1>2

-----------------------------------------------------------------------------
(* The invariant. *)

(* Nobody becomes a thread, and nobody enters the tracer's function.        *)
LEMMA RunsThreadless ==
  ASSUME TypeInv, Threadless, Disciplined(code), Apart, NEW t \in Task, Runs(t)
  PROVE  Threadless' /\ Apart'
<1>0. /\ k \in [Task -> TaskRec] /\ at[t].fn \in Fn
      /\ at \in [Task -> [fn : Fn, pc : Nat]]
      /\ frame \in [Task -> [fn : Fn, pc : Nat, mask : SUBSET Signal, info : Info \cup {NoInfo}]]
  BY DEF TypeInv, KernelOK, ControlOK
<1>1. RecordsKept => Threadless'
  BY DEF RecordsKept, Like, Threadless
<1>2. UNCHANGED <<at, frame>> => Apart'
  BY DEF Apart
<1>3. Proceed(t) => Apart'
  BY <1>0 DEF Apart, Proceed, Goto
<1>4. CASE Quiet(t)
  BY <1>0, <1>1, <1>4 DEF Quiet, Apart
<1>5. CASE Abort(t) \/ ExitProcess(t) \/ ExitThread(t) \/ SignalKills(t)
  <2>1. Ends(t)
    BY <1>5, EndsAlone, RunsRunning
  <2>2. RecordsKept
    BY <2>1, DieEnds DEF Ends, TypeInv
  <2> QED BY <1>1, <1>2, <1>5, <2>2 DEF Abort, ExitProcess, ExitThread, SignalKills, control
<1>6. CASE HandlerReturns(t) \/ SignalHandled(t)
  <2>1. RecordsKept
    BY <1>6, HandlerTypes
  <2>2. ASSUME HandlerReturns(t) PROVE Apart'
    <3>1. /\ at' = [at EXCEPT ![t] = [fn |-> frame[t].fn, pc |-> frame[t].pc]]
          /\ frame' = [frame EXCEPT ![t] = NoFrame]
      BY <2>2 DEF HandlerReturns
    <3>2. NoFrame.fn # "tracer"
      BY DEF NoFrame
    <3> QED BY <1>0, <3>1, <3>2 DEF Apart
  <2>3. ASSUME SignalHandled(t) PROVE Apart'
    <3>1. PICK q : /\ q.fn = at[t].fn
                   /\ frame' = [frame EXCEPT ![t] = q]
                   /\ at' = [at EXCEPT ![t] = [fn |-> "handler", pc |-> 1]]
      BY <2>3 DEF SignalHandled
    <3> QED BY <1>0, <3>1 DEF Apart
  <2> QED BY <1>1, <1>6, <2>1, <2>2, <2>3
<1>7. CASE SignalSetup(t)
  <2>1. \A u \in Task : k'[u].thread = k[u].thread
    <3> DEFINE r == Ret(k[t], 0)
               m == [r EXCEPT !.mask = Here(t).sigs]
               a == [r EXCEPT !.act[Here(t).sig] = Here(t).disp]
    <3>1. r \in TaskRec /\ r.thread = k[t].thread
      BY RetLike DEF Like, RecordOK, TypeInv, KernelOK
    <3>2. k' = [k EXCEPT ![t] = m] \/ k' = [k EXCEPT ![t] = a]
      BY <1>7 DEF SignalSetup
    <3> HIDE DEF r
    <3>3. m.thread = k[t].thread /\ a.thread = k[t].thread
      BY <3>1 DEF TaskRec
    <3> HIDE DEF m, a
    <3> QED BY <1>0, <3>2, <3>3
  <2> QED BY <1>3, <1>7, <2>1 DEF SignalSetup, Threadless
<1>8. CASE CreateKid(t)
  <2>1. at[t].pc \in DOMAIN code[at[t].fn] /\ code[at[t].fn][at[t].pc].op = "clone"
    BY <1>8, AtRuns DEF CreateKid, Here, Code
  <2>2. ~Here(t).thread
    BY <1>0, <2>1 DEF Disciplined, Here, Code
  <2>3. Threadless'
    BY <1>8, <2>2, CreateKidTypes DEF Threadless, Like
  <2>4. Apart'
    BY <1>0, <1>8 DEF CreateKid, Apart
  <2> QED BY <2>3, <2>4
<1>9. CASE ExecSelf(t)
  <2>1. Threadless'
    BY <1>9, ExecSelfTypes DEF Threadless
  <2>2. Apart'
    BY <1>0, <1>9 DEF ExecSelf, Apart, NoFrame
  <2> QED BY <2>1, <2>2
<1>10. CASE (WaitReports(t) \/ WaitFails(t)) /\ ~Abort(t)
  <2>1. RecordsKept /\ Proceed(t)
    BY <1>10, WaitTypes
  <2> QED BY <1>1, <1>3, <2>1
<1>11. CASE Computes(t)
  BY <1>4, <1>5, <1>6, <1>11, ComputesSteps
<1>12. CASE CallsKernel(t)
  BY <1>4, <1>5, <1>7, <1>8, <1>9, <1>10, <1>12, CallsQuietly DEF CallsKernel
<1>13. CASE Ptraces(t)
  BY <1>4, <1>5, <1>13, PtracesSteps
<1>14. CASE KernelActs(t)
  BY <1>4, <1>5, <1>6, <1>14, KernelActsSteps
<1> QED BY <1>11, <1>12, <1>13, <1>14 DEF Runs

(* Who watches a task keeps doing so while it is spared and nobody comes    *)
(* back from the dead.                                                     *)
LEMMA WatchesKept ==
  ASSUME TypeInv, NEW u \in Task, Watches(u), Spared(u),
         life[u] \in Dead => life'[u] \in Dead
  PROVE  Watches(u)'
BY DEF Watches, Spared

(* Nobody comes back from the dead, and the tracee is not born late.        *)
LEMMA RunsDead ==
  ASSUME TypeInv, Threadless, NEW t \in Task, Runs(t)
  PROVE  /\ \A u \in Task : life[u] \in Dead => life'[u] \in Dead
         /\ life["tracee"] = "absent" => life'["tracee"] = "absent"
<1>0. life \in [Task -> Life]
  BY DEF TypeInv, KernelOK
<1>1. CASE Quiet(t)
  BY <1>1 DEF Quiet, Ages, Task
<1>2. CASE Abort(t) \/ ExitProcess(t) \/ ExitThread(t) \/ SignalKills(t)
  BY <1>2, EndsAlone, RunsRunning, DieEnds DEF Ends, TypeInv, Ages, Task
<1>3. CASE HandlerReturns(t) \/ SignalHandled(t) \/ SignalSetup(t)
  BY <1>0, <1>3 DEF HandlerReturns, SignalHandled, SignalSetup, Due, Passive, Dead, Task
<1>4. CASE CreateKid(t)
  BY <1>4, CreateKidTypes DEF CreateKid, Ages, Dead, Task
<1>5. CASE ExecSelf(t)
  <2>1. Successor(t) = t
    BY DEF Successor, Threadless
  <2> QED BY <1>5, <2>1, ExecSelfTypes DEF Dead, Task
<1>6. CASE (WaitReports(t) \/ WaitFails(t)) /\ ~Abort(t)
  BY <1>6, WaitTypes DEF Ages, Task
<1>7. CASE Computes(t)
  BY <1>1, <1>2, <1>3, <1>7, ComputesSteps
<1>8. CASE CallsKernel(t)
  BY <1>1, <1>2, <1>3, <1>4, <1>5, <1>6, <1>8, CallsQuietly DEF CallsKernel
<1>9. CASE Ptraces(t)
  BY <1>1, <1>2, <1>9, PtracesSteps
<1>10. CASE KernelActs(t)
  BY <1>1, <1>2, <1>3, <1>10, KernelActsSteps
<1> QED BY <1>7, <1>8, <1>9, <1>10 DEF Runs

(* Who has been waited for behind a statement has been by that statement,   *)
(* or was before and is not resumed by it.                                 *)
LEMMA WaitedBefore ==
  ASSUME NEW c, NEW i \in Nat, NEW w, WaitedFor(c, i + 1, w)
  PROVE  \/ c[i].op = "wait" /\ NoStatus \notin c[i].ok /\ (w # "got" => c[i].who = w)
         \/ /\ WaitedFor(c, i, w)
            /\ c[i].op = "resume" /\ "ok" \in c[i].exp => w # "got" /\ c[i].who \notin {w, "got"}
            /\ c[i].op = "wait" => w # "got"
BY DEF WaitedFor

(* The tracer's waitpid returns the task it was called for: dead, or        *)
(* stopped and from now on known to be.                                    *)
LEMMA WaitWatches ==
  ASSUME TypeInv, WaitReports("tracer"), ~Abort("tracer"), NEW w \in Task \cup {"got"},
         w # "got" => Here("tracer").who = w
  PROVE  Watches(Named(w))'
<1>1. PICK u \in Targets("tracer") :
        Reportable("tracer", u) /\ Collect("tracer", u) /\ got' = u
  BY DEF WaitReports
<1>2. u \in Task /\ Named(w)' = u
  BY <1>1 DEF Targets, Children, Named, Task
<1>3. /\ life' = [life EXCEPT ![u] = IF @ = "zombie" /\ ~PassedOn("tracer", u) THEN "gone" ELSE @]
      /\ k'[u] = IF PassedOn("tracer", u) THEN [k[u] EXCEPT !.traced = FALSE]
                 ELSE [k[u] EXCEPT !.seen = TRUE]
  BY <1>1, <1>2 DEF Collect
<1>4. life \in [Task -> Life] /\ k[u] \in TaskRec
  BY <1>2 DEF TypeInv, KernelOK
<1>5. CASE life[u] = "zombie"
  BY <1>2, <1>3, <1>4, <1>5 DEF Watches, Dead
<1>6. CASE life[u] # "zombie"
  <2>1. life[u] = "stopped" /\ ~PassedOn("tracer", u)
    BY <1>1, <1>6 DEF Reportable, PassedOn
  <2> QED BY <1>2, <1>3, <1>4, <2>1 DEF Watches, TaskRec
<1> QED BY <1>5, <1>6

(* Every step of a task preserves the heart of the invariant. *)
LEMMA RunsWatched ==
  ASSUME TypeInv, TypeInv', Honest, Contained(code), Disciplined(code), Watchful,
         NEW t \in Task, Runs(t), UNCHANGED code
  PROVE  Watched'
<1> SUFFICES ASSUME life'["tracer"] \in Alive, life'["tracee"] # "absent",
                    NEW w \in Task \cup {"got"},
                    WaitedFor(code["tracer"], at'["tracer"].pc, w)
             PROVE  Watches(Named(w))'
  BY DEF Watched
<1>1. Threadless /\ Apart /\ Watched
  BY DEF Watchful
<1>2. life["tracer"] \in Alive /\ life["tracee"] # "absent"
  <2>1. "tracer" \in Task /\ life["tracer"] \in Life /\ life'["tracer"] \in Life
    BY DEF TypeInv, KernelOK, Task
  <2>2. Ages(life["tracer"], life'["tracer"])
    BY <2>1, RunsEnd, LivesDisjoint
  <2>3. life["tracee"] # "absent"
    BY <1>1, RunsDead
  <2> QED BY <2>1, <2>2, <2>3, LivesDisjoint DEF Ages
<1>3. at["tracer"].pc \in Nat /\ Here("tracer") = code["tracer"][at["tracer"].pc]
  BY DEF TypeInv, ControlOK, Task, Here, Code, Honest, InOwnFunction
<1>4. Resumes(t) => t = "tracer" /\ at'["tracer"].pc = at["tracer"].pc + 1
  <2> SUFFICES ASSUME Resumes(t) PROVE t = "tracer" /\ at'["tracer"].pc = at["tracer"].pc + 1
    OBVIOUS
  <2>1. at[t].pc \in DOMAIN code[at[t].fn] /\ code[at[t].fn][at[t].pc].op = "resume" /\ Proceed(t)
    BY AtRuns DEF Resumes, Here, Code
  <2>2. t = "tracer"
    BY <1>1, <2>1 DEF Disciplined, Apart, TypeInv, ControlOK
  <2> QED BY <2>1, <2>2 DEF Proceed, Goto, TypeInv, ControlOK
<1>5. ASSUME NEW u \in Task, u = Named(w), u = Named(w)', Watches(u), Spared(u)
      PROVE  Watches(Named(w))'
  <2>1. Watches(u)'
    BY <1>1, <1>5, RunsDead, WatchesKept
  <2> QED BY <1>5, <2>1 DEF Watches
<1>6. Named(w) \in Task
  BY DEF Named, TypeInv, RestOK
<1>7. WaitedFor(code["tracer"], at["tracer"].pc, w) => Watches(Named(w))
  BY <1>1, <1>2 DEF Watched
<1>8. \/ \A u \in Task : Spared(u)
      \/ Resumes(t)
  BY <1>1, RunsSpares, LivesDisjoint
<1>9. CASE at'["tracer"].pc = at["tracer"].pc
  <2>1. got' = got
    BY <1>3, <1>9, TracerGoesOn DEF WaitReports, Abort, Proceed, Goto, TypeInv, ControlOK
  <2>2. \A u \in Task : Spared(u)
    BY <1>3, <1>4, <1>8, <1>9
  <2> QED BY <1>5, <1>6, <1>7, <1>9, <2>1, <2>2 DEF Named
<1>10. CASE at'["tracer"].pc # at["tracer"].pc
  <2>1. /\ t = "tracer" /\ at'["tracer"].pc = at["tracer"].pc + 1
        /\ Here("tracer").op = "wait" =>
             (WaitReports("tracer") \/ WaitFails("tracer")) /\ ~Abort("tracer")
        /\ got' = got \/ WaitReports("tracer")
    BY <1>10, TracerGoesOn
  <2> DEFINE s == Here("tracer")
  <2>2. CASE s.op = "wait" /\ NoStatus \notin s.ok /\ (w # "got" => s.who = w)
    <3>1. WaitReports("tracer")
      BY <1>2, <2>1, <2>2 DEF WaitFails, Childless
    <3> QED BY <2>1, <2>2, <3>1, WaitWatches
  <2>3. CASE /\ WaitedFor(code["tracer"], at["tracer"].pc, w)
             /\ s.op = "resume" /\ "ok" \in s.exp => w # "got" /\ s.who \notin {w, "got"}
             /\ s.op = "wait" => w # "got"
    <3>1. Named(w)' = Named(w)
      BY <2>1, <2>3 DEF Named, WaitReports, Waits
    <3>2. Spared(Named(w))
      <4>1. CASE Resumes(t)
        <5>1. s.op = "resume" /\ "ok" \in s.exp
          BY <2>1, <4>1, AtRuns DEF Resumes
        <5>2. Named(w) = w /\ Subject(t) # w
          BY <2>1, <2>3, <5>1 DEF Named, Subject
        <5> QED BY <1>6, <4>1, <5>2 DEF Resumes
      <4> QED BY <1>6, <1>8, <4>1
    <3> QED BY <1>5, <1>6, <1>7, <2>3, <3>1, <3>2
  <2>4. WaitedFor(code["tracer"], at["tracer"].pc + 1, w)
    BY <2>1
  <2> HIDE DEF s
  <2> QED BY <1>3, <2>2, <2>3, <2>4, WaitedBefore DEF s
<1> QED BY <1>9, <1>10

-----------------------------------------------------------------------------
(* The theorem. *)

(* A test that has just started has waited for nobody. *)
LEMMA NewbornWatched == Newborn => WatchInv
<1> SUFFICES ASSUME Newborn PROVE Watchful
  BY NewbornHonest DEF WatchInv
<1>1. at["tracer"].pc \in {0, 1} /\ \A u \in Task : at[u].fn = u
  BY DEF Newborn, Task
<1>2. Threadless /\ Apart
  BY <1>1 DEF Newborn, Threadless, Apart, NewTask, NoFrame
<1>3. Watched
  BY <1>1 DEF Watched, WaitedFor
<1> QED BY <1>2, <1>3 DEF Watchful

(* Every step preserves the invariant, and the form of the test.            *)
LEMMA NextWatched ==
  WatchInv /\ [Next]_vars => WatchInv' /\ UNCHANGED code
<1> SUFFICES ASSUME WatchInv, [Next]_vars PROVE WatchInv' /\ UNCHANGED code
  OBVIOUS
<1>1. HonestInv /\ HonestInv' /\ TypeInv /\ TypeInv'
  BY NextHonest DEF WatchInv, HonestInv
<1>2. UNCHANGED code
  BY <1>1, TestMainHonest, CollectedTypes, RunsHonest DEF Next, vars, static
<1>3. (Contained(code)' <=> Contained(code)) /\ (Disciplined(code)' <=> Disciplined(code))
  BY <1>2 DEF Contained, Disciplined, WaitedFor
<1>4. SUFFICES ASSUME Contained(code), Disciplined(code) PROVE Watchful'
  BY <1>1, <1>2, <1>3 DEF WatchInv
<1>5. Honest /\ Threadless /\ Apart /\ Watched
  BY <1>4 DEF WatchInv, Watchful, HonestInv
<1>6. CASE TestMainForks \/ TestMainForkFails
  <2>1. at'["tracer"].pc = 1 /\ UNCHANGED <<k, frame>>
    BY <1>1, <1>6 DEF TestMainForks, TestMainForkFails, Goto, TypeInv, ControlOK, Task
  <2>2. \A u \in Task : at'[u].fn = at[u].fn
    BY <1>1, <1>6 DEF TestMainForks, TestMainForkFails, Goto, TypeInv, ControlOK
  <2> QED BY <1>5, <2>1, <2>2 DEF Watchful, Threadless, Apart, Watched, WaitedFor
<1>7. CASE TestMainSetupFails
  <2>1. Abort("tracer") /\ life["tracer"] = "running" /\ "tracer" \in Task
    BY <1>7 DEF TestMainSetupFails, Task
  <2>2. Ends("tracer")
    BY <1>1, <1>5, <2>1, EndsAlone
  <2>3. life'["tracer"] \in Dead /\ RecordsKept
    BY <1>1, <2>1, <2>2, DieEnds DEF Ends, TypeInv
  <2> QED BY <1>5, <2>1, <2>3, LivesDisjoint
          DEF Abort, control, RecordsKept, Like, Watchful, Threadless, Apart, Watched
<1>8. CASE RunnerCollects \/ UNCHANGED vars
  <2>1. UNCHANGED <<life, k, at, frame, got>>
    BY <1>8 DEF RunnerCollects, vars, control
  <2> QED BY <1>2, <1>5, <2>1 DEF Watchful, Threadless, Apart, Watched, Watches, Named
<1>9. CASE \E t \in Task : Runs(t)
  BY <1>1, <1>2, <1>4, <1>5, <1>9, RunsThreadless, RunsWatched DEF Watchful
<1> QED BY <1>6, <1>7, <1>8, <1>9 DEF Next, TestMain

(* When the tracer dies by a step of its own but by exit(0), it says so in  *)
(* its status; by exit(0), there is nobody left to be stopped.              *)
LEMMA TracersEnd ==
  ASSUME TypeInv, TypeInv', Honest, Honest', Supervised(code), Supervised(code)', Threadless',
         Runs("tracer"), life'["tracer"] \in Dead,
         exit'["tracer"] \in {NoStatus, Exited(0)}
  PROVE  \A u \in Task : life'[u] \notin Alive
<1>1. "tracer" \in Task /\ life["tracer"] \in Alive
  BY RunsRunning DEF Task, Alive
<1>2. exit'["tracer"] = Exited(0)
  BY <1>1, RunsEnd, LivesDisjoint DEF Ages, NoStatus, Supervised
<1>3. Settled("tracee")' /\ (ForksProcess(code)' => Settled("kid")')
  BY <1>2 DEF Honest, EndsReaped
<1>4. life'["kid"] \notin Alive
  BY <1>3 DEF Honest, Family, Settled, Threadless, Task
<1> QED BY <1>3, <1>4, LivesDisjoint DEF Settled, Task

(* No step resumes a task whose stop has not been reported. *)
LEMMA StepObserved ==
  ASSUME WatchInv, WatchInv', Supervised(code), Disciplined(code),
         Supervised(code)', Disciplined(code)',
         exit'["tracer"] \in {NoStatus, Exited(0)}, [Next]_vars,
         NEW u \in Task, life[u] = "stopped", life'[u] # "stopped"
  PROVE  k[u].seen
<1>1. /\ TypeInv /\ Honest /\ Threadless /\ Apart /\ Watched
      /\ TypeInv' /\ Honest' /\ Threadless'
  BY DEF WatchInv, HonestInv, Watchful, Supervised
<1>2. CASE TestMain
  <2>1. life["tracer"] = "running" /\ at["tracer"].pc = 0
    BY <1>2 DEF TestMain, TestMainSetupFails, TestMainForks, TestMainForkFails
  <2> QED BY <1>1, <2>1 DEF Honest, Family, Task
<1>3. CASE RunnerCollects \/ UNCHANGED vars
  BY <1>3 DEF RunnerCollects, vars
<1>4. ASSUME NEW t \in Task, Runs(t) PROVE k[u].seen
  <2>1. CASE Spared(u)
    BY <2>1 DEF Spared
  <2>2. CASE /\ t = "tracer" /\ life'["tracer"] \in Dead
             /\ \A v \in Task \ {"tracer"} : Ages(life[v], life'[v])
    <3>1. life[t] = "running" /\ u # t
      BY <1>4, RunsRunning
    <3>2. life'[u] \in Alive
      BY <2>2, <3>1 DEF Ages, Alive
    <3> QED BY <1>1, <1>4, <2>2, <3>2, TracersEnd
  <2>3. CASE Resumes(t) /\ u = Subject(t)
    <3>1. /\ at[t].pc \in DOMAIN code[at[t].fn] /\ life[t] = "running"
          /\ code[at[t].fn][at[t].pc].op = "resume" /\ "ok" \in Here(t).exp
      BY <2>3, AtRuns DEF Resumes, Here, Code
    <3>2. t = "tracer" /\ at["tracer"].fn = "tracer"
      BY <1>1, <3>1 DEF Disciplined, Apart, TypeInv, ControlOK, Honest, InOwnFunction
    <3>3. WaitedFor(code["tracer"], at["tracer"].pc, Here(t).who)
      BY <3>1, <3>2 DEF Disciplined, Here, Code
    <3>4. u = Named(Here(t).who)
      BY <2>3 DEF Subject, Named
    <3>5. Here(t).who \in Task \cup {"got"}
      BY <1>1, <3>1, <3>2, HereFits DEF WellFormed, Code, Here
    <3>6. life["tracee"] # "absent"
      BY <1>1, <3>1, <3>2 DEF Honest, Family, Task
    <3>7. Watches(u)
      BY <1>1, <3>1, <3>2, <3>3, <3>4, <3>5, <3>6 DEF Watched, Alive
    <3> QED BY <3>7 DEF Watches, Dead
  <2> QED BY <1>1, <1>4, <2>1, <2>2, <2>3, RunsSpares DEF Resumes
<1> QED BY <1>2, <1>3, <1>4 DEF Next

(* ObservedBeforeResume: in a run of a supervised and disciplined test whose *)
(* tracer does not fail, every task that leaves a ptrace-stop leaves one    *)
(* that waitpid has reported, on any kernel and in any schedule.  A tracer  *)
(* that fails releases its tracees as they are.                            *)
THEOREM ResumesObserved ==
  Spec /\ Supervised(code) /\ Disciplined(code)
       /\ [](exit["tracer"] \in {NoStatus, Exited(0)}) => ObservedBeforeResume
<1> DEFINE Form == Supervised(code) /\ Disciplined(code)
           Fine == exit["tracer"] \in {NoStatus, Exited(0)}
<1>1. Init => WatchInv
  BY InitNewborn, NewbornWatched
<1>2. WatchInv /\ Form /\ [Next]_vars => WatchInv' /\ Form'
  BY NextWatched DEF Supervised, Contained, ReapedBefore, Reaps, ForksProcess, Disciplined,
                     WaitedFor
<1>3. WatchInv /\ WatchInv' /\ Form /\ Form' /\ Fine' /\ [Next]_vars =>
        [\A t \in Task : life[t] = "stopped" /\ life'[t] # "stopped" => k[t].seen]_vars
  BY StepObserved
<1> HIDE DEF Form, Fine
<1> QED BY <1>1, <1>2, <1>3, PTL DEF Spec, ObservedBeforeResume, Form, Fine

-----------------------------------------------------------------------------
(* ChecksAreStable, of tests that take turns. *)

(* Only these statements change the shared mapping. *)
LEMMA OnlyTheseAlter ==
  ASSUME NEW t \in Task, Runs(t)
  PROVE  UNCHANGED <<int1, mem>> \/ \E op \in AlteringOps : At(t, op)
<1> DEFINE Kept == UNCHANGED <<int1, mem>>
<1>1. CASE Computes(t)
  <2>1. AtomicStore(t) => \E op \in AlteringOps : At(t, op)
    BY DEF AtomicStore, AlteringOps
  <2>2. StoreMemory(t) => \E op \in AlteringOps : At(t, op)
    BY DEF StoreMemory, AlteringOps
  <2>3. Spin(t) \/ AssertShared(t) \/ AssertOwn(t) \/ SetOk(t) \/ MemoryFault(t) => Kept
    BY DEF Spin, AssertShared, AssertOwn, Check, Abort, SetOk, MemoryFault, memory
  <2>4. CallMyFunction(t) \/ Fault(t) \/ HandlerReturns(t) => Kept
    BY DEF CallMyFunction, Fault, HandlerReturns, memory
  <2> QED BY <1>1, <2>1, <2>2, <2>3, <2>4 DEF Computes
<1>2. CASE CallsKernel(t)
  <2>1. UnmapSecondPage(t) \/ ExecSelf(t) => \E op \in AlteringOps : At(t, op)
    BY DEF UnmapSecondPage, ExecSelf, InSyscall, AlteringOps
  <2>2. Traced(t) \/ RaiseSignal(t) \/ SignalSetup(t) \/ ReadToken(t) \/ WriteToken(t)
          \/ CloseStdin(t) \/ ChangeUser(t) \/ CreateKid(t) \/ CallFails(t) => Kept
    BY DEF Traced, RaiseSignal, SignalSetup, ReadToken, WriteToken, CloseStdin,
           ChangeUser, CreateKid, CallFails, memory
  <2>3. ExitProcess(t) \/ ExitThread(t) \/ JoinThread(t) => Kept
    BY DEF ExitProcess, ExitThread, JoinThread, Abort, memory
  <2>4. WaitReports(t) \/ WaitFails(t) \/ PollReports(t) => Kept
    BY DEF WaitReports, WaitFails, PollReports, Check, Abort, Passive, memory
  <2> QED BY <1>2, <2>1, <2>2, <2>3, <2>4 DEF CallsKernel
<1>3. CASE Ptraces(t)
  <2>1. PtracePoke(t) => \E op \in AlteringOps : At(t, op)
    BY DEF PtracePoke, Accepted, AlteringOps
  <2>2. Query(t) \/ Refused(t) \/ PtraceUpdate(t) \/ PtraceResume(t) => Kept
    BY DEF Query, Refused, PtraceUpdate, PtraceResume, Check, Abort, memory
  <2>3. PtraceAttach(t) \/ PtraceInterrupt(t) \/ SendSignal(t) => Kept
    BY DEF PtraceAttach, PtraceInterrupt, SendSignal, Check, Abort, memory
  <2> QED BY <1>3, <2>1, <2>2, <2>3 DEF Ptraces
<1>4. CASE KernelActs(t)
  <2>1. TakeSignal(t) => Kept
    BY DEF TakeSignal, EntersStop, memory
  <2>2. SignalSpent(t) \/ SignalKills(t) => Kept
    BY Zenon DEF SignalSpent, SignalKills, memory
  <2>3. SignalHandled(t) \/ EnterTrap(t) => Kept
    BY DEF SignalHandled, EnterTrap, EntersStop, memory
  <2>4. SyscallEntry(t) \/ SyscallExit(t) \/ StepTrap(t) => Kept
    BY DEF SyscallEntry, SyscallExit, StepTrap, EntersStop, memory
  <2> QED BY <1>4, <2>1, <2>2, <2>3, <2>4 DEF KernelActs
<1> QED BY <1>1, <1>2, <1>3, <1>4 DEF Runs

(* A task that checks the mapping is alone with it: of two that can run one  *)
(* is the tracer, and it does not hold the other.                           *)
LEMMA StepStable ==
  ASSUME WatchInv, Contained(code), Disciplined(code), TakesTurns(code), [Next]_vars,
         NEW t \in Task, At(t, "assert_int") \/ At(t, "assert_word")
  PROVE  UNCHANGED <<int1, mem>>
<1>1. TypeInv /\ Honest /\ Threadless /\ Watched
  BY DEF WatchInv, HonestInv, Watchful
<1>2. CASE TestMain
  BY <1>2 DEF TestMain, TestMainSetupFails, TestMainForks, TestMainForkFails, Abort, memory
<1>3. CASE RunnerCollects \/ UNCHANGED vars
  BY <1>3 DEF RunnerCollects, vars, memory
<1>4. ASSUME NEW u \in Task, NEW op \in AlteringOps, At(u, op) PROVE FALSE
  <2>1. /\ life[t] = "running" /\ Here(t).op \in CheckingOps
        /\ life[u] = "running" /\ Here(u).op \in AlteringOps
    BY <1>4, AtRuns DEF CheckingOps
  <2>2. t # u
    BY <2>1 DEF CheckingOps, AlteringOps
  <2>3. life["kid"] # "running"
    BY <1>1 DEF Honest, Family, Threadless, TakesTurns, Alive, Task
  <2>4. life["tracer"] = "running" /\ life["tracee"] = "running"
    BY <2>1, <2>2, <2>3 DEF Task
  <2>5. /\ at["tracer"].pc \in DOMAIN code["tracer"]
        /\ code["tracer"][at["tracer"].pc].op \in AlteringOps \cup CheckingOps
    <3>1. "tracer" \in {t, u}
      BY <2>1, <2>2, <2>3 DEF Task
    <3> QED BY <1>1, <1>4, <2>1, <3>1, AtRuns DEF Code, Here, Honest, InOwnFunction
  <2>6. WaitedFor(code["tracer"], at["tracer"].pc, "tracee")
    BY <2>5 DEF TakesTurns
  <2>7. Watches(Named("tracee"))
    BY <1>1, <2>4, <2>6 DEF Watched, Alive, Task
  <2> QED BY <2>4, <2>7 DEF Watches, Named, Dead
<1>5. CASE \E u \in Task : Runs(u)
  BY <1>4, <1>5, OnlyTheseAlter
<1> QED BY <1>2, <1>3, <1>5 DEF Next

(* ChecksAreStable: in a run of a contained and disciplined test of which    *)
(* tracer and tracee take turns nobody changes the shared mapping while a   *)
(* task is about to check it, on any kernel and in any schedule.           *)
THEOREM TurnsAreStable ==
  Spec /\ Contained(code) /\ Disciplined(code) /\ TakesTurns(code) => ChecksAreStable
<1> DEFINE Form == Contained(code) /\ Disciplined(code) /\ TakesTurns(code)
<1>1. Init => WatchInv
  BY InitNewborn, NewbornWatched
<1>2. WatchInv /\ Form /\ [Next]_vars => WatchInv' /\ Form'
  BY NextWatched DEF Contained, Disciplined, TakesTurns, WaitedFor, ForksProcess
<1>3. WatchInv /\ Form /\ [Next]_vars =>
        [\A t \in Task : At(t, "assert_int") \/ At(t, "assert_word")
            => UNCHANGED <<int1, mem>>]_vars
  BY StepStable
<1> HIDE DEF Form
<1> QED BY <1>1, <1>2, <1>3, PTL DEF Spec, ChecksAreStable, Form
=============================================================================
