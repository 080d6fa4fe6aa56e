--------------------------- MODULE HarnessProofs ---------------------------
(***************************************************************************)
(* Type correctness of Harness.tla for every suite of well-formed tests,   *)
(* every kernel and every size of page.  On the way each action is shown   *)
(* to be a quiet step of its task, the failure of an ASSERT, or one of the *)
(* few that start, end or redirect a task.                                 *)
(***************************************************************************)
EXTENDS SuiteProperties, KernelProofs

ControlOK ==
  /\ at \in [Task -> [fn : Fn, pc : Nat]]
  /\ frame \in [Task -> [fn : Fn, pc : Nat, mask : SUBSET Signal,
                         info : Info \cup {NoInfo}]]
  /\ flag \in [Task -> BOOLEAN]

MemoryOK ==
  /\ mem \in [Addr -> Byte \cup {Unmapped}]
  /\ int1 \in Int /\ pipe \in BOOLEAN

RestOK ==
  /\ test \in Tests /\ code = Suite[test] /\ kernel \in Kernels /\ build \in Builds
  /\ got \in Task /\ complaints \subseteq Task
  /\ verdict \in {"running", "passed", "failed"}

(* TypeOK is inductive once a signal-delivery-stop is known to have a        *)
(* siginfo: PTRACE_CONT takes the signal it injects from it.               *)
TypeInv == KernelOK /\ ControlOK /\ MemoryOK /\ RestOK

(* A task executes a statement that is no waitpid, or the kernel acts for   *)
(* it, and nobody is created, ends, or gets another program or disposition, *)
(* nor has the tracer another task to call the one it waited for.          *)
Quiet(t) ==
  /\ life[t] = "running"
  /\ UNCHANGED <<exit, got, complaints, verdict, code>>
  /\ RecordsKept
  /\ \A u \in Task : Ages(life[u], life'[u])
  /\ \/ UNCHANGED <<at, frame>>
     \/ /\ at[t].pc \in DOMAIN Code(t) /\ Here(t).op # "wait"
        /\ at' = [at EXCEPT ![t].pc = @ + 1] /\ UNCHANGED frame

-----------------------------------------------------------------------------
(* The statement a task executes is well-formed. *)
LEMMA HereFits ==
  ASSUME TypeInv, NEW t \in Task, at[t].pc \in DOMAIN Code(t)
  PROVE  WellFormed(Here(t))
BY HarnessAssumption DEF TypeInv, ControlOK, RestOK, IsProgram, Here, Code

(* The strengthened invariant implies the type invariant. *)
LEMMA TypeInvImplies == TypeInv => TypeOK
BY DEF TypeInv, TypeOK, KernelOK, ControlOK, MemoryOK, RestOK

(* A test that has just been started, or none yet: nothing has happened. *)
Newborn ==
  /\ test \in Tests /\ code = Suite[test] /\ kernel \in Kernels /\ build \in Builds
  /\ \E l \in {"running", "absent"} :
       life = [t \in Task |-> IF t = "tracer" THEN l ELSE "absent"]
  /\ exit = [t \in Task |-> NoStatus]
  /\ \E pc \in {0, 1} : at = [t \in Task |-> [fn |-> t, pc |-> IF t = "tracer" THEN pc ELSE 1]]
  /\ frame = [t \in Task |-> NoFrame] /\ flag = [t \in Task |-> FALSE]
  /\ k = [t \in Task |-> NewTask]
  /\ mem \in [Addr -> {0, Unmapped}]
  /\ kernel = "mmap_fails" => \A b \in Addr : mem[b] = Unmapped
  /\ int1 = 0 /\ pipe = FALSE /\ got = "tracee"
  /\ complaints = {} /\ verdict = "running"

(* The variables of a newborn test have their types. *)
LEMMA NewbornTypes == Newborn => TypeInv
<1> SUFFICES ASSUME Newborn PROVE TypeInv
  OBVIOUS
<1>1. KernelOK
  <2>1. NewTask \in TaskRec /\ RecordOK(NewTask)
    BY NewTaskOK DEF RecordOK
  <2>2. NoStatus \in Status
    BY DEF NoStatus, Status, NoSig
  <2>3. life \in [Task -> Life]
    BY DEF Newborn, Life
  <2>4. exit \in [Task -> Status]
    BY <2>2 DEF Newborn
  <2>5. k \in [Task -> TaskRec] /\ \A t \in Task : RecordOK(k[t])
    BY <2>1 DEF Newborn
  <2> QED BY <2>3, <2>4, <2>5 DEF KernelOK
<1>2. ControlOK
  BY DEF Newborn, ControlOK, Task, Fn, NoFrame
<1>3. MemoryOK
  <2>1. mem \in [Addr -> {0, Unmapped}] /\ int1 = 0 /\ pipe = FALSE
    BY Zenon DEF Newborn
  <2>2. 0 \in Byte
    BY DEF Byte
  <2>3. mem \in [Addr -> Byte \cup {Unmapped}]
    BY <2>1, <2>2
  <2>4. int1 \in Int
    BY <2>1
  <2>5. pipe \in BOOLEAN
    BY <2>1, Zenon
  <2> QED BY <2>3, <2>4, <2>5 DEF MemoryOK
<1>4. RestOK
  BY DEF Newborn, RestOK, Task
<1> QED BY <1>1, <1>2, <1>3, <1>4 DEF TypeInv

(* Initially run.sh has just started a test. *)
LEMMA InitNewborn == Init => Newborn
<1> SUFFICES ASSUME Init PROVE Newborn
  OBVIOUS
<1>1. mem \in [Addr -> {0, Unmapped}]
  BY Zenon DEF Init
<1>2. kernel = "mmap_fails" => \A b \in Addr : mem[b] = Unmapped
  BY DEF Init, Quirk
<1>3. \E pc \in {0, 1} : at = [t \in Task |-> [fn |-> t, pc |-> IF t = "tracer" THEN pc ELSE 1]]
  BY DEF Init
<1> QED BY <1>1, <1>2, <1>3 DEF Init, Newborn

-----------------------------------------------------------------------------
(* The parts actions are made of. *)

(* One record is replaced by one that is like it. *)
LEMMA OneRecord ==
  ASSUME KernelOK, NEW t \in Task, NEW q, Like(k[t], q), k' = [k EXCEPT ![t] = q]
  PROVE  RecordsKept
BY LikeItself DEF RecordsKept, KernelOK, Like, RecordOK

(* A step that leaves the records alone. *)
LEMMA SameRecords == ASSUME KernelOK, UNCHANGED k PROVE RecordsKept
BY LikeItself DEF RecordsKept, KernelOK

(* Going on to the next statement. *)
LEMMA ProceedTypes == ASSUME ControlOK, NEW t \in Task, Proceed(t) PROVE ControlOK'
BY DEF ControlOK, Proceed, Goto

(* A step that leaves lives and program alone. *)
LEMMA PassiveStep ==
  ASSUME TypeInv, NEW t \in Task, life[t] = "running", Passive, MemoryOK', RecordsKept,
         \/ UNCHANGED control
         \/ Proceed(t) /\ at[t].pc \in DOMAIN Code(t) /\ Here(t).op # "wait"
  PROVE  TypeInv' /\ Quiet(t)
<1>1. KernelOK'
  BY DEF TypeInv, KernelOK, RecordsKept, Passive, Like
<1>2. ControlOK'
  BY ProceedTypes DEF TypeInv, ControlOK, control
<1>3. RestOK'
  BY DEF TypeInv, RestOK, Passive, static
<1>4. Quiet(t)
  BY DEF Quiet, Passive, static, control, Proceed, Goto, Ages, Alive, Dead
<1> QED BY <1>1, <1>2, <1>3, <1>4 DEF TypeInv

(* The same of a step that changes memory only. *)
LEMMA MemoryStep ==
  ASSUME TypeInv, NEW t \in Task, life[t] = "running", Passive, MemoryOK', UNCHANGED k,
         \/ UNCHANGED control
         \/ Proceed(t) /\ at[t].pc \in DOMAIN Code(t) /\ Here(t).op # "wait"
  PROVE  TypeInv' /\ Quiet(t)
BY PassiveStep, SameRecords DEF TypeInv

(* The same of a step that changes the record of its task only. *)
LEMMA RecordStep ==
  ASSUME TypeInv, NEW t \in Task, life[t] = "running", Passive, UNCHANGED memory,
         NEW u \in Task, NEW q, Like(k[u], q), k' = [k EXCEPT ![u] = q],
         \/ UNCHANGED control
         \/ Proceed(t) /\ at[t].pc \in DOMAIN Code(t) /\ Here(t).op # "wait"
  PROVE  TypeInv' /\ Quiet(t)
<1>1. RecordsKept
  BY OneRecord DEF TypeInv
<1>2. MemoryOK'
  BY DEF TypeInv, MemoryOK, memory
<1> QED BY <1>1, <1>2, PassiveStep

(* A failing ASSERT ends the tasks of a process. *)
LEMMA AbortTypes == ASSUME TypeInv, NEW t \in Task, Abort(t) PROVE TypeInv'
<1>1. Members(t) \in SUBSET Task /\ Exited(1) \in Status
  BY DEF Members, Process, Task, Exited, NoStatus, Status, NoSig
<1>2. KernelOK'
  BY <1>1, DieEnds DEF Abort, TypeInv, KernelOK, RecordsKept, Like
<1>3. ControlOK' /\ MemoryOK' /\ RestOK'
  BY DEF Abort, TypeInv, ControlOK, MemoryOK, RestOK, control, memory, static
<1> QED BY <1>2, <1>3 DEF TypeInv

(* An ASSERT lets its task proceed or ends it. *)
LEMMA CheckStep ==
  ASSUME TypeInv, NEW t \in Task, life[t] = "running",
         at[t].pc \in DOMAIN Code(t), Here(t).op # "wait",
         \/ Abort(t)
         \/ /\ Proceed(t)
            /\ UNCHANGED <<memory, life, exit, k, got, complaints, verdict, static>>
  PROVE  TypeInv' /\ (Quiet(t) \/ Abort(t))
<1>1. CASE Abort(t)
  BY <1>1, AbortTypes
<1>2. CASE /\ Proceed(t)
           /\ UNCHANGED <<memory, life, exit, k, got, complaints, verdict, static>>
  BY <1>2, MemoryStep DEF Passive, memory, MemoryOK, TypeInv
<1> QED BY <1>1, <1>2

-----------------------------------------------------------------------------
(* Ordinary code. *)

(* A task at a statement runs, and the statement is one of its program. *)
LEMMA AtRuns ==
  ASSUME NEW t, NEW op, At(t, op) \/ InSyscall(t, op)
  PROVE  life[t] = "running" /\ at[t].pc \in DOMAIN Code(t) /\ Here(t).op = op
BY DEF At, InSyscall, Ready

(* Bytes written to memory are bytes. *)
LEMMA WrittenBytes ==
  ASSUME MemoryOK, NEW a \in Nat, NEW n \in Nat, NEW v \in Seq(Byte), n <= Len(v)
  PROVE  Written(a, v, n) \in [Addr -> Byte \cup {Unmapped}]
BY PageBytesAssumption DEF MemoryOK, Written, Addr

(* What a task computes without the kernel. *)
LEMMA ComputesSteps ==
  ASSUME TypeInv, NEW t \in Task, Computes(t), ~HandlerReturns(t)
  PROVE  TypeInv' /\ (Quiet(t) \/ Abort(t))
<1>1. KernelOK /\ MemoryOK /\ RecordOK(k[t])
  BY DEF TypeInv, KernelOK
<1>2. CASE AtomicStore(t)
  <2>1. MemoryOK'
    BY <1>1, <1>2, AtRuns, HereFits DEF AtomicStore, MemoryOK, WellFormed
  <2> QED BY <1>2, <2>1, AtRuns, MemoryStep DEF AtomicStore
<1>3. CASE Spin(t)
  <2>1. MemoryOK'
    BY <1>1, <1>3 DEF Spin, MemoryOK, memory
  <2> QED BY <1>3, <2>1, AtRuns, MemoryStep DEF Spin
<1>4. CASE AssertShared(t)
  BY <1>4, AtRuns, CheckStep DEF AssertShared, Check
<1>5. CASE AssertOwn(t)
  BY <1>5, AtRuns, CheckStep DEF AssertOwn, Check
<1>6. CASE SetOk(t)
  <2>1. MemoryOK' /\ KernelOK' /\ RestOK'
    BY <1>6 DEF SetOk, Passive, memory, static, TypeInv, MemoryOK, KernelOK, RestOK
  <2>2. ControlOK'
    BY <1>6 DEF SetOk, TypeInv, ControlOK
  <2>3. Quiet(t)
    BY <1>1, <1>6, AtRuns, SameRecords
      DEF SetOk, Quiet, Passive, static, Ages, Alive, Dead
  <2> QED BY <2>1, <2>2, <2>3 DEF TypeInv
<1>7. CASE StoreMemory(t)
  <2>0. Here(t).addr \in Nat /\ Here(t).bytes \in Seq(Byte)
    BY <1>7, AtRuns, HereFits DEF StoreMemory, WellFormed
  <2>1. mem' \in [Addr -> Byte \cup {Unmapped}]
    BY <1>1, <1>7, <2>0, WrittenBytes DEF StoreMemory
  <2> QED BY <1>1, <1>7, <2>1, AtRuns, MemoryStep DEF StoreMemory, MemoryOK
<1>8. CASE CallMyFunction(t)
  <2>1. life[t] = "running" /\ at[t].pc \in DOMAIN Code(t) /\ Here(t).op = "call"
    BY <1>8, AtRuns DEF CallMyFunction
  <2>2. CASE UNCHANGED control
    <3> DEFINE i == [signo |-> "SIGTRAP", origin |-> "TRAP_HWBKPT"]
               r == Sent(k[t], i)
               q == [r EXCEPT !.regs["rf"] = 1]
    <3>1. Like(k[t], r)
      BY <1>1, SentLike DEF Info, Signal, Origin
    <3> HIDE DEF r
    <3>2. Like(k[t], q)
      BY <3>1 DEF Like, RecordOK, TaskRec, Reg
    <3>3. k' = [k EXCEPT ![t] = q] \/ UNCHANGED k
      BY <1>8 DEF CallMyFunction, r
    <3> QED BY <1>1, <1>8, <2>1, <2>2, <3>2, <3>3, LikeItself, RecordStep, MemoryStep
              DEF CallMyFunction, MemoryOK, memory
  <2>3. CASE /\ flag' = [flag EXCEPT ![t] = TRUE]
             /\ at' = [at EXCEPT ![t].pc = @ + 1]
             /\ UNCHANGED <<frame, k>>
    <3>1. MemoryOK' /\ KernelOK' /\ RestOK'
      BY <1>8, <2>3
        DEF CallMyFunction, Passive, memory, static, TypeInv, MemoryOK, KernelOK, RestOK
    <3>2. ControlOK'
      BY <2>3 DEF TypeInv, ControlOK
    <3>3. Quiet(t)
      BY <1>1, <1>8, <2>1, <2>3, SameRecords
        DEF CallMyFunction, Quiet, Passive, static, Ages, Alive, Dead
    <3> QED BY <3>1, <3>2, <3>3 DEF TypeInv
  <2> QED BY <1>8, <2>2, <2>3 DEF CallMyFunction
<1>9. CASE Fault(t)
  <2> DEFINE q(i) == Sent(k[t], i)
             trap == [signo |-> "SIGTRAP", origin |-> "TRAP_BRKPT"]
  <2>1. Like(k[t], q(trap)) /\ Like(k[t], q(Segfault))
    BY <1>1, SentLike DEF Info, Signal, Origin, Segfault
  <2>2. k' = [k EXCEPT ![t] = q(trap)] \/ k' = [k EXCEPT ![t] = q(Segfault)]
    BY <1>9 DEF Fault
  <2> HIDE DEF q
  <2>3. /\ life[t] = "running" /\ at[t].pc \in DOMAIN Code(t) /\ Here(t).op # "wait"
        /\ UNCHANGED memory /\ Passive
        /\ UNCHANGED control \/ Proceed(t)
    BY <1>9, AtRuns DEF Fault
  <2> QED BY <2>1, <2>2, <2>3, RecordStep
<1>10. CASE MemoryFault(t)
  <2> DEFINE q == Sent(k[t], Segfault)
  <2>1. Like(k[t], q)
    BY <1>1, SentLike DEF Info, Signal, Origin, Segfault
  <2>2. k' = [k EXCEPT ![t] = q] /\ life[t] = "running"
    BY <1>10, AtRuns DEF MemoryFault
  <2>3. UNCHANGED <<control, memory>> /\ Passive
    BY <1>10 DEF MemoryFault
  <2> HIDE DEF q
  <2> QED BY <2>1, <2>2, <2>3, RecordStep
<1> QED BY <1>2, <1>3, <1>4, <1>5, <1>6, <1>7, <1>8, <1>9, <1>10 DEF Computes

-----------------------------------------------------------------------------
(* System calls that concern the caller. *)

(* Memory keeps its type if only part of it, or nothing, is written. *)
LEMMA CallsQuietly ==
  ASSUME TypeInv, NEW t \in Task,
         \/ Traced(t) \/ RaiseSignal(t) \/ ReadToken(t) \/ WriteToken(t) \/ CloseStdin(t)
         \/ UnmapSecondPage(t) \/ ChangeUser(t) \/ CallFails(t) \/ JoinThread(t)
         \/ PollReports(t)
  PROVE  TypeInv' /\ (Quiet(t) \/ Abort(t))
<1> DEFINE r(v) == Ret(k[t], v)
<1>1. KernelOK /\ MemoryOK /\ RecordOK(k[t]) /\ k \in [Task -> TaskRec]
  BY DEF TypeInv, KernelOK
<1>2. Like(k[t], r(0)) /\ Like(k[t], r(2)) /\ Like(k[t], r(NoSys)) /\ RecordOK(r(0))
  BY <1>1, RetLike DEF Like, NoSys
<1>3. UNCHANGED memory => MemoryOK'
  BY <1>1 DEF MemoryOK, memory
<1>4. CASE Traced(t)
  <2> DEFINE q == [r(0) EXCEPT !.traced = TRUE]
  <2>1. Like(k[t], q)
    BY <1>2, FieldsLike, LikeTransitive
  <2>2. k' = [k EXCEPT ![t] = q]
    BY <1>4 DEF Traced
  <2> HIDE DEF q
  <2>3. life[t] = "running" /\ at[t].pc \in DOMAIN Code(t) /\ Here(t).op # "wait"
    BY <1>4, AtRuns DEF Traced
  <2>4. Proceed(t) /\ UNCHANGED memory /\ Passive
    BY <1>4 DEF Traced
  <2> QED BY <2>1, <2>2, <2>3, <2>4, RecordStep
<1>5. CASE RaiseSignal(t)
  <2> DEFINE i == [signo |-> Here(t).sig, origin |-> Here(t).origin]
             q == Sent(r(0), i)
  <2>1. i \in Info
    BY <1>5, AtRuns, HereFits DEF RaiseSignal, WellFormed, Info
  <2>2. Like(k[t], q)
    BY <1>2, <2>1, SentLike, LikeTransitive
  <2>3. k' = [k EXCEPT ![t] = q]
    BY <1>5 DEF RaiseSignal
  <2> HIDE DEF q
  <2>4. life[t] = "running" /\ at[t].pc \in DOMAIN Code(t) /\ Here(t).op # "wait"
    BY <1>5, AtRuns DEF RaiseSignal
  <2>5. Proceed(t) /\ UNCHANGED memory /\ Passive
    BY <1>5 DEF RaiseSignal
  <2> QED BY <2>2, <2>3, <2>4, <2>5, RecordStep
<1>6. CASE ReadToken(t) \/ WriteToken(t)
  <2>1. k' = [k EXCEPT ![t] = r(2)]
    BY <1>6 DEF ReadToken, WriteToken, Returns
  <2>2. MemoryOK'
    BY <1>1, <1>6 DEF ReadToken, WriteToken, MemoryOK
  <2> HIDE DEF r
  <2>3. RecordsKept
    BY <1>1, <1>2, <2>1, OneRecord
  <2> QED BY <1>6, <2>2, <2>3, AtRuns, PassiveStep DEF ReadToken, WriteToken
<1>7. CASE CloseStdin(t) \/ JoinThread(t)
  <2>1. k' = [k EXCEPT ![t] = r(0)]
    BY <1>7 DEF CloseStdin, JoinThread, Returns
  <2> HIDE DEF r
  <2>2. life[t] = "running" /\ at[t].pc \in DOMAIN Code(t) /\ Here(t).op # "wait"
    BY <1>7, AtRuns DEF CloseStdin, JoinThread
  <2>3. Proceed(t) /\ UNCHANGED memory /\ Passive
    BY <1>7 DEF CloseStdin, JoinThread
  <2> QED BY <1>2, <2>1, <2>2, <2>3, RecordStep
<1>8. CASE UnmapSecondPage(t) /\ ~Abort(t)
  <2>1. k' = [k EXCEPT ![t] = r(0)]
    BY <1>8 DEF UnmapSecondPage, Returns
  <2>2. MemoryOK'
    BY <1>1, <1>8 DEF UnmapSecondPage, MemoryOK
  <2> HIDE DEF r
  <2>3. RecordsKept
    BY <1>1, <1>2, <2>1, OneRecord
  <2> QED BY <1>8, <2>2, <2>3, AtRuns, PassiveStep DEF UnmapSecondPage
<1>9. CASE ChangeUser(t)
  <2> DEFINE q == [r(0) EXCEPT !.uid = Here(t).uid]
  <2>1. Here(t).uid \in Uid
    BY <1>9, AtRuns, HereFits DEF ChangeUser, WellFormed
  <2>2. Like(k[t], q)
    BY <1>2, <2>1, FieldsLike, LikeTransitive
  <2>3. k' = [k EXCEPT ![t] = q]
    BY <1>9 DEF ChangeUser
  <2> HIDE DEF q
  <2>4. life[t] = "running" /\ at[t].pc \in DOMAIN Code(t) /\ Here(t).op # "wait"
    BY <1>9, AtRuns DEF ChangeUser
  <2>5. Proceed(t) /\ UNCHANGED memory /\ Passive
    BY <1>9 DEF ChangeUser
  <2> QED BY <2>2, <2>3, <2>4, <2>5, RecordStep
<1>10. CASE PollReports(t)
  BY <1>10, AtRuns, CheckStep DEF PollReports, Check
<1>11. CASE CallFails(t)
  <2>1. k' = [k EXCEPT ![t] = r(NoSys)]
    BY <1>11 DEF CallFails, Returns
  <2> HIDE DEF r
  <2>2. life[t] = "running" /\ at[t].pc \in DOMAIN Code(t) /\ Here(t).op # "wait"
    BY <1>11, AtRuns DEF CallFails
  <2>3. Proceed(t) /\ UNCHANGED memory /\ Passive
    BY <1>11 DEF CallFails
  <2> QED BY <1>2, <2>1, <2>2, <2>3, RecordStep
<1>12. CASE Abort(t)
  BY <1>12, AbortTypes
<1> QED BY <1>4, <1>5, <1>6, <1>7, <1>8, <1>9, <1>10, <1>11, <1>12

-----------------------------------------------------------------------------
(* ptrace requests and signals of the tracer. *)

(* The word of a build is four or eight bytes. *)
LEMMA WordBytesFit == ASSUME RestOK PROVE WordBytes \in {4, 8}
BY HarnessAssumption DEF RestOK, WordBytes

(* A request names a task. *)
LEMMA SubjectIsTask ==
  ASSUME TypeInv, NEW t \in Task, at[t].pc \in DOMAIN Code(t),
         Here(t).op \in UpdateOps \cup {"resume"}
  PROVE  Subject(t) \in Task
BY HereFits DEF WellFormed, Subject, TypeInv, RestOK

(* A living task u is resumed or stopped. *)
LEMMA LifeStep ==
  ASSUME TypeInv, NEW t \in Task, life[t] = "running", RecordsKept,
         NEW u \in Task, life[u] \in Alive, NEW m \in Alive, life' = [life EXCEPT ![u] = m],
         UNCHANGED <<memory, exit, got, complaints, verdict, static>>,
         \/ UNCHANGED control
         \/ Proceed(t) /\ at[t].pc \in DOMAIN Code(t) /\ Here(t).op # "wait"
  PROVE  TypeInv' /\ Quiet(t)
<1>1. life' \in [Task -> Life] /\ \A v \in Task : Ages(life[v], life'[v])
  BY DEF TypeInv, KernelOK, Ages, Alive, Dead, Life
<1>2. KernelOK'
  BY <1>1 DEF TypeInv, KernelOK, RecordsKept, Like
<1>3. ControlOK'
  BY ProceedTypes DEF TypeInv, ControlOK, control
<1>4. RestOK' /\ MemoryOK'
  BY DEF TypeInv, RestOK, MemoryOK, memory, static
<1>5. Quiet(t)
  BY <1>1 DEF Quiet, static, control, Proceed, Goto
<1> QED BY <1>2, <1>3, <1>4, <1>5 DEF TypeInv

(* Every request proceeds quietly or fails an ASSERT. *)
LEMMA PtracesSteps ==
  ASSUME TypeInv, NEW t \in Task, Ptraces(t)
  PROVE  TypeInv' /\ (Quiet(t) \/ Abort(t))
<1>1. KernelOK /\ MemoryOK /\ RestOK /\ k \in [Task -> TaskRec]
  BY DEF TypeInv, KernelOK
<1>2. CASE Query(t)
  <2>1. PICK op \in QueryOps : At(t, op)
    BY <1>2 DEF Query
  <2>2. Here(t).op # "wait"
    BY <2>1, AtRuns DEF QueryOps
  <2> QED BY <1>2, <2>1, <2>2, AtRuns, CheckStep DEF Query, Check
<1>3. CASE Refused(t)
  <2>1. PICK op \in UpdateOps \cup {"poke", "resume"} : At(t, op)
    BY <1>3 DEF Refused
  <2>2. Here(t).op # "wait"
    BY <2>1, AtRuns DEF UpdateOps
  <2> QED BY <1>3, <2>1, <2>2, AtRuns, CheckStep DEF Refused, Check
<1>4. CASE PtraceUpdate(t)
  <2> DEFINE u == Subject(t)
             q == Updated(k[u], Here(t))
  <2>1. PICK op \in UpdateOps : At(t, op)
    BY <1>4 DEF PtraceUpdate, Accepted
  <2>2. /\ life[t] = "running" /\ at[t].pc \in DOMAIN Code(t)
        /\ Here(t).op \in UpdateOps /\ Here(t).op # "wait"
    BY <2>1, AtRuns DEF UpdateOps
  <2>3. u \in Task /\ WellFormed(Here(t))
    BY <2>2, SubjectIsTask, HereFits
  <2>4. RecordOK(k[u])
    BY <1>1, <2>3 DEF KernelOK
  <2>5. Like(k[u], q)
    BY <2>2, <2>3, <2>4, FieldsLike, LikeItself DEF Updated, UpdateOps, WellFormed
  <2>6. k' = [k EXCEPT ![u] = q]
    BY <1>4 DEF PtraceUpdate
  <2> HIDE DEF u, q
  <2>7. Proceed(t) /\ UNCHANGED memory /\ Passive
    BY <1>4 DEF PtraceUpdate
  <2> QED BY <2>2, <2>3, <2>5, <2>6, <2>7, RecordStep
<1>5. CASE PtracePoke(t)
  <2>1. life[t] = "running" /\ at[t].pc \in DOMAIN Code(t) /\ Here(t).op = "poke"
    BY <1>5, AtRuns DEF PtracePoke, Accepted
  <2>2. mem' \in [Addr -> Byte \cup {Unmapped}]
    <3>1. Here(t).addr \in Nat /\ Here(t).bytes \in Seq(Byte) /\ Len(Here(t).bytes) = 8
      BY <2>1, HereFits DEF WellFormed
    <3>2. WordBytes \in Nat /\ WordBytes <= Len(Here(t).bytes)
      BY <1>1, <3>1, WordBytesFit
    <3>3. Written(Here(t).addr, Here(t).bytes, WordBytes) \in [Addr -> Byte \cup {Unmapped}]
      BY <1>1, <3>1, <3>2, WrittenBytes
    <3> QED BY <1>1, <1>5, <3>3 DEF PtracePoke, MemoryOK
  <2> QED BY <1>1, <1>5, <2>1, <2>2, MemoryStep DEF PtracePoke, MemoryOK
<1>6. CASE PtraceResume(t)
  <2> DEFINE u == Subject(t)
             q == Resumed(k[u], Here(t).mode, Here(t).sig)
  <2>1. life[t] = "running" /\ at[t].pc \in DOMAIN Code(t) /\ Here(t).op = "resume"
    BY <1>6, AtRuns DEF PtraceResume, Accepted
  <2>2. CASE Abort(t)
    BY <2>2, AbortTypes
  <2>3. CASE ~Abort(t)
    <3>1. u \in Task /\ WellFormed(Here(t)) /\ "ok" \in Here(t).exp
      BY <1>6, <2>1, <2>3, SubjectIsTask, HereFits DEF PtraceResume
    <3>2. RecordOK(k[u])
      BY <1>1, <3>1 DEF KernelOK
    <3>3. Like(k[u], q)
      BY <2>1, <3>1, <3>2, ResumedLike DEF WellFormed
    <3>4. life[u] = "stopped"
      BY <1>6, <2>1 DEF PtraceResume, Accepted, Result, Found
    <3>5. /\ k' = [k EXCEPT ![u] = q] /\ life' = [life EXCEPT ![u] = "running"]
          /\ Proceed(t)
          /\ UNCHANGED <<memory, exit, got, complaints, verdict, static>>
      BY <1>6, <2>3 DEF PtraceResume
    <3> HIDE DEF u, q
    <3>6. RecordsKept
      BY <1>1, <3>1, <3>3, <3>5, OneRecord
    <3> QED BY <2>1, <3>1, <3>4, <3>5, <3>6, LifeStep DEF Alive
  <2> QED BY <2>2, <2>3
<1>7. CASE PtraceAttach(t)
  <2> DEFINE s == Here(t)
             r == [k[s.who] EXCEPT !.traced = TRUE, !.seized = (s.op = "seize")]
             i == [signo |-> "SIGSTOP", origin |-> "tracer"]
             q == IF s.op = "seize" /\ ~Quirk("seize_stops") THEN r ELSE Sent(r, i)
  <2>1. /\ life[t] = "running" /\ at[t].pc \in DOMAIN Code(t)
        /\ s.op \in {"attach", "seize"} /\ s.op # "wait"
    BY <1>7, AtRuns DEF PtraceAttach
  <2>2. s.who \in Task
    BY <2>1, HereFits DEF WellFormed
  <2>3. RecordOK(k[s.who])
    BY <1>1, <2>2 DEF KernelOK
  <2>4. Like(k[s.who], r)
    BY <2>3, AttachedLike
  <2>5. i \in Info
    BY DEF Info, Signal, Origin
  <2>6. Like(k[s.who], q)
    <3>1. Like(r, Sent(r, i))
      BY <2>4, <2>5, SentLike DEF Like
    <3>2. Like(k[s.who], Sent(r, i))
      BY <2>4, <3>1, LikeTransitive
    <3> HIDE DEF r
    <3> QED BY <2>4, <3>2
  <2>7. \/ Abort(t)
        \/ Proceed(t) /\ UNCHANGED <<memory, life, exit, k, got, complaints, verdict, static>>
        \/ /\ k' = [k EXCEPT ![s.who] = q]
           /\ Proceed(t) /\ UNCHANGED memory /\ Passive
    BY <1>7 DEF PtraceAttach, Check
  <2> HIDE DEF s, q
  <2>8. CASE k' = [k EXCEPT ![s.who] = q] /\ Proceed(t) /\ UNCHANGED memory /\ Passive
    BY <2>1, <2>2, <2>6, <2>8, RecordStep DEF s
  <2> QED BY <2>1, <2>7, <2>8, CheckStep DEF s
<1>8. CASE PtraceInterrupt(t)
  <2> DEFINE u == Here(t).who
             p == IF life[u] = "running" /\ ~Quirk("ignores_interrupt") THEN "interrupt"
                  ELSE k[u].trap
             q == [k[u] EXCEPT !.trap = p]
  <2>1. /\ life[t] = "running" /\ at[t].pc \in DOMAIN Code(t) /\ Here(t).op = "interrupt"
    BY <1>8, AtRuns DEF PtraceInterrupt
  <2>2. u \in Task
    BY <2>1, HereFits DEF WellFormed
  <2>3. RecordOK(k[u])
    BY <1>1, <2>2 DEF KernelOK
  <2>4. Like(k[u], q)
    <3>1. p \in {"none", "group", "interrupt"}
      BY <2>3 DEF RecordOK, TaskRec
    <3> QED BY <2>3, <3>1, FieldsLike
  <2>5. \/ Abort(t)
        \/ /\ k' = [k EXCEPT ![u] = q]
           /\ Proceed(t) /\ UNCHANGED memory /\ Passive
    BY <1>8 DEF PtraceInterrupt
  <2> HIDE DEF u, q
  <2> QED BY <2>1, <2>2, <2>4, <2>5, RecordStep, AbortTypes
<1>9. CASE SendSignal(t)
  <2> DEFINE u == Here(t).who
             i == [signo |-> Here(t).sig, origin |-> "tracer"]
             q == Sent(k[u], i)
  <2>1. life[t] = "running" /\ at[t].pc \in DOMAIN Code(t) /\ Here(t).op = "tgkill"
    BY <1>9, AtRuns DEF SendSignal
  <2>2. u \in Task /\ i \in Info
    BY <2>1, HereFits DEF WellFormed, Info, Origin
  <2>3. RecordOK(k[u])
    BY <1>1, <2>2 DEF KernelOK
  <2>4. Like(k[u], q)
    BY <2>2, <2>3, SentLike
  <2>5. \/ Abort(t)
        \/ /\ k' = k \/ k' = [k EXCEPT ![u] = q]
           /\ Proceed(t) /\ UNCHANGED memory /\ Passive
    BY <1>9 DEF SendSignal
  <2> HIDE DEF u, q
  <2>6. MemoryOK' \/ Abort(t)
    BY <1>1, <2>5 DEF MemoryOK, memory
  <2> QED BY <2>1, <2>2, <2>4, <2>5, <2>6, RecordStep, MemoryStep, AbortTypes
<1> QED BY <1>2, <1>3, <1>4, <1>5, <1>6, <1>7, <1>8, <1>9 DEF Ptraces

-----------------------------------------------------------------------------
(* What the kernel does on behalf of a running task. *)

(* A task enters a stop. *)
LEMMA EntersStopStep ==
  ASSUME TypeInv, NEW t \in Task, life[t] = "running", NEW q, Like(k[t], q),
         k' = [k EXCEPT ![t] = q], life' = [life EXCEPT ![t] = "stopped"],
         UNCHANGED <<control, memory, exit, got, complaints, verdict, static>>
  PROVE  TypeInv' /\ Quiet(t)
<1>1. RecordsKept
  BY OneRecord DEF TypeInv
<1> QED BY <1>1, LifeStep DEF Alive

(* The kernel's actions, but for a signal that kills or is handled.        *)
LEMMA KernelActsSteps ==
  ASSUME TypeInv, NEW t \in Task, KernelActs(t), ~SignalKills(t), ~SignalHandled(t)
  PROVE  TypeInv' /\ Quiet(t)
<1>1. KernelOK /\ MemoryOK /\ RecordOK(k[t]) /\ k[t] \in TaskRec
  BY DEF TypeInv, KernelOK
<1>2. UNCHANGED memory => MemoryOK'
  BY <1>1 DEF MemoryOK, memory
<1>3. CASE TakeSignal(t)
  <2>1. PICK i \in Deliverable(k[t]) :
          LET r == [k[t] EXCEPT !.pend = @ \ {i}] IN
            \/ k[t].traced /\ EntersStop(t, [Stop(r, "signal") EXCEPT !.info = i])
            \/ /\ ~k[t].traced
               /\ k' = [k EXCEPT ![t] = [r EXCEPT !.due = i]]
               /\ UNCHANGED <<control, memory>> /\ Passive
    BY <1>3 DEF TakeSignal
  <2> DEFINE r == [k[t] EXCEPT !.pend = @ \ {i}]
             p == [Stop(r, "signal") EXCEPT !.info = i]
             q == [r EXCEPT !.due = i]
  <2>2. life[t] = "running"
    BY <1>3 DEF TakeSignal
  <2>3. i \in Info /\ k[t].pend \ {i} \in SUBSET Info
    BY <1>1 DEF Deliverable, TaskRec
  <2>4. Like(k[t], r)
    BY <1>1, <2>3, FieldsLike
  <2>5. CASE EntersStop(t, p)
    <3>1. Like(r, p)
      BY <2>3, <2>4, SignalStopLike DEF Like
    <3>2. Like(k[t], p)
      BY <2>4, <3>1, LikeTransitive
    <3> HIDE DEF p
    <3> QED BY <2>2, <2>5, <3>2, EntersStopStep DEF EntersStop
  <2>6. CASE k' = [k EXCEPT ![t] = q] /\ UNCHANGED <<control, memory>> /\ Passive
    <3>1. Like(r, q)
      BY <2>3, <2>4, FieldsLike DEF Like
    <3>2. Like(k[t], q)
      BY <2>4, <3>1, LikeTransitive
    <3> HIDE DEF q
    <3> QED BY <2>2, <2>6, <3>2, RecordStep
  <2> QED BY <2>1, <2>5, <2>6
<1>4. CASE SignalSpent(t)
  <2> DEFINE c == Consumed(t)
             i == k[t].due
             q == [c EXCEPT !.pend = @ \cup {i}]
  <2>1. life[t] = "running" /\ i \in Info
    BY <1>1, <1>4 DEF SignalSpent, Due, TaskRec
  <2>2. Like(k[t], c) /\ c.pend \in SUBSET Info
    <3>1. Like(k[t], c)
      BY <1>1, FieldsLike DEF Consumed
    <3> QED BY <3>1 DEF Like, RecordOK, TaskRec
  <2>3. Like(k[t], q)
    <3> DEFINE P == c.pend \cup {i}
    <3>1. P \in SUBSET Info /\ RecordOK(c)
      BY <2>1, <2>2 DEF Like
    <3>2. q = [c EXCEPT !.pend = P]
      OBVIOUS
    <3> HIDE DEF P, q, c
    <3>3. Like(c, q)
      BY <3>1, <3>2, FieldsLike
    <3> QED BY <2>2, <3>3, LikeTransitive
  <2>4. UNCHANGED <<control, memory>> /\ Passive
    BY <1>4 DEF SignalSpent
  <2> HIDE DEF c
  <2>5. CASE k' = [k EXCEPT ![t] = q]
    <3> HIDE DEF q
    <3> QED BY <2>1, <2>3, <2>4, <2>5, RecordStep
  <2>6. CASE k' = [k EXCEPT ![t] = c]
    BY <2>1, <2>2, <2>4, <2>6, RecordStep
  <2>7. CASE k' = [u \in Task |->
                     LET r == IF u = t THEN c ELSE k[u]
                     IN  IF u \in Members(t) /\ life[u] # "jobstop"
                            /\ ~Quirk("skips_group_stop")
                         THEN [r EXCEPT !.trap = "group"] ELSE r]
    <3>1. ASSUME NEW u \in Task PROVE Like(k[u], k'[u])
      <4> DEFINE r == IF u = t THEN c ELSE k[u]
      <4>1. Like(k[u], r)
        BY <1>1, <2>2, LikeItself DEF KernelOK
      <4>2. Like(r, [r EXCEPT !.trap = "group"])
        BY <4>1, FieldsLike DEF Like
      <4>3. k'[u] \in {r, [r EXCEPT !.trap = "group"]}
        BY <2>7
      <4> HIDE DEF r
      <4> QED BY <4>1, <4>2, <4>3, LikeTransitive
    <3>2. RecordsKept
      BY <2>7, <3>1 DEF RecordsKept, Like, RecordOK
    <3> QED BY <1>2, <2>1, <2>4, <3>2, PassiveStep
  <2> QED BY <1>4, <2>5, <2>6, <2>7 DEF SignalSpent, c
<1>5. CASE EnterTrap(t)
  <2> DEFINE r == [k[t] EXCEPT !.trap = "none"]
             g == Stop(r, "group")
             e == [Stop(r, "event") EXCEPT !.event = "STOP"]
  <2>1. life[t] = "running"
    BY <1>5 DEF EnterTrap
  <2>2. Like(k[t], r)
    BY <1>1, FieldsLike
  <2>3. Like(k[t], g)
    <3>1. Like(r, g)
      BY <2>2, StopLike DEF Like, StopKind
    <3> QED BY <2>2, <3>1, LikeTransitive
  <2>4. Like(k[t], e)
    <3>1. Like(r, e)
      BY <2>2, InterruptLike DEF Like, Event
    <3> QED BY <2>2, <3>1, LikeTransitive
  <2>5. \/ EntersStop(t, g) \/ EntersStop(t, e)
        \/ /\ k' = [k EXCEPT ![t] = r] /\ life' = [life EXCEPT ![t] = "jobstop"]
           /\ UNCHANGED <<control, memory, exit, got, complaints, verdict, static>>
    BY <1>5 DEF EnterTrap
  <2> HIDE DEF r, g, e
  <2>6. CASE EntersStop(t, g)
    BY <2>1, <2>3, <2>6, EntersStopStep DEF EntersStop
  <2>7. CASE EntersStop(t, e)
    BY <2>1, <2>4, <2>7, EntersStopStep DEF EntersStop
  <2>8. CASE /\ k' = [k EXCEPT ![t] = r] /\ life' = [life EXCEPT ![t] = "jobstop"]
             /\ UNCHANGED <<control, memory, exit, got, complaints, verdict, static>>
    <3>1. RecordsKept
      BY <1>1, <2>2, <2>8, OneRecord
    <3> QED BY <2>1, <2>8, <3>1, LifeStep DEF Alive
  <2> QED BY <2>5, <2>6, <2>7, <2>8
<1>6. CASE SyscallEntry(t)
  <2> DEFINE p == [Stop(k[t], "entry") EXCEPT !.phase = "entered"]
             q == [Stop(k[t], "entry") EXCEPT !.phase = "entered", !.regs["ax"] = NoSys]
  <2>1. life[t] = "running" /\ EntersStop(t, q)
    BY <1>6 DEF SyscallEntry, Ready
  <2>2. Like(k[t], p)
    BY <1>1, SyscallStopLike
  <2>3. q = [p EXCEPT !.regs["ax"] = NoSys]
    OBVIOUS
  <2> HIDE DEF p, q
  <2>4. Like(p, [p EXCEPT !.regs["ax"] = NoSys])
    <3>1. RecordOK(p) /\ "ax" \in Reg /\ NoSys \in Nat
      BY <2>2 DEF Like, Reg, NoSys
    <3> QED BY <3>1, FieldsLike
  <2>5. Like(k[t], q)
    BY <2>2, <2>3, <2>4, LikeTransitive
  <2> QED BY <2>1, <2>5, EntersStopStep DEF EntersStop
<1>7. CASE SyscallExit(t)
  <2> DEFINE q == [Stop(k[t], "exit") EXCEPT !.phase = "user"]
  <2>1. life[t] = "running" /\ EntersStop(t, q)
    BY <1>7 DEF SyscallExit
  <2>2. Like(k[t], q)
    BY <1>1, SyscallStopLike
  <2> HIDE DEF q
  <2> QED BY <2>1, <2>2, EntersStopStep DEF EntersStop
<1>8. CASE StepTrap(t)
  <2> DEFINE i == [signo |-> "SIGTRAP", origin |-> "TRAP_TRACE"]
             r == Sent(k[t], i)
             q == [r EXCEPT !.mode = "cont"]
  <2>1. life[t] = "running" /\ UNCHANGED <<control, memory>> /\ Passive
    BY <1>8 DEF StepTrap
  <2>2. Like(k[t], r)
    BY <1>1, SentLike DEF Info, Signal, Origin
  <2> HIDE DEF r
  <2>3. Like(k[t], q)
    BY <2>2 DEF Like, RecordOK, TaskRec, Mode
  <2>4. k' = [k EXCEPT ![t] = q]
    BY <1>8 DEF StepTrap, r
  <2> HIDE DEF q
  <2> QED BY <2>1, <2>3, <2>4, RecordStep
<1> QED BY <1>3, <1>4, <1>5, <1>6, <1>7, <1>8 DEF KernelActs

-----------------------------------------------------------------------------
(* The actions that start, end or redirect a task. *)

(* The records, lives and exit statuses have their types after a death. *)
LEMMA DieTypes ==
  ASSUME TypeInv, NEW G \in SUBSET Task, NEW status \in Status, Die(G, status),
         UNCHANGED <<control, memory, got, verdict, static>>, complaints' \subseteq Task
  PROVE  TypeInv'
<1>1. KernelOK'
  BY DieEnds DEF TypeInv, KernelOK, RecordsKept, Like
<1>2. ControlOK' /\ MemoryOK' /\ RestOK'
  BY DEF TypeInv, ControlOK, MemoryOK, RestOK, control, memory, static
<1> QED BY <1>1, <1>2 DEF TypeInv

(* A process consists of tasks. *)
LEMMA MembersAreTasks == ASSUME NEW t \in Task PROVE Members(t) \in SUBSET Task /\ {t} \in SUBSET Task
BY DEF Members, Process, Task

(* exit, the end of a thread, and death by a signal keep the types. *)
LEMMA EndingTypes ==
  ASSUME TypeInv, NEW t \in Task, ExitProcess(t) \/ ExitThread(t) \/ SignalKills(t)
  PROVE  TypeInv'
<1>1. complaints \subseteq Task /\ k[t] \in TaskRec
  BY DEF TypeInv, RestOK, KernelOK
<1>2. CASE ExitProcess(t)
  <2> DEFINE c == IF k[t].regs["arg"] = OwnArg THEN Here(t).n ELSE k[t].regs["arg"]
  <2>1. at[t].pc \in DOMAIN Code(t) /\ Here(t).op = "exit_group"
    BY <1>2, AtRuns DEF ExitProcess
  <2>2. Here(t).n \in Nat
    BY <2>1, HereFits DEF WellFormed
  <2>3. c \in Nat
    BY <1>1, <2>2 DEF TaskRec, Reg
  <2>4. Exited(c) \in Status
    BY <2>3 DEF Exited, NoStatus, Status, NoSig
  <2>5. Die(Members(t), Exited(c)) /\ UNCHANGED <<control, memory, got, complaints, verdict, static>>
    BY <1>2 DEF ExitProcess
  <2> HIDE DEF c
  <2> QED BY <1>1, <2>4, <2>5, MembersAreTasks, DieTypes
<1>3. CASE ExitThread(t)
  <2>1. Exited(0) \in Status
    BY DEF Exited, NoStatus, Status, NoSig
  <2> QED BY <1>1, <1>3, <2>1, MembersAreTasks, DieTypes DEF ExitThread
<1>4. CASE SignalKills(t)
  <2>1. k[t].due \in Info
    BY <1>1, <1>4 DEF SignalKills, Due, TaskRec
  <2>2. Signaled(k[t].due.signo) \in Status
    BY <2>1 DEF Signaled, NoStatus, Status, NoSig, Info
  <2>3. /\ Die(Members(t), Signaled(k[t].due.signo))
        /\ UNCHANGED <<control, memory, got, complaints, verdict, static>>
    BY <1>4 DEF SignalKills
  <2> QED BY <1>1, <2>2, <2>3, MembersAreTasks, DieTypes
<1> QED BY <1>2, <1>3, <1>4

(* Entering and leaving a signal handler keep types and dispositions. *)
LEMMA HandlerTypes ==
  ASSUME TypeInv, NEW t \in Task, HandlerReturns(t) \/ SignalHandled(t)
  PROVE  TypeInv' /\ RecordsKept
<1>1. KernelOK /\ ControlOK /\ MemoryOK /\ RestOK /\ RecordOK(k[t])
  BY DEF TypeInv, KernelOK
<1>2. MemoryOK' /\ RestOK'
  BY <1>1 DEF HandlerReturns, SignalHandled, Passive, MemoryOK, RestOK, memory, static
<1>3. CASE HandlerReturns(t)
  <2> DEFINE v == IF "ax" \in DOMAIN Here(t) THEN Here(t).ax ELSE k[t].regs["ax"]
             q == [k[t] EXCEPT !.mask = frame[t].mask, !.regs["ax"] = v]
  <2>0. v \in Nat \cup {OwnArg}
    BY <1>1, <1>3, AtRuns, HereFits DEF HandlerReturns, WellFormed, RecordOK, TaskRec, Reg
  <2>1. NoFrame \in [fn : Fn, pc : Nat, mask : SUBSET Signal, info : Info \cup {NoInfo}]
    BY DEF NoFrame, Fn
  <2>2. ControlOK'
    BY <1>1, <1>3, <2>1 DEF HandlerReturns, ControlOK
  <2>3. frame[t].mask \in SUBSET Signal
    BY <1>1 DEF ControlOK
  <2>5. k' = [k EXCEPT ![t] = q]
    BY <1>3 DEF HandlerReturns, Restored
  <2> HIDE DEF v
  <2>4. Like(k[t], q)
    BY <1>1, <2>0, <2>3 DEF Like, RecordOK, TaskRec, Reg
  <2> HIDE DEF q
  <2>6. RecordsKept
    BY <1>1, <2>4, <2>5, OneRecord
  <2>7. KernelOK'
    BY <1>1, <1>3, <2>6 DEF HandlerReturns, Passive, KernelOK, RecordsKept, Like
  <2> QED BY <1>2, <2>2, <2>6, <2>7 DEF TypeInv
<1>4. CASE SignalHandled(t)
  <2> DEFINE i == k[t].due
             c == Consumed(t)
             r == [c EXCEPT !.mask = IF Quirk("handler_unmasked") THEN @ ELSE @ \cup {i.signo}]
             q == IF k[t].mode = "step" THEN Stop(r, "notify") ELSE r
  <2>1. i \in Info /\ life[t] = "running" /\ k[t].mask \in SUBSET Signal
    BY <1>1, <1>4 DEF SignalHandled, Due, RecordOK, TaskRec
  <2>2. Like(k[t], c) /\ c.mask \in SUBSET Signal
    <3>1. Like(k[t], c)
      BY <1>1, FieldsLike DEF Consumed
    <3> QED BY <3>1 DEF Like, RecordOK, TaskRec
  <2> HIDE DEF c
  <2>3. Like(c, r)
    <3>1. (IF Quirk("handler_unmasked") THEN c.mask ELSE c.mask \cup {i.signo}) \in SUBSET Signal
      BY <2>1, <2>2 DEF Info
    <3> QED BY <2>2, <3>1, FieldsLike DEF Like
  <2>4. Like(k[t], r)
    BY <2>2, <2>3, LikeTransitive
  <2> HIDE DEF r
  <2>5. Like(k[t], q)
    <3>1. Like(r, Stop(r, "notify"))
      BY <2>4, StopLike DEF Like, StopKind
    <3> QED BY <2>4, <3>1, LikeTransitive
  <2>6. k' = [k EXCEPT ![t] = q]
    BY <1>4 DEF SignalHandled, r, c
  <2> HIDE DEF q
  <2>7. RecordsKept
    BY <1>1, <2>5, <2>6, OneRecord
  <2>8. life' \in [Task -> Life] /\ exit' = exit
    BY <1>1, <1>4 DEF SignalHandled, KernelOK, Life
  <2>9. KernelOK'
    BY <1>1, <2>7, <2>8 DEF KernelOK, RecordsKept, Like
  <2>10. ControlOK'
    BY <1>1, <1>4, <2>1 DEF SignalHandled, ControlOK, Fn
  <2> QED BY <1>2, <2>7, <2>9, <2>10 DEF TypeInv
<1> QED BY <1>3, <1>4

(* sigprocmask and sigaction keep the types. *)
LEMMA SignalSetupTypes ==
  ASSUME TypeInv, NEW t \in Task, SignalSetup(t)
  PROVE  TypeInv'
<1> DEFINE r == Ret(k[t], 0)
<1>1. KernelOK /\ ControlOK /\ MemoryOK /\ RestOK /\ RecordOK(k[t])
  BY DEF TypeInv, KernelOK
<1>2. Like(k[t], r) /\ r \in TaskRec
  BY <1>1, RetLike DEF Like, RecordOK
<1>3. at[t].pc \in DOMAIN Code(t) /\ Here(t).op \in {"setmask", "sigaction"}
  BY <1>1, AtRuns DEF SignalSetup
<1>4. PICK q : RecordOK(q) /\ k' = [k EXCEPT ![t] = q]
  <2>1. CASE Here(t).op = "setmask"
    <3> DEFINE q == [r EXCEPT !.mask = Here(t).sigs]
    <3>1. Here(t).sigs \in SUBSET Signal
      BY <1>3, <2>1, HereFits DEF WellFormed
    <3>2. RecordOK(q)
      BY <1>2, <3>1, FieldsLike DEF Like
    <3>3. k' = [k EXCEPT ![t] = q]
      BY <2>1 DEF SignalSetup, At, InSyscall
    <3> HIDE DEF q
    <3> QED BY <3>2, <3>3
  <2>2. CASE Here(t).op = "sigaction"
    <3> DEFINE q == [r EXCEPT !.act[Here(t).sig] = Here(t).disp]
    <3>1. Here(t).sig \in Signal /\ Here(t).disp \in Disp
      BY <1>3, <2>2, HereFits DEF WellFormed
    <3>2. RecordOK(q)
      BY <1>2, <3>1 DEF Like, RecordOK, TaskRec
    <3>3. k' = [k EXCEPT ![t] = q]
      BY <2>2 DEF SignalSetup, At, InSyscall
    <3> HIDE DEF q
    <3> QED BY <3>2, <3>3
  <2> QED BY <1>3, <2>1, <2>2
<1>5. KernelOK'
  BY <1>1, <1>4 DEF SignalSetup, Passive, KernelOK, RecordOK
<1>6. ControlOK'
  BY <1>1, ProceedTypes DEF SignalSetup
<1>7. MemoryOK' /\ RestOK'
  BY <1>1 DEF SignalSetup, Passive, MemoryOK, RestOK, memory, static
<1> QED BY <1>5, <1>6, <1>7 DEF TypeInv

(* fork, clone and pthread_create make the kid and change nobody else's     *)
(* nature. *)
LEMMA CreateKidTypes ==
  ASSUME TypeInv, NEW t \in Task, CreateKid(t)
  PROVE  /\ TypeInv' /\ t # "kid"
         /\ k'["kid"].thread = Here(t).thread
         /\ \A u \in Task \ {"kid"} : Like(k[u], k'[u])
         /\ \A u \in Task \ {"kid"} : Ages(life[u], life'[u])
<1> DEFINE event == CloneEvent(k[t], Here(t))
           r     == Ret(k[t], PidOf["kid"])
           q     == IF event = "none" THEN r ELSE EventStopped(r, event)
           c     == Child(k[t], Here(t))
<1>1. KernelOK /\ ControlOK /\ MemoryOK /\ RestOK /\ RecordOK(k[t])
  BY DEF TypeInv, KernelOK
<1>2. at[t].pc \in DOMAIN Code(t) /\ Here(t).op = "clone" /\ life[t] = "running"
  BY AtRuns DEF CreateKid
<1>3. Here(t).chld \in BOOLEAN /\ Here(t).thread \in BOOLEAN
  BY <1>2, HereFits DEF WellFormed
<1>4. t # "kid"
  BY <1>2 DEF CreateKid
<1>5. RecordOK(c) /\ c.thread = Here(t).thread
  BY <1>1, <1>3, ChildOK
<1>6. Like(k[t], r)
  BY <1>1, RetLike DEF PidOf
<1>7. Like(k[t], q)
  <2>1. event \in (Event \ {"EXEC"}) \cup {"none"}
    BY DEF CloneEvent, Event
  <2> HIDE DEF r, event
  <2>2. event # "none" => Like(r, EventStopped(r, event))
    BY <1>6, <2>1, EventLike DEF Like
  <2> QED BY <1>6, <2>2, LikeTransitive
<1>8. k' = [k EXCEPT !["kid"] = c, ![t] = q]
  BY DEF CreateKid
<1>9. /\ life' = [life EXCEPT !["kid"] = "running",
                              ![t] = IF event = "none" THEN @ ELSE "stopped"]
      /\ at' = [at EXCEPT ![t].pc = @ + 1, !["kid"] = [fn |-> "kid", pc |-> 1]]
      /\ flag' = [flag EXCEPT !["kid"] = flag[t]]
      /\ UNCHANGED <<frame, memory, exit, got, complaints, verdict, static>>
  BY DEF CreateKid
<1> HIDE DEF event, r, q, c
<1>10. /\ k' \in [Task -> TaskRec] /\ \A u \in Task : RecordOK(k'[u])
       /\ k'["kid"] = c /\ \A u \in Task \ {"kid"} : Like(k[u], k'[u])
  BY <1>1, <1>4, <1>5, <1>7, <1>8, LikeItself DEF KernelOK, Like, RecordOK, Task
<1>11. life' \in [Task -> Life] /\ \A u \in Task \ {"kid"} : Ages(life[u], life'[u])
  BY <1>1, <1>2, <1>4, <1>9 DEF KernelOK, Life, Ages, Alive, Dead
<1>12. KernelOK'
  BY <1>1, <1>9, <1>10, <1>11 DEF KernelOK
<1>13. ControlOK'
  BY <1>1, <1>4, <1>9 DEF ControlOK, Fn, Task
<1>14. MemoryOK' /\ RestOK'
  BY <1>1, <1>9 DEF MemoryOK, RestOK, memory, static
<1> QED BY <1>4, <1>5, <1>10, <1>11, <1>12, <1>13, <1>14 DEF TypeInv

(* The task that goes on after an execve by t. *)
Successor(t) == IF k[t].thread THEN "tracee" ELSE t

(* execve makes one task of its process, which goes on in the place of      *)
(* the leader. *)
LEMMA ExecSelfTypes ==
  ASSUME TypeInv, NEW t \in Task, ExecSelf(t)
  PROVE  /\ TypeInv' /\ Successor(t) \in Task
         /\ life[t] = "running" /\ life'[Successor(t)] \in Alive
         /\ k'[Successor(t)].thread = FALSE
         /\ \A s \in Signal : k'[Successor(t)].act[s] = "handler" => k[t].act[s] = "handler"
         /\ t # Successor(t) => life'[t] = "gone" /\ k'[t].thread = FALSE
         /\ \A u \in Task \ {t, Successor(t)} : k'[u] = k[u] /\ life'[u] = life[u]
<1> DEFINE p == Ret(k[t], 0)
           n == IF Here(t).n = 0 \/ Quirk("exec_keeps_bits") THEN build ELSE Here(t).n
           q == Execed(p, n)
           r == IF Here(t).n # 0 /\ Quirk("other_image_crashes") THEN Sent(q, Segfault)
                ELSE q
           u == Successor(t)
           m == IF r.stop = "event" THEN "stopped" ELSE "running"
<1>1. KernelOK /\ ControlOK /\ MemoryOK /\ RestOK /\ RecordOK(k[t])
  BY DEF TypeInv, KernelOK
<1>2. at[t].pc \in DOMAIN Code(t) /\ Here(t).op = "execve" /\ life[t] = "running"
  BY AtRuns DEF ExecSelf
<1>3. n \in Nat
  <2>1. Here(t).n \in Nat
    BY <1>2, HereFits DEF WellFormed
  <2>2. build \in Nat
    BY <1>1, HarnessAssumption DEF RestOK
  <2> QED BY <2>1, <2>2
<1>4. /\ RecordOK(r) /\ r.thread = FALSE
      /\ \A s \in Signal : r.act[s] = "handler" => k[t].act[s] = "handler"
  <2>1. RecordOK(p) /\ p.act = k[t].act
    BY <1>1, RetLike DEF Like
  <2> HIDE DEF p, n
  <2>2. /\ RecordOK(q) /\ q.thread = FALSE
        /\ \A s \in Signal : q.act[s] = "handler" => p.act[s] = "handler"
    BY <1>3, <2>1, ExecedOK
  <2>3. Like(q, Sent(q, Segfault))
    BY <2>2, SentLike DEF Segfault, Info, Signal, Origin
  <2> HIDE DEF q
  <2> QED BY <2>1, <2>2, <2>3 DEF Like
<1>5. u \in Task
  BY DEF Successor, Task
<1>6. /\ k' = [k EXCEPT ![u] = r, ![t] = IF u = t THEN r ELSE NewTask]
      /\ life' = [life EXCEPT ![u] = m, ![t] = IF u # t THEN "gone" ELSE m]
      /\ at' = [at EXCEPT ![u] = [fn |-> "exec", pc |-> 1]]
      /\ flag' = [flag EXCEPT ![u] = FALSE]
      /\ frame' = [frame EXCEPT ![u] = NoFrame]
      /\ mem' = Remapped
      /\ UNCHANGED <<int1, pipe, exit, got, complaints, verdict, static>>
  BY DEF ExecSelf, Successor
<1>7. m \in Alive /\ m \in Life /\ "gone" \in Life
  BY DEF Alive, Life
<1>8. NoFrame \in [fn : Fn, pc : Nat, mask : SUBSET Signal, info : Info \cup {NoInfo}]
  BY DEF NoFrame, Fn
<1> HIDE DEF q, r, u, m
<1>9. /\ life' \in [Task -> Life] /\ life'[u] \in Alive
      /\ t # u => life'[t] = "gone"
      /\ \A v \in Task \ {t, u} : life'[v] = life[v]
  BY <1>1, <1>5, <1>6, <1>7 DEF KernelOK
<1>10. /\ k' \in [Task -> TaskRec] /\ \A v \in Task : RecordOK(k'[v])
       /\ k'[u] = r
       /\ t # u => k'[t] = NewTask
       /\ \A v \in Task \ {t, u} : k'[v] = k[v]
  BY <1>1, <1>4, <1>5, <1>6, NewTaskOK DEF KernelOK, RecordOK
<1>11. KernelOK'
  BY <1>1, <1>6, <1>9, <1>10 DEF KernelOK
<1>12. ControlOK'
  BY <1>1, <1>5, <1>6, <1>8 DEF ControlOK, Fn
<1>13. MemoryOK' /\ RestOK'
  BY <1>1, <1>6 DEF MemoryOK, RestOK, static, Remapped
<1>14. TypeInv'
  BY <1>11, <1>12, <1>13 DEF TypeInv
<1> QED BY <1>2, <1>4, <1>5, <1>9, <1>10, <1>14, NewTaskOK DEF u

(* A waitpid that reports a task or finds none. *)
LEMMA WaitTypes ==
  ASSUME TypeInv, NEW t \in Task, WaitReports(t) \/ WaitFails(t)
  PROVE  /\ TypeInv'
         /\ \/ Abort(t)
            \/ /\ life[t] = "running" /\ at[t].pc \in DOMAIN Code(t) /\ Here(t).op = "wait"
               /\ Proceed(t) /\ RecordsKept
               /\ UNCHANGED <<exit, complaints, verdict, static>>
               /\ \A u \in Task : Ages(life[u], life'[u])
<1>1. KernelOK /\ ControlOK /\ MemoryOK /\ RestOK
  BY DEF TypeInv
<1>2. life[t] = "running" /\ at[t].pc \in DOMAIN Code(t) /\ Here(t).op = "wait"
  BY DEF WaitReports, WaitFails, Waits
<1>3. CASE Abort(t)
  BY <1>3, AbortTypes
<1>4. CASE WaitReports(t) /\ ~Abort(t)
  <2>1. PICK u \in Targets(t) :
          /\ Collect(t, u) /\ got' = (IF t = "tracer" THEN u ELSE got)
          /\ Proceed(t)
          /\ UNCHANGED <<memory, exit, complaints, verdict, static>>
    BY <1>4 DEF WaitReports
  <2>2. u \in Task
    BY DEF Targets, Children
  <2>3. /\ life' \in [Task -> Life] /\ RecordsKept
        /\ \A v \in Task : Ages(life[v], life'[v])
    BY <1>1, <2>1, <2>2, CollectKeeps
  <2>4. KernelOK'
    BY <1>1, <2>1, <2>3 DEF KernelOK, RecordsKept, Like
  <2>5. ControlOK'
    BY <1>1, <2>1, ProceedTypes
  <2>6. MemoryOK' /\ RestOK'
    BY <1>1, <2>1, <2>2 DEF MemoryOK, RestOK, memory, static
  <2> QED BY <1>2, <2>1, <2>3, <2>4, <2>5, <2>6 DEF TypeInv
<1>5. CASE WaitFails(t) /\ ~Abort(t)
  <2>1. Proceed(t) /\ UNCHANGED <<memory, k>> /\ Passive
    BY <1>5 DEF WaitFails
  <2>2. RecordsKept
    BY <1>1, <2>1, SameRecords
  <2>3. KernelOK'
    BY <1>1, <2>1 DEF Passive, KernelOK, RecordOK
  <2>4. ControlOK'
    BY <1>1, <2>1, ProceedTypes
  <2>5. MemoryOK' /\ RestOK'
    BY <1>1, <2>1 DEF Passive, MemoryOK, RestOK, memory, static
  <2>6. \A u \in Task : Ages(life[u], life'[u])
    BY <2>1 DEF Passive, Ages, Alive, Dead
  <2> QED BY <1>2, <2>1, <2>2, <2>3, <2>4, <2>5, <2>6 DEF TypeInv, Passive
<1> QED BY <1>3, <1>4, <1>5

(* The fork() of TEST_MAIN, successful or not, keeps the types. *)
LEMMA ForkTypes ==
  ASSUME TypeInv, TestMainForks \/ TestMainForkFails
  PROVE  TypeInv' /\ UNCHANGED <<frame, k, exit, complaints, verdict, code>>
<1>1. MemoryOK' /\ RestOK'
  BY DEF TypeInv, TestMainForks, TestMainForkFails, MemoryOK, RestOK, memory, static
<1>2. ControlOK'
  BY DEF TypeInv, TestMainForks, TestMainForkFails, Goto, ControlOK
<1>3. life' \in [Task -> Life] /\ UNCHANGED <<exit, k>>
  BY DEF TypeInv, TestMainForks, TestMainForkFails, KernelOK, Life
<1>4. KernelOK'
  BY <1>3 DEF TypeInv, KernelOK, RecordOK
<1> QED BY <1>1, <1>2, <1>3, <1>4
        DEF TypeInv, TestMainForks, TestMainForkFails, Goto, static

(* TEST_MAIN as a whole does. *)
LEMMA TestMainTypes == ASSUME TypeInv, TestMain PROVE TypeInv'
<1>1. CASE TestMainSetupFails
  BY <1>1, AbortTypes DEF TestMainSetupFails, Task
<1> QED BY <1>1, ForkTypes DEF TestMain

(* run.sh's verdict changes nothing but the verdict. *)
LEMMA CollectedTypes ==
  ASSUME TypeInv, RunnerCollects
  PROVE  TypeInv' /\ UNCHANGED <<at, frame, life, exit, k, complaints, code>>
<1>1. UNCHANGED <<control, memory, life, exit, k, got, complaints, static>>
  BY DEF RunnerCollects
<1>2. KernelOK' /\ ControlOK' /\ MemoryOK'
  <2>1. KernelOK'
    BY <1>1 DEF TypeInv, KernelOK, RecordOK
  <2>2. ControlOK'
    BY <1>1 DEF TypeInv, ControlOK, control
  <2>3. MemoryOK'
    BY <1>1 DEF TypeInv, MemoryOK, memory
  <2> QED BY <2>1, <2>2, <2>3
<1>3. RestOK'
  BY <1>1 DEF RunnerCollects, TypeInv, RestOK, static
<1> QED BY <1>1, <1>2, <1>3 DEF TypeInv, control, static

(* A step that changes nothing keeps the types. *)
LEMMA StutterTypes == ASSUME TypeInv, UNCHANGED vars PROVE TypeInv'
<1>1. UNCHANGED <<at, frame, flag, int1, mem, pipe, life, exit, k>>
  BY DEF vars, control, memory
<1>2. UNCHANGED <<test, code, kernel, build, got, complaints, verdict>>
  BY DEF vars, static
<1>3. KernelOK'
  BY <1>1 DEF TypeInv, KernelOK, RecordOK
<1>4. ControlOK' /\ MemoryOK'
  BY <1>1 DEF TypeInv, ControlOK, MemoryOK
<1>5. RestOK'
  BY <1>2 DEF TypeInv, RestOK
<1> QED BY <1>3, <1>4, <1>5 DEF TypeInv

-----------------------------------------------------------------------------
(* TypeInv is preserved by every step: one case for each kind of action.   *)
LEMMA NextTypes == TypeInv /\ [Next]_vars => TypeInv'
<1> SUFFICES ASSUME TypeInv, [Next]_vars PROVE TypeInv'
  OBVIOUS
<1>1. CASE TestMain
  BY <1>1, TestMainTypes
<1>2. CASE RunnerCollects
  BY <1>2, CollectedTypes
<1>3. ASSUME NEW t \in Task, Runs(t) PROVE TypeInv'
  <2>1. CASE Computes(t)
    BY <2>1, ComputesSteps, HandlerTypes
  <2>2. CASE CallsKernel(t)
    <3>1. CASE SignalSetup(t)
      BY <3>1, SignalSetupTypes
    <3>2. CASE CreateKid(t)
      BY <3>2, CreateKidTypes
    <3>3. CASE ExecSelf(t)
      BY <3>3, ExecSelfTypes
    <3>4. CASE ExitProcess(t) \/ ExitThread(t)
      BY <3>4, EndingTypes
    <3>5. CASE WaitReports(t) \/ WaitFails(t)
      BY <3>5, WaitTypes
    <3> QED BY <2>2, <3>1, <3>2, <3>3, <3>4, <3>5, CallsQuietly DEF CallsKernel
  <2>3. CASE Ptraces(t)
    BY <2>3, PtracesSteps
  <2>4. CASE KernelActs(t)
    BY <2>4, KernelActsSteps, HandlerTypes, EndingTypes
  <2> QED BY <1>3, <2>1, <2>2, <2>3, <2>4 DEF Runs
<1>4. CASE UNCHANGED vars
  BY <1>4, StutterTypes
<1> QED BY <1>1, <1>2, <1>3, <1>4 DEF Next

(* In every reachable state of every suite of well-formed tests the         *)
(* variables have their types.                                             *)
THEOREM TypeCorrect == Spec => []TypeOK
<1>1. Spec => []TypeInv
  BY InitNewborn, NewbornTypes, NextTypes, PTL DEF Spec
<1> QED BY <1>1, TypeInvImplies, PTL
=============================================================================
