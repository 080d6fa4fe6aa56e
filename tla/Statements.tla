----------------------------- MODULE Statements -----------------------------
(***************************************************************************)
(* The statements the tests are written in.  A test function is a sequence *)
(* of statements; a statement is one C++ statement of the source, or one   *)
(* call together with the ASSERTs on what that call returned (nothing else *)
(* can happen between a call and a check of its own result).  ASSERTs on   *)
(* shared memory are statements of their own.                              *)
(*                                                                         *)
(* `who' is the task a request names, "got" the one waitpid last returned; *)
(* `exp' is the set of outcomes of a ptrace request the test accepts.      *)
(***************************************************************************)
EXTENDS PtraceDefs

CONSTANT PageBytes      \* size of a page of the shared mapping (4096, scaled)

ASSUME PageBytesAssumption == PageBytes \in Nat /\ PageBytes >= 24

PidOf   == [tracer |-> 100, tracee |-> 101, kid |-> 102]
Target  == Task \cup {"any", "got"}
Fn      == {"tracer", "tracee", "kid", "handler", "exec"}
Reg     == {"ax", "arg", "cs", "dr0", "dr7", "rf"}
OwnArg  == -1                           \* regs.arg: the argument in the program
Uid     == {"root", "65533", "65534"}
Disp    == {"dfl", "ign", "handler"}
Mode    == {"cont", "syscall", "step"}
AnyOutcome == Outcome

(* Ordinary code.  `flag' is the bool ok / signal_happened of the test. *)
FetchAdd       == [op |-> "fetch_add"]
Store(v)       == [op |-> "store", n |-> v]
SpinWhile(v)   == [op |-> "spin_while", n |-> v]      \* while (atomic == v);
SpinUntil(v)   == [op |-> "spin_until", n |-> v]      \* while (atomic != v);
AssertInt(v)   == [op |-> "assert_int", n |-> v]
SetFlag        == [op |-> "set_flag"]
AssertFlag     == [op |-> "assert_flag"]
AssertInfo(S)  == [op |-> "assert_info", infos |-> S]
AssertMasked   == [op |-> "assert_masked"]
AssertIn(f)      == [op |-> "assert_in", fn |-> f]
AssertReg(g, v)  == [op |-> "assert_reg", reg |-> g, n |-> v]
AssertThread(b)  == [op |-> "assert_thread", thread |-> b]    \* gettid() != getpid()
StoreBytes(a, v) == [op |-> "store_bytes", addr |-> a, bytes |-> v]
AssertWord(a, v) == [op |-> "assert_word", addr |-> a, bytes |-> v]
CallMyFunc     == [op |-> "call"]
Int3           == [op |-> "int3"]
Segv           == [op |-> "segv"]
Sigreturn      == [op |-> "sigreturn"]
SigreturnWith(v) == [op |-> "sigreturn", ax |-> v]    \* gregs[REG_RAX] = v
Unreachable    == [op |-> "unreachable"]              \* ASSERT(false)

(* System calls. *)
Traceme        == [op |-> "traceme"]
Raise(s)       == [op |-> "raise", sig |-> s, origin |-> "raise"]
Sigqueue(s)    == [op |-> "raise", sig |-> s, origin |-> "sigqueue"]
SetMask(S)     == [op |-> "setmask", sigs |-> S]
Sigaction(s, d) == [op |-> "sigaction", sig |-> s, disp |-> d]
ReadPipe       == [op |-> "read"]
WritePipe      == [op |-> "write"]
Close(fd)      == [op |-> "close", n |-> fd]
Munmap         == [op |-> "munmap"]
Setresuid(u)   == [op |-> "setresuid", uid |-> u]
Fork           == [op |-> "clone", chld |-> TRUE,  thread |-> FALSE]
Clone          == [op |-> "clone", chld |-> FALSE, thread |-> FALSE]
PthreadCreate  == [op |-> "clone", chld |-> FALSE, thread |-> TRUE]
PthreadJoin    == [op |-> "join"]
Pause          == [op |-> "pause"]
Execve(bits)   == [op |-> "execve", n |-> bits]
ExecveSelf     == Execve(0)             \* as many bits as the caller has
Exit(c)        == [op |-> "exit_group", n |-> c]
ThreadExit     == [op |-> "exit"]
Wait(w, S)     == [op |-> "wait", who |-> w, ok |-> S]
WaitNohang(w)  == [op |-> "wait_nohang", who |-> w]
Tgkill(w, s)   == [op |-> "tgkill", who |-> w, sig |-> s]

(* ptrace requests. *)
Resume(w, m, s, E)   == [op |-> "resume", who |-> w, mode |-> m, sig |-> s, exp |-> E]
Cont(w, s)           == Resume(w, "cont", s, {"ok"})
Attach(w, E)         == [op |-> "attach", who |-> w, exp |-> E]
Seize(w)             == [op |-> "seize", who |-> w, exp |-> {"ok"}]
Interrupt(w)         == [op |-> "interrupt", who |-> w, exp |-> {"ok"}]
SetOptions(w, S)     == [op |-> "setoptions", who |-> w, opts |-> S, exp |-> {"ok"}]
SetSiginfo(w, i)     == [op |-> "setsiginfo", who |-> w, info |-> i, exp |-> {"ok"}]
SetSigmask(w, S)     == [op |-> "setsigmask", who |-> w, sigs |-> S, exp |-> {"ok"}]
Poke(w, a, v)        == [op |-> "poke", who |-> w, addr |-> a, bytes |-> v, exp |-> {"ok"}]
PokeUser(w, g, v)    == [op |-> "pokeuser", who |-> w, reg |-> g, n |-> v, exp |-> {"ok"}]
Peek(w, a, v, E)     == [op |-> "peek", who |-> w, addr |-> a, bytes |-> v, exp |-> E]
PeekRaw(w, a, v)     == [op |-> "peek_raw", who |-> w, addr |-> a, bytes |-> v, exp |-> {"ok"}]
PeekUser(w, g, v, E) == [op |-> "peekuser", who |-> w, reg |-> g, n |-> v, exp |-> E]
PeekNr(w, nr)        == [op |-> "peek_nr", who |-> w, nr |-> nr, exp |-> {"ok"}]
PeekIp(w, f, p, E)   == [op |-> "peek_ip", who |-> w, fn |-> f, pc |-> p, exp |-> E]
GetSiginfo(w, S, E)  == [op |-> "getsiginfo", who |-> w, infos |-> S, exp |-> E]
GetEventMsg(w)       == [op |-> "geteventmsg", who |-> w, exp |-> {"ok"}]
GetSyscallInfo(w, stop, nr, v) ==
  [op |-> "get_syscall_info", who |-> w, at |-> stop, nr |-> nr, n |-> v, exp |-> {"ok"}]

QueryOps  == {"peek", "peek_raw", "peekuser", "peek_nr", "peek_ip", "getsiginfo", "geteventmsg",
              "get_syscall_info"}
UpdateOps == {"setoptions", "setsiginfo", "setsigmask", "pokeuser"}
GetSyscallStop(w, stop) ==              \* info.op and nothing else
  [op |-> "get_syscall_info", who |-> w, at |-> stop, exp |-> {"ok"}]

(* The idioms of common.h.  A waitpid whose result nobody looks at may fail. *)
WaitExit(w)    == Wait(w, {Exited(0)})                \* ASSERT(wait_exit(w))
WaitTerm(w, s) == Wait(w, {Signaled(s)})              \* ASSERT(wait_terminate(w, s))
UncheckedWait(w) == Wait(w, AnyStatus \cup {NoStatus})

(* System calls a PTRACE_SYSCALL'ed tracee stops at; `nr' of a statement.   *)
SyscallOps == {"traceme", "raise", "setmask", "sigaction", "read", "write", "close",
               "munmap", "setresuid", "clone", "join", "pause", "execve",
               "exit_group", "exit", "wait"}

(* What a statement says is of the kind its operation works on. *)
WellFormed(s) ==
  /\ s.op \in {"store", "pokeuser", "execve", "exit_group"} => s.n \in Nat
  /\ s.op \in {"raise", "tgkill", "sigaction"} => s.sig \in Signal
  /\ s.op = "raise"      => s.origin \in Origin
  /\ s.op = "sigreturn" /\ "ax" \in DOMAIN s => s.ax \in Nat
  /\ s.op = "sigaction"  => s.disp \in Disp
  /\ s.op \in {"setmask", "setsigmask"} => s.sigs \subseteq Signal
  /\ s.op = "setresuid"  => s.uid \in Uid
  /\ s.op = "clone"      => s.chld \in BOOLEAN /\ s.thread \in BOOLEAN
  /\ s.op = "setoptions" => s.opts \subseteq Options
  /\ s.op = "setsiginfo" => s.info \in Info
  /\ s.op = "pokeuser"   => s.reg \in Reg
  /\ s.op \in {"store_bytes", "poke"} => s.addr \in Nat /\ s.bytes \in Seq(Byte)
  /\ s.op = "poke"       => Len(s.bytes) = 8
  /\ s.op \in {"attach", "seize", "interrupt", "tgkill"} => s.who \in Task
  /\ s.op \in UpdateOps \cup {"resume"} => s.who \in Task \cup {"got"}
  /\ s.op = "resume"     => s.mode \in Mode
  /\ s.op = "resume" /\ "ok" \in s.exp => s.sig \in Signal \cup {NoSig}

IsProgram(c) == DOMAIN c = Fn /\ \A f \in Fn : \A i \in DOMAIN c[f] : WellFormed(c[f][i])

(* A test: the body of each of its functions. *)
Test(tracer, tracee) ==
  [f \in Fn |-> CASE f = "tracer" -> tracer
                  [] f = "tracee" -> tracee
                  [] OTHER        -> <<Unreachable>>]
WithFn(test, f, body) == [test EXCEPT ![f] = body]
=============================================================================
