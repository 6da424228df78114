---------------------------- MODULE SeccompFilter ----------------------------
(***************************************************************************)
(* CompileSeccomp: an OCI profile becomes a classic BPF program.  Next to  *)
(* the compiler stand the machine that runs the program for every system   *)
(* call of the container, and what the profile means.                      *)
(*                                                                         *)
(* Architectures and system calls are numbers.  A verdict is a record, the *)
(* word of the kernel split into its action and the 16 bits beside it.     *)
(***************************************************************************)
EXTENDS Naturals, SequencesExt

CONSTANTS
    AuditArch,       \* the architecture of the build, 0 if it is not a supported one
    GuardX32,        \* the build's architecture has x32 calls
    X32Bit,          \* the lowest number of an x32 call
    SyscallNumbers,  \* the build's table: name -> number
    MaxInstructions, \* bound of the kernel on a filter, 4096 in fact
    Calls            \* the system calls to look at (CallType)

Actions == {"allow", "errno", "killProcess", "killThread", "trap", "trace", "log"}

\* A call, and whether its arguments meet the condition of a conditional rule.
CallType == [arch : Nat, nr : Nat, meets : BOOLEAN]

\* An errno in a profile is a number, or none.
ErrnoRet == {<<>>} \cup Seq(Nat)
Rule == [names : Seq(STRING), action : STRING, errno : ErrnoRet, conditional : BOOLEAN]
ProfileType == [action : STRING, errno : ErrnoRet, rules : Seq(Rule)]

ASSUME BuildAssumption ==
    /\ AuditArch \in Nat /\ GuardX32 \in BOOLEAN /\ X32Bit \in Nat /\ MaxInstructions \in Nat
    /\ \A name \in DOMAIN SyscallNumbers : SyscallNumbers[name] \in Nat
ASSUME CallsAssumption == Calls \subseteq CallType

----------------------------------------------------------------------------
(* The compiler *)

Verdict(action, data) == [action |-> action, data |-> data]
Kill == Verdict("killProcess", 0)

Load(field)          == [op |-> "load", field |-> field]
JumpEqual(k, jt, jf) == [op |-> "jeq", k |-> k, jt |-> jt, jf |-> jf]
JumpGE(k, jt, jf)    == [op |-> "jge", k |-> k, jt |-> jt, jf |-> jf]
Return(verdict)      == [op |-> "ret", verdict |-> verdict]

\* EPERM if the profile has no errno, and 16 bits of it if it has.
ActionValue(action, errno) ==
    IF action # "errno" THEN Verdict(action, 0)
    ELSE Verdict("errno", IF errno = <<>> THEN 1 ELSE errno[1] % 65536)

\* Pin the architecture, then refuse x32.
Header ==
    <<Load("arch"), JumpEqual(AuditArch, 1, 0), Return(Kill), Load("nr")>> \o
    IF GuardX32 THEN <<JumpGE(X32Bit, 0, 1), Return(Kill)>> ELSE <<>>

MutantJumpInverted(name, verdict) ==
    IF name \notin DOMAIN SyscallNumbers THEN <<>>
    ELSE <<JumpEqual(SyscallNumbers[name], 1, 0), Return(verdict)>>

\* A name this architecture does not have is left to the default.
OneCall(name, verdict) ==
    IF name \notin DOMAIN SyscallNumbers THEN <<>>
    ELSE <<JumpEqual(SyscallNumbers[name], 0, 1), Return(verdict)>>

OneRule(rule) ==
    FlattenSeq([k \in DOMAIN rule.names |->
        OneCall(rule.names[k], ActionValue(rule.action, rule.errno))])

Program(profile) ==
    Header \o FlattenSeq([k \in DOMAIN profile.rules |-> OneRule(profile.rules[k])])
           \o <<Return(ActionValue(profile.action, profile.errno))>>

\* The errors of the compiler.
Compiles(profile) ==
    /\ AuditArch # 0
    /\ profile.action \in Actions
    /\ \A k \in DOMAIN profile.rules :
          ~profile.rules[k].conditional /\ profile.rules[k].action \in Actions
    /\ Len(Program(profile)) <= MaxInstructions

----------------------------------------------------------------------------
(* The kernel's machine *)

Accs(call) == {0, call.arch, call.nr}

\* The verdicts from an instruction on, with every value the accumulator may
\* have.  A program must not run past its end.
Verdicts(program, call, from, k) == [acc \in Accs(call) |->
    IF k > Len(program) THEN Verdict("invalid", 0)
    ELSE LET i == program[k] IN
         CASE i.op = "ret"  -> i.verdict
           [] i.op = "load" -> from[k + 1][call[i.field]]
           [] i.op = "jeq"  -> from[k + 1 + (IF acc = i.k THEN i.jt ELSE i.jf)][acc]
           [] i.op = "jge"  -> from[k + 1 + (IF acc >= i.k THEN i.jt ELSE i.jf)][acc]]

\* The verdict of a program on a call.
Run(program, call) ==
    LET from[k \in 1..Len(program) + 2] == Verdicts(program, call, from, k)
    IN  from[1][0]

----------------------------------------------------------------------------
(* What a profile means *)

\* The rules that speak of a call.
RulesFor(profile, call) ==
    {k \in DOMAIN profile.rules :
        /\ profile.rules[k].conditional => call.meets
        /\ \E j \in DOMAIN profile.rules[k].names :
              /\ profile.rules[k].names[j] \in DOMAIN SyscallNumbers
              /\ SyscallNumbers[profile.rules[k].names[j]] = call.nr}

\* A call of another ABI is fatal.  The first rule for a call decides, and the
\* default if there is none.
Meaning(profile, call) ==
    IF call.arch # AuditArch \/ (GuardX32 /\ call.nr >= X32Bit) THEN Kill
    ELSE LET fitting == RulesFor(profile, call)
         IN  IF fitting = {} THEN ActionValue(profile.action, profile.errno)
             ELSE LET rule == profile.rules[CHOOSE k \in fitting : \A j \in fitting : k <= j]
                  IN  ActionValue(rule.action, rule.errno)
=============================================================================
