------------------------------- MODULE Sandbox -------------------------------
(***************************************************************************)
(* The user's command under its seccomp profile: execUserProcess           *)
(* (ExecUser.tla), whose step ApplySeccomp compiles a profile and installs *)
(* the program (SeccompFilter.tla).                                        *)
(***************************************************************************)
EXTENDS ExecUser, SeccompFilter

CONSTANT ProfilesOf \* the profiles to look at with each member of Specs

VARIABLE profile

ASSUME ProfilesOfAssumption ==
    \A s \in Specs : s.seccomp => ProfilesOf[s] \subseteq ProfileType

\* What is wrong with a profile is what the compiler refuses.
SandboxInit ==
    /\ Init
    /\ profile \in ProfilesOf[spec]
    /\ spec.seccomp => (Compiles(profile) <=> spec.wrong # "seccomp")

SandboxNext == Next /\ UNCHANGED profile

SandboxSpec == SandboxInit /\ [][SandboxNext]_<<vars, profile>>

----------------------------------------------------------------------------
(* Properties *)

\* "A mis-compiled filter is a silently weakened sandbox -- never announces
\* itself": whatever call the user's command makes, the program that decides on
\* it says what the profile means.
FilterMatches ==
    pc = "user" /\ spec.seccomp =>
        /\ cred[on].filter
        /\ \A call \in Calls : Run(Program(profile), call) = Meaning(profile, call)

\* The errno of a profile is the one its calls fail with.
ErrnoKept ==
    pc = "user" /\ spec.seccomp /\ profile.action = "errno" /\ profile.errno # <<>> =>
        ActionValue(profile.action, profile.errno).data = profile.errno[1]
=============================================================================
