----------------------------- MODULE MCExecUser -----------------------------
(* Instances of ExecUser for TLC.                                          *)
EXTENDS Sandbox

MCCaps == Needed \cup {"CHOWN"}
Default == {"SETPCAP", "SETGID", "SETUID", "CHOWN"}

Users == {<<0, 0, {}>>, <<0, 0, {5}>>, <<0, 7, {5}>>, <<9, 7, {}>>, <<9, 7, {5}>>}

\* A limit raised, noNewPrivileges, a seccomp profile.
Flags == {<<FALSE, TRUE, TRUE>>, <<FALSE, FALSE, FALSE>>, <<TRUE, FALSE, TRUE>>}

With(u, b, p, e, i, a, f, w) ==
    [uid |-> u[1], gid |-> u[2], groups |-> u[3], bounding |-> b, permitted |-> p,
     effective |-> e, inheritable |-> i, ambient |-> a,
     raises |-> f[1], noNewPrivs |-> f[2], seccomp |-> f[3], wrong |-> w]

\* Capability sets that fit together and some that do not.
MCSpecs ==
    {With(u, b, p, e, i, a, f, "nothing") :
        u \in Users, b \in {{}, Default, MCCaps}, p \in {{"CHOWN"}, Default, MCCaps},
        e \in {{}, Default, MCCaps}, i, a \in {{}, {"CHOWN"}}, f \in Flags} \cup
    {With(u, Default, Default, Default, {}, {}, <<FALSE, TRUE, TRUE>>, w) :
        u \in Users, w \in {"command", "rlimit", "capability", "seccomp"}}

\* The defaults of pkg/oci, for root and for another user.
MCDefaultRoot ==
    {With(<<0, 0, {}>>, Default, Default, Default, {}, {}, <<FALSE, TRUE, TRUE>>, "nothing")}
MCDefaultOther ==
    {With(<<9, 7, {}>>, Default, Default, Default, {}, {}, <<FALSE, TRUE, TRUE>>, "nothing")}

MCAnywhere == Steps

MCHosts == {[setgroups |-> TRUE, initial |-> TRUE], [setgroups |-> FALSE, initial |-> FALSE]}

\* A build for amd64 with three calls, an x32 call, a number nobody has, and a
\* call of another architecture.
MCNumbers == [read |-> 0, write |-> 1, seccomp |-> 9]
MCCalls == [arch : {62, 3}, nr : {0, 1, 9, 30, 40}, meets : BOOLEAN]

\* Up to two rules, that may contradict each other, repeat a name or name what
\* the build does not have; more than the filter can hold; a condition.
Named(names, action, errno) ==
    [names |-> names, action |-> action, errno |-> errno, conditional |-> FALSE]
MCRules ==
    {Named(n, a, e) : n \in {<<>>, <<"read">>, <<"mmap2", "write">>, <<"write", "read", "write">>},
                      a \in {"allow", "errno", "killThread"}, e \in {<<>>, <<38>>}} \cup
    {Named(<<"seccomp">>, "notify", <<>>), [Named(<<"read">>, "allow", <<>>) EXCEPT !.conditional = TRUE]}
MCProfiles ==
    {[action |-> a, errno |-> e, rules |-> r] :
        a \in {"errno", "log", ""}, e \in {<<>>, <<65574>>},
        r \in {<<>>} \cup {<<r1>> : r1 \in MCRules} \cup {<<r1, r2>> : r1, r2 \in MCRules}}

\* All profiles with the defaults of root, one with the other specs.
NoProfile == {<<>>}
Simple(a) == {[action |-> a, errno |-> <<>>, rules |-> <<Named(<<"read">>, "allow", <<>>)>>]}
MCProfilesOf ==
    [s \in Specs |-> CASE ~s.seccomp -> NoProfile
                       [] s.seccomp /\ s \in MCDefaultRoot -> MCProfiles
                       [] s.seccomp /\ s.wrong = "seccomp" -> Simple("")
                       [] OTHER -> Simple("errno")]
=============================================================================
