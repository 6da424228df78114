---------------------------- MODULE MCRootfsSetup ----------------------------
(* Instances of RootfsSetup for TLC.                                       *)
EXTENDS RootfsSetup

OwnProc  == Mount(Proc, "proc", FALSE)
OwnDev   == Mount(Dev, "tmpfs", FALSE)
HostData == Mount(Data, "hostDir", TRUE)

\* The default mounts of pkg/oci, with a read-only bind.
Plain == [rootless |-> FALSE, mounts |-> <<OwnProc, OwnDev, HostData>>, sysctl |-> TRUE,
          masked |-> <<Kcore>>, readonly |-> <<Sys>>, readonlyRoot |-> TRUE,
          propagation |-> "none", wrong |-> "nothing"]
Rootless == [Plain EXCEPT !.rootless = TRUE]

\* Other mounts, in other orders, and other paths to mask and protect.
Variants(s) ==
    {s,
     [s EXCEPT !.mounts = <<OwnDev, Mount(Link, "hostFile", FALSE)>>, !.readonly = <<Proc>>, !.propagation = "slave"],
     [s EXCEPT !.mounts = <<Mount(Proc, "hostProc", TRUE), OwnProc>>, !.readonly = <<Proc, Sys>>,
               !.masked = <<Sys, Kcore>>, !.readonlyRoot = FALSE],
     [s EXCEPT !.mounts = <<Mount(Proc, "hostProc", FALSE), Mount(Node, "hostFile", TRUE), OwnDev>>,
               !.readonly = <<Sys, Proc>>, !.readonlyRoot = FALSE],
     [s EXCEPT !.mounts = <<HostData, Mount(Proc, "tmpfs", FALSE)>>, !.sysctl = FALSE,
               !.readonly = <<Data>>, !.masked = <<Data>>, !.propagation = "private"],
     [s EXCEPT !.mounts = <<Mount(Top, "tmpfs", FALSE), OwnProc, Mount(Node, "hostFile", TRUE)>>]}

Wrong(s) ==
    {[s EXCEPT !.wrong = w] : w \in {"source", "device", "sysctl", "cwd"}} \cup
    {[s EXCEPT !.propagation = p] : p \in {"shared", "unknown"}}

\* A directory that cannot be bound again: the paths to protect are on other
\* mounts, one of which takes the sysctl's file, or one is on its own.
Unbindable(s) ==
    {[s EXCEPT !.propagation = "unbindable", !.mounts = <<OwnProc, OwnDev, Mount(Sys, "tmpfs", FALSE)>>],
     [s EXCEPT !.propagation = "unbindable", !.readonly = <<Sys, Dev>>, !.mounts = <<OwnProc>>]}

All == Variants(Plain) \cup Variants(Rootless) \cup Wrong(Plain) \cup Unbindable(Plain)

\* Any spec beside a spec that makes its mount points in the directory.
Neighbour == [Rootless EXCEPT !.mounts = <<OwnProc>>, !.readonlyRoot = FALSE]
MCSpecs == {("a" :> s) @@ ("b" :> t) : s \in All, t \in {Plain, Neighbour}}

\* For the known counterexamples of README.md.
MCSlave == {[i \in Inits |-> [Plain EXCEPT !.mounts = <<OwnProc, OwnDev>>, !.propagation = "slave"]]}
MCBelow == {[i \in Inits |-> [Plain EXCEPT !.mounts = <<OwnProc, Mount(Sys, "hostDir", FALSE)>>,
                                            !.sysctl = FALSE, !.readonly = <<Proc>>]]}
\* Paths that another container makes, or that the runtime removes.
MCBeside == {("a" :> s) @@ ("b" :> Neighbour) : s \in
    {[Plain EXCEPT !.mounts = <<OwnDev>>, !.sysctl = FALSE, !.readonly = <<Proc>>, !.readonlyRoot = FALSE],
     [Plain EXCEPT !.mounts = <<OwnProc, Mount(OldRoot, "hostDir", TRUE)>>, !.readonlyRoot = FALSE]}}

Empty == [p \in {Top} |-> "dir"]
\* What an earlier container that was killed leaves: mount points and .oldroot.
Used  == [p \in {Top, Proc, Dev, Data, OldRoot} |-> "dir"] @@ (Node :> "device") @@ (Link :> "link")
MCDisks == {Empty, Used}

MCHosts == {[lacksNode |-> l, procThere |-> p, locked |-> l] : l, p \in BOOLEAN}
=============================================================================
