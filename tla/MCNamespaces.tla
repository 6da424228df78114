---------------------------- MODULE MCNamespaces ----------------------------
(* Instances of Namespaces for TLC.                                        *)
EXTENDS Namespaces

New(type) == [type |-> type, path |-> ""]
At(type, path) == [type |-> type, path |-> path]
Map(i, o, n) == [inside |-> i, outside |-> o, size |-> n]
User(u, start, count) == [user |-> u, start |-> start, count |-> count]

\* The namespaces of a pod, one of another container in a user namespace, and
\* one of each kind a Go program cannot join.
MCPaths ==
    [podnet   |-> [kind |-> "network", owner |-> "initial"],
     poduts   |-> [kind |-> "uts",     owner |-> "initial"],
     podpid   |-> [kind |-> "pid",     owner |-> "initial"],
     othernet |-> [kind |-> "network", owner |-> "other"],
     mnt      |-> [kind |-> "mount",   owner |-> "initial"]]

\* The defaults of pkg/oci, pods, and what is missing or not supported.
MCNamespaceLists ==
    {<<>>, <<New("mount")>>, <<New("uts"), New("mount")>>,
     <<New("user"), New("mount"), New("uts"), New("network")>>, <<New("user")>>,
     <<At("network", "podnet"), New("mount"), At("uts", "poduts")>>,
     <<New("mount"), At("network", "podnet"), At("pid", "podpid")>>,
     <<New("user"), At("network", "othernet"), New("mount")>>,
     <<At("network", "othernet"), New("mount")>>, <<At("uts", "podnet"), New("mount")>>,
     <<At("mount", "mnt"), New("pid")>>, <<New("time"), New("mount")>>, <<New("unknown")>>,
     <<At("network", "podnet"), New("network"), New("mount")>>, <<At("mount", "podnet"), New("uts")>>}

\* One id, a range, the range twice; a map of the caller, of others.
MCMaps ==
    {<<>>, <<Map(0, 5, 1)>>, <<Map(0, 0, 1)>>, <<Map(0, 5, 1), Map(1, 10, 3)>>,
     <<Map(0, 10, 3)>>, <<Map(0, 5, 1), Map(1, 10, 3), Map(2, 11, 1)>>}

MCSpecs ==
    {[namespaces |-> n, uids |-> m, gids |-> g, hostname |-> h] :
        n \in MCNamespaceLists, m \in MCMaps, g \in {<<>>, <<Map(0, 5, 1)>>}, h \in BOOLEAN} \cup
    {[namespaces |-> n, uids |-> m, gids |-> m, hostname |-> TRUE] :
        n \in MCNamespaceLists, m \in MCMaps}

\* The caller is root, or user 5 of group 5 or 6 with one line, with two, with
\* none, with one that gives nothing or the user's own id; another user's line
\* comes first.
MCFiles == {<<>>, <<User(6, 20, 3), User(5, 10, 3)>>, <<User(5, 10, 3), User(5, 13, 2)>>, <<User(5, 0, 0)>>,
            <<User(5, 4, 3)>>}
MCHosts ==
    {[uid |-> 0, gid |-> 0, subuid |-> <<>>, subgid |-> <<>>, helpers |-> TRUE]} \cup
    {[uid |-> 5, gid |-> g, subuid |-> f, subgid |-> f, helpers |-> h] :
        g \in {5, 6}, f \in MCFiles, h \in BOOLEAN} \cup
    {[uid |-> 5, gid |-> 5, subuid |-> f, subgid |-> <<>>, helpers |-> TRUE] : f \in MCFiles}
=============================================================================
