----------------------------- MODULE MCBundles -----------------------------
(* Instances of Bundles for TLC: who issues which commands.                *)
EXTENDS Bundles

CONSTANTS r1, r2, c1, b1, g1, h1, s1, k1, d1, f1

MCProcs == {r1, r2, c1, b1, g1, h1, s1, k1, d1, f1}

Cmd(kind, from, gpu) == [kind |-> kind, from |-> from, gpu |-> gpu]

MCCommand == [p \in Procs |->
    CASE p = r1 -> Cmd("run", "generated", "no")
      [] p = r2 -> Cmd("run", "generated", "shim")
      [] p = c1 -> Cmd("create", "generated", "no")
      [] p = b1 -> Cmd("create", "given", "no")
      [] p = g1 -> Cmd("run", "given", "shim")
      [] p = h1 -> Cmd("run", "given", "hook")
      [] p = s1 -> Cmd("start", "given", "no")
      [] p = k1 -> Cmd("kill", "given", "no")
      [] p = d1 -> Cmd("delete", "given", "no")
      [] p = f1 -> Cmd("forceDelete", "given", "no")]

Caller(issues, accidents) == [issues |-> issues, accidents |-> accidents]

\* Creators that share a generated bundle, and a delete.
Sharing == Caller({r1, c1, d1}, {"createFails", "initDies"})

\* The life of one container, while what it was made from disappears.
Vanishing == Caller({b1, s1, k1, f1}, {"bundleGone", "rootfsGone", "initDies"})

\* GPU runs that edit the bundle they are given, and one that edits its own.
Editing == Caller({g1, h1, d1}, {"bundleGone"})
EditingOwn == Caller({r2, c1, f1}, {"rootfsGone"})

MCCallers == {Sharing, Vanishing, Editing, EditingOwn}
MCSharing == {Sharing}
MCEditing == {Editing}
MCVanishing == {Vanishing}
=============================================================================
