---------------------------- MODULE MCInstaller ----------------------------
(***************************************************************************)
(* Instance of Installer: archives within and beyond the limits in each    *)
(* way the three kinds can be.                                             *)
(***************************************************************************)
EXTENDS Installer

File(n) == [size |-> n, fine |-> TRUE]
Link == [size |-> 0, fine |-> FALSE]

SmallArchives ==
  {[kind |-> "gz", entries |-> <<File(n)>>] : n \in {1, 2, 3}}
    \union {[kind |-> k, entries |-> e] : k \in {"tar", "zip"},
              e \in {<<File(1), File(1)>>, <<File(2), File(1)>>,
                     <<File(1), Link>>, <<File(0), File(0), File(0)>>}}

Symmetry == Permutations(Install) \union Permutations(Process)
=============================================================================
