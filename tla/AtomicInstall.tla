--------------------------- MODULE AtomicInstall ---------------------------
(***************************************************************************)
(* What the installer promises about one managed server: its installation  *)
(* is replaced as a whole, by a newer one, and is never lost, whatever     *)
(* fails or dies on the way.  The promise ends when a backup is put back   *)
(* or made under an older stamp than that of another backup, which takes   *)
(* two daemons whose promotions or recoveries overlap, or a clock that     *)
(* goes back (`collided'); from then on nothing is promised.               *)
(***************************************************************************)
CONSTANTS Version, None

VARIABLES installed, retired, collided

vars == <<installed, retired, collided>>

Init == /\ installed \in Version \union {None}
        /\ retired = {}
        /\ collided = FALSE

Replace(v) == /\ ~collided
              /\ v \notin retired \union {installed}
              /\ installed' = v
              /\ retired' = retired \union ({installed} \ {None})
              /\ UNCHANGED collided

Collide == /\ collided' = TRUE
           /\ installed' \in Version \union {None}
           /\ retired' \in SUBSET Version

Next == Collide \/ \E v \in Version : Replace(v)

Spec == Init /\ [][Next]_vars

=============================================================================
