---------------------------- MODULE MCLspRequests ----------------------------
(* Small instances of LspRequests for TLC.  a..f are calls, k the only key. *)
EXTENDS LspRequests, TLC, FiniteSets

CONSTANTS a, b, c, d, e, f, k

(* Three completions of one document, issued by the editor in the order a, b,
   c, whose tasks may reach the client in any order; a plain request e and a
   notification f of the daemon's loop; a barrier that retires the client
   (shutdown d follows) or keeps it. *)
CallKind == [t \in {a, b, c} |-> "latest"] @@ (d :> "shutdown")
              @@ (e :> "plain") @@ (f :> "notify")
CallKey  == [t \in {a, b, c, d, e, f} |-> k]
CallSeq  == (a :> 1) @@ (b :> 2) @@ (c :> 3) @@ (d :> 4) @@ (e :> 5) @@ (f :> 6)

(* At most three take part at once: the three completions, or two with a
   barrier, or one and a request or a notification with a barrier. *)
Begun(t) == pc[t] # "idle"
FewAtOnce ==
    /\ Cardinality({t \in {a, b, c, e, f} : Begun(t)}) + barriers <= 3
    /\ Begun(e) \/ Begun(f) => ~Begun(b) /\ ~Begun(c)

(* Two completions, with no end of the session or around a barrier. *)
PairKind == [t \in {a, b} |-> "latest"]
PairKey  == [t \in {a, b} |-> k]
PairSeq  == (a :> 1) @@ (b :> 2)
=============================================================================
