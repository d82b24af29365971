-------------------------------- MODULE MCScene --------------------------------
(***************************************************************************)
(* Two scenes; a game master g, two players a and b, and x, who is no      *)
(* member.                                                                 *)
(***************************************************************************)
EXTENDS SceneAssignment, Sequences, TLC

CONSTANTS g, a, b, x, A, B, r1, r2, r3

Default == [kind |-> "undo", by |-> g, who |-> {}, to |-> [u \in Users |-> Nowhere],
            scene |-> A, of |-> r1]

Move(kind, by, who, s) ==
  [Default EXCEPT !.kind = kind, !.by = by, !.who = who, !.to = [u \in Users |-> s]]
Stage(kind, s) == [Default EXCEPT !.kind = kind, !.scene = s]

(* a goes to B and b back to A: two targets. *)
Apart == [Move("restore", g, {a, b}, A) EXCEPT !.to[a] = B]

Mover ==
  <<Move("assign", g, {a}, B), Move("assign", g, {a}, A), Move("assign", g, {x}, B),
    Move("assign", a, {a}, B), Move("unassign", a, {a}, Nowhere),
    Move("bulk", g, {a, b}, B), Apart>>

Stages ==
  <<Stage("delete", A), Stage("delete", B),
    Stage("deactivate", A), Stage("activate", A), Stage("setActive", A)>>

Pairs(n) == {p \in (1..n) \X (1..n) : p[1] <= p[2]}
Plan(first, second, third) == (r1 :> first) @@ (r2 :> second) @@ (r3 :> third)

(* One move against any two steps of staging, any two moves against a      *)
(* deletion, and a move, an undo of it and anything.                       *)
MCPlans ==
  {Plan(Mover[i], Stages[p[1]], Stages[p[2]]) :
     i \in DOMAIN Mover, p \in Pairs(Len(Stages))}
  \cup {Plan(Mover[p[1]], Mover[p[2]], Stages[d]) :
          p \in Pairs(Len(Mover)), d \in {1, 2}}
  \cup {Plan(Mover[i], Stages[d], Default) : i \in DOMAIN Mover, d \in DOMAIN Stages}
  \cup {Plan(Mover[i], Mover[j], Default) : i \in DOMAIN Mover, j \in DOMAIN Mover}

MCBeginnings ==
  {[members |-> {g, a, b},
    at |-> [u \in Users |-> IF u \in {a, b} THEN A ELSE Nowhere]]}

=============================================================================
