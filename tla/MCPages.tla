-------------------------------- MODULE MCPages --------------------------------
(***************************************************************************)
(* A hero with a page, a squire, an account of both and a page without a   *)
(* character.                                                              *)
(***************************************************************************)
EXTENDS WorldPages, TLC

CONSTANTS r1, r2, r3

Does(kind) ==
  [kind |-> kind, slug |-> <<Heroes, 1>>, who |-> squire, npc |-> TRUE, page |-> sheet,
   type |-> "same", guarded |-> FALSE]
At1(o, base) == [o EXCEPT !.slug = <<base, 1>>]

Creating == {[Does("create") EXCEPT !.type = t] : t \in {"wiki", "sheet", "place"}}
Edit(g, t, guarded) ==
  [Does("edit") EXCEPT !.slug = Nobody, !.page = g, !.type = t, !.guarded = guarded]
Editing ==
  {Edit(sheet, t, guarded) : t \in {"wiki", "place"}, guarded \in BOOLEAN}
  \cup {Edit(note, "sheet", TRUE), Edit(note, "place", FALSE), Edit(sheet, "same", TRUE)}
Renaming ==
  {[Edit(g, "same", g = sheet) EXCEPT !.slug = s] :
     s \in {<<Squires, 1>>, <<Notes, 1>>}, g \in {sheet, note}}
Removing == {Does("close"), Does("discard"), Does("delete"), At1(Does("delete"), Notes)}

Owning ==
  {Does(k) : k \in {"account", "add", "remove", "pass", "delete"}}
  \cup {At1(Does(k), Squires) : k \in {"account", "delete"}}
Keeping ==
  {Does("open"), Does("convert"), [Does("convert") EXCEPT !.npc = FALSE],
   Does("delete"), Does("close")}

(* What concerns pages; accounts; and the inventory of a hero, or of a     *)
(* character that is made anew.                                            *)
MCPlans ==
  [Requests -> Creating \cup Editing \cup Renaming \cup Removing]
  \cup [Requests -> Owning] \cup [Requests -> Keeping]
  \cup {plan \in [Requests -> {At1(Does(k), Notes) : k \in {"post", "delete", "open"}}] :
          \E p \in Requests : plan[p].kind = "post"}

(* Requests are alike. *)
MCAlike == Permutations(Requests)

=============================================================================
