--------------------------------- MODULE MCChat ---------------------------------
(***************************************************************************)
(* A company with one member, who wrote a message; a second player and the *)
(* game master; two runs of the cron.                                      *)
(***************************************************************************)
EXTENDS WorldChat, TLC

CONSTANTS author, player, boss, r1, r2, r3

MCBeginnings ==
  {(author :> "group") @@ (player :> "other") @@ (boss :> "staff")}

Does(kind, u) ==
  [kind |-> kind, by |-> u, of |-> Nothing, user |-> author, to |-> "other"]
Becomes(u, standing) == [Does("change", boss) EXCEPT !.user = u, !.to = standing]

Writing == {Does("send", author), Does("send", player), Does("send", boss),
            [Does("send", author) EXCEPT !.of = r1]}
Touching == {Does("edit", author), Does("edit", boss), Does("delete", author),
             Does("react", author)}
            \cup {Does(k, boss) : k \in {"hide", "reveal", "remove"}}
World == {Does(k, boss) : k \in {"drop", "close", "restore"}}
Membership == {Becomes(author, "out"), Becomes(player, "group"),
               Becomes(player, "staff"), Becomes(boss, "other")}
Timed == {Does("schedule", author), [Does("cancel", author) EXCEPT !.of = r1]}

(* What is sent again, or cancelled, is what r1 sent or scheduled.         *)
Fits(p) ==
  /\ \A r \in Requests :
       /\ p[r].kind = "send" /\ p[r].of = r1 => r # r1 /\ p[r1] = Does("send", author)
       /\ p[r].kind = "cancel" => p[r1].kind = "schedule"
  /\ Cardinality({r \in Requests : p[r].kind = "schedule"}) <= 1

MCPlans ==
  {p \in [Requests -> Touching \cup World \cup {Becomes(boss, "other")}]
        \cup [Requests -> Writing \cup World \cup Membership \cup Timed] : Fits(p)}

(* r1 may be referred to; the others are alike, and so are the workers. *)
MCLater == Permutations({r2, r3}) \cup Permutations(Workers)

=============================================================================
