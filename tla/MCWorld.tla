-------------------------------- MODULE MCWorld --------------------------------
(***************************************************************************)
(* One world: its owner o, a helper h, a player p, a stranger s, and a     *)
(* platform administrator who is no member.                                *)
(***************************************************************************)
EXTENDS WorldMembership, TLC

CONSTANTS o, h, p, s, admin, r1, r2, r3, toS, link, seed

MCMembers == [u \in Users |->
  CASE u = o -> [role |-> PJ, id |-> Seed]
    [] u = h -> [role |-> PomocnyPJ, id |-> Seed]
    [] u = p -> [role |-> Hrac, id |-> Seed]
    [] OTHER -> NoMember]

ToStranger == [kind |-> "user", user |-> s, used |-> 0, max |-> 0, late |-> FALSE,
             status |-> "pending"]
OneUse == [ToStranger EXCEPT !.kind = "link", !.user = o, !.max = 1]

Open == [exists |-> TRUE, owner |-> o, players |-> 1, deleted |-> FALSE,
         old |-> FALSE, mode |-> "open"]

Applied(draft) == [u \in Users |->
  IF u = s THEN [open |-> TRUE, draft |-> draft, id |-> Seed] ELSE NoApplication]

Begin(w, apps, l, tx) ==
  [world |-> w, members |-> MCMembers, applications |-> apps, replicaSet |-> tx,
   invites |-> (toS :> ToStranger) @@ (link :> l)]

(* An open world with an application, with a draft or without, a public    *)
(* one with a link that is over, and one that has been deleted.            *)
MCBeginnings ==
  {Begin(Open, Applied(FALSE), OneUse, TRUE), Begin(Open, Applied(FALSE), OneUse, FALSE),
   Begin(Open, Applied(TRUE), OneUse, TRUE),
   Begin([Open EXCEPT !.mode = "public"], [u \in Users |-> NoApplication],
         [OneUse EXCEPT !.late = TRUE], TRUE),
   Begin([Open EXCEPT !.deleted = TRUE], Applied(FALSE), OneUse, TRUE)}

Blank == [kind |-> "join", by |-> o, on |-> o, role |-> 0, draft |-> FALSE,
          invite |-> link, mode |-> "closed"]

Does(by, kind, on) == [Blank EXCEPT !.kind = kind, !.by = by, !.on = on]
Sets(by, on, role) == [Does(by, "role", on) EXCEPT !.role = role]
Uses(by, kind, invite) == [Does(by, kind, s) EXCEPT !.invite = invite]

Coming ==
  {Does(s, "join", s), Does(s, "apply", s), [Does(s, "apply", s) EXCEPT !.draft = TRUE],
   Does(s, "cancel", s), Does(o, "approve", s), Does(o, "reject", s),
   Does(o, "invite", s), [Does(o, "invite", s) EXCEPT !.draft = TRUE],
   Uses(o, "revoke", toS), Uses(s, "accept", toS), Uses(s, "decline", toS),
   Uses(s, "follow", link), Does(s, "leave", s), Does(o, "mode", o)}

Governed ==
  {Sets(o, p, Zadatel), Sets(o, s, Hrac), Sets(o, p, PomocnyPJ),
   Does(p, "leave", p), Does(h, "leave", p), Does(h, "leave", o), Does(o, "leave", o),
   Does(o, "transfer", p), Does(o, "transfer", h), Does(h, "handover", o),
   Does(o, "approve", s)}

Over ==
  {Does(o, "delete", o), Does(admin, "restore", admin), Does(admin, "restore", h),
   Does(admin, "closeAccount", o), Does(admin, "purge", o), Does(o, "transfer", h),
   Uses(s, "accept", toS), Sets(o, p, Ctenar), Does(o, "mode", o)}

(* The requests of a run are all of one kind. *)
MCPlans == [Requests -> Coming] \cup [Requests -> Governed] \cup [Requests -> Over]

Interchangeable == Permutations(Requests)

=============================================================================
