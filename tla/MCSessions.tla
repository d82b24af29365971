------------------------------- MODULE MCSessions -------------------------------
(***************************************************************************)
(* One user with a session on the desk and one on the phone.               *)
(***************************************************************************)
EXTENDS LoginSessions, TLC

CONSTANTS desk, phone, r1, r2, r3

Usual == [password |-> 0, totp |-> FALSE, pending |-> FALSE, banned |-> FALSE]

MCBeginnings ==
  {[account |-> a, open |-> {desk, phone}] : a \in {Usual, [Usual EXCEPT !.totp = TRUE]}}
  \cup {[account |-> a, open |-> {}] :
           a \in {[Usual EXCEPT !.pending = TRUE], [Usual EXCEPT !.banned = TRUE]}}

Does(kind, b) == [kind |-> kind, by |-> b, password |-> 0, of |-> r1]

MCOperations ==
  {Does("refresh", desk), Does("refresh", phone), Does("login", desk),
   Does("totp", desk), Does("logout", desk), Does("logoutAll", phone),
   Does("change", desk), Does("forgot", desk), Does("reset", desk),
   Does("close", desk), Does("reopen", desk), Does("cancel", desk),
   Does("ban", desk), Does("unban", desk)}

(* A second factor and a reset answer what r1 was sent. *)
MCPlans ==
  {p \in [Requests -> MCOperations] :
     \A r \in Requests :
       /\ p[r].kind = "totp" => p[r1].kind = "login"
       /\ p[r].kind = "reset" => p[r1].kind = "forgot"}

(* r1 may be answered by the others, which are alike. *)
MCLater == Permutations({r2, r3})

=============================================================================
