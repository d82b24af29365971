--------------------------- MODULE TransferPromise ---------------------------
(***************************************************************************)
(* What `transfer' promises its callers, without requests' steps, balances *)
(* or documents: a transfer happens on both accounts at once, at most once *)
(* per nonce and source account; who asked for one that was made is told   *)
(* "ok", or nothing if the connection or the process died, but never that  *)
(* it failed; "replayed" is told only of one that was made.                *)
(* CharacterAccounts with a replica set implements this specification.     *)
(***************************************************************************)
CONSTANTS Requests, Accounts, NoNonce

VARIABLES
  asked,      \* asked[r]: [from, to, nonce], fixed
  open,       \* the accounts that exist
  debited,    \* requests whose debit is on their source
  credited,   \* requests whose credit is on their target
  done,       \* requests whose transfer was made
  told        \* told[r]: the answer, "none" while there is none

vars == <<asked, open, debited, credited, done, told>>

Init ==
  /\ open \subseteq Accounts
  /\ debited = {} /\ credited = {} /\ done = {}
  /\ told = [r \in Requests |-> "none"]

SameIntent(q, r) ==
  /\ asked[r].nonce # NoNonce
  /\ asked[q].nonce = asked[r].nonce /\ asked[q].from = asked[r].from

Tell(r, answer) ==
  told[r] = "none" /\ told' = [told EXCEPT ![r] = answer]

(* Both legs in one step; the nonce must not be on the source yet. *)
Execute(r) ==
  /\ r \notin done /\ told[r] = "none"
  /\ {asked[r].from, asked[r].to} \subseteq open
  /\ \A q \in debited : ~SameIntent(q, r)
  /\ debited' = debited \cup {r} /\ credited' = credited \cup {r}
  /\ done' = done \cup {r}
  /\ UNCHANGED <<asked, open, told>>

(* The answer may never come; a duplicate may have its own before it. *)
Confirm(r) ==
  /\ r \in done /\ Tell(r, "ok")
  /\ UNCHANGED <<asked, open, debited, credited, done>>

Replay(r) ==
  /\ r \notin done /\ \E q \in done : SameIntent(q, r)
  /\ Tell(r, "replayed")
  /\ UNCHANGED <<asked, open, debited, credited, done>>

Fail(r) ==
  /\ r \notin done /\ Tell(r, "error")
  /\ UNCHANGED <<asked, open, debited, credited, done>>

(* An account disappears with its history. *)
Close(a) ==
  /\ a \in open /\ open' = open \ {a}
  /\ debited' = {r \in debited : asked[r].from # a}
  /\ credited' = {r \in credited : asked[r].to # a}
  /\ UNCHANGED <<asked, done, told>>

Next ==
  \/ \E r \in Requests : Execute(r) \/ Confirm(r) \/ Replay(r) \/ Fail(r)
  \/ \E a \in Accounts : Close(a)

Spec == Init /\ [][Next]_vars

=============================================================================
