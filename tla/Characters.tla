------------------------------ MODULE Characters ------------------------------
(***************************************************************************)
(* CharactersService and what listens to it: characters, the sub-documents *)
(* they own and the owners of their accounts.  Of the five sub-documents   *)
(* one is kept, the inventory: like the others it is made with its         *)
(* character or by whoever first opens it, and it is deleted with it.      *)
(*                                                                         *)
(* create, delete and syncKind are called by PagesService as well: `then'  *)
(* and `otherwise' of a request say where it goes on.                      *)
(*                                                                         *)
(* Left out: rights within a world, the user a character belongs to, the   *)
(* content of characters, the quota of a world, and the listeners that     *)
(* keep names elsewhere.  The money of the accounts is CharacterAccounts.  *)
(***************************************************************************)
EXTENDS Integers, FiniteSets

CONSTANTS
  Requests,
  hero, squire, purse,   \* two characters and an account of both, there at the start
  sheet, note,           \* the page of `hero' and a page without a character
  Bases, Heroes, Squires, Notes,   \* names a slug is made of, and those of the above
  Nobody,
  AccountLimit,          \* ACCOUNTS_PER_CHARACTER_LIMIT
  Plans,
  MaxFaults              \* deaths and failures of a clean-up

Characters == Requests \cup {hero, squire}      \* the others are named by who creates them
Accounts == Requests \cup {purse}
Pages == Requests \cup {sheet, note}
Slugs == Bases \X (1..Cardinality(Requests) + 2)  \* base, base-2, base-3, ...
Types == {"wiki", "sheet", "place"}     \* every other type, Postava hráče, Lokace
Kinds == {"post", "delete", "convert", "open", "account", "add", "remove", "pass",
          "create", "edit", "discard", "close"}

(* `slug' is the address, or the new name if there is one; `who' is the    *)
(* co-owner; `npc' what a character becomes; `page', `type' and `guarded'  *)
(* are of WorldPages.                                                      *)
Operation == [kind: Kinds, slug: Slugs \cup {Nobody}, who: Characters, npc: BOOLEAN,
              page: Pages, type: Types \cup {"same"}, guarded: BOOLEAN]

ASSUME CharactersAssumption ==
  /\ Cardinality({hero, squire, purse, sheet, note}) = 5
  /\ Requests \cap {hero, squire, purse, sheet, note} = {}
  /\ {Heroes, Squires, Notes} \subseteq Bases /\ Cardinality({Heroes, Squires, Notes}) = 3
  /\ IsFiniteSet(Requests) /\ Accounts \cap {"inventory", "accounts"} = {}
  /\ Nobody \notin Characters /\ AccountLimit \in Nat \ {0} /\ MaxFaults \in Nat
  /\ Plans \subseteq [Requests -> Operation]
  /\ \A plan \in Plans : \A p \in Requests : plan[p].kind = "create" => plan[p].type # "same"

VARIABLES
  world,         \* it is active
  character,     \* characters
  inventory,     \* characterinventories: none, shown, hidden
  account,       \* characteraccounts: their owners
  proc, dead,    \* the requests; those that died on their way
  lazily,        \* history: characters whose inventory was made when it was opened
  stale,         \* history: accounts whose owners were written over others than were read
  crowded,       \* history: characters that got an account nobody counted
  junk           \* history: what a clean-up that failed left behind

owned == <<inventory, lazily>>
owning == <<account, stale, crowded>>
people == <<world, character, owned, owning, proc, dead, junk>>

NoCharacter == [exists |-> FALSE, slug |-> <<Heroes, 1>>, npc |-> FALSE, place |-> FALSE]
NoAccount == [exists |-> FALSE, owners |-> {}, primary |-> Nobody]

Idle(o) ==
  [op |-> o, pc |-> "start", then |-> "done", otherwise |-> "done", failing |-> FALSE,
   slug |-> o.slug, c |-> Nobody, had |-> FALSE, count |-> 0, todo |-> {},
   seen |-> [a \in Accounts |-> NoAccount], answer |-> "none"]

CharactersInit ==
  /\ world = TRUE
  /\ character = [c \in Characters |->
       CASE c = hero -> [NoCharacter EXCEPT !.exists = TRUE]
         [] c = squire -> [NoCharacter EXCEPT !.exists = TRUE, !.slug = <<Squires, 1>>]
         [] OTHER -> NoCharacter]
  /\ inventory = [c \in Characters |-> IF c = hero THEN "shown" ELSE "none"]
  /\ account = [a \in Accounts |->
       IF a = purse THEN [exists |-> TRUE, owners |-> {hero, squire}, primary |-> hero]
       ELSE NoAccount]
  /\ \E plan \in Plans : proc = [p \in Requests |-> Idle(plan[p])]
  /\ dead = {} /\ junk = {} /\ lazily = {} /\ stale = {} /\ crowded = {}

-----------------------------------------------------------------------------
Op(p) == proc[p].op
At(p, pc) == proc[p].pc = pc /\ p \notin dead
Is(p, kinds, pc) == Op(p).kind \in kinds /\ At(p, pc)
Owners(a) == account[a].owners

Goto(p, pc) == proc' = [proc EXCEPT ![p].pc = pc]
GoOn(p, pc, answer) ==
  proc' = [proc EXCEPT ![p] = [Idle(Op(p)) EXCEPT !.pc = pc, !.answer = answer]]
End(p, answer) == GoOn(p, "done", answer)
(* A call returns, with or without an error. *)
Return(p, ok) ==
  GoOn(p, IF ok THEN proc[p].then ELSE proc[p].otherwise,
       IF ok /\ ~proc[p].failing THEN "ok" ELSE "refused")
Keep == UNCHANGED <<world, character, owned, owning, dead, junk>>

(* A write fails whose error is swallowed or answered. *)
Spare == Cardinality(dead) + Cardinality(junk) < MaxFaults
Leave(x, what) == junk' = junk \cup {<<x, what>>}

(* assertCanManage. *)
MayManage(p) ==
  /\ Is(p, {"post", "delete", "convert"}, "start") /\ Keep
  /\ IF ~world THEN End(p, "refused")
     ELSE Goto(p, CASE Op(p).kind = "post" -> "create"
                    [] Op(p).kind = "delete" -> "erase"
                    [] OTHER -> "convert")

-----------------------------------------------------------------------------
(***************************************************************************)
(* create.                                                                 *)
(***************************************************************************)
Named(slug) == {c \in Characters : character[c].exists /\ character[c].slug = slug}
Places(p) == Op(p).type = "place"

CreateCheck(p) ==
  /\ At(p, "create") /\ Keep
  /\ IF Named(proc[p].slug) # {} THEN Return(p, FALSE) ELSE Goto(p, "save")

(* The slug is unique within a world. *)
CreateSave(p) ==
  /\ At(p, "save") /\ UNCHANGED <<world, owned, owning, dead, junk>>
  /\ IF Named(proc[p].slug) # {} THEN Return(p, FALSE) /\ UNCHANGED character
     ELSE /\ character' = [character EXCEPT ![p] =
               [exists |-> TRUE, slug |-> proc[p].slug, npc |-> FALSE, place |-> Places(p)]]
          /\ proc' = [proc EXCEPT ![p].pc = "furnish", ![p].c = p]

(* onCharacterCreated: whether the character is still there is not asked.  *)
(* What is there already cannot be made again; if that or another          *)
(* sub-document fails, the character stays, and so does the creation fail  *)
(* when the error of a listener reaches it, which the event emitter may    *)
(* suppress.                                                               *)
Furnish(p) ==
  LET needs == ~Places(p)
      made == IF needs /\ inventory[p] = "none" THEN [inventory EXCEPT ![p] = "shown"]
              ELSE inventory IN
  /\ At(p, "furnish") /\ UNCHANGED <<world, character, lazily, owning, dead>>
  /\ \/ /\ needs => inventory[p] = "none"
        /\ inventory' = made /\ Return(p, TRUE) /\ UNCHANGED junk
     \/ /\ Spare \/ (needs /\ inventory[p] # "none")
        /\ inventory' \in {inventory, made} /\ Leave(p, "character")
        /\ \E ok \in BOOLEAN : Return(p, ok)

-----------------------------------------------------------------------------
(***************************************************************************)
(* delete, and the listeners of character.deleted, which run side by side. *)
(***************************************************************************)
EraseFind(p) ==
  /\ At(p, "erase") /\ Keep
  /\ IF Named(proc[p].slug) = {} THEN Return(p, FALSE)
     ELSE \E c \in Named(proc[p].slug) :
            proc' = [proc EXCEPT ![p].pc = "vanish", ![p].c = c]

Erase(p) ==
  /\ At(p, "vanish") /\ UNCHANGED <<world, owned, owning, dead, junk>>
  /\ character' = [character EXCEPT ![proc[p].c].exists = FALSE]
  /\ proc' = [proc EXCEPT ![p].pc = "cascade", ![p].todo = {"inventory", "accounts"}]

Deletes(p) == At(p, "cascade") /\ proc[p].todo # {}

(* A listener is through; the last of them ends the deletion. *)
Settled(p, rest) ==
  IF rest # {} THEN proc' = [proc EXCEPT ![p].todo = rest]
  ELSE Return(p, TRUE)

CascadeInventory(p) ==
  /\ Deletes(p) /\ "inventory" \in proc[p].todo
  /\ inventory' = [inventory EXCEPT ![proc[p].c] = "none"] /\ lazily' = lazily \ {proc[p].c}
  /\ Settled(p, proc[p].todo \ {"inventory"})
  /\ UNCHANGED <<world, character, owning, dead, junk>>

(* CD-09: a listener that fails is logged, and the others go on; that of   *)
(* the accounts leaves all those it had not come to.                       *)
CascadeFails(p) ==
  /\ Deletes(p) /\ Spare /\ UNCHANGED <<world, character, owned, owning, dead>>
  /\ \/ /\ "inventory" \in proc[p].todo /\ Leave(proc[p].c, "inventory")
        /\ Settled(p, proc[p].todo \ {"inventory"})
     \/ /\ proc[p].todo # {"inventory"} /\ Leave(proc[p].c, "accounts")
        /\ Settled(p, proc[p].todo \cap {"inventory"})

-----------------------------------------------------------------------------
(***************************************************************************)
(* The owners of an account.  Every change reads the account and writes    *)
(* all its owners back; an account that has gone meanwhile stays gone.     *)
(***************************************************************************)
WriteOwners(p, a, owners, primary) ==
  LET gained == owners \ Owners(a) IN
  /\ account' = IF account[a].exists
                THEN [account EXCEPT ![a].owners = owners, ![a].primary = primary]
                ELSE account
  /\ stale' = IF account[a] # proc[p].seen[a] \/ \E c \in gained : ~character[c].exists
              THEN stale \cup {a} ELSE stale
  /\ crowded' = crowded \cup gained
  /\ UNCHANGED <<world, character, owned, dead, junk>>

(* CharacterAccountsService.onCharacterDeleted. *)
CascadeFind(p) ==
  /\ Deletes(p) /\ "accounts" \in proc[p].todo /\ Keep
  /\ LET found == {a \in Accounts : account[a].exists /\ proc[p].c \in Owners(a)}
         rest == (proc[p].todo \ {"accounts"}) \cup found IN
     IF rest = {} THEN Settled(p, {})
     ELSE proc' = [proc EXCEPT ![p].todo = rest, ![p].seen =
                     [a \in Accounts |-> IF a \in found THEN account[a] ELSE NoAccount]]

(* Mutant: the account keeps its primary owner. *)
CascadeKeepsPrimary(p, a) ==
  LET seen == proc[p].seen[a]
      remaining == seen.owners \ {proc[p].c} IN
  /\ Deletes(p) /\ a \in proc[p].todo /\ Settled(p, proc[p].todo \ {a})
  /\ IF remaining = {}
     THEN /\ account' = [account EXCEPT ![a] = NoAccount]
          /\ UNCHANGED <<world, character, owned, stale, crowded, dead, junk>>
     ELSE WriteOwners(p, a, remaining, seen.primary)

(* One account after the other, in any order; one without another owner is *)
(* deleted.  The first who remains inherits: owners are a set here, so any *)
(* of them may.                                                            *)
CascadeOwners(p, a) ==
  LET seen == proc[p].seen[a]
      remaining == seen.owners \ {proc[p].c} IN
  /\ Deletes(p) /\ a \in proc[p].todo /\ Settled(p, proc[p].todo \ {a})
  /\ IF remaining = {}
     THEN /\ account' = [account EXCEPT ![a] = NoAccount]
          /\ UNCHANGED <<world, character, owned, stale, crowded, dead, junk>>
     ELSE \E heir \in IF seen.primary = proc[p].c THEN remaining ELSE {seen.primary} :
            WriteOwners(p, a, remaining, heir)

(* assertSubdocAccess, for a new account and for the inventory. *)
AccountFind(p) ==
  /\ Is(p, {"account"}, "start") /\ Keep
  /\ IF Named(proc[p].slug) = {} THEN End(p, "refused")
     ELSE \E c \in Named(proc[p].slug) : proc' = [proc EXCEPT ![p].pc = "count", ![p].c = c]

AccountsOf(c) == {a \in Accounts : account[a].exists /\ c \in Owners(a)}

(* Mutant: one more than the limit. *)
AccountCountPast(p) ==
  LET n == Cardinality(AccountsOf(proc[p].c)) IN
  /\ Is(p, {"account"}, "count") /\ Keep
  /\ IF n > AccountLimit THEN End(p, "refused")
     ELSE proc' = [proc EXCEPT ![p].pc = "insert", ![p].count = n]

AccountCount(p) ==
  LET n == Cardinality(AccountsOf(proc[p].c)) IN
  /\ Is(p, {"account"}, "count") /\ Keep
  /\ IF n >= AccountLimit THEN End(p, "refused")
     ELSE proc' = [proc EXCEPT ![p].pc = "insert", ![p].count = n]

AccountInsert(p) ==
  LET c == proc[p].c IN
  /\ Is(p, {"account"}, "insert") /\ End(p, "ok")
  /\ account' = [account EXCEPT ![p] = [exists |-> TRUE, owners |-> {c}, primary |-> c]]
  /\ stale' = IF character[c].exists THEN stale ELSE stale \cup {p}
  /\ crowded' = IF Cardinality(AccountsOf(c)) = proc[p].count THEN crowded
                ELSE crowded \cup {c}
  /\ UNCHANGED <<world, character, owned, dead, junk>>

(* addCoOwner, removeCoOwner and transferPrimaryOwnership of `purse'. *)
ReadOwners(p) ==
  LET who == Op(p).who
      is == account[purse] IN
  /\ Is(p, {"add", "remove", "pass"}, "start") /\ Keep
  /\ IF ~is.exists \/ (Op(p).kind = "remove" /\ who = is.primary) THEN End(p, "refused")
     ELSE IF \/ Op(p).kind = "add" /\ who \in Owners(purse)
             \/ Op(p).kind = "pass" /\ who = is.primary
     THEN End(p, "ok")
     ELSE proc' = [proc EXCEPT ![p].pc = "own", ![p].seen[purse] = is]

(* The first two leave the primary owner as it is. *)
AddOwner(p) ==
  /\ Is(p, {"add"}, "own") /\ End(p, "ok")
  /\ WriteOwners(p, purse, proc[p].seen[purse].owners \cup {Op(p).who}, account[purse].primary)

RemoveOwner(p) ==
  /\ Is(p, {"remove"}, "own") /\ End(p, "ok")
  /\ WriteOwners(p, purse, proc[p].seen[purse].owners \ {Op(p).who}, account[purse].primary)

PassOwnership(p) ==
  /\ Is(p, {"pass"}, "own") /\ End(p, "ok")
  /\ WriteOwners(p, purse, proc[p].seen[purse].owners \cup {Op(p).who}, Op(p).who)

-----------------------------------------------------------------------------
(***************************************************************************)
(* getInventory: made when it is first opened.                             *)
(***************************************************************************)
OpenFind(p) ==
  /\ Is(p, {"open"}, "start") /\ Keep
  /\ LET found == {c \in Named(proc[p].slug) : ~character[c].npc /\ ~character[c].place} IN
     IF found = {} THEN End(p, "refused")
     ELSE \E c \in found : proc' = [proc EXCEPT ![p].pc = "look", ![p].c = c]

OpenLook(p) ==
  /\ Is(p, {"open"}, "look") /\ Keep
  /\ IF inventory[proc[p].c] # "none" THEN End(p, "ok") ELSE Goto(p, "lay")

OpenCreate(p) ==
  LET c == proc[p].c IN
  /\ Is(p, {"open"}, "lay") /\ UNCHANGED <<world, character, owning, dead, junk>>
  /\ IF inventory[c] # "none" THEN End(p, "refused") /\ UNCHANGED owned
     ELSE /\ inventory' = [inventory EXCEPT ![c] = "shown"] /\ lazily' = lazily \cup {c}
          /\ Goto(p, "parent")

(* Mutant: before RC-D1. *)
OpenNoParent(p) == Is(p, {"open"}, "parent") /\ End(p, "ok") /\ Keep

(* rollbackIfParentGone. *)
OpenParent(p) ==
  /\ Is(p, {"open"}, "parent") /\ Keep
  /\ IF character[proc[p].c].exists THEN End(p, "ok") ELSE Goto(p, "clear")

(* Its own failure is swallowed. *)
OpenRollback(p) ==
  LET c == proc[p].c IN
  /\ Is(p, {"open"}, "clear") /\ End(p, "refused") /\ UNCHANGED <<world, character, owning, dead>>
  /\ \/ inventory' = [inventory EXCEPT ![c] = "none"] /\ lazily' = lazily \ {c} /\ UNCHANGED junk
     \/ Spare /\ Leave(c, "inventory") /\ UNCHANGED owned

-----------------------------------------------------------------------------
(***************************************************************************)
(* convert: a player's character becomes an NPC, or the other way.  What   *)
(* the update found is not looked at.                                      *)
(***************************************************************************)
ConvertFind(p) ==
  /\ At(p, "convert") /\ Keep
  /\ IF Named(proc[p].slug) = {} THEN End(p, "refused")
     ELSE \E c \in Named(proc[p].slug) : proc' = [proc EXCEPT ![p].pc = "become", ![p].c = c]

ConvertWrite(p) ==
  LET c == proc[p].c IN
  /\ At(p, "become") /\ UNCHANGED <<world, owned, owning, dead, junk>>
  /\ character' = IF character[c].exists
                  THEN [character EXCEPT ![c].npc = Op(p).npc] ELSE character
  /\ Goto(p, IF Op(p).npc THEN "hide" ELSE "refit")

ConvertHide(p) ==
  LET c == proc[p].c IN
  /\ At(p, "hide") /\ End(p, "ok") /\ UNCHANGED <<world, character, lazily, owning, dead, junk>>
  /\ inventory' = [inventory EXCEPT ![c] = IF @ = "none" THEN "none" ELSE "hidden"]

ConvertLook(p) ==
  /\ At(p, "refit") /\ Keep
  /\ proc' = [proc EXCEPT ![p].pc = "fit", ![p].had = inventory[proc[p].c] # "none"]

(* Shown if it was found, made if not; what is there cannot be made again, *)
(* what has gone cannot be shown.                                          *)
ConvertFit(p) ==
  LET c == proc[p].c IN
  /\ At(p, "fit") /\ End(p, "ok") /\ UNCHANGED <<world, character, lazily, owning, dead, junk>>
  /\ inventory' = IF proc[p].had = (inventory[c] # "none")
                  THEN [inventory EXCEPT ![c] = "shown"] ELSE inventory

-----------------------------------------------------------------------------
(***************************************************************************)
(* syncKind: the page of a character has changed its type.                 *)
(***************************************************************************)
SyncFind(p) ==
  LET c == proc[p].c IN
  /\ At(p, "sync") /\ Keep
  /\ Goto(p, IF character[c].exists /\ character[c].place # Places(p) THEN "resync"
             ELSE proc[p].then)

SyncWrite(p) ==
  LET c == proc[p].c IN
  /\ At(p, "resync") /\ Goto(p, proc[p].then) /\ UNCHANGED <<world, owned, owning, dead, junk>>
  /\ character' = IF character[c].exists
                  THEN [character EXCEPT ![c].place = Places(p)] ELSE character

-----------------------------------------------------------------------------
(* A process dies between two steps of a request. *)
Die(p) ==
  /\ p \notin dead /\ proc[p].pc \notin {"start", "done"}
  /\ Spare /\ dead' = dead \cup {p}
  /\ UNCHANGED <<world, character, owned, owning, proc, junk>>

CharactersNext ==
  \E p \in Requests :
    \/ MayManage(p) \/ CreateCheck(p) \/ CreateSave(p) \/ Furnish(p)
    \/ EraseFind(p) \/ Erase(p) \/ CascadeInventory(p) \/ CascadeFind(p) \/ CascadeFails(p)
    \/ \E a \in Accounts : CascadeOwners(p, a)
    \/ AccountFind(p) \/ AccountCount(p) \/ AccountInsert(p)
    \/ ReadOwners(p) \/ AddOwner(p) \/ RemoveOwner(p) \/ PassOwnership(p)
    \/ OpenFind(p) \/ OpenLook(p) \/ OpenCreate(p) \/ OpenParent(p) \/ OpenRollback(p)
    \/ ConvertFind(p) \/ ConvertWrite(p) \/ ConvertHide(p) \/ ConvertLook(p) \/ ConvertFit(p)
    \/ SyncFind(p) \/ SyncWrite(p) \/ Die(p)

-----------------------------------------------------------------------------
(* Who deletes c still has to look after it; or died before. *)
Deleting(c, jobs) ==
  \E p \in Requests : proc[p].pc = "cascade" /\ proc[p].c = c /\ proc[p].todo \cap jobs # {}

(***************************************************************************)
(* RC-D1: an inventory that was made when it was opened does not outlive   *)
(* its character, unless somebody is about to delete it, or died before,   *)
(* or its deletion failed (CD-09, rollbackIfParentGone).                   *)
(***************************************************************************)
OrphanExplained ==
  \A c \in lazily :
    character[c].exists \/ Deleting(c, {"inventory"}) \/ <<c, "inventory">> \in junk \/
    \E p \in Requests : proc[p].pc \in {"parent", "clear"} /\ proc[p].c = c

(***************************************************************************)
(* onCharacterDeleted, co-owners: the primary owner of an account is one   *)
(* of its owners, and every owner exists, unless the account is about to   *)
(* be changed, or was by two requests that did not see each other; or the  *)
(* deletion of the owner failed to take it off (CD-09).                    *)
(***************************************************************************)
OwnershipExplained ==
  \A a \in Accounts : account[a].exists /\ a \notin stale =>
    /\ account[a].primary \in Owners(a)
    /\ \A c \in Owners(a) : \/ character[c].exists \/ Deleting(c, Accounts \cup {"accounts"})
                            \/ <<c, "accounts">> \in junk

(***************************************************************************)
(* Q8.6: no character has more accounts than the limit, unless it got one  *)
(* while they were counted, or as a co-owner.                              *)
(***************************************************************************)
AccountLimitExplained ==
  \A c \in Characters : Cardinality(AccountsOf(c)) <= AccountLimit \/ c \in crowded

=============================================================================
