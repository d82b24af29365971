------------------------------ MODULE WorldPages ------------------------------
(***************************************************************************)
(* PagesService: the pages of a world, composed with the characters some   *)
(* of them describe.  A page is created under the first free slug, edited  *)
(* with or without the version its client had loaded, renamed, given a     *)
(* type with a character or without one, and deleted.                      *)
(*                                                                         *)
(* Left out: who may read what, proposals of players, protected tabs, the  *)
(* search index, favourites and reserved slugs.  Two writes of a page have *)
(* different versions; updatedAt is in milliseconds.                       *)
(***************************************************************************)
EXTENDS Characters

VARIABLES
  page,         \* pages
  desk,         \* what a request knows of its page
  renamed,      \* history: pages that got another slug
  halfway,      \* history: pages whose type was changed by half, or over another change
  phantom       \* history: pages saved in a world that was no longer active

paper == <<page, desk, renamed, halfway, phantom>>
vars == <<people, paper>>

NoPage == [exists |-> FALSE, slug |-> <<Notes, 1>>, type |-> "wiki", ref |-> Nobody,
           version |-> 0]

Init ==
  /\ CharactersInit
  /\ page = [g \in Pages |->
       CASE g = sheet -> [NoPage EXCEPT !.exists = TRUE, !.slug = <<Heroes, 1>>,
                                        !.type = "sheet", !.ref = hero]
         [] g = note -> [NoPage EXCEPT !.exists = TRUE]
         [] OTHER -> NoPage]
  /\ desk = [p \in Requests |-> [slug |-> Op(p).slug, was |-> NoPage, loaded |-> 0]]
  /\ renamed = {} /\ halfway = {} /\ phantom = {}

-----------------------------------------------------------------------------
Slugged(slug) == {g \in Pages : page[g].exists /\ page[g].slug = slug}
Filed == UNCHANGED paper
Stay == Keep /\ Filed
Refuse(p) == End(p, "refused") /\ Stay
Step(p, guard, pc) == IF guard THEN Goto(p, pc) /\ Stay ELSE Refuse(p)

Call(p, pc, slug, c, then) ==
  proc' = [proc EXCEPT ![p].pc = pc, ![p].slug = slug, ![p].c = c, ![p].then = then]

(* The page a request is about: the new one, or the one it names. *)
Mine(p) == IF Op(p).kind = "create" THEN p ELSE Op(p).page
NewType(p) == IF Op(p).type = "same" THEN desk[p].was.type ELSE Op(p).type
NeedsCharacter(p) == NewType(p) # "wiki"

-----------------------------------------------------------------------------
(***************************************************************************)
(* ensureAvailableSlug, for a new page and for a new name: neither a page  *)
(* nor a character has the slug.                                           *)
(***************************************************************************)
Suffixed(slug) == <<slug[1], slug[2] + 1>>

SlugPage(p) ==
  /\ At(p, "slug") /\ Keep /\ UNCHANGED <<page, renamed, halfway, phantom>>
  /\ IF Slugged(desk[p].slug) # {}
     THEN desk' = [desk EXCEPT ![p].slug = Suffixed(@)] /\ UNCHANGED proc
     ELSE Goto(p, "slugged") /\ UNCHANGED desk

(* Where an edit goes on: a character is made, or its kind follows.        *)
Proceed(p) ==
  LET was == desk[p].was IN
  IF NeedsCharacter(p) /\ was.ref = Nobody THEN Call(p, "create", was.slug, Nobody, "write")
  ELSE IF Op(p).type # "same" /\ was.ref # Nobody THEN Call(p, "sync", Op(p).slug, was.ref, "write")
  ELSE Goto(p, "write")

(* Mutant: the character is made under the slug that was asked for. *)
UnderAskedSlug(p) ==
  /\ At(p, "slugged") /\ Keep /\ UNCHANGED <<page, renamed, halfway, phantom>>
  /\ IF Named(desk[p].slug) # {}
     THEN desk' = [desk EXCEPT ![p].slug = Suffixed(@)] /\ Goto(p, "slug")
     ELSE /\ UNCHANGED desk
          /\ IF Op(p).kind = "edit" THEN Proceed(p)
             ELSE IF NeedsCharacter(p) THEN Call(p, "create", Op(p).slug, Nobody, "page")
             ELSE Goto(p, "page")

SlugCharacter(p) ==
  /\ At(p, "slugged") /\ Keep /\ UNCHANGED <<page, renamed, halfway, phantom>>
  /\ IF Named(desk[p].slug) # {}
     THEN desk' = [desk EXCEPT ![p].slug = Suffixed(@)] /\ Goto(p, "slug")
     ELSE /\ UNCHANGED desk
          /\ IF Op(p).kind = "edit" THEN Proceed(p)
             ELSE IF NeedsCharacter(p) THEN Call(p, "create", desk[p].slug, Nobody, "page")
             ELSE Goto(p, "page")

-----------------------------------------------------------------------------
(***************************************************************************)
(* create: first the character, then the page.                             *)
(***************************************************************************)
CreateMay(p) == Is(p, {"create"}, "start") /\ Step(p, world, "slug")

(* Mutant: before DI-04. *)
NoUndo(p) == End(p, "refused")

(* DI-04: the character that was made for the page is deleted, by slug.    *)
Undo(p) ==
  IF NeedsCharacter(p)
  THEN proc' = [proc EXCEPT ![p].pc = "erase", ![p].slug = desk[p].slug, ![p].failing = TRUE]
  ELSE End(p, "refused")

(* The slug is unique within a world. *)
SavePage(p) ==
  /\ At(p, "page") /\ Keep /\ UNCHANGED <<desk, renamed, halfway>>
  /\ IF Slugged(desk[p].slug) # {} THEN Undo(p) /\ UNCHANGED <<page, phantom>>
     ELSE /\ page' = [page EXCEPT ![p] =
               [exists |-> TRUE, slug |-> desk[p].slug, type |-> Op(p).type,
                ref |-> IF NeedsCharacter(p) THEN p ELSE Nobody, version |-> 0]]
          /\ phantom' = IF world THEN phantom ELSE phantom \cup {p}
          /\ Goto(p, "again")

(* RC-D2: is the world still active? *)
WorldAgain(p) ==
  /\ At(p, "again") /\ Stay
  /\ IF world THEN End(p, "ok") ELSE Goto(p, "unsave")

(* An error of that look, or of the deletion, which is swallowed. *)
UnsaveFails(p) ==
  /\ At(p, "again") \/ At(p, "unsave")
  /\ Spare /\ Leave(p, "page") /\ Undo(p)
  /\ Filed /\ UNCHANGED <<world, character, owned, owning, dead>>

Unsave(p) ==
  /\ At(p, "unsave") /\ Undo(p) /\ Keep
  /\ page' = [page EXCEPT ![p].exists = FALSE]
  /\ UNCHANGED <<desk, renamed, halfway, phantom>>

(* The error of that deletion is logged, and the first one answered. *)
UndoFails(p) ==
  /\ At(p, "erase") \/ At(p, "vanish")
  /\ proc[p].failing /\ Spare /\ Leave(p, "character") /\ End(p, "refused")
  /\ Filed /\ UNCHANGED <<world, character, owned, owning, dead>>

-----------------------------------------------------------------------------
(***************************************************************************)
(* update: the client has loaded the page before.                          *)
(***************************************************************************)
Load(p) ==
  /\ Is(p, {"edit"}, "start") /\ Keep /\ UNCHANGED <<page, renamed, halfway, phantom>>
  /\ IF ~page[Mine(p)].exists THEN End(p, "refused") /\ UNCHANGED desk
     ELSE Goto(p, "read") /\ desk' = [desk EXCEPT ![p].loaded = page[Mine(p)].version]

ReadPage(p) ==
  /\ Is(p, {"edit"}, "read") /\ Keep /\ UNCHANGED <<page, renamed, halfway, phantom>>
  /\ IF ~page[Mine(p)].exists THEN End(p, "refused") /\ UNCHANGED desk
     ELSE Goto(p, "may") /\ desk' = [desk EXCEPT ![p].was = page[Mine(p)]]

Renames(p) == Op(p).slug \notin {Nobody, desk[p].was.slug}
Unchanged(p) == Op(p).guarded => desk[p].was.version = desk[p].loaded

(* assertCanEditPage, and the version of what was read.                    *)
MayEdit(p) ==
  /\ Is(p, {"edit"}, "may") /\ Stay
  /\ IF ~world \/ ~Unchanged(p) THEN End(p, "refused")
     ELSE IF Renames(p) THEN Goto(p, "slug")
     ELSE Proceed(p)

Made(p) == NeedsCharacter(p) /\ desk[p].was.ref = Nobody
Synced(p) == Op(p).type # "same" /\ desk[p].was.ref # Nobody

(* What the patch leaves of the page that is there now.  A reference that  *)
(* is undefined is not written, so none is ever cleared.                   *)
Patched(p, is) ==
  [exists |-> TRUE, version |-> is.version + 1,
   slug |-> IF Op(p).slug = Nobody THEN is.slug ELSE desk[p].slug,
   type |-> IF Op(p).type = "same" THEN is.type ELSE Op(p).type,
   ref |-> IF Made(p) THEN p ELSE is.ref]

Write(p, accepted) ==
  LET g == Mine(p)
      is == page[g] IN
  /\ Is(p, {"edit"}, "write") /\ Keep /\ UNCHANGED <<desk, phantom>>
  /\ IF is.exists /\ accepted /\ Slugged(Patched(p, is).slug) \subseteq {g}
     THEN /\ page' = [page EXCEPT ![g] = Patched(p, is)]
          /\ renamed' = IF Patched(p, is).slug = is.slug THEN renamed ELSE renamed \cup {g}
          /\ halfway' = IF Op(p).type = "same" \/ is.version = desk[p].was.version
                        THEN halfway ELSE halfway \cup {g}
          /\ End(p, "ok")
     ELSE /\ End(p, "refused") /\ UNCHANGED <<page, renamed>>
          /\ halfway' = IF Synced(p) THEN halfway \cup {g} ELSE halfway

(* Mutant: before RC-P1. *)
WriteAnyVersion(p) == Write(p, TRUE)

(* RC-P1: with the version the client had loaded, or any (RC-P4).          *)
WritePage(p) == Write(p, Op(p).guarded => page[Mine(p)].version = desk[p].loaded)

-----------------------------------------------------------------------------
(***************************************************************************)
(* delete; and the deletion of the world, which pages only see.            *)
(***************************************************************************)
DeleteMay(p) == Is(p, {"discard"}, "start") /\ Step(p, world, "find")
DeleteFind(p) == Is(p, {"discard"}, "find") /\ Step(p, page[Mine(p)].exists, "drop")

DropPage(p) ==
  /\ Is(p, {"discard"}, "drop") /\ End(p, "ok") /\ Keep
  /\ page' = [page EXCEPT ![Mine(p)].exists = FALSE]
  /\ UNCHANGED <<desk, renamed, halfway, phantom>>

CloseWorld(p) ==
  /\ Is(p, {"close"}, "start") /\ End(p, "ok") /\ Filed
  /\ world' = FALSE /\ UNCHANGED <<character, owned, owning, dead, junk>>

Next ==
  \/ CharactersNext /\ Filed
  \/ \E p \in Requests :
       \/ SlugPage(p) \/ SlugCharacter(p)
       \/ CreateMay(p) \/ SavePage(p) \/ WorldAgain(p) \/ Unsave(p)
       \/ UnsaveFails(p) \/ UndoFails(p)
       \/ Load(p) \/ ReadPage(p) \/ MayEdit(p) \/ WritePage(p)
       \/ DeleteMay(p) \/ DeleteFind(p) \/ DropPage(p) \/ CloseWorld(p)

Spec == Init /\ [][Next]_vars

-----------------------------------------------------------------------------
(***************************************************************************)
(* DI-04, RC-D2: a creation that failed leaves neither its page nor its    *)
(* character, unless their deletion, or a listener of the character,       *)
(* failed; and one whose page was saved in a world no longer active does   *)
(* fail.                                                                   *)
(***************************************************************************)
CreateAllOrNothing ==
  \A p \in Requests : Op(p).kind = "create" /\ proc[p].pc = "done" =>
    /\ proc[p].answer = "refused" =>
         /\ ~page[p].exists \/ <<p, "page">> \in junk
         /\ ~character[p].exists \/ <<p, "character">> \in junk
    /\ p \in phantom => proc[p].answer = "refused"

(***************************************************************************)
(* RC-P1: of the edits that send the version of the page they started      *)
(* from, one per version succeeds.                                         *)
(***************************************************************************)
OneEditPerVersion ==
  \A p, q \in {r \in Requests : Op(r).kind = "edit" /\ Op(r).guarded /\ proc[r].answer = "ok"
                                /\ proc[r].pc = "done"} :
    Mine(p) = Mine(q) /\ desk[p].loaded = desk[q].loaded => p = q

(* An edit of g has changed its character and not yet the page, or died.   *)
Pending(g) ==
  \E p \in Requests : proc[p].pc \in {"resync", "write"} /\ Mine(p) = g /\ Synced(p)

(***************************************************************************)
(* ensureAvailableSlug: "Page.slug == Character.slug je invariant"; and    *)
(* syncKind.  The character of a page has its slug, unless the page was    *)
(* renamed, and its kind, unless an edit is on its way, was refused after  *)
(* the character was changed, or wrote over another.                       *)
(***************************************************************************)
ReferenceExplained ==
  \A g \in Pages : LET ref == page[g].ref IN
    page[g].exists /\ ref \in {c \in Characters : character[c].exists} =>
      /\ character[ref].slug = page[g].slug \/ g \in renamed
      /\ \/ page[g].type = "wiki" \/ g \in halfway \/ Pending(g)
         \/ character[ref].place <=> page[g].type = "place"

=============================================================================
