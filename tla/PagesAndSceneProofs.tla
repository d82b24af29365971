-------------------------- MODULE PagesAndSceneProofs --------------------------
(***************************************************************************)
(* The pages, the characters and the owners of accounts, for any number of *)
(* requests on any of them, and wherever processes die.                    *)
(*                                                                         *)
(* In order: one edit per version; what the variables range over, which    *)
(* needs no more than who may act where; no inventory without a character; *)
(* the limit of accounts; their owners; a creation is whole or nothing;    *)
(* the character of a page.                                                *)
(*                                                                         *)
(* And, a component of its own with no name in common, the scenes: members *)
(* on a scene that is gone, and what the log of the world says.            *)
(***************************************************************************)
EXTENDS WorldPages, SceneAssignment, FiniteSetTheorems, TLAPS

Fields == {"op", "pc", "then", "otherwise", "failing", "slug", "c", "had", "count",
           "todo", "seen", "answer"}

Shape ==
  /\ DOMAIN proc = Requests /\ \A p \in Requests : DOMAIN proc[p] = Fields
  /\ \A p \in Requests : Op(p).page \in Pages /\ Op(p).kind \in Kinds
  /\ DOMAIN desk = Requests
  /\ \A p \in Requests : DOMAIN desk[p] = {"slug", "was", "loaded"} /\ desk[p].loaded \in Nat
  /\ DOMAIN page = Pages
  /\ \A g \in Pages : DOMAIN page[g] = DOMAIN NoPage /\ page[g].version \in Nat

Making == {"create", "save", "furnish"}
Unmade == {"start", "slug", "slugged", "page"} \cup Making

(* Where a request is, and where its calls come back to.                   *)
Course(p) ==
  /\ proc[p].otherwise = "done"
  /\ Op(p).kind = "create" =>
       /\ proc[p].pc \in Unmade \cup {"again", "unsave", "erase", "vanish", "cascade", "done"}
       /\ proc[p].then = IF proc[p].pc \in Making THEN "page" ELSE "done"
  /\ Op(p).kind = "edit" =>
       /\ proc[p].pc \in {"start", "read", "may", "slug", "slugged", "sync", "resync",
                          "write", "done"} \cup Making
       /\ proc[p].pc \in {"sync", "resync"} \cup Making => proc[p].then = "write"
  /\ Op(p).kind \notin {"create", "edit"} =>
       /\ proc[p].pc \notin {"slug", "slugged", "page", "again", "unsave"}
       /\ proc[p].then = "done"

Creates(p) == Op(p).kind = "create" /\ proc[p].pc \in Unmade
Edits(q) == Op(q).kind = "edit"
Begun(q) == proc[q].pc # "start" /\ (proc[q].pc = "done" => proc[q].answer = "ok")
Won(q) == Edits(q) /\ proc[q].pc = "done" /\ proc[q].answer = "ok"

(* A page that is still to be made has not been edited.                    *)
Unmet ==
  \A p \in Requests : Creates(p) =>
    /\ ~page[p].exists
    /\ \A q \in Requests : Edits(q) /\ Op(q).page = p => ~Begun(q)

(* An edit that succeeded has left its version behind.                     *)
Passed ==
  \A q \in Requests : Won(q) /\ Op(q).guarded => desk[q].loaded < page[Op(q).page].version

(* The inductive invariant. *)
EditsConsistent ==
  /\ Shape /\ (\A p \in Requests : Course(p)) /\ Unmet /\ Passed
  /\ OneEditPerVersion

-----------------------------------------------------------------------------
(* What a step of p does to the requests: it leaves the others alone, p    *)
(* keeps its course, it is not on its way to a new page again, and its     *)
(* edit neither starts nor succeeds.                                       *)
Turn(p) ==
  /\ proc[p].pc # "done"
  /\ DOMAIN proc' = Requests /\ DOMAIN proc'[p] = Fields
  /\ \A q \in Requests \ {p} : proc'[q] = proc[q]
  /\ proc'[p].op = proc[p].op
  /\ Course(p)'
  /\ Op(p).kind = "create" /\ proc'[p].pc \in Unmade => proc[p].pc \in Unmade
  /\ Edits(p) /\ proc[p].pc = "start" => ~Begun(p)'
  /\ Won(p)' => Won(p)

(* What it does to the pages: none comes into being, none loses an edit.   *)
Kept ==
  /\ DOMAIN page' = Pages
  /\ \A g \in Pages : /\ DOMAIN page'[g] = DOMAIN NoPage
                      /\ page'[g].version \in Nat /\ page[g].version <= page'[g].version
                      /\ page'[g].exists => page[g].exists
  /\ DOMAIN desk' = Requests
  /\ \A q \in Requests : /\ DOMAIN desk'[q] = {"slug", "was", "loaded"}
                         /\ desk'[q].loaded = desk[q].loaded

(* The four ways in which a step changes its request.                      *)
LEMMA GoOnFrame ==
  ASSUME Shape, NEW p \in Requests, NEW pc, NEW answer, GoOn(p, pc, answer)
  PROVE  /\ DOMAIN proc' = Requests /\ DOMAIN proc'[p] = Fields
         /\ \A q \in Requests \ {p} : proc'[q] = proc[q]
         /\ proc'[p].op = proc[p].op /\ proc'[p].pc = pc /\ proc'[p].answer = answer
         /\ proc'[p].then = "done" /\ proc'[p].otherwise = "done"
BY DEF Shape, GoOn, Idle, Op, Fields

LEMMA GotoFrame ==
  ASSUME Shape, NEW p \in Requests, NEW pc, Goto(p, pc)
  PROVE  /\ DOMAIN proc' = Requests /\ DOMAIN proc'[p] = Fields
         /\ \A q \in Requests \ {p} : proc'[q] = proc[q]
         /\ proc'[p].op = proc[p].op /\ proc'[p].pc = pc /\ proc'[p].answer = proc[p].answer
         /\ proc'[p].then = proc[p].then /\ proc'[p].otherwise = proc[p].otherwise
BY DEF Shape, Goto, Fields

LEMMA CallFrame ==
  ASSUME Shape, NEW p \in Requests, NEW pc, NEW slug, NEW c, NEW then,
         Call(p, pc, slug, c, then)
  PROVE  /\ DOMAIN proc' = Requests /\ DOMAIN proc'[p] = Fields
         /\ \A q \in Requests \ {p} : proc'[q] = proc[q]
         /\ proc'[p].op = proc[p].op /\ proc'[p].pc = pc /\ proc'[p].answer = proc[p].answer
         /\ proc'[p].then = then /\ proc'[p].otherwise = proc[p].otherwise
BY DEF Shape, Call, Fields

LEMMA Frames ==
  ASSUME Shape, NEW p \in Requests, Course(p), proc[p].pc # "done",
         DOMAIN proc' = Requests, DOMAIN proc'[p] = Fields,
         \A q \in Requests \ {p} : proc'[q] = proc[q], proc'[p].op = proc[p].op,
         Course(p)',
         Op(p).kind = "create" /\ proc'[p].pc \in Unmade => proc[p].pc \in Unmade,
         Edits(p) => proc[p].pc # "start" \/ (proc'[p].pc = "done" /\ proc'[p].answer # "ok"),
         Edits(p) => proc'[p].pc # "done" \/ proc'[p].answer # "ok"
  PROVE  Turn(p)
BY DEF Turn, Won, Begun, Edits, Op

LEMMA Ending ==
  ASSUME Shape, NEW p \in Requests, Course(p), proc[p].pc # "done", NEW answer,
         GoOn(p, "done", answer), Edits(p) => answer # "ok"
  PROVE  Turn(p)
<1>1. /\ DOMAIN proc' = Requests /\ DOMAIN proc'[p] = Fields
      /\ \A q \in Requests \ {p} : proc'[q] = proc[q]
      /\ proc'[p].op = proc[p].op /\ proc'[p].pc = "done" /\ proc'[p].answer = answer
      /\ proc'[p].then = "done" /\ proc'[p].otherwise = "done"
  BY GoOnFrame
<1>2. Course(p)'
  BY <1>1 DEF Course, Op, Unmade, Making
<1> QED  BY <1>1, <1>2, Frames DEF Unmade, Making

LEMMA Returning ==
  ASSUME Shape, NEW p \in Requests, Course(p), proc[p].pc # "done", NEW ok \in BOOLEAN,
         Return(p, ok), proc[p].pc \in Making \/ Op(p).kind # "edit"
  PROVE  Turn(p)
<1> DEFINE pc == IF ok THEN proc[p].then ELSE proc[p].otherwise
           answer == IF ok /\ ~proc[p].failing THEN "ok" ELSE "refused"
<1>1. GoOn(p, pc, answer)
  BY DEF Return
<1>2. CASE pc = "done"
  <2>1. Edits(p) => answer # "ok"
    BY <1>2 DEF Course, Edits, Making
  <2> QED  BY <1>1, <1>2, <2>1, Ending
<1>3. CASE pc # "done"
  <2> HIDE DEF answer
  <2>1. /\ DOMAIN proc' = Requests /\ DOMAIN proc'[p] = Fields
        /\ \A q \in Requests \ {p} : proc'[q] = proc[q]
        /\ proc'[p].op = proc[p].op /\ proc'[p].pc = pc
        /\ proc'[p].then = "done" /\ proc'[p].otherwise = "done"
    BY <1>1, GoOnFrame
  <2>2. \/ Op(p).kind = "create" /\ pc = "page" /\ proc[p].pc \in Making
        \/ Op(p).kind = "edit" /\ pc = "write" /\ proc[p].pc \in Making
    BY <1>3 DEF Course, Making
  <2>3. Course(p)'
    BY <2>1, <2>2 DEF Course, Op, Unmade, Making
  <2> QED  BY <2>1, <2>2, <2>3, <1>3, Frames DEF Unmade, Making, Edits
<1> QED  BY <1>2, <1>3

(* A step that only says where its request goes on. *)
Onward(p, pc) ==
  /\ DOMAIN proc' = Requests /\ DOMAIN proc'[p] = Fields
  /\ \A q \in Requests \ {p} : proc'[q] = proc[q]
  /\ proc'[p].op = proc[p].op /\ proc'[p].pc = pc
  /\ proc'[p].then = proc[p].then /\ proc'[p].otherwise = proc[p].otherwise

Others == {"erase", "vanish", "cascade", "convert", "become", "hide", "refit", "fit",
           "count", "insert", "own", "look", "lay", "parent", "clear"}

(* What is no business of an edit goes on with it. *)
LEMMA OnwardOther ==
  ASSUME Shape, NEW p \in Requests, Course(p), proc[p].pc # "done", NEW pc,
         Onward(p, pc), Op(p).kind # "edit",
         \/ pc \in Others /\ Op(p).kind # "create"
         \/ pc \in {"erase", "vanish", "cascade"} /\ Op(p).kind = "create" /\ proc[p].pc \notin Making
         \/ pc \in {"create"} /\ Op(p).kind \notin {"create", "edit"}
  PROVE  Turn(p)
<1>1. Course(p)'
  BY DEF Course, Onward, Op, Unmade, Making, Others
<1> QED  BY <1>1, Frames DEF Onward, Unmade, Making, Edits, Others

LEMMA OnwardMaking ==
  ASSUME Shape, NEW p \in Requests, Course(p), NEW pc \in Making,
         Onward(p, pc), proc[p].pc \in Making
  PROVE  Turn(p)
<1>1. Course(p)'
  BY DEF Course, Onward, Op, Unmade, Making
<1> QED  BY <1>1, Frames DEF Onward, Unmade, Making, Edits

(* Every step of the characters is a turn of its request. *)
LEMMA CharactersTurn ==
  ASSUME Shape, NEW p \in Requests, Course(p)
  PROVE  /\ MayManage(p) => Turn(p)
         /\ CreateCheck(p) \/ CreateSave(p) \/ Furnish(p) => Turn(p)
         /\ EraseFind(p) \/ Erase(p) => Turn(p)
         /\ CascadeInventory(p) \/ CascadeFind(p) \/ CascadeFails(p) => Turn(p)
         /\ \A a \in Accounts : CascadeOwners(p, a) => Turn(p)
         /\ AccountFind(p) \/ AccountCount(p) \/ AccountInsert(p) => Turn(p)
         /\ ReadOwners(p) \/ AddOwner(p) \/ RemoveOwner(p) \/ PassOwnership(p) => Turn(p)
         /\ OpenFind(p) \/ OpenLook(p) \/ OpenCreate(p) => Turn(p)
         /\ OpenParent(p) \/ OpenRollback(p) => Turn(p)
         /\ ConvertFind(p) \/ ConvertWrite(p) \/ ConvertHide(p) => Turn(p)
         /\ ConvertLook(p) \/ ConvertFit(p) => Turn(p)
         /\ SyncFind(p) \/ SyncWrite(p) => Turn(p)
         /\ Die(p) => Turn(p)
<1> USE DEF At, Is
<1>1. MayManage(p) => Turn(p)
  <2>1. ASSUME MayManage(p), End(p, "refused")  PROVE Turn(p)
    BY <2>1, Ending DEF MayManage, End, Edits
  <2>2. ASSUME MayManage(p), NEW pc \in {"create", "erase", "convert"}, Goto(p, pc)
        PROVE  Turn(p)
    <3>1. Onward(p, pc)
      BY <2>2, GotoFrame DEF Onward
    <3> QED  BY <3>1, <2>2, OnwardOther DEF MayManage, Others
  <2> QED  BY <2>1, <2>2 DEF MayManage
<1>2. CreateCheck(p) => Turn(p)
  <2>1. ASSUME CreateCheck(p), Goto(p, "save")  PROVE Turn(p)
    BY <2>1, GotoFrame, OnwardMaking DEF CreateCheck, Onward, Making
  <2> QED  BY <2>1, Returning DEF CreateCheck, Making
<1>3. CreateSave(p) => Turn(p)
  <2>1. ASSUME CreateSave(p), proc' = [proc EXCEPT ![p].pc = "furnish", ![p].c = p]
        PROVE  Turn(p)
    <3>1. Onward(p, "furnish")
      BY <2>1 DEF Onward, Shape, Fields
    <3> QED  BY <3>1, <2>1, OnwardMaking DEF CreateSave, Making
  <2> QED  BY <2>1, Returning DEF CreateSave, Making
<1>4. Furnish(p) => Turn(p)
  BY Returning DEF Furnish, Making
<1>5. ASSUME proc[p].pc \in Others  PROVE Op(p).kind # "edit"
  BY <1>5 DEF Course, Others, Making
<1>6. EraseFind(p) => Turn(p)
  <2>1. ASSUME EraseFind(p), NEW c, proc' = [proc EXCEPT ![p].pc = "vanish", ![p].c = c]
        PROVE  Turn(p)
    <3>1. Onward(p, "vanish")
      BY <2>1 DEF Onward, Shape, Fields
    <3> QED  BY <3>1, <2>1, <1>5, OnwardOther DEF EraseFind, Making, Others
  <2> QED  BY <2>1, <1>5, Returning DEF EraseFind, Others
<1>7. Erase(p) => Turn(p)
  <2> SUFFICES ASSUME Erase(p)  PROVE Turn(p)
    OBVIOUS
  <2>1. Onward(p, "cascade")
    BY DEF Onward, Shape, Fields, Erase
  <2> QED  BY <2>1, <1>5, OnwardOther DEF Erase, Making, Others
<1>8. ASSUME proc[p].pc = "cascade", NEW rest, Settled(p, rest)  PROVE Turn(p)
  <2>1. CASE rest = {}
    BY <2>1, <1>8, <1>5, Returning DEF Settled, Others
  <2>2. CASE rest # {}
    <3>1. Onward(p, "cascade")
      BY <2>2, <1>8 DEF Onward, Shape, Fields, Settled
    <3> QED  BY <3>1, <1>8, <1>5, OnwardOther DEF Making, Others
  <2> QED  BY <2>1, <2>2
<1>9. CascadeInventory(p) \/ CascadeFails(p) => Turn(p)
  BY <1>8 DEF CascadeInventory, CascadeFails, Deletes
<1>10. CascadeFind(p) => Turn(p)
  <2>1. ASSUME CascadeFind(p), NEW rest, NEW seen,
               proc' = [proc EXCEPT ![p].todo = rest, ![p].seen = seen]
        PROVE  Turn(p)
    <3>1. Onward(p, "cascade")
      BY <2>1 DEF Onward, Shape, Fields, CascadeFind, Deletes
    <3> QED  BY <3>1, <2>1, <1>5, OnwardOther DEF CascadeFind, Deletes, Making, Others
  <2> QED  BY <2>1, <1>8 DEF CascadeFind, Deletes
<1>11. \A a \in Accounts : CascadeOwners(p, a) => Turn(p)
  BY <1>8 DEF CascadeOwners, Deletes
<1>12. ASSUME proc[p].pc # "done", Op(p).kind \notin {"edit", "create"}, NEW pc \in Others,
              \/ Goto(p, pc)
              \/ \E c : proc' = [proc EXCEPT ![p].pc = pc, ![p].c = c]
              \/ \E c : proc' = [proc EXCEPT ![p].pc = pc, ![p].count = c]
              \/ \E c : proc' = [proc EXCEPT ![p].pc = pc, ![p].had = c]
              \/ \E c : proc' = [proc EXCEPT ![p].pc = pc, ![p].seen[purse] = c]
       PROVE  Turn(p)
  <2>1. Onward(p, pc)
    BY <1>12 DEF Onward, Shape, Fields, Goto
  <2> QED  BY <2>1, <1>12, OnwardOther
<1>13. ASSUME proc[p].pc # "done", Op(p).kind # "edit", NEW answer, End(p, answer)
       PROVE  Turn(p)
  BY <1>13, Ending DEF End, Edits
<1>14. AccountFind(p) => Turn(p)
  BY <1>12, <1>13 DEF AccountFind, Others
<1>15. AccountCount(p) => Turn(p)
  BY <1>12, <1>13 DEF AccountCount, Others
<1>16. AccountInsert(p) => Turn(p)
  BY <1>13 DEF AccountInsert
<1>17. ReadOwners(p) => Turn(p)
  BY <1>12, <1>13 DEF ReadOwners, Others
<1>18. AddOwner(p) \/ RemoveOwner(p) \/ PassOwnership(p) => Turn(p)
  BY <1>13 DEF AddOwner, RemoveOwner, PassOwnership
<1>19. OpenFind(p) => Turn(p)
  BY <1>12, <1>13 DEF OpenFind, Others
<1>20. OpenLook(p) => Turn(p)
  BY <1>12, <1>13 DEF OpenLook, Others
<1>21. OpenCreate(p) => Turn(p)
  BY <1>12, <1>13 DEF OpenCreate, Others
<1>22. OpenParent(p) => Turn(p)
  BY <1>12, <1>13 DEF OpenParent, Others
<1>23. OpenRollback(p) => Turn(p)
  BY <1>13 DEF OpenRollback
<1>24. ASSUME proc[p].pc \in {"convert", "become", "hide", "refit", "fit"}
       PROVE  Op(p).kind \notin {"edit", "create"}
  BY <1>24 DEF Course, Unmade, Making
<1>25. ConvertFind(p) => Turn(p)
  BY <1>12, <1>13, <1>24 DEF ConvertFind, Others
<1>26. ConvertWrite(p) => Turn(p)
  BY <1>12, <1>24 DEF ConvertWrite, Others
<1>27. ConvertHide(p) => Turn(p)
  BY <1>13, <1>24 DEF ConvertHide
<1>28. ConvertLook(p) => Turn(p)
  BY <1>12, <1>24 DEF ConvertLook, Others
<1>29. ConvertFit(p) => Turn(p)
  BY <1>13, <1>24 DEF ConvertFit
<1>30. SyncFind(p) \/ SyncWrite(p) => Turn(p)
  <2>1. ASSUME proc[p].pc \in {"sync", "resync"},
               Goto(p, "resync") \/ Goto(p, proc[p].then)
        PROVE  Turn(p)
    <3>1. PICK pc \in {"resync", proc[p].then} : Goto(p, pc)
      BY <2>1
    <3>2. Onward(p, pc) /\ proc'[p].answer = proc[p].answer
      BY <3>1, GotoFrame DEF Onward
    <3>3. CASE Op(p).kind = "edit"
      <4>1. proc[p].then = "write"
        BY <2>1, <3>3 DEF Course
      <4>2. Course(p)'
        BY <4>1, <3>1, <3>2, <3>3 DEF Course, Onward, Op, Making
      <4> QED  BY <4>1, <4>2, <3>1, <3>2, <3>3, <2>1, Frames DEF Onward, Edits
    <3>4. CASE Op(p).kind # "edit"
      <4>1. Op(p).kind # "create" /\ proc[p].then = "done"
        BY <2>1, <3>4 DEF Course, Unmade, Making
      <4>2. Course(p)'
        BY <4>1, <3>1, <3>2, <3>4 DEF Course, Onward, Op
      <4> QED  BY <4>1, <4>2, <3>1, <3>2, <3>4, <2>1, Frames DEF Onward, Edits
    <3> QED  BY <3>3, <3>4
  <2> QED  BY <2>1 DEF SyncFind, SyncWrite
<1>31. Die(p) => Turn(p)
  BY DEF Die, Turn, Shape, Course, Op, Begun, Won, Edits
<1> QED  BY <1>1, <1>2, <1>3, <1>4, <1>6, <1>7, <1>9, <1>10, <1>11, <1>14, <1>15, <1>16,
           <1>17, <1>18, <1>19, <1>20, <1>21, <1>22, <1>23, <1>25, <1>26, <1>27, <1>28,
           <1>29, <1>30, <1>31

-----------------------------------------------------------------------------
(* The steps of the pages that neither make a page, nor load nor edit one. *)
Modest(p) ==
  \/ SlugPage(p) \/ SlugCharacter(p) \/ CreateMay(p) \/ WorldAgain(p) \/ Unsave(p)
  \/ ReadPage(p) \/ MayEdit(p) \/ DeleteMay(p) \/ DeleteFind(p) \/ DropPage(p)
  \/ CloseWorld(p) \/ UnsaveFails(p) \/ UndoFails(p)
  \/ SavePage(p) /\ Undo(p) /\ UNCHANGED page
  \/ Load(p) /\ End(p, "refused") /\ UNCHANGED desk
  \/ WritePage(p) /\ End(p, "refused") /\ UNCHANGED page

LEMMA SlugTurn ==
  ASSUME Shape, NEW p \in Requests, Course(p)
  PROVE  SlugPage(p) \/ SlugCharacter(p) \/ MayEdit(p) => Turn(p)
<1> USE DEF At, Is
<1>1. ASSUME Op(p).kind = "edit", proc[p].pc \in {"may", "slugged"}, Proceed(p)
      PROVE  Turn(p)
  <2>1. \/ \E slug, c : Call(p, "create", slug, c, "write") \/ Call(p, "sync", slug, c, "write")
        \/ Goto(p, "write")
    BY <1>1, Zenon DEF Proceed
  <2>2. ASSUME NEW pc \in {"create", "sync"}, NEW slug, NEW c, Call(p, pc, slug, c, "write")
        PROVE  Turn(p)
    <3>1. Course(p)'
      BY <1>1, <2>2, CallFrame DEF Course, Op, Making
    <3> QED  BY <1>1, <2>2, <3>1, CallFrame, Frames DEF Edits
  <2>3. ASSUME Goto(p, "write")  PROVE Turn(p)
    <3>1. Course(p)'
      BY <1>1, <2>3, GotoFrame DEF Course, Op, Making
    <3> QED  BY <1>1, <2>3, <3>1, GotoFrame, Frames DEF Edits
  <2> QED  BY <2>1, <2>2, <2>3
<1>2. ASSUME NEW pc \in {"slug", "slugged", "page"}, Goto(p, pc),
             \/ proc[p].pc \in {"slug", "slugged"} /\ (pc = "page" => Op(p).kind = "create")
             \/ Is(p, {"edit"}, "may") /\ pc = "slug"
      PROVE  Turn(p)
  <2>1. Course(p)'
    BY <1>2, GotoFrame DEF Course, Op, Making, Unmade
  <2> QED  BY <1>2, <2>1, GotoFrame, Frames DEF Edits, Unmade
<1>3. Op(p).kind \in {"create", "edit"} \/ proc[p].pc \notin {"slug", "slugged"}
  BY DEF Course
<1>4. ASSUME SlugPage(p)  PROVE Turn(p)
  <2>1. CASE UNCHANGED proc
    BY <1>4, <2>1 DEF Turn, Shape, Course, Op, Begun, Won, Edits, SlugPage
  <2> QED  BY <1>2, <1>4, <2>1 DEF SlugPage
<1>5. ASSUME SlugCharacter(p)  PROVE Turn(p)
  <2>1. ASSUME NEW slug, Call(p, "create", slug, Nobody, "page"), Op(p).kind = "create"
        PROVE  Turn(p)
    <3>1. Course(p)'
      BY <1>5, <2>1, CallFrame DEF Course, Op, Making, Unmade, SlugCharacter
    <3> QED  BY <1>5, <2>1, <3>1, CallFrame, Frames DEF Edits, Unmade, Making, SlugCharacter
  <2> QED  BY <1>1, <1>2, <1>3, <1>5, <2>1 DEF SlugCharacter
<1>6. ASSUME MayEdit(p)  PROVE Turn(p)
  <2>1. End(p, "refused") => Turn(p)
    BY <1>6, Ending DEF MayEdit, End
  <2> QED  BY <1>1, <1>2, <1>6, <2>1 DEF MayEdit
<1> QED  BY <1>4, <1>5, <1>6

LEMMA ModestTurn ==
  ASSUME Shape, NEW p \in Requests, Course(p), Modest(p)
  PROVE  Turn(p)
<1> USE DEF At, Is
<1>1. ASSUME proc[p].pc # "done", End(p, "refused")  PROVE Turn(p)
  BY <1>1, Ending DEF End
<1>2. ASSUME Op(p).kind # "edit", proc[p].pc # "done", End(p, "ok")  PROVE Turn(p)
  BY <1>2, Ending DEF End, Edits
<1>3. ASSUME Op(p).kind = "create", proc[p].pc \in {"page", "again", "unsave"}, Undo(p)
      PROVE  Turn(p)
  <2>1. CASE NeedsCharacter(p)
    <3>1. Onward(p, "erase")
      BY <1>3, <2>1 DEF Undo, Onward, Shape, Fields
    <3> QED  BY <1>3, <3>1, OnwardOther DEF Making
  <2> QED  BY <1>1, <1>3, <2>1 DEF Undo
<1>4. ASSUME NEW pc, Goto(p, pc),
             \/ Op(p).kind = "create" /\ proc[p].pc = "start" /\ pc = "slug"
             \/ Op(p).kind = "create" /\ proc[p].pc = "again" /\ pc = "unsave"
             \/ Op(p).kind = "edit" /\ proc[p].pc = "read" /\ pc = "may"
             \/ Op(p).kind = "discard" /\ proc[p].pc \in {"start", "find"} /\ pc \in {"find", "drop"}
      PROVE  Turn(p)
  <2>1. Course(p)'
    BY <1>4, GotoFrame DEF Course, Op, Making, Unmade
  <2> QED  BY <1>4, <2>1, GotoFrame, Frames DEF Edits, Unmade, Making
<1>5. Op(p).kind = "create" \/ proc[p].pc \notin {"page", "again", "unsave"}
  BY DEF Course, Making
<1>6. SlugPage(p) \/ SlugCharacter(p) \/ MayEdit(p) => Turn(p)
  BY SlugTurn
<1>7. CreateMay(p) => Turn(p)
  BY <1>1, <1>4 DEF CreateMay, Step, Refuse
<1>8. WorldAgain(p) => Turn(p)
  BY <1>2, <1>4, <1>5 DEF WorldAgain
<1>9. Unsave(p) \/ UnsaveFails(p) \/ (SavePage(p) /\ Undo(p)) => Turn(p)
  BY <1>3, <1>5 DEF Unsave, UnsaveFails, SavePage
<1>10. ReadPage(p) => Turn(p)
  BY <1>1, <1>4 DEF ReadPage
<1>11. DeleteMay(p) \/ DeleteFind(p) => Turn(p)
  BY <1>1, <1>4 DEF DeleteMay, DeleteFind, Step, Refuse
<1>12. DropPage(p) \/ CloseWorld(p) => Turn(p)
  BY <1>2 DEF DropPage, CloseWorld
<1>13. (Load(p) /\ End(p, "refused")) \/ (WritePage(p) /\ End(p, "refused")) => Turn(p)
  BY <1>1 DEF Load, WritePage, Write
<1>14. UndoFails(p) => Turn(p)
  BY <1>1 DEF UndoFails
<1> QED  BY <1>6, <1>7, <1>8, <1>9, <1>10, <1>11, <1>12, <1>13, <1>14 DEF Modest

LEMMA ModestKeeps ==
  ASSUME Shape, NEW p \in Requests, Course(p), Modest(p)
  PROVE  Kept
<1> USE DEF At, Is
<1>1. UNCHANGED <<page, desk>> => Kept
  BY DEF Kept, Shape
<1>2. ASSUME UNCHANGED page, NEW slug, desk' = [desk EXCEPT ![p].slug = slug]  PROVE Kept
  BY <1>2 DEF Kept, Shape
<1>3. ASSUME UNCHANGED page, NEW was, desk' = [desk EXCEPT ![p].was = was]  PROVE Kept
  BY <1>3 DEF Kept, Shape
<1>4. ASSUME UNCHANGED desk, NEW g \in Pages, page' = [page EXCEPT ![g].exists = FALSE]
      PROVE  Kept
  BY <1>4 DEF Kept, Shape
<1>5. SlugPage(p) \/ SlugCharacter(p) => Kept
  <2>1. SlugPage(p) \/ SlugCharacter(p) =>
          UNCHANGED page /\ (UNCHANGED desk \/ \E slug : desk' = [desk EXCEPT ![p].slug = slug])
    BY DEF SlugPage, SlugCharacter
  <2> QED  BY <1>1, <1>2, <2>1
<1>6. ReadPage(p) => Kept
  BY <1>1, <1>3 DEF ReadPage
<1>7. Unsave(p) \/ DropPage(p) => Kept
  BY <1>4 DEF Unsave, DropPage, Mine, Shape, Pages
<1>8. CreateMay(p) \/ WorldAgain(p) \/ MayEdit(p) \/ DeleteMay(p) \/ DeleteFind(p) \/ CloseWorld(p)
      => Kept
  BY <1>1 DEF CreateMay, WorldAgain, MayEdit, DeleteMay, DeleteFind, CloseWorld, Step, Refuse,
              Stay, Filed, paper
<1>9. (SavePage(p) \/ WritePage(p)) /\ UNCHANGED page => Kept
  BY <1>1 DEF SavePage, WritePage, Write
<1>10. Load(p) /\ UNCHANGED desk => Kept
  BY <1>1 DEF Load
<1>11. UnsaveFails(p) \/ UndoFails(p) => Kept
  BY <1>1 DEF UnsaveFails, UndoFails, Filed, paper
<1> QED  BY <1>5, <1>6, <1>7, <1>8, <1>9, <1>10, <1>11 DEF Modest

(* A turn that keeps the pages keeps the invariant. *)
LEMMA TurnKeeps ==
  ASSUME EditsConsistent, NEW p \in Requests, Turn(p), Kept
  PROVE  EditsConsistent'
<1> USE DEF EditsConsistent
<1>1. \A q \in Requests : Op(q)' = Op(q) /\ Edits(q)' = Edits(q)
  BY DEF Turn, Op, Edits
<1>2. Shape'
  BY <1>1 DEF Shape, Turn, Kept
<1>3. \A q \in Requests : Course(q)'
  <2> SUFFICES ASSUME NEW q \in Requests, q # p  PROVE Course(q)'
    BY DEF Turn
  <2>1. proc'[q] = proc[q]
    BY DEF Turn
  <2> QED  BY <2>1 DEF Course, Op
<1>4. \A q \in Requests : /\ Creates(q)' => Creates(q)
                          /\ Won(q)' => Won(q)
                          /\ Edits(q) /\ ~Begun(q) => ~Begun(q)'
  <2> SUFFICES ASSUME NEW q \in Requests
               PROVE  /\ Creates(q)' => Creates(q)
                      /\ Won(q)' => Won(q)
                      /\ Edits(q) /\ ~Begun(q) => ~Begun(q)'
    OBVIOUS
  <2>1. CASE q # p
    BY <2>1 DEF Turn, Creates, Won, Begun, Edits, Op
  <2>2. CASE q = p
    BY <2>2 DEF Turn, Creates, Won, Begun, Edits, Op
  <2> QED  BY <2>1, <2>2
<1>5. Unmet'
  <2> SUFFICES ASSUME NEW r \in Requests, Creates(r)'
               PROVE  /\ ~page'[r].exists
                      /\ \A q \in Requests : Edits(q)' /\ Op(q)'.page = r => ~Begun(q)'
    BY DEF Unmet
  <2> QED  BY <1>1, <1>4 DEF Unmet, Kept, Pages
<1>6. Passed'
  <2> SUFFICES ASSUME NEW q \in Requests, Won(q)', Op(q)'.guarded
               PROVE  desk'[q].loaded < page'[Op(q)'.page].version
    BY DEF Passed
  <2>1. desk[q].loaded < page[Op(q).page].version
    BY <1>1, <1>4 DEF Passed
  <2> QED  BY <1>1, <2>1 DEF Kept, Shape
<1>7. OneEditPerVersion'
  <2> SUFFICES ASSUME NEW q \in Requests, NEW r \in Requests,
                      Won(q)', Won(r)', Op(q)'.guarded, Op(r)'.guarded, Mine(q)' = Mine(r)',
                      desk'[q].loaded = desk'[r].loaded
               PROVE  q = r
    BY DEF OneEditPerVersion, Won, Edits, Mine
  <2>1. /\ Won(q) /\ Won(r) /\ Op(q).guarded /\ Op(r).guarded /\ Mine(q) = Mine(r)
        /\ desk[q].loaded = desk[r].loaded
    BY <1>1, <1>4 DEF Mine, Kept
  <2> QED  BY <2>1 DEF OneEditPerVersion, Won, Edits, Mine
<1> QED  BY <1>2, <1>3, <1>5, <1>6, <1>7

(***************************************************************************)
(* The three steps that matter: a page is made, loaded, edited.            *)
(***************************************************************************)
LEMMA SaveKeeps ==
  ASSUME EditsConsistent, NEW p \in Requests, SavePage(p), Goto(p, "again"), UNCHANGED desk,
         page' = [page EXCEPT ![p] =
               [exists |-> TRUE, slug |-> desk[p].slug, type |-> Op(p).type,
                ref |-> IF NeedsCharacter(p) THEN p ELSE Nobody, version |-> 0]]
  PROVE  EditsConsistent'
<1> USE DEF EditsConsistent
<1>1. proc[p].pc = "page" /\ Op(p).kind = "create"
  BY DEF SavePage, At, Course, Making
<1>2. Creates(p) /\ p \in Pages
  BY <1>1 DEF Creates, Unmade, Pages
<1>3. /\ DOMAIN proc' = Requests /\ DOMAIN proc'[p] = Fields
      /\ \A q \in Requests \ {p} : proc'[q] = proc[q]
      /\ proc'[p].op = proc[p].op /\ proc'[p].pc = "again"
      /\ proc'[p].then = proc[p].then /\ proc'[p].otherwise = proc[p].otherwise
  BY GotoFrame
<1>4. \A q \in Requests : Op(q)' = Op(q)
  BY <1>3 DEF Op
<1>5. Shape'
  <2>1. DOMAIN page' = Pages /\ page'[p].version = 0 /\ DOMAIN page'[p] = DOMAIN NoPage
    BY <1>2 DEF Shape, NoPage
  <2>2. \A g \in Pages \ {p} : page'[g] = page[g]
    BY DEF Shape
  <2> QED  BY <1>3, <1>4, <2>1, <2>2 DEF Shape
<1>6. \A q \in Requests : Course(q)'
  <2> SUFFICES ASSUME NEW q \in Requests  PROVE Course(q)'
    OBVIOUS
  <2>1. CASE q = p
    BY <2>1, <1>1, <1>3 DEF Course, Op, Making, Unmade
  <2>2. CASE q # p
    BY <2>2, <1>3 DEF Course, Op
  <2> QED  BY <2>1, <2>2
<1>7. \A q \in Requests : /\ Creates(q)' => Creates(q) /\ q # p
                          /\ Won(q)' => Won(q) /\ Op(q).page # p
                          /\ Edits(q)' = Edits(q)
                          /\ Edits(q) => Begun(q)' = Begun(q)
  <2> SUFFICES ASSUME NEW q \in Requests
               PROVE  /\ Creates(q)' => Creates(q) /\ q # p
                      /\ Won(q)' => Won(q) /\ Op(q).page # p
                      /\ Edits(q)' = Edits(q)
                      /\ Edits(q) => Begun(q)' = Begun(q)
    OBVIOUS
  <2>1. CASE q = p
    BY <2>1, <1>1, <1>3 DEF Creates, Won, Edits, Begun, Op, Unmade, Making
  <2>2. CASE q # p
    <3>1. proc'[q] = proc[q]
      BY <2>2, <1>3
    <3>2. Won(q) => Op(q).page # p
      BY <1>2 DEF Unmet, Won, Begun
    <3> QED  BY <3>1, <3>2, <2>2 DEF Creates, Won, Edits, Begun, Op
  <2> QED  BY <2>1, <2>2
<1>8. \A g \in Pages : g # p => page'[g] = page[g]
  BY DEF Shape
<1>9. Unmet'
  <2> SUFFICES ASSUME NEW r \in Requests, Creates(r)'
               PROVE  /\ ~page'[r].exists
                      /\ \A q \in Requests : Edits(q)' /\ Op(q)'.page = r => ~Begun(q)'
    BY DEF Unmet
  <2>1. Creates(r) /\ r # p /\ r \in Pages
    BY <1>7 DEF Pages
  <2> QED  BY <2>1, <1>4, <1>7, <1>8 DEF Unmet
<1>10. Passed'
  <2> SUFFICES ASSUME NEW q \in Requests, Won(q)', Op(q)'.guarded
               PROVE  desk'[q].loaded < page'[Op(q)'.page].version
    BY DEF Passed
  <2>1. Won(q) /\ Op(q).page # p /\ Op(q).guarded /\ Op(q)'.page = Op(q).page
    BY <1>4, <1>7
  <2>2. Op(q).page \in Pages
    BY DEF Shape
  <2> QED  BY <2>1, <2>2, <1>8 DEF Passed
<1>11. OneEditPerVersion'
  <2> SUFFICES ASSUME NEW q \in Requests, NEW r \in Requests,
                      Won(q)', Won(r)', Op(q)'.guarded, Op(r)'.guarded, Mine(q)' = Mine(r)',
                      desk'[q].loaded = desk'[r].loaded
               PROVE  q = r
    BY DEF OneEditPerVersion, Won, Edits, Mine
  <2>1. /\ Won(q) /\ Won(r) /\ Op(q).guarded /\ Op(r).guarded /\ Mine(q) = Mine(r)
        /\ desk[q].loaded = desk[r].loaded
    BY <1>4, <1>7 DEF Mine
  <2> QED  BY <2>1 DEF OneEditPerVersion, Won, Edits, Mine
<1> QED  BY <1>5, <1>6, <1>9, <1>10, <1>11

LEMMA LoadKeeps ==
  ASSUME EditsConsistent, NEW p \in Requests, Load(p), page[Mine(p)].exists, Goto(p, "read"),
         desk' = [desk EXCEPT ![p].loaded = page[Mine(p)].version]
  PROVE  EditsConsistent'
<1> USE DEF EditsConsistent
<1>1. proc[p].pc = "start" /\ Op(p).kind = "edit" /\ UNCHANGED page
  BY DEF Load, Is, At
<1>2. /\ DOMAIN proc' = Requests /\ DOMAIN proc'[p] = Fields
      /\ \A q \in Requests \ {p} : proc'[q] = proc[q]
      /\ proc'[p].op = proc[p].op /\ proc'[p].pc = "read"
      /\ proc'[p].then = proc[p].then /\ proc'[p].otherwise = proc[p].otherwise
  BY GotoFrame
<1>3. \A q \in Requests : Op(q)' = Op(q)
  BY <1>2 DEF Op
<1>4. Mine(p) = Op(p).page /\ Mine(p) \in Pages
  BY <1>1 DEF Mine, Shape
<1>5. Shape'
  <2>1. DOMAIN desk' = Requests /\ DOMAIN desk'[p] = {"slug", "was", "loaded"}
        /\ desk'[p].loaded \in Nat
    BY <1>4 DEF Shape
  <2>2. \A q \in Requests \ {p} : desk'[q] = desk[q]
    BY DEF Shape
  <2> QED  BY <1>1, <1>2, <1>3, <2>1, <2>2 DEF Shape
<1>6. \A q \in Requests : Course(q)'
  <2> SUFFICES ASSUME NEW q \in Requests  PROVE Course(q)'
    OBVIOUS
  <2>1. CASE q = p
    BY <2>1, <1>1, <1>2 DEF Course, Op, Making
  <2>2. CASE q # p
    BY <2>2, <1>2 DEF Course, Op
  <2> QED  BY <2>1, <2>2
<1>7. \A q \in Requests : /\ Creates(q)' = Creates(q)
                          /\ Won(q)' => Won(q) /\ q # p
                          /\ Edits(q)' = Edits(q)
                          /\ q # p => Begun(q)' = Begun(q)
  <2> SUFFICES ASSUME NEW q \in Requests
               PROVE  /\ Creates(q)' = Creates(q)
                      /\ Won(q)' => Won(q) /\ q # p
                      /\ Edits(q)' = Edits(q)
                      /\ q # p => Begun(q)' = Begun(q)
    OBVIOUS
  <2>1. CASE q = p
    BY <2>1, <1>1, <1>2 DEF Creates, Won, Edits, Op
  <2>2. CASE q # p
    <3>1. proc'[q] = proc[q]
      BY <2>2, <1>2
    <3> QED  BY <3>1, <2>2 DEF Creates, Won, Edits, Begun, Op
  <2> QED  BY <2>1, <2>2
<1>8. \A q \in Requests : q # p => desk'[q].loaded = desk[q].loaded
  BY DEF Shape
<1>9. Unmet'
  <2> SUFFICES ASSUME NEW r \in Requests, Creates(r)'
               PROVE  /\ ~page'[r].exists
                      /\ \A q \in Requests : Edits(q)' /\ Op(q)'.page = r => ~Begun(q)'
    BY DEF Unmet
  <2>1. Creates(r) /\ ~page[r].exists
    BY <1>7 DEF Unmet
  <2>2. Op(p).page # r
    BY <2>1, <1>4
  <2> QED  BY <2>1, <2>2, <1>1, <1>3, <1>7 DEF Unmet
<1>10. Passed'
  <2> SUFFICES ASSUME NEW q \in Requests, Won(q)', Op(q)'.guarded
               PROVE  desk'[q].loaded < page'[Op(q)'.page].version
    BY DEF Passed
  <2> QED  BY <1>1, <1>3, <1>7, <1>8 DEF Passed
<1>11. OneEditPerVersion'
  <2> SUFFICES ASSUME NEW q \in Requests, NEW r \in Requests,
                      Won(q)', Won(r)', Op(q)'.guarded, Op(r)'.guarded, Mine(q)' = Mine(r)',
                      desk'[q].loaded = desk'[r].loaded
               PROVE  q = r
    BY DEF OneEditPerVersion, Won, Edits, Mine
  <2>1. /\ Won(q) /\ Won(r) /\ Op(q).guarded /\ Op(r).guarded /\ Mine(q) = Mine(r)
        /\ desk[q].loaded = desk[r].loaded
    BY <1>3, <1>7, <1>8 DEF Mine
  <2> QED  BY <2>1 DEF OneEditPerVersion, Won, Edits, Mine
<1> QED  BY <1>5, <1>6, <1>9, <1>10, <1>11

LEMMA WriteKeeps ==
  ASSUME EditsConsistent, NEW p \in Requests, WritePage(p), End(p, "ok"),
         page[Mine(p)].exists, Op(p).guarded => page[Mine(p)].version = desk[p].loaded,
         page' = [page EXCEPT ![Mine(p)] = Patched(p, page[Mine(p)])]
  PROVE  EditsConsistent'
<1> USE DEF EditsConsistent
<1> DEFINE g == Mine(p)
<1>1. proc[p].pc = "write" /\ Op(p).kind = "edit" /\ UNCHANGED desk
  BY DEF WritePage, Write, Is, At
<1>2. /\ DOMAIN proc' = Requests /\ DOMAIN proc'[p] = Fields
      /\ \A q \in Requests \ {p} : proc'[q] = proc[q]
      /\ proc'[p].op = proc[p].op /\ proc'[p].pc = "done" /\ proc'[p].answer = "ok"
      /\ proc'[p].then = "done" /\ proc'[p].otherwise = "done"
  BY GoOnFrame DEF End
<1>3. \A q \in Requests : Op(q)' = Op(q)
  BY <1>2 DEF Op
<1>4. g = Op(p).page /\ g \in Pages
  BY <1>1 DEF Mine, Shape
<1>5. /\ DOMAIN page' = Pages /\ page'[g].version = page[g].version + 1
      /\ DOMAIN page'[g] = DOMAIN NoPage /\ \A h \in Pages \ {g} : page'[h] = page[h]
  BY <1>4 DEF Shape, Patched, NoPage
<1>6. Shape'
  BY <1>1, <1>2, <1>3, <1>5 DEF Shape
<1>7. \A q \in Requests : Course(q)'
  <2> SUFFICES ASSUME NEW q \in Requests  PROVE Course(q)'
    OBVIOUS
  <2>1. CASE q = p
    BY <2>1, <1>1, <1>2 DEF Course, Op, Making
  <2>2. CASE q # p
    BY <2>2, <1>2 DEF Course, Op
  <2> QED  BY <2>1, <2>2
<1>8. \A q \in Requests : /\ Creates(q)' = Creates(q)
                          /\ q # p => Won(q)' = Won(q)
                          /\ Edits(q)' = Edits(q)
                          /\ Begun(q)' => Begun(q)
  <2> SUFFICES ASSUME NEW q \in Requests
               PROVE  /\ Creates(q)' = Creates(q)
                      /\ q # p => Won(q)' = Won(q)
                      /\ Edits(q)' = Edits(q)
                      /\ Begun(q)' => Begun(q)
    OBVIOUS
  <2>1. CASE q = p
    BY <2>1, <1>1, <1>2 DEF Creates, Edits, Op, Begun
  <2>2. CASE q # p
    <3>1. proc'[q] = proc[q]
      BY <2>2, <1>2
    <3> QED  BY <3>1, <2>2 DEF Creates, Won, Edits, Begun, Op
  <2> QED  BY <2>1, <2>2
<1>9. \A h \in Pages : page[h].version \in Nat /\ page[h].version <= page'[h].version
  BY <1>5 DEF Shape
<1>10. Unmet'
  <2> SUFFICES ASSUME NEW r \in Requests, Creates(r)'
               PROVE  /\ ~page'[r].exists
                      /\ \A q \in Requests : Edits(q)' /\ Op(q)'.page = r => ~Begun(q)'
    BY DEF Unmet
  <2>1. Creates(r) /\ ~page[r].exists /\ r \in Pages
    BY <1>8 DEF Unmet, Pages
  <2>2. page'[r] = page[r]
    BY <2>1, <1>5
  <2> QED  BY <2>1, <2>2, <1>3, <1>8 DEF Unmet
<1>11. Passed'
  <2> SUFFICES ASSUME NEW q \in Requests, Won(q)', Op(q)'.guarded
               PROVE  desk'[q].loaded < page'[Op(q)'.page].version
    BY DEF Passed
  <2>1. CASE q = p
    BY <2>1, <1>1, <1>3, <1>4, <1>5, <1>9
  <2>2. CASE q # p
    <3>1. desk[q].loaded < page[Op(q).page].version /\ desk[q].loaded \in Nat
          /\ Op(q).page \in Pages /\ desk'[q].loaded = desk[q].loaded
      BY <2>2, <1>1, <1>3, <1>8 DEF Passed, Shape
    <3>2. page'[Op(q).page].version \in Nat
      BY <3>1, <1>6 DEF Shape
    <3> QED  BY <3>1, <3>2, <1>3, <1>9
  <2> QED  BY <2>1, <2>2
<1>12. ASSUME NEW q \in Requests, q # p, Won(q)', Op(q)'.guarded, Op(p).guarded,
              Mine(q)' = Mine(p)', desk'[q].loaded = desk'[p].loaded
       PROVE  FALSE
  <2>1. Won(q) /\ Op(q).guarded /\ Op(q).page = g /\ desk[q].loaded = page[g].version
    BY <1>1, <1>3, <1>4, <1>8, <1>12 DEF Mine, Won, Edits
  <2> QED  BY <2>1, <1>4, <1>9 DEF Passed
<1>13. OneEditPerVersion'
  <2> SUFFICES ASSUME NEW q \in Requests, NEW r \in Requests,
                      Won(q)', Won(r)', Op(q)'.guarded, Op(r)'.guarded, Mine(q)' = Mine(r)',
                      desk'[q].loaded = desk'[r].loaded
               PROVE  q = r
    BY DEF OneEditPerVersion, Won, Edits, Mine
  <2>1. CASE q # p /\ r # p
    <3>1. /\ Won(q) /\ Won(r) /\ Op(q).guarded /\ Op(r).guarded /\ Mine(q) = Mine(r)
          /\ desk[q].loaded = desk[r].loaded
      BY <2>1, <1>1, <1>3, <1>8 DEF Mine
    <3> QED  BY <3>1 DEF OneEditPerVersion, Won, Edits, Mine
  <2> QED  BY <2>1, <1>3, <1>12
<1> QED  BY <1>6, <1>7, <1>10, <1>11, <1>13

-----------------------------------------------------------------------------
LEMMA InitConsistent == Init => EditsConsistent
<1> SUFFICES ASSUME Init  PROVE EditsConsistent
  OBVIOUS
<1>1. PICK plan \in Plans : proc = [p \in Requests |-> Idle(plan[p])]
  BY DEF Init, CharactersInit
<1>2. \A p \in Requests : plan[p] \in Operation
  BY CharactersAssumption DEF CharactersAssumption
<1>3. \A p \in Requests : /\ DOMAIN proc[p] = Fields /\ Op(p) \in Operation /\ proc[p].pc = "start"
                          /\ proc[p].then = "done" /\ proc[p].otherwise = "done"
  BY <1>1, <1>2 DEF Idle, Op, Fields
<1>4. DOMAIN page = Pages /\ \A g \in Pages : /\ DOMAIN page[g] = DOMAIN NoPage
                                              /\ page[g].version = 0
                                              /\ g \in Requests => ~page[g].exists
  BY CharactersAssumption DEF Init, NoPage, CharactersAssumption
<1>5. Shape
  BY <1>1, <1>3, <1>4 DEF Shape, Init, Operation
<1>6. \A p \in Requests : Course(p)
  BY <1>3 DEF Course, Unmade, Making
<1>7. Unmet /\ Passed /\ OneEditPerVersion
  BY <1>3, <1>4 DEF Unmet, Passed, OneEditPerVersion, Won, Begun, Pages
<1> QED  BY <1>5, <1>6, <1>7 DEF EditsConsistent

LEMMA StepConsistent == EditsConsistent /\ [Next]_vars => EditsConsistent'
<1> SUFFICES ASSUME EditsConsistent, [Next]_vars  PROVE EditsConsistent'
  OBVIOUS
<1>1. CASE UNCHANGED vars
  BY <1>1 DEF vars, people, paper, EditsConsistent, Shape, Course, Unmet, Passed, Creates, Won,
              Edits, Begun, Op, OneEditPerVersion, Mine
<1>2. CASE CharactersNext /\ Filed
  <2>1. Kept
    BY <1>2 DEF Filed, paper, Kept, EditsConsistent, Shape
  <2>2. \E p \in Requests : Turn(p)
    BY <1>2, CharactersTurn DEF CharactersNext, EditsConsistent
  <2> QED  BY <2>1, <2>2, TurnKeeps
<1>3. ASSUME NEW p \in Requests, Modest(p)  PROVE EditsConsistent'
  BY <1>3, ModestTurn, ModestKeeps, TurnKeeps DEF EditsConsistent
<1>4. ASSUME NEW p \in Requests, SavePage(p)  PROVE EditsConsistent'
  BY <1>3, <1>4, SaveKeeps DEF SavePage, Modest
<1>5. ASSUME NEW p \in Requests, Load(p)  PROVE EditsConsistent'
  BY <1>3, <1>5, LoadKeeps DEF Load, Modest
<1>6. ASSUME NEW p \in Requests, WritePage(p)  PROVE EditsConsistent'
  BY <1>3, <1>6, WriteKeeps DEF WritePage, Write, Modest
<1> QED  BY <1>1, <1>2, <1>3, <1>4, <1>5, <1>6 DEF Next, Modest

(***************************************************************************)
(* updateWithVersion (RC-P1): of any number of edits that send the version *)
(* of the page they started from, at most one per version is accepted,     *)
(* whatever else is made, renamed, converted and deleted meanwhile, and    *)
(* wherever processes die.                                                 *)
(***************************************************************************)
THEOREM EditedOnce == Spec => []OneEditPerVersion
<1>1. EditsConsistent => OneEditPerVersion
  BY DEF EditsConsistent
<1> QED  BY <1>1, InitConsistent, StepConsistent, PTL DEF Spec

-----------------------------------------------------------------------------
(* What a request may do, and which steps write what.                      *)

(* What a request may do, to the people and to the pages. *)
Peopling(p) ==
  \/ MayManage(p) \/ CreateCheck(p) \/ CreateSave(p) \/ Furnish(p)
  \/ EraseFind(p) \/ Erase(p) \/ CascadeInventory(p) \/ CascadeFind(p) \/ CascadeFails(p)
  \/ \E a \in Accounts : CascadeOwners(p, a)
  \/ AccountFind(p) \/ AccountCount(p) \/ AccountInsert(p)
  \/ ReadOwners(p) \/ AddOwner(p) \/ RemoveOwner(p) \/ PassOwnership(p)
  \/ OpenFind(p) \/ OpenLook(p) \/ OpenCreate(p) \/ OpenParent(p) \/ OpenRollback(p)
  \/ ConvertFind(p) \/ ConvertWrite(p) \/ ConvertHide(p) \/ ConvertLook(p) \/ ConvertFit(p)
  \/ SyncFind(p) \/ SyncWrite(p) \/ Die(p)

Filing(p) ==
  \/ SlugPage(p) \/ SlugCharacter(p)
  \/ CreateMay(p) \/ SavePage(p) \/ WorldAgain(p) \/ Unsave(p)
  \/ UnsaveFails(p) \/ UndoFails(p)
  \/ Load(p) \/ ReadPage(p) \/ MayEdit(p) \/ WritePage(p)
  \/ DeleteMay(p) \/ DeleteFind(p) \/ DropPage(p) \/ CloseWorld(p)

Acts(p) == (Peopling(p) /\ Filed) \/ Filing(p)

LEMMA SomebodyActs == Next => \E p \in Requests : Acts(p)
BY DEF Next, CharactersNext, Acts, Peopling, Filing

(* The others stay where they are. *)
LEMMA Solo ==
  ASSUME EditsConsistent, NEW p \in Requests, Acts(p)
  PROVE  /\ DOMAIN proc' = Requests /\ DOMAIN proc'[p] = Fields
         /\ \A q \in Requests \ {p} : proc'[q] = proc[q]
         /\ proc'[p].op = proc[p].op
         /\ \A q \in Requests : Op(q)' = Op(q)
         /\ EditsConsistent'
<1>0. Shape /\ Course(p)
  BY DEF EditsConsistent
<1>s. ASSUME DOMAIN proc' = Requests, DOMAIN proc'[p] = Fields,
             \A q \in Requests \ {p} : proc'[q] = proc[q], proc'[p].op = proc[p].op
      PROVE  \A q \in Requests : Op(q)' = Op(q)
  BY <1>s DEF Op
<1>n. EditsConsistent'
  <2>1. Next
    BY DEF Acts, Peopling, Filing, Next, CharactersNext
  <2> QED  BY <2>1, StepConsistent
<1>1. Turn(p) => /\ DOMAIN proc' = Requests /\ DOMAIN proc'[p] = Fields
                 /\ \A q \in Requests \ {p} : proc'[q] = proc[q]
                 /\ proc'[p].op = proc[p].op
  BY DEF Turn
<1>2. CASE Peopling(p)
  <2>1. Turn(p)
    BY <1>0, <1>2, CharactersTurn DEF Peopling
  <2> QED  BY <1>1, <1>n, <1>s, <2>1
<1>3. CASE Modest(p)
  BY <1>0, <1>1, <1>3, <1>n, <1>s, ModestTurn
<1>g. ASSUME NEW pc, Goto(p, pc)
      PROVE  /\ DOMAIN proc' = Requests /\ DOMAIN proc'[p] = Fields
             /\ \A q \in Requests \ {p} : proc'[q] = proc[q]
             /\ proc'[p].op = proc[p].op
  BY <1>0, <1>g, GotoFrame
<1>e. ASSUME NEW answer, End(p, answer)
      PROVE  /\ DOMAIN proc' = Requests /\ DOMAIN proc'[p] = Fields
             /\ \A q \in Requests \ {p} : proc'[q] = proc[q]
             /\ proc'[p].op = proc[p].op
  BY <1>0, <1>e, GoOnFrame DEF End
<1>4. CASE ~Peopling(p) /\ ~Modest(p)
  <2>1. (\E pc : Goto(p, pc)) \/ (\E answer : End(p, answer))
    BY <1>4 DEF Acts, Filing, Modest, SavePage, Load, WritePage, Write
  <2> QED  BY <1>e, <1>g, <1>n, <1>s, <2>1
<1> QED
  BY <1>2, <1>3, <1>4

-----------------------------------------------------------------------------
(* Which steps write what. *)
LEMMA CharacterWritten ==
  ASSUME NEW p \in Requests, Acts(p), ~UNCHANGED character
  PROVE  CreateSave(p) \/ Erase(p) \/ ConvertWrite(p) \/ SyncWrite(p)
BY DEF Acts, Peopling, Filing, MayManage, CreateCheck, CreateSave, Furnish, EraseFind,
     CascadeInventory, CascadeFind, CascadeFails, CascadeOwners, WriteOwners, AccountFind,
     AccountCount, AccountInsert, ReadOwners, AddOwner, RemoveOwner, PassOwnership, OpenFind,
     OpenLook, OpenCreate, OpenParent, OpenRollback, ConvertFind, ConvertHide, ConvertLook,
     ConvertFit, SyncFind, Die, SlugPage, SlugCharacter, CreateMay, SavePage, WorldAgain,
     Unsave, UnsaveFails, UndoFails, Load, ReadPage, MayEdit, WritePage, Write, DeleteMay,
     DeleteFind, DropPage, CloseWorld, Step, Refuse, Stay, Keep

LEMMA LazilyWritten ==
  ASSUME NEW p \in Requests, Acts(p), ~UNCHANGED lazily
  PROVE  CascadeInventory(p) \/ OpenCreate(p) \/ OpenRollback(p)
BY DEF Acts, Peopling, Filing, MayManage, CreateCheck, CreateSave, Furnish, EraseFind, Erase,
     CascadeFind, CascadeFails, CascadeOwners, WriteOwners, AccountFind, AccountCount,
     AccountInsert, ReadOwners, AddOwner, RemoveOwner, PassOwnership, OpenFind, OpenLook,
     OpenParent, ConvertFind, ConvertWrite, ConvertHide, ConvertLook, ConvertFit, SyncFind,
     SyncWrite, Die, SlugPage, SlugCharacter, CreateMay, SavePage, WorldAgain, Unsave,
     UnsaveFails, UndoFails, Load, ReadPage, MayEdit, WritePage, Write, DeleteMay, DeleteFind,
     DropPage, CloseWorld, Step, Refuse, Stay, Keep, owned

LEMMA OwningWritten ==
  ASSUME NEW p \in Requests, Acts(p), ~UNCHANGED owning
  PROVE  \/ \E a \in Accounts : CascadeOwners(p, a)
         \/ AccountInsert(p) \/ AddOwner(p) \/ RemoveOwner(p) \/ PassOwnership(p)
BY DEF Acts, Peopling, Filing, MayManage, CreateCheck, CreateSave, Furnish, EraseFind, Erase,
     CascadeInventory, CascadeFind, CascadeFails, AccountFind, AccountCount, ReadOwners,
     OpenFind, OpenLook, OpenCreate, OpenParent, OpenRollback, ConvertFind, ConvertWrite,
     ConvertHide, ConvertLook, ConvertFit, SyncFind, SyncWrite, Die, SlugPage, SlugCharacter,
     CreateMay, SavePage, WorldAgain, Unsave, UnsaveFails, UndoFails, Load, ReadPage, MayEdit,
     WritePage, Write, DeleteMay, DeleteFind, DropPage, CloseWorld, Step, Refuse, Stay, Keep

LEMMA WorldWritten ==
  ASSUME NEW p \in Requests, Acts(p), ~UNCHANGED world
  PROVE  CloseWorld(p)
BY DEF Acts, Peopling, Filing, MayManage, CreateCheck, CreateSave, Furnish, EraseFind, Erase,
     CascadeInventory, CascadeFind, CascadeFails, CascadeOwners, WriteOwners, AccountFind,
     AccountCount, AccountInsert, ReadOwners, AddOwner, RemoveOwner, PassOwnership, OpenFind,
     OpenLook, OpenCreate, OpenParent, OpenRollback, ConvertFind, ConvertWrite, ConvertHide,
     ConvertLook, ConvertFit, SyncFind, SyncWrite, Die, SlugPage, SlugCharacter, CreateMay,
     SavePage, WorldAgain, Unsave, UnsaveFails, UndoFails, Load, ReadPage, MayEdit, WritePage,
     Write, DeleteMay, DeleteFind, DropPage, CloseWorld, Step, Refuse, Stay, Keep

LEMMA PaperWritten ==
  ASSUME NEW p \in Requests, Acts(p)
  PROVE  /\ SavePage(p) \/ Unsave(p) \/ WritePage(p) \/ DropPage(p) \/ UNCHANGED page
         /\ SlugPage(p) \/ SlugCharacter(p) \/ Load(p) \/ ReadPage(p) \/ UNCHANGED desk
         /\ WritePage(p) \/ UNCHANGED <<renamed, halfway>>
         /\ SavePage(p) \/ UNCHANGED phantom
BY DEF Acts, Filing, SlugPage, SlugCharacter, CreateMay, SavePage, WorldAgain, Unsave,
     UnsaveFails, UndoFails, Load, ReadPage, MayEdit, WritePage, Write, DeleteMay, DeleteFind,
     DropPage, CloseWorld, Step, Refuse, Stay, Filed, paper

(* What a clean-up left behind is not forgotten. *)
LEMMA LeftGrows ==
  ASSUME NEW p \in Requests, Acts(p)
  PROVE  junk \subseteq junk'
BY DEF Acts, Peopling, Filing, MayManage, CreateCheck, CreateSave, Furnish, EraseFind, Erase,
     CascadeInventory, CascadeFind, CascadeFails, CascadeOwners, WriteOwners, AccountFind,
     AccountCount, AccountInsert, ReadOwners, AddOwner, RemoveOwner, PassOwnership, OpenFind,
     OpenLook, OpenCreate, OpenParent, OpenRollback, ConvertFind, ConvertWrite, ConvertHide,
     ConvertLook, ConvertFit, SyncFind, SyncWrite, Die, SlugPage, SlugCharacter, CreateMay,
     SavePage, WorldAgain, Unsave, UnsaveFails, UndoFails, Load, ReadPage, MayEdit, WritePage,
     Write, DeleteMay, DeleteFind, DropPage, CloseWorld, Step, Refuse, Stay, Keep, Leave

(* Who acts where. *)
LEMMA WhereActs ==
  ASSUME NEW p \in Requests, Acts(p)
  PROVE  /\ proc[p].pc = "cascade" => \/ CascadeInventory(p) \/ CascadeFind(p) \/ CascadeFails(p)
                                      \/ Die(p) \/ \E a \in Accounts : CascadeOwners(p, a)
         /\ proc[p].pc = "parent" => OpenParent(p) \/ Die(p)
         /\ proc[p].pc = "clear" => OpenRollback(p) \/ Die(p)
         /\ proc[p].pc = "create" => CreateCheck(p) \/ Die(p)
         /\ proc[p].pc = "save" => CreateSave(p) \/ Die(p)
         /\ proc[p].pc = "furnish" => Furnish(p) \/ Die(p)
         /\ proc[p].pc = "erase" => EraseFind(p) \/ UndoFails(p) \/ Die(p)
         /\ proc[p].pc = "vanish" => Erase(p) \/ UndoFails(p) \/ Die(p)
         /\ proc[p].pc = "insert" => AccountInsert(p) \/ Die(p)
         /\ proc[p].pc = "own" => AddOwner(p) \/ RemoveOwner(p) \/ PassOwnership(p) \/ Die(p)
         /\ proc[p].pc = "sync" => SyncFind(p) \/ Die(p)
         /\ proc[p].pc = "resync" => SyncWrite(p) \/ Die(p)
         /\ proc[p].pc = "slug" => SlugPage(p) \/ Die(p)
         /\ proc[p].pc = "slugged" => SlugCharacter(p) \/ Die(p)
         /\ proc[p].pc = "page" => SavePage(p) \/ Die(p)
         /\ proc[p].pc = "again" => WorldAgain(p) \/ UnsaveFails(p) \/ Die(p)
         /\ proc[p].pc = "unsave" => Unsave(p) \/ UnsaveFails(p) \/ Die(p)
         /\ proc[p].pc = "write" => WritePage(p) \/ Die(p)
         /\ proc[p].pc # "done"
BY DEF Acts, Peopling, Filing, MayManage, CreateCheck, CreateSave, Furnish, EraseFind, Erase,
     CascadeInventory, CascadeFind, CascadeFails, CascadeOwners, Deletes, AccountFind,
     AccountCount, AccountInsert, ReadOwners, AddOwner, RemoveOwner, PassOwnership, OpenFind,
     OpenLook, OpenCreate, OpenParent, OpenRollback, ConvertFind, ConvertWrite, ConvertHide,
     ConvertLook, ConvertFit, SyncFind, SyncWrite, Die, SlugPage, SlugCharacter, CreateMay,
     SavePage, WorldAgain, Unsave, UnsaveFails, UndoFails, Load, ReadPage, MayEdit, WritePage,
     Write, DeleteMay, DeleteFind, DropPage, CloseWorld, At, Is

-----------------------------------------------------------------------------
(* What the variables range over.                                          *)

Account == [exists : BOOLEAN, owners : SUBSET Characters, primary : Characters \cup {Nobody}]

(* Where a request knows its character. *)
Casting == {"vanish", "cascade", "count", "insert", "look", "lay", "parent", "clear",
            "become", "hide", "refit", "fit", "sync", "resync"}

Sits(p) ==
  /\ proc[p].pc \in Casting => proc[p].c \in Characters
  /\ proc[p].seen \in [Accounts -> Account]
  /\ proc[p].failing \in BOOLEAN
  /\ Op(p) \in Operation

People ==
  /\ DOMAIN character = Characters
  /\ \A c \in Characters : DOMAIN character[c] = DOMAIN NoCharacter
                           /\ character[c].exists \in BOOLEAN
  /\ account \in [Accounts -> Account]
  /\ lazily \subseteq Characters

Papers ==
  /\ \A g \in Pages : page[g].exists \in BOOLEAN /\ page[g].ref \in Characters \cup {Nobody}
  /\ \A p \in Requests : /\ DOMAIN desk[p].was = DOMAIN NoPage
                         /\ desk[p].was.version \in Nat
                         /\ desk[p].was.ref \in Characters \cup {Nobody}

Cast == People /\ Papers /\ \A p \in Requests : Sits(p)

-----------------------------------------------------------------------------
LEMMA NoAccountType == NoAccount \in Account
BY DEF NoAccount, Account

LEMMA GoOnSits ==
  ASSUME Shape, NEW p \in Requests, Sits(p), NEW pc, NEW answer, GoOn(p, pc, answer),
         pc \notin Casting
  PROVE  Sits(p)'
<1>1. /\ proc'[p].op = proc[p].op /\ proc'[p].pc = pc /\ proc'[p].failing = FALSE
      /\ proc'[p].seen = [a \in Accounts |-> NoAccount]
  BY DEF Shape, GoOn, Idle, Op
<1>2. [a \in Accounts |-> NoAccount] \in [Accounts -> Account]
  BY NoAccountType
<1> QED  BY <1>1, <1>2 DEF Sits, Op

(* Every other step says where it goes on, and maybe about whom. *)
LEMMA GotoSits ==
  ASSUME Shape, NEW p \in Requests, Sits(p),
         proc'[p].op = proc[p].op, proc'[p].seen = proc[p].seen, proc'[p].failing \in BOOLEAN,
         \/ proc'[p].pc \notin Casting
         \/ proc'[p].c \in Characters
         \/ proc'[p].c = proc[p].c /\ proc[p].pc \in Casting
  PROVE  Sits(p)'
BY DEF Sits, Op

LEMMA ReturnSits ==
  ASSUME Shape, NEW p \in Requests, Course(p), Sits(p), NEW ok \in BOOLEAN, Return(p, ok),
         proc[p].pc \in Making \/ Op(p).kind # "edit"
  PROVE  Sits(p)'
<1>1. proc[p].then \notin Casting /\ proc[p].otherwise \notin Casting
  BY DEF Course, Making, Casting
<1> QED  BY <1>1, GoOnSits DEF Return

LEMMA NamedType ==
  ASSUME NEW slug, NEW c \in Named(slug)  PROVE c \in Characters
BY DEF Named

LEMMA SettledSits ==
  ASSUME Shape, NEW p \in Requests, Course(p), Sits(p), NEW rest, Settled(p, rest),
         proc[p].pc = "cascade"
  PROVE  Sits(p)'
<1>1. Op(p).kind # "edit"
  BY DEF Course, Making
<1>2. CASE rest = {}
  BY <1>1, <1>2, ReturnSits DEF Settled
<1>3. CASE rest # {}
  <2>1. proc'[p] = [proc[p] EXCEPT !.todo = rest]
    BY <1>3 DEF Settled, Shape
  <2>2. /\ proc'[p].op = proc[p].op /\ proc'[p].seen = proc[p].seen /\ proc'[p].c = proc[p].c
        /\ proc'[p].failing = proc[p].failing
    BY <2>1 DEF Shape, Fields
  <2>3. proc[p].pc \in Casting
    BY DEF Casting
  <2> QED  BY <2>2, <2>3, GotoSits DEF Sits
<1> QED  BY <1>2, <1>3

(* What a step may write of its request without going back to the start.   *)
Moves(p, pc) ==
  \/ Goto(p, pc)
  \/ \E c \in Characters : proc' = [proc EXCEPT ![p].pc = pc, ![p].c = c]
  \/ \E c : proc' = [proc EXCEPT ![p].pc = pc, ![p].count = c]
  \/ \E c : proc' = [proc EXCEPT ![p].pc = pc, ![p].had = c]
  \/ \E c : proc' = [proc EXCEPT ![p].pc = pc, ![p].todo = c]
  \/ \E slug : proc' = [proc EXCEPT ![p].pc = pc, ![p].slug = slug, ![p].failing = TRUE]

LEMMA MovesSits ==
  ASSUME Shape, NEW p \in Requests, Sits(p), NEW pc, Moves(p, pc),
         \/ pc \notin Casting
         \/ proc[p].pc \in Casting
         \/ \E c \in Characters : proc' = [proc EXCEPT ![p].pc = pc, ![p].c = c]
  PROVE  Sits(p)'
<1>0. proc[p].failing \in BOOLEAN /\ TRUE \in BOOLEAN
  BY DEF Sits
<1> DEFINE Same(r) == /\ r.op = proc[p].op /\ r.seen = proc[p].seen /\ r.pc = pc
                      /\ r.failing = proc[p].failing \/ r.failing = TRUE
<1>3. Same(proc'[p])
  <2>1. ASSUME NEW c, proc' = [proc EXCEPT ![p].pc = pc, ![p].c = c]  PROVE Same(proc'[p])
    BY <2>1 DEF Shape, Fields
  <2>2. ASSUME NEW c, proc' = [proc EXCEPT ![p].pc = pc, ![p].count = c]  PROVE Same(proc'[p])
    BY <2>2 DEF Shape, Fields
  <2>3. ASSUME NEW c, proc' = [proc EXCEPT ![p].pc = pc, ![p].had = c]  PROVE Same(proc'[p])
    BY <2>3 DEF Shape, Fields
  <2>4. ASSUME NEW c, proc' = [proc EXCEPT ![p].pc = pc, ![p].todo = c]  PROVE Same(proc'[p])
    BY <2>4 DEF Shape, Fields
  <2>5. ASSUME NEW slug, proc' = [proc EXCEPT ![p].pc = pc, ![p].slug = slug, ![p].failing = TRUE]
        PROVE  Same(proc'[p])
    <3>1. proc'[p] = [proc[p] EXCEPT !.pc = pc, !.slug = slug, !.failing = TRUE]
      BY <2>5 DEF Shape
    <3>2. proc'[p].op = proc[p].op /\ proc'[p].seen = proc[p].seen
      BY <3>1
    <3>3. proc'[p].pc = pc
      BY <3>1 DEF Shape, Fields
    <3>4. proc'[p].failing = TRUE
      BY <3>1 DEF Shape, Fields
    <3> QED  BY <3>2, <3>3, <3>4
  <2>6. ASSUME Goto(p, pc)  PROVE Same(proc'[p])
    BY <2>6 DEF Shape, Fields, Goto
  <2> QED  BY <2>1, <2>2, <2>3, <2>4, <2>5, <2>6 DEF Moves
<1>1. /\ proc'[p].op = proc[p].op /\ proc'[p].seen = proc[p].seen /\ proc'[p].pc = pc
      /\ proc'[p].failing \in BOOLEAN
  BY <1>0, <1>3
<1>2. proc'[p].c = proc[p].c \/ proc'[p].c \in Characters
  BY DEF Moves, Shape, Fields, Goto
<1>4. ASSUME NEW c \in Characters, proc' = [proc EXCEPT ![p].pc = pc, ![p].c = c]
      PROVE proc'[p].c \in Characters
  BY <1>4 DEF Shape, Fields
<1> QED  BY <1>1, <1>2, <1>4, GotoSits

(* Nobody's character gets lost on the way. *)
LEMMA CharactersSits ==
  ASSUME EditsConsistent, Cast, NEW p \in Requests, Peopling(p)
  PROVE  Sits(p)'
<1>0. Shape /\ Course(p) /\ Sits(p)
  BY DEF EditsConsistent, Cast
<1> USE DEF At, Is
<1>e. ASSUME NEW answer, End(p, answer)  PROVE Sits(p)'
  BY <1>0, <1>e, GoOnSits DEF End, Casting
<1>m. ASSUME NEW pc, Moves(p, pc), pc \notin Casting \/ proc[p].pc \in Casting  PROVE Sits(p)'
  BY <1>0, <1>m, MovesSits
<1>c. ASSUME NEW pc, NEW c \in Characters, proc' = [proc EXCEPT ![p].pc = pc, ![p].c = c]
      PROVE  Sits(p)'
  BY <1>0, <1>c, MovesSits DEF Moves
<1>g. ASSUME NEW pc, Goto(p, pc), pc \notin Casting \/ proc[p].pc \in Casting  PROVE Sits(p)'
  BY <1>m, <1>g DEF Moves
<1>r. ASSUME NEW ok \in BOOLEAN, Return(p, ok), proc[p].pc \in Making \/ Op(p).kind # "edit"
      PROVE  Sits(p)'
  BY <1>0, <1>r, ReturnSits
<1>o. proc[p].pc \in Others => Op(p).kind # "edit"
  BY <1>0 DEF Course, Others, Making
<1>1. CASE MayManage(p)
  BY <1>1, <1>e, <1>g DEF MayManage, Casting
<1>2. CASE CreateCheck(p)
  BY <1>2, <1>g, <1>r DEF CreateCheck, Casting, Making
<1>3. CASE CreateSave(p)
  <2>1. p \in Characters
    BY DEF Characters
  <2> QED  BY <1>3, <2>1, <1>c, <1>r DEF CreateSave, Making
<1>4. CASE Furnish(p)
  BY <1>4, <1>r DEF Furnish, Making
<1>5. CASE EraseFind(p)
  BY <1>5, <1>c, <1>r, <1>o, NamedType DEF EraseFind, Others
<1>6. CASE Erase(p)
  BY <1>6, <1>m DEF Erase, Casting, Moves
<1>7. CASE CascadeInventory(p) \/ CascadeFails(p) \/ \E a \in Accounts : CascadeOwners(p, a)
  BY <1>0, <1>7, SettledSits DEF CascadeInventory, CascadeFails, CascadeOwners, Deletes
<1>8. CASE CascadeFind(p)
  <2>1. ASSUME NEW rest, NEW found,
               proc' = [proc EXCEPT ![p].todo = rest, ![p].seen =
                     [a \in Accounts |-> IF a \in found THEN account[a] ELSE NoAccount]]
        PROVE  Sits(p)'
    <3>1. [a \in Accounts |-> IF a \in found THEN account[a] ELSE NoAccount]
            \in [Accounts -> Account]
      BY NoAccountType DEF Cast, People
    <3>2. /\ proc'[p].op = proc[p].op /\ proc'[p].pc = proc[p].pc /\ proc'[p].c = proc[p].c
          /\ proc'[p].failing = proc[p].failing
          /\ proc'[p].seen = [a \in Accounts |-> IF a \in found THEN account[a] ELSE NoAccount]
      BY <1>0, <2>1 DEF Shape, Fields
    <3> QED  BY <1>0, <3>1, <3>2 DEF Sits, Op
  <2> DEFINE found == {a \in Accounts : account[a].exists /\ proc[p].c \in Owners(a)}
             rest == (proc[p].todo \ {"accounts"}) \cup found
  <2>2. \/ Settled(p, {})
        \/ proc' = [proc EXCEPT ![p].todo = rest, ![p].seen =
                     [a \in Accounts |-> IF a \in found THEN account[a] ELSE NoAccount]]
    BY <1>8 DEF CascadeFind
  <2>3. proc[p].pc = "cascade"
    BY <1>8 DEF CascadeFind, Deletes
  <2> HIDE DEF found, rest
  <2> QED  BY <1>0, <2>1, <2>2, <2>3, SettledSits
<1>9. CASE AccountFind(p) \/ OpenFind(p)
  <2>1. CASE AccountFind(p)
    BY <1>e, <1>c, <2>1, NamedType DEF AccountFind
  <2>2. CASE OpenFind(p)
    <3>1. {c \in Named(proc[p].slug) : ~character[c].npc /\ ~character[c].place} \subseteq Characters
      BY NamedType
    <3> QED  BY <1>e, <1>c, <2>2, <3>1 DEF OpenFind
  <2> QED  BY <1>9, <2>1, <2>2
<1>10. CASE AccountCount(p)
  <2>1. ASSUME NEW n, proc' = [proc EXCEPT ![p].pc = "insert", ![p].count = n]
        PROVE  Sits(p)'
    <3>1. Moves(p, "insert")
      BY <2>1 DEF Moves
    <3>2. proc[p].pc \in Casting
      BY <1>10 DEF AccountCount, Casting
    <3> QED  BY <3>1, <3>2, <1>m
  <2> QED  BY <1>10, <1>e, <2>1 DEF AccountCount
<1>11. CASE AccountInsert(p) \/ AddOwner(p) \/ RemoveOwner(p) \/ PassOwnership(p)
            \/ OpenRollback(p) \/ ConvertHide(p) \/ ConvertFit(p)
  BY <1>11, <1>e DEF AccountInsert, AddOwner, RemoveOwner, PassOwnership, OpenRollback,
                     ConvertHide, ConvertFit
<1>12. CASE ReadOwners(p)
  <2>1. CASE proc' = [proc EXCEPT ![p].pc = "own", ![p].seen[purse] = account[purse]]
    <3>1. /\ proc'[p].op = proc[p].op /\ proc'[p].pc = "own"
          /\ proc'[p].failing = proc[p].failing
          /\ proc'[p].seen = [proc[p].seen EXCEPT ![purse] = account[purse]]
      BY <1>0, <2>1 DEF Shape, Fields
    <3>2. purse \in Accounts
      BY DEF Accounts
    <3> QED  BY <1>0, <3>1, <3>2 DEF Sits, Op, Casting, Cast, People
  <2> QED  BY <1>12, <2>1, <1>e DEF ReadOwners
<1>13. CASE OpenLook(p) \/ OpenCreate(p) \/ OpenParent(p)
  BY <1>13, <1>e, <1>g DEF OpenLook, OpenCreate, OpenParent, Casting
<1>14. CASE ConvertFind(p)
  BY <1>14, <1>e, <1>c, NamedType DEF ConvertFind
<1>15. CASE ConvertWrite(p)
  BY <1>15, <1>g DEF ConvertWrite, Casting
<1>16. CASE ConvertLook(p)
  BY <1>16, <1>m DEF ConvertLook, Casting, Moves
<1>17. CASE SyncFind(p) \/ SyncWrite(p)
  <2>1. proc[p].then \notin Casting
    BY <1>0, <1>17 DEF Course, Making, Unmade, Casting, SyncFind, SyncWrite
  <2> QED  BY <1>17, <2>1, <1>g DEF SyncFind, SyncWrite, Casting
<1>18. CASE Die(p)
  BY <1>0, <1>18 DEF Die, Sits, Op
<1> QED
  BY <1>1, <1>2, <1>3, <1>4, <1>5, <1>6, <1>7, <1>8, <1>9, <1>10, <1>11, <1>12, <1>13, <1>14,
     <1>15, <1>16, <1>17, <1>18 DEF Peopling

LEMMA FilingSits ==
  ASSUME EditsConsistent, Cast, NEW p \in Requests, Filing(p)
  PROVE  Sits(p)'
<1>0. Shape /\ Course(p) /\ Sits(p)
  BY DEF EditsConsistent, Cast
<1> USE DEF At, Is
<1>e. ASSUME NEW answer, End(p, answer)  PROVE Sits(p)'
  BY <1>0, <1>e, GoOnSits DEF End, Casting
<1>g. ASSUME NEW pc, Goto(p, pc), pc \notin Casting  PROVE Sits(p)'
  BY <1>0, <1>g, MovesSits DEF Moves
<1>c. ASSUME NEW pc, NEW slug, NEW c, NEW then, Call(p, pc, slug, c, then),
             pc \notin Casting \/ c \in Characters
      PROVE  Sits(p)'
  <2>1. /\ proc'[p].op = proc[p].op /\ proc'[p].pc = pc /\ proc'[p].c = c
        /\ proc'[p].seen = proc[p].seen /\ proc'[p].failing = proc[p].failing
    BY <1>0, <1>c DEF Call, Shape, Fields
  <2> QED  BY <1>0, <1>c, <2>1, GotoSits DEF Sits
<1>u. ASSUME Undo(p)  PROVE Sits(p)'
  <2>1. CASE NeedsCharacter(p)
    <3>1. Moves(p, "erase")
      BY <1>u, <2>1 DEF Undo, Moves
    <3> QED  BY <1>0, <3>1, MovesSits DEF Casting
  <2> QED  BY <1>e, <1>u, <2>1 DEF Undo
<1>p. ASSUME Proceed(p)  PROVE Sits(p)'
  <2>1. desk[p].was.ref = Nobody \/ desk[p].was.ref \in Characters
    BY DEF Cast, Papers
  <2>2. \/ Call(p, "create", desk[p].was.slug, Nobody, "write")
        \/ Call(p, "sync", Op(p).slug, desk[p].was.ref, "write") /\ desk[p].was.ref # Nobody
        \/ Goto(p, "write")
    BY <1>p DEF Proceed
  <2> QED  BY <2>1, <2>2, <1>g, <1>c DEF Casting
<1>1. CASE SlugPage(p)
  <2>1. UNCHANGED proc => Sits(p)'
    BY <1>0 DEF Sits, Op
  <2> QED  BY <1>1, <1>g, <2>1 DEF SlugPage, Casting
<1>2. CASE SlugCharacter(p)
  BY <1>2, <1>g, <1>c, <1>p DEF SlugCharacter, Casting
<1>3. CASE CreateMay(p) \/ WorldAgain(p) \/ DeleteMay(p) \/ DeleteFind(p)
  BY <1>3, <1>e, <1>g DEF CreateMay, WorldAgain, DeleteMay, DeleteFind, Step, Refuse, Casting
<1>4. CASE SavePage(p) \/ Unsave(p) \/ UnsaveFails(p)
  BY <1>4, <1>u, <1>g DEF SavePage, Unsave, UnsaveFails, Casting
<1>5. CASE Load(p) \/ ReadPage(p)
  BY <1>5, <1>e, <1>g DEF Load, ReadPage, Casting
<1>6. CASE MayEdit(p)
  BY <1>6, <1>e, <1>g, <1>p DEF MayEdit, Casting
<1>7. CASE WritePage(p)
  BY <1>7, <1>e DEF WritePage, Write
<1>8. CASE DropPage(p) \/ CloseWorld(p) \/ UndoFails(p)
  BY <1>8, <1>e DEF DropPage, CloseWorld, UndoFails
<1> QED  BY <1>1, <1>2, <1>3, <1>4, <1>5, <1>6, <1>7, <1>8 DEF Filing

LEMMA WriteOwnersType ==
  ASSUME account \in [Accounts -> Account], NEW p, NEW a \in Accounts,
         NEW owners \in SUBSET Characters, NEW primary \in Characters \cup {Nobody},
         WriteOwners(p, a, owners, primary)
  PROVE  account' \in [Accounts -> Account]
<1>1. account[a] \in Account
  OBVIOUS
<1>2. [account[a] EXCEPT !.owners = owners, !.primary = primary] \in Account
  BY <1>1 DEF Account
<1>3. account' = account
      \/ account' = [account EXCEPT ![a] = [account[a] EXCEPT !.owners = owners, !.primary = primary]]
  BY <1>1 DEF WriteOwners, Account
<1> QED  BY <1>2, <1>3

LEMMA PeopleKept ==
  ASSUME EditsConsistent, Cast, NEW p \in Requests, Acts(p)
  PROVE  People'
<1>0. Shape /\ Sits(p) /\ People
  BY DEF EditsConsistent, Cast
<1> USE DEF At, Is
<1>1. /\ DOMAIN character' = Characters
      /\ \A c \in Characters : DOMAIN character'[c] = DOMAIN NoCharacter
                               /\ character'[c].exists \in BOOLEAN
  <2>1. CASE UNCHANGED character
    BY <2>1, <1>0 DEF People
  <2>2. CASE CreateSave(p) /\ ~UNCHANGED character
    <3> DEFINE is == [exists |-> TRUE, slug |-> proc[p].slug, npc |-> FALSE, place |-> Places(p)]
    <3>1. character' = [character EXCEPT ![p] = is]
      BY <2>2, Zenon DEF CreateSave
    <3>2. DOMAIN is = DOMAIN NoCharacter /\ is.exists = TRUE
      BY DEF NoCharacter
    <3> HIDE DEF is
    <3> QED  BY <1>0, <3>1, <3>2 DEF People
  <2>3. CASE Erase(p)
    BY <2>3, <1>0 DEF Erase, People, NoCharacter
  <2>4. CASE ConvertWrite(p)
    BY <2>4, <1>0 DEF ConvertWrite, People, NoCharacter
  <2>5. CASE SyncWrite(p)
    BY <2>5, <1>0 DEF SyncWrite, People, NoCharacter
  <2> QED  BY <2>1, <2>2, <2>3, <2>4, <2>5, CharacterWritten
<1>2. lazily' \subseteq Characters
  <2>1. OpenCreate(p) => proc[p].c \in Characters
    BY <1>0 DEF OpenCreate, Sits, Casting
  <2> QED  BY <1>0, <2>1, LazilyWritten DEF People, OpenCreate, CascadeInventory, OpenRollback, owned
<1>3. account' \in [Accounts -> Account]
  <2>0. account \in [Accounts -> Account] /\ purse \in Accounts /\ p \in Accounts
        /\ proc[p].seen \in [Accounts -> Account] /\ Op(p).who \in Characters
    BY <1>0 DEF People, Accounts, Sits, Operation
  <2>1. CASE UNCHANGED owning
    BY <2>0, <2>1 DEF owning
  <2>2. ASSUME NEW a \in Accounts, CascadeOwners(p, a)  PROVE account' \in [Accounts -> Account]
    <3> DEFINE seen == proc[p].seen[a]
               remaining == seen.owners \ {proc[p].c}
    <3>1. seen \in Account
      BY <2>0
    <3>2. remaining \in SUBSET Characters /\ seen.primary \in Characters \cup {Nobody}
      BY <3>1 DEF Account
    <3>3. CASE remaining = {}
      <4>1. account' = [account EXCEPT ![a] = NoAccount]
        BY <2>2, <3>3 DEF CascadeOwners
      <4> QED  BY <2>0, <4>1, NoAccountType
    <3>4. CASE remaining # {}
      <4>1. PICK heir \in remaining \cup {seen.primary} : WriteOwners(p, a, remaining, heir)
        BY <2>2, <3>4 DEF CascadeOwners
      <4>2. heir \in Characters \cup {Nobody}
        BY <3>2
      <4> HIDE DEF remaining
      <4> QED  BY <2>0, <3>2, <4>1, <4>2, WriteOwnersType
    <3> QED  BY <3>3, <3>4
  <2>3. CASE AccountInsert(p)
    <3>1. proc[p].c \in Characters
      BY <1>0, <2>3 DEF AccountInsert, Sits, Casting
    <3>2. [exists |-> TRUE, owners |-> {proc[p].c}, primary |-> proc[p].c] \in Account
      BY <3>1 DEF Account
    <3>3. account' = [account EXCEPT ![p] =
                        [exists |-> TRUE, owners |-> {proc[p].c}, primary |-> proc[p].c]]
      BY <2>3 DEF AccountInsert
    <3> QED  BY <2>0, <3>2, <3>3
  <2>4. CASE AddOwner(p) \/ RemoveOwner(p) \/ PassOwnership(p)
    <3>1. proc[p].seen[purse] \in Account /\ account[purse] \in Account
      BY <2>0
    <3>2. proc[p].seen[purse].owners \in SUBSET Characters
          /\ account[purse].primary \in Characters \cup {Nobody}
      BY <3>1 DEF Account
    <3>3. PICK owners \in SUBSET Characters, primary \in Characters \cup {Nobody} :
            WriteOwners(p, purse, owners, primary)
      BY <2>0, <2>4, <3>2 DEF AddOwner, RemoveOwner, PassOwnership
    <3> QED  BY <2>0, <3>3, WriteOwnersType
  <2> QED  BY <2>1, <2>2, <2>3, <2>4, OwningWritten
<1> QED  BY <1>1, <1>2, <1>3 DEF People

LEMMA PapersKept ==
  ASSUME EditsConsistent, Cast, NEW p \in Requests, Acts(p)
  PROVE  Papers'
<1>0. Shape /\ Papers
  BY DEF EditsConsistent, Cast
<1> USE DEF At, Is
<1>1. \A g \in Pages : page'[g].exists \in BOOLEAN /\ page'[g].ref \in Characters \cup {Nobody}
  <2>1. CASE UNCHANGED page
    BY <1>0, <2>1 DEF Papers
  <2>2. ASSUME NEW g \in Pages, page' = [page EXCEPT ![g].exists = FALSE]
        PROVE  \A h \in Pages : page'[h].exists \in BOOLEAN
                                /\ page'[h].ref \in Characters \cup {Nobody}
    BY <1>0, <2>2 DEF Papers, Shape, NoPage
  <2>3. ASSUME NEW g \in Pages, NEW is, page' = [page EXCEPT ![g] = is],
               is.exists \in BOOLEAN, is.ref \in Characters \cup {Nobody}
        PROVE  \A h \in Pages : page'[h].exists \in BOOLEAN
                                /\ page'[h].ref \in Characters \cup {Nobody}
    BY <1>0, <2>3 DEF Papers, Shape
  <2>4. Mine(p) \in Pages /\ p \in Pages /\ p \in Characters
    BY <1>0 DEF Mine, Shape, Pages, Characters
  <2>5. Unsave(p) \/ DropPage(p) => \E g \in Pages : page' = [page EXCEPT ![g].exists = FALSE]
    BY <2>4 DEF Unsave, DropPage
  <2>6. CASE SavePage(p)
    <3>1. CASE UNCHANGED page
      BY <2>1, <3>1
    <3> DEFINE is == [exists |-> TRUE, slug |-> desk[p].slug, type |-> Op(p).type,
                      ref |-> IF NeedsCharacter(p) THEN p ELSE Nobody, version |-> 0]
    <3>2. CASE page' = [page EXCEPT ![p] = is]
      <4>1. is.exists \in BOOLEAN /\ is.ref \in Characters \cup {Nobody}
        BY <2>4
      <4> HIDE DEF is
      <4> QED  BY <2>3, <2>4, <3>2, <4>1
    <3> QED  BY <2>6, <3>1, <3>2 DEF SavePage
  <2>7. CASE WritePage(p)
    <3>1. CASE UNCHANGED page
      BY <2>1, <3>1
    <3> DEFINE is == Patched(p, page[Mine(p)])
    <3>2. CASE page' = [page EXCEPT ![Mine(p)] = is]
      <4>1. is.exists \in BOOLEAN /\ is.ref \in Characters \cup {Nobody}
        BY <1>0, <2>4 DEF Patched, Papers
      <4> HIDE DEF is
      <4> QED  BY <2>3, <2>4, <3>2, <4>1
    <3> QED  BY <2>7, <3>1, <3>2 DEF WritePage, Write
  <2> QED  BY <2>1, <2>2, <2>5, <2>6, <2>7, PaperWritten
<1>2. \A q \in Requests : desk'[q].was = desk[q].was \/ (\E g \in Pages : desk'[q].was = page[g])
  <2>1. Mine(p) \in Pages
    BY <1>0 DEF Mine, Shape, Pages
  <2>2. ASSUME NEW x, desk' = [desk EXCEPT ![p].slug = x] \/ desk' = [desk EXCEPT ![p].loaded = x]
        PROVE  \A q \in Requests : desk'[q].was = desk[q].was
    BY <1>0, <2>2 DEF Shape
  <2>3. ASSUME ReadPage(p), ~UNCHANGED desk
        PROVE  \A q \in Requests : desk'[q].was = desk[q].was \/ desk'[q].was = page[Mine(p)]
    BY <1>0, <2>3 DEF Shape, ReadPage
  <2>4. SlugPage(p) \/ SlugCharacter(p) \/ Load(p) =>
          UNCHANGED desk \/ \E x : desk' = [desk EXCEPT ![p].slug = x]
                                   \/ desk' = [desk EXCEPT ![p].loaded = x]
    BY DEF SlugPage, SlugCharacter, Load
  <2> QED  BY <2>1, <2>2, <2>3, <2>4, PaperWritten
<1>3. \A q \in Requests : /\ DOMAIN desk'[q].was = DOMAIN NoPage
                          /\ desk'[q].was.version \in Nat
                          /\ desk'[q].was.ref \in Characters \cup {Nobody}
  BY <1>0, <1>2 DEF Papers, Shape
<1> QED  BY <1>1, <1>3 DEF Papers

LEMMA StepCast ==
  ASSUME EditsConsistent, Cast, NEW p \in Requests, Acts(p)
  PROVE  Cast'
<1>1. \A q \in Requests : Sits(q)'
  <2> SUFFICES ASSUME NEW q \in Requests, q # p  PROVE Sits(q)'
    BY CharactersSits, FilingSits DEF Acts
  <2> QED  BY Solo DEF Cast, Sits, Op
<1> QED  BY <1>1, PeopleKept, PapersKept DEF Cast

LEMMA FewElements ==
  ASSUME NEW a, NEW b, NEW c, NEW d
  PROVE  /\ IsFiniteSet({a, b}) /\ Cardinality({a, b}) <= 2
         /\ Cardinality({a, b, c, d}) <= 4
<1>1. IsFiniteSet({a}) /\ Cardinality({a}) = 1
  BY FS_Singleton
<1>2. IsFiniteSet({a} \cup {b}) /\ Cardinality({a} \cup {b}) \in {1, 2}
  BY <1>1, FS_AddElement
<1>3. IsFiniteSet({a} \cup {b} \cup {c}) /\ Cardinality({a} \cup {b} \cup {c}) \in {1, 2, 3}
  BY <1>2, FS_AddElement
<1>4. Cardinality({a} \cup {b} \cup {c} \cup {d}) \in {1, 2, 3, 4}
  BY <1>3, FS_AddElement
<1>5. {a} \cup {b} = {a, b} /\ {a} \cup {b} \cup {c} \cup {d} = {a, b, c, d}
  OBVIOUS
<1> QED  BY <1>2, <1>4, <1>5

(* Everything that is there at the start is something else. *)
LEMMA Cast0 ==
  /\ hero # squire /\ sheet # note /\ hero \notin Requests /\ squire \notin Requests
  /\ sheet \notin Requests /\ note \notin Requests /\ purse \notin Requests
  /\ Heroes # Squires /\ Heroes # Notes /\ Squires # Notes
<1>1. Cardinality({hero, squire, purse, sheet, note}) = 5 /\ Cardinality({Heroes, Squires, Notes}) = 3
  BY CharactersAssumption DEF CharactersAssumption
<1>2. hero # squire
  <2>1. Cardinality({hero, purse, sheet, note}) <= 4
    BY FewElements
  <2>2. hero = squire => {hero, squire, purse, sheet, note} = {hero, purse, sheet, note}
    OBVIOUS
  <2> QED  BY <1>1, <2>1, <2>2
<1>3. sheet # note
  <2>1. Cardinality({hero, squire, purse, sheet}) <= 4
    BY FewElements
  <2>2. sheet = note => {hero, squire, purse, sheet, note} = {hero, squire, purse, sheet}
    OBVIOUS
  <2> QED  BY <1>1, <2>1, <2>2
<1>4. Heroes # Squires /\ Heroes # Notes /\ Squires # Notes
  <2>1. Cardinality({Heroes, Notes}) <= 2 /\ Cardinality({Heroes, Squires}) <= 2
    BY FewElements
  <2>2. /\ Heroes = Squires => {Heroes, Squires, Notes} = {Heroes, Notes}
        /\ Heroes = Notes => {Heroes, Squires, Notes} = {Heroes, Squires}
        /\ Squires = Notes => {Heroes, Squires, Notes} = {Heroes, Squires}
    OBVIOUS
  <2> QED  BY <1>1, <2>1, <2>2
<1> QED  BY <1>2, <1>3, <1>4, CharactersAssumption DEF CharactersAssumption

LEMMA InitCast == Init => Cast
<1> SUFFICES ASSUME Init  PROVE Cast
  OBVIOUS
<1>0. hero \in Characters /\ squire \in Characters /\ hero # squire
  BY Cast0 DEF Characters
<1>1. \A p \in Requests : Sits(p)
  <2>1. PICK plan \in Plans : proc = [p \in Requests |-> Idle(plan[p])]
    BY DEF Init, CharactersInit
  <2>2. \A p \in Requests : plan[p] \in Operation
    BY CharactersAssumption DEF CharactersAssumption
  <2>3. \A p \in Requests : /\ Op(p) \in Operation /\ proc[p].pc = "start" /\ proc[p].failing = FALSE
                            /\ proc[p].seen = [a \in Accounts |-> NoAccount]
    BY <2>1, <2>2 DEF Idle, Op
  <2>4. [a \in Accounts |-> NoAccount] \in [Accounts -> Account]
    BY NoAccountType
  <2> QED  BY <2>3, <2>4 DEF Sits, Casting
<1>2. People
  <2>1. /\ DOMAIN character = Characters
        /\ \A c \in Characters : DOMAIN character[c] = DOMAIN NoCharacter
                                 /\ character[c].exists \in BOOLEAN
    BY DEF Init, CharactersInit, NoCharacter
  <2>2. account \in [Accounts -> Account]
    <3>1. [exists |-> TRUE, owners |-> {hero, squire}, primary |-> hero] \in Account
      BY <1>0 DEF Account
    <3>2. account = [a \in Accounts |->
            IF a = purse THEN [exists |-> TRUE, owners |-> {hero, squire}, primary |-> hero]
            ELSE NoAccount]
      BY DEF Init, CharactersInit
    <3> QED  BY <3>1, <3>2, NoAccountType
  <2>3. lazily \subseteq Characters
    BY DEF Init, CharactersInit
  <2> QED  BY <2>1, <2>2, <2>3 DEF People
<1>3. Papers
  <2>1. \A g \in Pages : page[g].exists \in BOOLEAN /\ page[g].ref \in Characters \cup {Nobody}
    BY <1>0 DEF Init, NoPage
  <2>2. \A p \in Requests : desk[p].was = NoPage
    BY DEF Init
  <2> QED  BY <2>1, <2>2 DEF Papers, NoPage
<1> QED  BY <1>1, <1>2, <1>3 DEF Cast

-----------------------------------------------------------------------------
(* No inventory without its character.                                     *)

Explained(c) ==
  character[c].exists \/ Deleting(c, {"inventory"}) \/ <<c, "inventory">> \in junk \/
    \E p \in Requests : proc[p].pc \in {"parent", "clear"} /\ proc[p].c = c

(* What exists goes on existing, or the one who erased it looks after it.  *)
LEMMA ExistsOn ==
  ASSUME EditsConsistent, Cast, NEW p \in Requests, Acts(p), NEW c \in Characters,
         character[c].exists, ~character'[c].exists
  PROVE  /\ Erase(p) /\ proc'[p].pc = "cascade" /\ proc'[p].c = c
         /\ proc'[p].todo = {"inventory", "accounts"}
<1>0. Shape /\ People /\ Sits(p)
  BY DEF EditsConsistent, Cast
<1>1. ~CreateSave(p)
  <2> SUFFICES ASSUME CreateSave(p)  PROVE FALSE
    OBVIOUS
  <2>1. ~UNCHANGED character
    OBVIOUS
  <2> DEFINE is == [exists |-> TRUE, slug |-> proc[p].slug, npc |-> FALSE, place |-> Places(p)]
  <2>2. character' = [character EXCEPT ![p] = is]
    BY <2>1, Zenon DEF CreateSave
  <2>3. is.exists = TRUE
    OBVIOUS
  <2> HIDE DEF is
  <2> QED  BY <1>0, <2>2, <2>3 DEF People
<1>2. ~ConvertWrite(p) /\ ~SyncWrite(p)
  BY <1>0 DEF ConvertWrite, SyncWrite, People, NoCharacter
<1>3. Erase(p)
  BY <1>1, <1>2, CharacterWritten
<1>4. proc[p].c = c
  BY <1>0, <1>3 DEF Erase, People, NoCharacter
<1>5. proc' = [proc EXCEPT ![p].pc = "cascade", ![p].todo = {"inventory", "accounts"}]
  BY <1>3 DEF Erase
<1>6. /\ proc'[p].pc = "cascade" /\ proc'[p].c = proc[p].c
      /\ proc'[p].todo = {"inventory", "accounts"}
  BY <1>0, <1>5 DEF Shape, Fields
<1> QED  BY <1>3, <1>4, <1>6

(* A listener stays to be called until it is through, or failed.           *)
LEMMA InventoryStays ==
  ASSUME EditsConsistent, Cast, NEW p \in Requests, Acts(p),
         proc[p].pc = "cascade", "inventory" \in proc[p].todo, ~CascadeInventory(p)
  PROVE  \/ proc'[p].pc = "cascade" /\ proc'[p].c = proc[p].c /\ "inventory" \in proc'[p].todo
         \/ <<proc[p].c, "inventory">> \in junk'
<1>0. Shape
  BY DEF EditsConsistent
<1>a. "inventory" \notin Accounts
  BY CharactersAssumption DEF CharactersAssumption
<1>1. CASE Die(p)
  BY <1>1 DEF Die
<1>2. CASE CascadeFind(p)
  <2> DEFINE found == {a \in Accounts : account[a].exists /\ proc[p].c \in Owners(a)}
             rest == (proc[p].todo \ {"accounts"}) \cup found
             seen == [a \in Accounts |-> IF a \in found THEN account[a] ELSE NoAccount]
  <2>1. "inventory" \in rest
    OBVIOUS
  <2>2. proc' = [proc EXCEPT ![p].todo = rest, ![p].seen = seen]
    BY <1>2, <2>1 DEF CascadeFind
  <2> HIDE DEF rest, seen
  <2> QED  BY <1>0, <2>1, <2>2 DEF Shape, Fields
<1>3. ASSUME NEW a \in Accounts, CascadeOwners(p, a)
      PROVE  proc'[p].pc = "cascade" /\ proc'[p].c = proc[p].c /\ "inventory" \in proc'[p].todo
  <2> DEFINE rest == proc[p].todo \ {a}
  <2>1. "inventory" \in rest /\ Settled(p, rest)
    BY <1>a, <1>3 DEF CascadeOwners
  <2> HIDE DEF rest
  <2>2. proc' = [proc EXCEPT ![p].todo = rest]
    BY <2>1 DEF Settled
  <2> QED  BY <1>0, <2>1, <2>2 DEF Shape, Fields
<1>4. ASSUME CascadeFails(p), <<proc[p].c, "inventory">> \notin junk'
      PROVE  proc'[p].pc = "cascade" /\ proc'[p].c = proc[p].c /\ "inventory" \in proc'[p].todo
  <2> DEFINE rest == proc[p].todo \cap {"inventory"}
  <2>1. "inventory" \in rest /\ Settled(p, rest)
    BY <1>4 DEF CascadeFails, Leave
  <2> HIDE DEF rest
  <2>2. proc' = [proc EXCEPT ![p].todo = rest]
    BY <2>1 DEF Settled
  <2> QED  BY <1>0, <2>1, <2>2 DEF Shape, Fields
<1> QED  BY <1>1, <1>2, <1>3, <1>4, WhereActs

LEMMA StepOrphan ==
  ASSUME EditsConsistent, Cast, OrphanExplained, NEW p \in Requests, Acts(p)
  PROVE  OrphanExplained'
<1> SUFFICES ASSUME NEW c \in lazily'  PROVE Explained(c)'
  BY DEF OrphanExplained, Explained
<1>0. Shape /\ People /\ People' /\ c \in Characters
  <2>1. Cast'
    BY StepCast
  <2> QED  BY <2>1 DEF EditsConsistent, Cast, People
<1>s. \A q \in Requests \ {p} : proc'[q] = proc[q]
  BY Solo
<1>1. CASE c \notin lazily
  <2>1. OpenCreate(p) /\ c = proc[p].c
    BY <1>1, LazilyWritten DEF CascadeInventory, OpenRollback, OpenCreate, owned
  <2>2. proc'[p].pc = "parent" /\ proc'[p].c = c
    BY <1>0, <1>1, <2>1 DEF OpenCreate, owned, Goto, Shape, Fields
  <2> QED  BY <2>2 DEF Explained
<1>2. CASE c \in lazily
  <2>0. Explained(c)
    BY <1>2 DEF OrphanExplained, Explained
  <2>1. CASE character[c].exists
    <3>1. CASE character'[c].exists
      BY <3>1 DEF Explained
    <3>2. CASE ~character'[c].exists
      BY <1>0, <2>1, <3>2, ExistsOn DEF Explained, Deleting
    <3> QED  BY <3>1, <3>2
  <2>2. ASSUME NEW q \in Requests, proc[q].pc = "cascade", proc[q].c = c, "inventory" \in proc[q].todo
        PROVE  Explained(c)'
    <3>1. CASE q # p
      BY <1>s, <2>2, <3>1 DEF Explained, Deleting
    <3>2. CASE q = p
      <4>1. ~CascadeInventory(p)
        BY <2>2, <3>2 DEF CascadeInventory
      <4> QED  BY <2>2, <3>2, <4>1, InventoryStays DEF Explained, Deleting
    <3> QED  BY <3>1, <3>2
  <2>3. ASSUME NEW q \in Requests, proc[q].pc \in {"parent", "clear"}, proc[q].c = c
        PROVE  Explained(c)'
    <3>1. CASE q # p
      BY <1>s, <2>3, <3>1 DEF Explained
    <3>2. CASE q = p
      <4>1. OpenRollback(p) => Explained(c)'
        BY <2>3, <3>2 DEF OpenRollback, Explained, Leave
      <4>2. CASE Die(p)
        BY <2>3, <3>2, <4>2 DEF Die, Explained
      <4>3. CASE OpenParent(p)
        <5>1. character[c].exists \/ Goto(p, "clear")
          BY <2>3, <3>2, <4>3 DEF OpenParent
        <5>2. UNCHANGED character
          BY <4>3 DEF OpenParent, Keep
        <5>3. Goto(p, "clear") => proc'[p].pc = "clear" /\ proc'[p].c = proc[p].c
          BY <1>0 DEF Goto, Shape, Fields
        <5> QED  BY <2>3, <3>2, <5>1, <5>2, <5>3 DEF Explained
      <4> QED  BY <2>3, <3>2, <4>1, <4>2, <4>3, WhereActs
    <3> QED  BY <3>1, <3>2
  <2>4. CASE <<c, "inventory">> \in junk
    BY <2>4, LeftGrows DEF Explained
  <2> QED  BY <2>0, <2>1, <2>2, <2>3, <2>4 DEF Explained, Deleting
<1> QED  BY <1>1, <1>2

(* UNCHANGED steps, and any kept conjunction. *)
LEMMA CastStutters == Cast /\ UNCHANGED vars => Cast'
BY DEF Cast, People, Papers, Sits, Op, vars, people, paper, owned, owning

(***************************************************************************)
(* What the properties below rest on: a request that is about a character  *)
(* knows one, the accounts it has read are accounts, and no step makes     *)
(* anything else of a character, an account or a page.                     *)
(***************************************************************************)
THEOREM CastType == Spec => [](EditsConsistent /\ Cast)
<1>1. EditsConsistent /\ Cast /\ [Next]_vars => EditsConsistent' /\ Cast'
  BY CastStutters, StepConsistent, SomebodyActs, StepCast
<1> QED  BY <1>1, InitConsistent, InitCast, PTL DEF Spec

(***************************************************************************)
(* RC-D1 (rollbackIfParentGone, onCharacterDeleted): an inventory made     *)
(* when it was first opened outlives its character only while whoever made *)
(* it has still to look again, or whoever deleted the character to delete  *)
(* it; or because one of them died before, or its deletion failed and the  *)
(* error was swallowed (CD-09).                                            *)
(***************************************************************************)
THEOREM OrphansExplained == Spec => []OrphanExplained
<1>1. Init => OrphanExplained
  BY DEF Init, CharactersInit, OrphanExplained
<1>2. EditsConsistent /\ Cast /\ OrphanExplained /\ [Next]_vars => OrphanExplained'
  <2>1. OrphanExplained /\ UNCHANGED vars => OrphanExplained'
    BY DEF OrphanExplained, Deleting, vars, people, owned
  <2> QED  BY <2>1, SomebodyActs, StepOrphan
<1> QED  BY <1>1, <1>2, CastType, PTL DEF Spec

-----------------------------------------------------------------------------
(* Where a step leads.                                                     *)

(* Where a step leads. *)
LEMMA WhereTo ==
  ASSUME EditsConsistent, NEW p \in Requests
  PROVE  /\ MayManage(p) => proc'[p].pc \in {"create", "erase", "convert", "done"}
         /\ CreateCheck(p) => proc'[p].pc \in {"save", "page", "write", "done"}
         /\ CreateSave(p) => proc'[p].pc \in {"furnish", "page", "write", "done"}
         /\ Furnish(p) => proc'[p].pc \in {"page", "write", "done"}
         /\ EraseFind(p) => proc'[p].pc \in {"vanish", "done"}
         /\ Erase(p) => proc'[p].pc \in {"cascade"}
         /\ CascadeInventory(p) \/ CascadeFails(p) => proc'[p].pc \in {"cascade", "done"}
         /\ CascadeFind(p) => proc'[p].pc \in {"cascade", "done"}
         /\ \A a \in Accounts : CascadeOwners(p, a) => proc'[p].pc \in {"cascade", "done"}
         /\ AccountFind(p) => proc'[p].pc \in {"count", "done"}
         /\ AccountCount(p) => proc'[p].pc \in {"insert", "done"}
         /\ ReadOwners(p) => proc'[p].pc \in {"own", "done"}
         /\ AccountInsert(p) \/ AddOwner(p) \/ RemoveOwner(p) \/ PassOwnership(p)
            \/ OpenRollback(p) \/ ConvertHide(p) \/ ConvertFit(p) \/ DropPage(p) \/ CloseWorld(p)
            \/ WritePage(p) \/ UndoFails(p) => proc'[p].pc \in {"done"}
         /\ OpenFind(p) => proc'[p].pc \in {"look", "done"}
         /\ OpenLook(p) => proc'[p].pc \in {"lay", "done"}
         /\ OpenCreate(p) => proc'[p].pc \in {"parent", "done"}
         /\ OpenParent(p) => proc'[p].pc \in {"clear", "done"}
         /\ ConvertFind(p) => proc'[p].pc \in {"become", "done"}
         /\ ConvertWrite(p) => proc'[p].pc \in {"hide", "refit"}
         /\ ConvertLook(p) => proc'[p].pc \in {"fit"}
         /\ SyncFind(p) => proc'[p].pc \in {"resync", "write", "done"}
         /\ SyncWrite(p) => proc'[p].pc \in {"write", "done"}
         /\ Die(p) => proc'[p] = proc[p]
         /\ SlugPage(p) => proc'[p].pc \in {"slug", "slugged"}
         /\ SlugCharacter(p) => proc'[p].pc \in {"slug", "create", "sync", "write", "page"}
         /\ CreateMay(p) => proc'[p].pc \in {"slug", "done"}
         /\ SavePage(p) => proc'[p].pc \in {"again", "erase", "done"}
         /\ WorldAgain(p) => proc'[p].pc \in {"unsave", "done"}
         /\ Unsave(p) \/ UnsaveFails(p) => proc'[p].pc \in {"erase", "done"}
         /\ Load(p) => proc'[p].pc \in {"read", "done"}
         /\ ReadPage(p) => proc'[p].pc \in {"may", "done"}
         /\ MayEdit(p) => proc'[p].pc \in {"slug", "create", "sync", "write", "done"}
         /\ DeleteMay(p) => proc'[p].pc \in {"find", "done"}
         /\ DeleteFind(p) => proc'[p].pc \in {"drop", "done"}
<1>0. Shape /\ Course(p)
  BY DEF EditsConsistent
<1> USE DEF At, Is
<1>g. ASSUME NEW pc, Goto(p, pc)  PROVE proc'[p].pc = pc
  BY <1>0, <1>g, GotoFrame
<1>e. ASSUME NEW answer, End(p, answer)  PROVE proc'[p].pc = "done"
  BY <1>0, <1>e, GoOnFrame DEF End
<1>c. ASSUME NEW pc, NEW c, proc' = [proc EXCEPT ![p].pc = pc, ![p].c = c]
      PROVE  proc'[p].pc = pc
  BY <1>0, <1>c DEF Shape, Fields
<1>r. ASSUME NEW ok \in BOOLEAN, Return(p, ok)  PROVE proc'[p].pc \in {proc[p].then, "done"}
  <2>1. GoOn(p, IF ok THEN proc[p].then ELSE proc[p].otherwise,
                IF ok /\ ~proc[p].failing THEN "ok" ELSE "refused")
    BY <1>r DEF Return
  <2>2. proc'[p].pc = IF ok THEN proc[p].then ELSE proc[p].otherwise
    BY <1>0, <2>1, GoOnFrame
  <2> QED  BY <1>0, <2>2 DEF Course
<1>m. proc[p].pc \in Making => proc[p].then \in {"page", "write", "done"}
  BY <1>0 DEF Course, Making
<1>o. proc[p].pc \in Others => proc[p].then = "done"
  BY <1>0 DEF Course, Making, Unmade, Others
<1>w. proc[p].pc \in {"sync", "resync"} => proc[p].then \in {"write", "done"}
  BY <1>0 DEF Course, Making, Unmade
<1>s. ASSUME NEW rest, Settled(p, rest), proc[p].pc = "cascade"
      PROVE  proc'[p].pc \in {"cascade", "done"}
  <2>1. CASE rest = {}
    BY <1>s, <1>r, <1>o, <2>1 DEF Settled, Others
  <2>2. CASE rest # {}
    BY <1>0, <1>s, <2>2 DEF Settled, Shape, Fields
  <2> QED  BY <2>1, <2>2
<1>p. ASSUME Proceed(p)  PROVE proc'[p].pc \in {"create", "sync", "write"}
  <2>1. ASSUME NEW pc, NEW slug, NEW c, NEW then, Call(p, pc, slug, c, then)
        PROVE  proc'[p].pc = pc
    BY <1>0, <2>1, CallFrame
  <2> QED  BY <1>p, <1>g, <2>1 DEF Proceed
<1>u. ASSUME Undo(p)  PROVE proc'[p].pc \in {"erase", "done"}
  <2>1. CASE NeedsCharacter(p)
    BY <1>0, <1>u, <2>1 DEF Undo, Shape, Fields
  <2> QED  BY <1>u, <1>e, <2>1 DEF Undo
<1>1. MayManage(p) => proc'[p].pc \in {"create", "erase", "convert", "done"}
  BY <1>g, <1>e DEF MayManage
<1>2. CreateCheck(p) => proc'[p].pc \in {"save", "page", "write", "done"}
  BY <1>g, <1>r, <1>m DEF CreateCheck, Making
<1>3. CreateSave(p) => proc'[p].pc \in {"furnish", "page", "write", "done"}
  BY <1>c, <1>r, <1>m DEF CreateSave, Making
<1>4. Furnish(p) => proc'[p].pc \in {"page", "write", "done"}
  BY <1>r, <1>m DEF Furnish, Making
<1>5. EraseFind(p) => proc'[p].pc \in {"vanish", "done"}
  BY <1>c, <1>r, <1>o DEF EraseFind, Others
<1>6. Erase(p) => proc'[p].pc \in {"cascade"}
  BY <1>0 DEF Erase, Shape, Fields
<1>7. CascadeInventory(p) \/ CascadeFails(p) => proc'[p].pc \in {"cascade", "done"}
  BY <1>s DEF CascadeInventory, CascadeFails, Deletes
<1>8. CascadeFind(p) => proc'[p].pc \in {"cascade", "done"}
  <2> SUFFICES ASSUME CascadeFind(p)  PROVE proc'[p].pc \in {"cascade", "done"}
    OBVIOUS
  <2>1. ASSUME NEW rest, NEW seen, proc' = [proc EXCEPT ![p].todo = rest, ![p].seen = seen]
        PROVE  proc'[p].pc = proc[p].pc
    BY <1>0, <2>1 DEF Shape, Fields
  <2>2. proc[p].pc = "cascade"
    BY DEF CascadeFind, Deletes
  <2>3. Settled(p, {}) \/ \E rest, seen : proc' = [proc EXCEPT ![p].todo = rest, ![p].seen = seen]
    BY Zenon DEF CascadeFind
  <2> QED  BY <1>s, <2>1, <2>2, <2>3
<1>9. \A a \in Accounts : CascadeOwners(p, a) => proc'[p].pc \in {"cascade", "done"}
  BY <1>s DEF CascadeOwners, Deletes
<1>10. AccountFind(p) => proc'[p].pc \in {"count", "done"}
  BY <1>c, <1>e DEF AccountFind
<1>11. AccountCount(p) => proc'[p].pc \in {"insert", "done"}
  <2>1. ASSUME NEW n, proc' = [proc EXCEPT ![p].pc = "insert", ![p].count = n]
        PROVE  proc'[p].pc = "insert"
    BY <1>0, <2>1 DEF Shape, Fields
  <2> QED  BY <1>e, <2>1 DEF AccountCount
<1>12. ReadOwners(p) => proc'[p].pc \in {"own", "done"}
  <2>1. ASSUME NEW is, proc' = [proc EXCEPT ![p].pc = "own", ![p].seen[purse] = is]
        PROVE  proc'[p].pc = "own"
    BY <1>0, <2>1 DEF Shape, Fields
  <2> QED  BY <1>e, <2>1 DEF ReadOwners
<1>13. AccountInsert(p) \/ AddOwner(p) \/ RemoveOwner(p) \/ PassOwnership(p)
       \/ OpenRollback(p) \/ ConvertHide(p) \/ ConvertFit(p) \/ DropPage(p) \/ CloseWorld(p)
       \/ WritePage(p) \/ UndoFails(p) => proc'[p].pc \in {"done"}
  BY <1>e DEF AccountInsert, AddOwner, RemoveOwner, PassOwnership, OpenRollback, ConvertHide,
     ConvertFit, DropPage, CloseWorld, WritePage, Write, UndoFails
<1>14. OpenFind(p) => proc'[p].pc \in {"look", "done"}
  BY <1>c, <1>e DEF OpenFind
<1>15. OpenLook(p) => proc'[p].pc \in {"lay", "done"}
  BY <1>g, <1>e DEF OpenLook
<1>16. OpenCreate(p) => proc'[p].pc \in {"parent", "done"}
  BY <1>g, <1>e DEF OpenCreate
<1>17. OpenParent(p) => proc'[p].pc \in {"clear", "done"}
  BY <1>g, <1>e DEF OpenParent
<1>18. ConvertFind(p) => proc'[p].pc \in {"become", "done"}
  BY <1>c, <1>e DEF ConvertFind
<1>19. ConvertWrite(p) => proc'[p].pc \in {"hide", "refit"}
  BY <1>g DEF ConvertWrite
<1>20. ConvertLook(p) => proc'[p].pc \in {"fit"}
  BY <1>0 DEF ConvertLook, Shape, Fields
<1>21. SyncFind(p) => proc'[p].pc \in {"resync", "write", "done"}
  BY <1>g, <1>w DEF SyncFind
<1>22. SyncWrite(p) => proc'[p].pc \in {"write", "done"}
  BY <1>g, <1>w DEF SyncWrite
<1>23. Die(p) => proc'[p] = proc[p]
  BY DEF Die
<1>24. SlugPage(p) => proc'[p].pc \in {"slug", "slugged"}
  BY <1>g DEF SlugPage
<1>25. SlugCharacter(p) => proc'[p].pc \in {"slug", "create", "sync", "write", "page"}
  <2>1. ASSUME NEW slug, Call(p, "create", slug, Nobody, "page")  PROVE proc'[p].pc = "create"
    BY <1>0, <2>1, CallFrame
  <2> QED  BY <1>g, <1>p, <2>1 DEF SlugCharacter
<1>26. CreateMay(p) => proc'[p].pc \in {"slug", "done"}
  BY <1>g, <1>e DEF CreateMay, Step, Refuse
<1>27. SavePage(p) => proc'[p].pc \in {"again", "erase", "done"}
  BY <1>g, <1>u DEF SavePage
<1>28. WorldAgain(p) => proc'[p].pc \in {"unsave", "done"}
  BY <1>g, <1>e DEF WorldAgain
<1>29. Unsave(p) \/ UnsaveFails(p) => proc'[p].pc \in {"erase", "done"}
  BY <1>u DEF Unsave, UnsaveFails
<1>30. Load(p) => proc'[p].pc \in {"read", "done"}
  BY <1>g, <1>e DEF Load
<1>31. ReadPage(p) => proc'[p].pc \in {"may", "done"}
  BY <1>g, <1>e DEF ReadPage
<1>32. MayEdit(p) => proc'[p].pc \in {"slug", "create", "sync", "write", "done"}
  BY <1>g, <1>e, <1>p DEF MayEdit
<1>33. DeleteMay(p) => proc'[p].pc \in {"find", "done"}
  BY <1>g, <1>e DEF DeleteMay, Step, Refuse
<1>34. DeleteFind(p) => proc'[p].pc \in {"drop", "done"}
  BY <1>g, <1>e DEF DeleteFind, Step, Refuse
<1> QED
  BY <1>1, <1>2, <1>3, <1>4, <1>5, <1>6, <1>7, <1>8, <1>9, <1>10, <1>11, <1>12, <1>13, <1>14,
     <1>15, <1>16, <1>17, <1>18, <1>19, <1>20, <1>21, <1>22, <1>23, <1>24, <1>25, <1>26, <1>27,
     <1>28, <1>29, <1>30, <1>31, <1>32, <1>33, <1>34

(* How a request gets where it is. *)
LEMMA WhereFrom ==
  ASSUME EditsConsistent, NEW p \in Requests, Acts(p), ~Die(p)
  PROVE  /\ proc'[p].pc = "insert" => AccountCount(p)
         /\ proc'[p].pc = "own" => ReadOwners(p)
         /\ proc'[p].pc = "erase" => MayManage(p) \/ SavePage(p) \/ Unsave(p) \/ UnsaveFails(p)
         /\ proc'[p].pc = "vanish" => EraseFind(p)
         /\ proc'[p].pc = "cascade" => \/ Erase(p) \/ CascadeInventory(p) \/ CascadeFind(p)
                                       \/ CascadeFails(p) \/ \E a \in Accounts : CascadeOwners(p, a)
         /\ proc'[p].pc = "save" => CreateCheck(p)
         /\ proc'[p].pc = "furnish" => CreateSave(p)
         /\ proc'[p].pc = "create" => MayManage(p) \/ SlugCharacter(p) \/ MayEdit(p)
         /\ proc'[p].pc = "sync" => SlugCharacter(p) \/ MayEdit(p)
         /\ proc'[p].pc = "resync" => SyncFind(p)
         /\ proc'[p].pc = "page" => \/ CreateCheck(p) \/ CreateSave(p) \/ Furnish(p)
                                    \/ SlugCharacter(p)
         /\ proc'[p].pc = "write" => \/ CreateCheck(p) \/ CreateSave(p) \/ Furnish(p)
                                     \/ SlugCharacter(p) \/ MayEdit(p) \/ SyncFind(p)
                                     \/ SyncWrite(p)
         /\ proc'[p].pc = "again" => SavePage(p)
         /\ proc'[p].pc = "unsave" => WorldAgain(p)
         /\ proc'[p].pc = "slug" => SlugPage(p) \/ SlugCharacter(p) \/ CreateMay(p) \/ MayEdit(p)
         /\ proc'[p].pc = "slugged" => SlugPage(p)
         /\ proc'[p].pc = "read" => Load(p)
         /\ proc'[p].pc = "may" => ReadPage(p)
BY WhereTo DEF Acts, Peopling, Filing

-----------------------------------------------------------------------------
(* The limit of accounts.                                                  *)

(* Who is about to get an account was counted below the limit.             *)
Counted == \A p \in Requests : proc[p].pc = "insert" => /\ proc[p].count \in Nat
                                                        /\ proc[p].count < AccountLimit

LEMMA AccountsFinite ==
  ASSUME NEW S \in SUBSET Accounts
  PROVE  IsFiniteSet(S) /\ Cardinality(S) \in Nat
<1>1. IsFiniteSet(Requests \cup {purse})
  BY CharactersAssumption, FS_AddElement DEF CharactersAssumption
<1> QED  BY <1>1, FS_Subset, FS_CardinalityType DEF Accounts

LEMMA StepCounted ==
  ASSUME EditsConsistent, Counted, NEW p \in Requests, Acts(p)
  PROVE  Counted'
<1> SUFFICES ASSUME NEW q \in Requests, proc'[q].pc = "insert"
             PROVE  proc'[q].count \in Nat /\ proc'[q].count < AccountLimit
  BY DEF Counted
<1>0. Shape
  BY DEF EditsConsistent
<1>1. CASE q # p
  <2>1. proc'[q] = proc[q]
    BY <1>1, Solo
  <2> QED  BY <2>1 DEF Counted
<1>2. CASE q = p /\ Die(p)
  BY <1>2 DEF Die, Counted
<1>3. CASE q = p /\ ~Die(p)
  <2> DEFINE n == Cardinality(AccountsOf(proc[p].c))
  <2>1. AccountCount(p)
    BY <1>3, WhereFrom
  <2>2. proc'[p].pc # "done"
    BY <1>3
  <2>3. n < AccountLimit /\ n \in Nat /\ proc' = [proc EXCEPT ![p].pc = "insert", ![p].count = n]
    <3>1. n \in Nat
      BY AccountsFinite DEF AccountsOf
    <3>2. ~End(p, "refused")
      BY <1>0, <2>2, GoOnFrame DEF End
    <3> HIDE DEF n
    <3>3. ~(n >= AccountLimit) /\ proc' = [proc EXCEPT ![p].pc = "insert", ![p].count = n]
      BY <2>1, <3>2 DEF AccountCount, n
    <3>4. AccountLimit \in Nat
      BY CharactersAssumption DEF CharactersAssumption
    <3> QED  BY <3>1, <3>3, <3>4
  <2> HIDE DEF n
  <2>4. proc'[p].count = n
    BY <1>0, <2>3 DEF Shape, Fields
  <2> QED  BY <1>3, <2>3, <2>4
<1> QED  BY <1>1, <1>2, <1>3

(* An owner who is written gains nothing or is crowded.                    *)
LEMMA WrittenGainsNothing ==
  ASSUME People, NEW p, NEW a \in Accounts, NEW owners, NEW primary,
         WriteOwners(p, a, owners, primary), NEW c, c \notin crowded'
  PROVE  AccountsOf(c)' \subseteq AccountsOf(c) /\ c \notin crowded
<1> DEFINE gained == owners \ Owners(a)
<1>1. crowded' = crowded \cup gained
  BY DEF WriteOwners
<1>2. c \notin crowded /\ (c \in owners => c \in Owners(a))
  BY <1>1
<1> DEFINE is == [account[a] EXCEPT !.owners = owners, !.primary = primary]
<1>3. \/ account' = account
      \/ (account[a].exists /\ account' = [account EXCEPT ![a] = is])
  <2>1. account[a] \in Account /\ account \in [Accounts -> Account]
    BY DEF People
  <2>2. CASE account[a].exists
    <3>1. account' = [account EXCEPT ![a].owners = owners, ![a].primary = primary]
      BY <2>2 DEF WriteOwners
    <3> QED  BY <2>1, <2>2, <3>1 DEF Account
  <2> QED  BY <2>2 DEF WriteOwners
<1>4. account \in [Accounts -> Account] /\ account[a] \in Account
  BY DEF People
<1>5. CASE account' = account
  BY <1>2, <1>5 DEF AccountsOf, Owners
<1>6. CASE account[a].exists /\ account' = [account EXCEPT ![a] = is]
  <2>1. \A b \in Accounts \ {a} : account'[b] = account[b]
    BY <1>4, <1>6
  <2>2. account'[a].owners = owners
    BY <1>4, <1>6 DEF Account
  <2> QED  BY <1>2, <1>6, <2>1, <2>2 DEF AccountsOf, Owners
<1> QED  BY <1>3, <1>5, <1>6

LEMMA StepLimit ==
  ASSUME EditsConsistent, Cast, Counted, AccountLimitExplained, NEW p \in Requests, Acts(p)
  PROVE  AccountLimitExplained'
<1> SUFFICES ASSUME NEW c \in Characters, c \notin crowded'
             PROVE  Cardinality(AccountsOf(c)') <= AccountLimit
  BY DEF AccountLimitExplained
<1>0. People /\ Shape /\ account \in [Accounts -> Account] /\ AccountLimit \in Nat
  BY CharactersAssumption DEF EditsConsistent, Cast, People, CharactersAssumption
<1>f. IsFiniteSet(AccountsOf(c)) /\ Cardinality(AccountsOf(c)) \in Nat
  BY AccountsFinite DEF AccountsOf
<1>s. ASSUME c \notin crowded, AccountsOf(c)' \subseteq AccountsOf(c)
      PROVE  Cardinality(AccountsOf(c)') <= AccountLimit
  <2>1. Cardinality(AccountsOf(c)) <= AccountLimit
    BY <1>s DEF AccountLimitExplained
  <2>2. Cardinality(AccountsOf(c)') <= Cardinality(AccountsOf(c)) /\ Cardinality(AccountsOf(c)') \in Nat
    BY <1>f, <1>s, FS_Subset, FS_CardinalityType
  <2> QED  BY <1>0, <1>f, <2>1, <2>2
<1>1. CASE UNCHANGED owning
  BY <1>s, <1>1 DEF owning, AccountsOf, Owners
<1>2. ASSUME NEW a \in Accounts, CascadeOwners(p, a)
      PROVE  Cardinality(AccountsOf(c)') <= AccountLimit
  <2>1. CASE account' = [account EXCEPT ![a] = NoAccount] /\ UNCHANGED crowded
    <3>1. AccountsOf(c)' \subseteq AccountsOf(c)
      BY <1>0, <2>1 DEF AccountsOf, Owners, NoAccount
    <3> QED  BY <1>s, <2>1, <3>1
  <2>2. ASSUME NEW owners, NEW primary, WriteOwners(p, a, owners, primary)
        PROVE  Cardinality(AccountsOf(c)') <= AccountLimit
    BY <1>0, <1>s, <2>2, WrittenGainsNothing
  <2>3. \/ account' = [account EXCEPT ![a] = NoAccount] /\ UNCHANGED crowded
        \/ \E owners, primary : WriteOwners(p, a, owners, primary)
    BY <1>2 DEF CascadeOwners
  <2> QED  BY <2>1, <2>2, <2>3
<1>3. CASE AddOwner(p) \/ RemoveOwner(p) \/ PassOwnership(p)
  <2>1. PICK owners, primary : WriteOwners(p, purse, owners, primary)
    BY <1>3 DEF AddOwner, RemoveOwner, PassOwnership
  <2>2. purse \in Accounts
    BY DEF Accounts
  <2> QED  BY <1>0, <1>s, <2>1, <2>2, WrittenGainsNothing
<1>4. CASE AccountInsert(p)
  <2> DEFINE d == proc[p].c
             is == [exists |-> TRUE, owners |-> {d}, primary |-> d]
  <2>1. account' = [account EXCEPT ![p] = is]
    BY <1>4 DEF AccountInsert
  <2>2. \A a \in Accounts \ {p} : account'[a] = account[a]
    BY <1>0, <2>1
  <2>3. p \in Accounts
    BY DEF Accounts
  <2>4. account'[p].owners = {d}
    BY <1>0, <2>1, <2>3
  <2>5. c \notin crowded
    BY <1>4 DEF AccountInsert
  <2>6. CASE c # d
    <3>1. AccountsOf(c)' \subseteq AccountsOf(c)
      BY <2>2, <2>4, <2>6 DEF AccountsOf, Owners
    <3> QED  BY <1>s, <2>5, <3>1
  <2>7. CASE c = d
    <3>1. Cardinality(AccountsOf(c)) = proc[p].count
      BY <1>4, <2>7 DEF AccountInsert
    <3>2. proc[p].count < AccountLimit
      BY <1>4 DEF AccountInsert, Is, At, Counted
    <3>3. AccountsOf(c)' \subseteq AccountsOf(c) \cup {p}
      BY <2>2 DEF AccountsOf, Owners
    <3>4. IsFiniteSet(AccountsOf(c) \cup {p})
          /\ Cardinality(AccountsOf(c) \cup {p}) <= Cardinality(AccountsOf(c)) + 1
          /\ Cardinality(AccountsOf(c) \cup {p}) \in Nat
      <4>1. IsFiniteSet(AccountsOf(c) \cup {p})
        BY <1>f, FS_AddElement
      <4>2. Cardinality(AccountsOf(c) \cup {p}) =
              IF p \in AccountsOf(c) THEN Cardinality(AccountsOf(c)) ELSE Cardinality(AccountsOf(c)) + 1
        BY <1>f, FS_AddElement
      <4>3. Cardinality(AccountsOf(c) \cup {p}) \in Nat
        BY <4>1, FS_CardinalityType
      <4> QED  BY <1>f, <4>1, <4>2, <4>3
    <3>5. Cardinality(AccountsOf(c)') <= Cardinality(AccountsOf(c) \cup {p})
          /\ Cardinality(AccountsOf(c)') \in Nat
      BY <3>3, <3>4, FS_Subset, FS_CardinalityType
    <3> QED  BY <1>0, <1>f, <3>1, <3>2, <3>4, <3>5
  <2> QED  BY <2>6, <2>7
<1> QED  BY <1>1, <1>2, <1>3, <1>4, OwningWritten

(***************************************************************************)
(* createAccount (Q8.6): the count before the insert keeps the limit for   *)
(* every character that nobody gave an account to while it was counted, and *)
(* that did not become a co-owner, which is not counted.                   *)
(***************************************************************************)
THEOREM LimitKept == Spec => []AccountLimitExplained
<1>1. Init => Counted /\ AccountLimitExplained
  <2> SUFFICES ASSUME Init  PROVE Counted /\ AccountLimitExplained
    OBVIOUS
  <2>1. Counted
    BY DEF Init, CharactersInit, Counted, Idle
  <2>2. ASSUME NEW c \in Characters  PROVE Cardinality(AccountsOf(c)) <= AccountLimit
    <3>1. AccountsOf(c) \subseteq {purse}
      BY DEF Init, CharactersInit, AccountsOf, NoAccount
    <3>2. IsFiniteSet({purse}) /\ Cardinality({purse}) = 1
      BY FS_Singleton
    <3>3. Cardinality(AccountsOf(c)) <= 1 /\ Cardinality(AccountsOf(c)) \in Nat
      BY <3>1, <3>2, FS_Subset, FS_CardinalityType
    <3>4. AccountLimit \in Nat \ {0}
      BY CharactersAssumption DEF CharactersAssumption
    <3> QED  BY <3>3, <3>4
  <2> QED  BY <2>1, <2>2 DEF AccountLimitExplained
<1>2. EditsConsistent /\ Cast /\ Counted /\ AccountLimitExplained /\ [Next]_vars
      => Counted' /\ AccountLimitExplained'
  <2>1. Counted /\ AccountLimitExplained /\ UNCHANGED vars => Counted' /\ AccountLimitExplained'
    BY DEF Counted, AccountLimitExplained, AccountsOf, Owners, vars, people, owning
  <2> QED  BY <2>1, SomebodyActs, StepCounted, StepLimit
<1> QED  BY <1>1, <1>2, CastType, PTL DEF Spec

-----------------------------------------------------------------------------
(* The owners of an account.                                               *)

(* Who is removed is not the primary owner of what was read. *)
Removable ==
  \A p \in Requests : Op(p).kind = "remove" /\ proc[p].pc = "own"
                      => Op(p).who # proc[p].seen[purse].primary

Listed(c, a) ==
  character[c].exists \/ Deleting(c, {a, "accounts"}) \/ <<c, "accounts">> \in junk

Owned ==
  \A a \in Accounts : account[a].exists /\ a \notin stale =>
    /\ account[a].primary \in Owners(a)
    /\ \A c \in Owners(a) : Listed(c, a)

LEMMA StepRemovable ==
  ASSUME EditsConsistent, Cast, Removable, NEW p \in Requests, Acts(p)
  PROVE  Removable'
<1> SUFFICES ASSUME NEW q \in Requests, Op(q)'.kind = "remove", proc'[q].pc = "own"
             PROVE  Op(q)'.who # proc'[q].seen[purse].primary
  BY DEF Removable
<1>0. Shape /\ Op(q)' = Op(q) /\ purse \in Accounts
  BY Solo DEF EditsConsistent, Accounts
<1>1. CASE q # p
  <2>1. proc'[q] = proc[q]
    BY <1>1, Solo
  <2> QED  BY <1>0, <2>1 DEF Removable
<1>2. CASE q = p /\ Die(p)
  BY <1>0, <1>2 DEF Die, Removable
<1>3. CASE q = p /\ ~Die(p)
  <2>1. ReadOwners(p)
    BY <1>3, WhereFrom
  <2>2. ~End(p, "refused") /\ ~End(p, "ok")
    BY <1>0, <1>3, GoOnFrame DEF End
  <2>3. /\ Op(p).who # account[purse].primary
        /\ proc' = [proc EXCEPT ![p].pc = "own", ![p].seen[purse] = account[purse]]
    BY <1>0, <1>3, <2>1, <2>2 DEF ReadOwners
  <2>4. proc'[p].seen = [proc[p].seen EXCEPT ![purse] = account[purse]]
    BY <1>0, <2>3 DEF Shape, Fields
  <2>5. purse \in DOMAIN proc[p].seen
    BY <1>0 DEF Cast, Sits
  <2> QED  BY <1>0, <1>3, <2>3, <2>4, <2>5
<1> QED  BY <1>1, <1>2, <1>3

(* What an owner is written over, when nobody got in between. *)
LEMMA WrittenOver ==
  ASSUME People, NEW p \in Requests, NEW a \in Accounts, NEW owners, NEW primary,
         WriteOwners(p, a, owners, primary), a \notin stale', account'[a].exists
  PROVE  /\ account[a].exists /\ a \notin stale /\ account[a] = proc[p].seen[a]
         /\ account'[a].owners = owners /\ account'[a].primary = primary
         /\ \A c \in owners : c \in Owners(a) \/ character[c].exists
         /\ UNCHANGED character
         /\ \A b \in Accounts \ {a} : account'[b] = account[b]
<1>1. account[a] \in Account /\ account \in [Accounts -> Account]
  BY DEF People
<1>2. account[a].exists
  BY DEF WriteOwners
<1>3. account' = [account EXCEPT ![a].owners = owners, ![a].primary = primary]
  BY <1>2 DEF WriteOwners
<1>4. account'[a].owners = owners /\ account'[a].primary = primary
  BY <1>1, <1>3 DEF Account
<1>5. \A b \in Accounts \ {a} : account'[b] = account[b]
  BY <1>1, <1>3
<1> DEFINE over == account[a] # proc[p].seen[a]
                   \/ \E c \in owners \ Owners(a) : ~character[c].exists
<1>6. ~over
  <2>1. stale' = IF over THEN stale \cup {a} ELSE stale
    BY DEF WriteOwners
  <2> HIDE DEF over
  <2> QED  BY <2>1
<1>7. a \notin stale /\ UNCHANGED character
  BY DEF WriteOwners
<1> QED  BY <1>2, <1>4, <1>5, <1>6, <1>7

(* Somebody who looks after an account goes on, unless he writes it.       *)
LEMMA StaysListed ==
  ASSUME EditsConsistent, Cast, NEW p \in Requests, Acts(p), NEW a \in Accounts,
         account[a].exists, NEW c \in Owners(a), Listed(c, a),
         proc[p].pc = "cascade" /\ proc[p].c = c => ~CascadeOwners(p, a)
  PROVE  Listed(c, a)'
<1>0. Shape /\ People /\ c \in Characters
  BY DEF EditsConsistent, Cast, People, Owners, Account
<1>a. a \notin {"inventory", "accounts"}
  BY CharactersAssumption DEF CharactersAssumption
<1>1. CASE character[c].exists
  <2>1. CASE character'[c].exists
    BY <2>1 DEF Listed
  <2>2. CASE ~character'[c].exists
    BY <1>0, <1>1, <2>2, ExistsOn DEF Listed, Deleting
  <2> QED  BY <2>1, <2>2
<1>2. ASSUME NEW q \in Requests, proc[q].pc = "cascade", proc[q].c = c,
             proc[q].todo \cap {a, "accounts"} # {}
      PROVE  Listed(c, a)'
  <2> SUFFICES ASSUME <<c, "accounts">> \notin junk'
               PROVE  /\ proc'[q].pc = "cascade" /\ proc'[q].c = c
                      /\ proc'[q].todo \cap {a, "accounts"} # {}
    BY DEF Listed, Deleting
  <2>1. CASE q # p
    BY <1>2, <2>1, Solo
  <2>2. CASE q = p
    <3>1. CASE Die(p)
      BY <1>2, <2>2, <3>1 DEF Die
    <3>s. ASSUME NEW rest, Settled(p, rest), rest \cap {a, "accounts"} # {}
          PROVE  /\ proc'[q].pc = "cascade" /\ proc'[q].c = c
                 /\ proc'[q].todo \cap {a, "accounts"} # {}
      <4>1. proc' = [proc EXCEPT ![p].todo = rest]
        BY <3>s DEF Settled
      <4>2. proc'[p].pc = proc[p].pc /\ proc'[p].c = proc[p].c /\ proc'[p].todo = rest
        BY <1>0, <4>1 DEF Shape, Fields
      <4> QED  BY <1>2, <2>2, <3>s, <4>2
    <3>2. CASE CascadeInventory(p) \/ CascadeFails(p)
      <4> DEFINE rest == proc[p].todo \ {"inventory"}
      <4>1. rest \cap {a, "accounts"} # {}
        BY <1>a, <1>2, <2>2
      <4>2. Settled(p, rest)
        BY <1>2, <2>2, <3>2 DEF CascadeInventory, CascadeFails, Leave
      <4> HIDE DEF rest
      <4> QED  BY <3>s, <4>1, <4>2
    <3>3. CASE CascadeFind(p)
      <4> DEFINE found == {b \in Accounts : account[b].exists /\ proc[p].c \in Owners(b)}
                 rest == (proc[p].todo \ {"accounts"}) \cup found
                 seen == [b \in Accounts |-> IF b \in found THEN account[b] ELSE NoAccount]
      <4>1. a \in rest
        BY <1>2, <2>2
      <4>2. proc' = [proc EXCEPT ![p].todo = rest, ![p].seen = seen]
        BY <3>3, <4>1 DEF CascadeFind
      <4> HIDE DEF rest, seen
      <4>3. proc'[p].pc = proc[p].pc /\ proc'[p].c = proc[p].c /\ proc'[p].todo = rest
        BY <1>0, <4>2 DEF Shape, Fields
      <4> QED  BY <1>2, <2>2, <4>1, <4>3
    <3>4. ASSUME NEW b \in Accounts, CascadeOwners(p, b)
          PROVE  /\ proc'[q].pc = "cascade" /\ proc'[q].c = c
                 /\ proc'[q].todo \cap {a, "accounts"} # {}
      <4> DEFINE rest == proc[p].todo \ {b}
      <4>1. b # a /\ b # "accounts"
        BY <1>2, <2>2, <3>4, CharactersAssumption DEF CharactersAssumption
      <4>2. rest \cap {a, "accounts"} # {}
        BY <1>2, <2>2, <4>1
      <4>3. Settled(p, rest)
        BY <3>4 DEF CascadeOwners
      <4> HIDE DEF rest
      <4> QED  BY <3>s, <4>2, <4>3
    <3> QED  BY <1>2, <2>2, <3>1, <3>2, <3>3, <3>4, WhereActs
  <2> QED  BY <2>1, <2>2
<1>3. CASE <<c, "accounts">> \in junk
  BY <1>3, LeftGrows DEF Listed
<1> QED  BY <1>1, <1>2, <1>3 DEF Listed, Deleting

LEMMA StepOwned ==
  ASSUME EditsConsistent, Cast, Removable, Owned, NEW p \in Requests, Acts(p)
  PROVE  Owned'
<1> SUFFICES ASSUME NEW a \in Accounts, account'[a].exists, a \notin stale'
             PROVE  /\ account'[a].primary \in account'[a].owners
                    /\ \A c \in account'[a].owners : Listed(c, a)'
  BY DEF Owned, Owners
<1>0. Shape /\ People /\ account \in [Accounts -> Account]
  BY DEF EditsConsistent, Cast, People
<1>1. a \notin stale
  BY OwningWritten DEF owning, CascadeOwners, AccountInsert, AddOwner, RemoveOwner,
     PassOwnership, WriteOwners
<1>2. ASSUME account[a].exists
      PROVE  account[a].primary \in Owners(a) /\ \A c \in Owners(a) : Listed(c, a)
  BY <1>1, <1>2 DEF Owned
(* Nothing was written of it. *)
<1>3. CASE account'[a] = account[a] /\ ~CascadeOwners(p, a)
  <2>1. \A c \in Owners(a) : Listed(c, a)'
    BY <1>2, <1>3, StaysListed
  <2> QED  BY <1>2, <1>3, <2>1 DEF Owners
(* The owner that is deleted leaves it. *)
<1>4. CASE CascadeOwners(p, a)
  <2> DEFINE seen == proc[p].seen[a]
             remaining == seen.owners \ {proc[p].c}
  <2>1. remaining # {}
    <3>1. remaining = {} => account' = [account EXCEPT ![a] = NoAccount]
      BY <1>4 DEF CascadeOwners
    <3>2. account' = [account EXCEPT ![a] = NoAccount] => account'[a].exists = FALSE
      BY <1>0 DEF NoAccount
    <3> QED  BY <3>1, <3>2
  <2>2. PICK heir \in IF seen.primary = proc[p].c THEN remaining ELSE {seen.primary} :
               WriteOwners(p, a, remaining, heir)
    BY <1>4, <2>1 DEF CascadeOwners
  <2>3. /\ account[a].exists /\ account[a] = seen /\ account'[a].owners = remaining
        /\ account'[a].primary = heir /\ UNCHANGED character
    <3> HIDE DEF remaining
    <3> QED  BY <1>0, <2>2, WrittenOver
  <2>4. heir \in remaining
    BY <1>2, <2>2, <2>3 DEF Owners
  <2>5. ASSUME NEW c \in remaining  PROVE Listed(c, a)'
    <3>1. c \in Owners(a) /\ c # proc[p].c
      BY <2>3 DEF Owners
    <3>2. Listed(c, a)
      BY <1>2, <2>3, <3>1
    <3> QED  BY <2>3, <3>1, <3>2, StaysListed
  <2> QED  BY <2>3, <2>4, <2>5
(* A new account. *)
<1>5. CASE AccountInsert(p) /\ a = p
  <2> DEFINE c == proc[p].c
             is == [exists |-> TRUE, owners |-> {c}, primary |-> c]
  <2>1. account' = [account EXCEPT ![p] = is] /\ UNCHANGED character
    BY <1>5 DEF AccountInsert
  <2>2. character[c].exists
    BY <1>5 DEF AccountInsert
  <2>3. account'[a] = is
    BY <1>0, <1>5, <2>1
  <2> QED  BY <2>1, <2>2, <2>3 DEF Listed
(* The owners of the purse. *)
<1>6. CASE (AddOwner(p) \/ RemoveOwner(p) \/ PassOwnership(p)) /\ a = purse
  <2> DEFINE seen == proc[p].seen[purse]
             who == Op(p).who
             owners == IF RemoveOwner(p) THEN seen.owners \ {who} ELSE seen.owners \cup {who}
             primary == IF PassOwnership(p) THEN who ELSE account[purse].primary
  <2>1. ~(RemoveOwner(p) /\ AddOwner(p)) /\ ~(RemoveOwner(p) /\ PassOwnership(p))
        /\ ~(AddOwner(p) /\ PassOwnership(p))
    BY DEF RemoveOwner, AddOwner, PassOwnership, Is
  <2>2. WriteOwners(p, a, owners, primary)
    BY <1>6, <2>1 DEF AddOwner, RemoveOwner, PassOwnership
  <2>3. /\ account[a].exists /\ account[a] = seen /\ account'[a].owners = owners
        /\ account'[a].primary = primary /\ UNCHANGED character
        /\ \A c \in owners : c \in Owners(a) \/ character[c].exists
    <3> HIDE DEF owners, primary
    <3> QED  BY <1>0, <1>6, <2>2, WrittenOver
  <2>4. RemoveOwner(p) => who # account[purse].primary
    BY <1>6, <2>3 DEF RemoveOwner, Is, At, Removable
  <2>5. primary \in owners
    BY <1>2, <1>6, <2>1, <2>3, <2>4 DEF Owners
  <2>6. proc[p].pc # "cascade"
    BY <1>6 DEF AddOwner, RemoveOwner, PassOwnership, Is, At
  <2>7. ASSUME NEW c \in owners  PROVE Listed(c, a)'
    <3>1. CASE character[c].exists
      BY <2>3, <3>1 DEF Listed
    <3>2. CASE c \in Owners(a)
      BY <1>2, <2>3, <2>6, <3>2, StaysListed
    <3> QED  BY <2>3, <2>7, <3>1, <3>2
  <2> HIDE DEF owners, primary
  <2> QED  BY <2>3, <2>5, <2>7
(* Other accounts are left alone. *)
<1>7. CASE ~CascadeOwners(p, a) /\ ~(AccountInsert(p) /\ a = p)
           /\ ~((AddOwner(p) \/ RemoveOwner(p) \/ PassOwnership(p)) /\ a = purse)
  <2>1. CASE UNCHANGED owning
    BY <1>3, <1>7, <2>1 DEF owning
  <2>2. ASSUME NEW b \in Accounts \ {a}, CascadeOwners(p, b)  PROVE account'[a] = account[a]
    <3>1. account' = [account EXCEPT ![b] = NoAccount] => account'[a] = account[a]
      BY <1>0
    <3>2. \A owners, primary : WriteOwners(p, b, owners, primary) => account'[a] = account[a]
      BY <1>0 DEF WriteOwners
    <3> QED  BY <2>2, <3>1, <3>2 DEF CascadeOwners
  <2>3. CASE AccountInsert(p) /\ a # p
    BY <1>0, <1>3, <1>7, <2>3 DEF AccountInsert
  <2>4. CASE (AddOwner(p) \/ RemoveOwner(p) \/ PassOwnership(p)) /\ a # purse
    <3>1. \A owners, primary : WriteOwners(p, purse, owners, primary) => account'[a] = account[a]
      BY <1>0, <2>4 DEF WriteOwners
    <3> QED  BY <1>3, <1>7, <2>4, <3>1 DEF AddOwner, RemoveOwner, PassOwnership
  <2> QED  BY <1>3, <1>7, <2>1, <2>2, <2>3, <2>4, OwningWritten
<1> QED  BY <1>3, <1>4, <1>5, <1>6, <1>7

(***************************************************************************)
(* onCharacterDeleted and the co-owners: whatever requests overlap, an     *)
(* account that was not written over other owners than were read has a     *)
(* primary owner among its owners, all of which exist or are about to be   *)
(* taken off it by whoever deletes them; or whose deletion failed to do so *)
(* and was answered as if it had not (CD-09).                              *)
(***************************************************************************)
THEOREM OwnersExplained == Spec => []OwnershipExplained
<1>1. Init => Removable /\ Owned
  <2> SUFFICES ASSUME Init  PROVE Removable /\ Owned
    OBVIOUS
  <2>1. Removable
    BY DEF Init, CharactersInit, Removable, Idle
  <2>2. ASSUME NEW a \in Accounts, account[a].exists
        PROVE  account[a].primary \in Owners(a) /\ \A c \in Owners(a) : Listed(c, a)
    <3>1. account[a] = [exists |-> TRUE, owners |-> {hero, squire}, primary |-> hero]
      BY <2>2 DEF Init, CharactersInit, NoAccount
    <3>2. character[hero].exists /\ character[squire].exists
      BY Cast0 DEF Init, CharactersInit, NoCharacter, Characters
    <3> QED  BY <3>1, <3>2 DEF Owners, Listed
  <2> QED  BY <2>1, <2>2 DEF Owned
<1>2. EditsConsistent /\ Cast /\ Removable /\ Owned /\ [Next]_vars => Removable' /\ Owned'
  <2>1. Removable /\ Owned /\ UNCHANGED vars => Removable' /\ Owned'
    BY DEF Removable, Owned, Owners, Op, Listed, Deleting, vars, people, owning
  <2> QED  BY <2>1, SomebodyActs, StepRemovable, StepOwned
<1>3. Owned => OwnershipExplained
  BY DEF Owned, Listed, Deleting, OwnershipExplained
<1> QED  BY <1>1, <1>2, <1>3, CastType, PTL DEF Spec

-----------------------------------------------------------------------------
(* A creation is whole or nothing.                                         *)

(* No two characters have the same slug.                                   *)
Unique ==
  \A c, d \in Characters :
    character[c].exists /\ character[d].exists /\ character[c].slug = character[d].slug => c = d

(* How far a creation is, and what is there of it.                         *)
Creator(p) ==
  Op(p).kind = "create" =>
    /\ proc[p].pc \in Making => NeedsCharacter(p) /\ proc[p].slug = desk[p].slug
    /\ proc[p].pc = "erase" => proc[p].slug = desk[p].slug
    /\ proc[p].pc \in {"erase", "vanish", "cascade"} => proc[p].failing = TRUE
    /\ character[p].exists =>
         /\ proc[p].pc \in {"furnish", "page", "again", "unsave", "erase", "vanish", "done"}
         /\ NeedsCharacter(p) /\ character[p].slug = desk[p].slug
         /\ proc[p].pc = "vanish" => proc[p].c = p
    /\ page[p].exists => \/ proc[p].pc \in {"again", "unsave", "done"}
                         \/ proc[p].pc \in {"erase", "vanish", "cascade"} /\ <<p, "page">> \in junk
    /\ p \in phantom =>
         /\ ~world
         /\ \/ proc[p].pc \in {"again", "unsave", "erase", "vanish", "cascade"}
            \/ proc[p].pc = "done" /\ proc[p].answer = "refused"
    /\ proc[p].pc = "done" /\ proc[p].answer = "refused" =>
         /\ ~page[p].exists \/ <<p, "page">> \in junk
         /\ ~character[p].exists \/ <<p, "character">> \in junk

-----------------------------------------------------------------------------
(* What the ways of going on write of a request.                           *)
LEMMA GotoWrites ==
  ASSUME Shape, NEW p \in Requests, NEW pc, Goto(p, pc)
  PROVE  /\ proc'[p].pc = pc /\ proc'[p].slug = proc[p].slug /\ proc'[p].c = proc[p].c
         /\ proc'[p].failing = proc[p].failing /\ proc'[p].answer = proc[p].answer
BY DEF Shape, Goto, Fields

LEMMA GoOnWrites ==
  ASSUME Shape, NEW p \in Requests, NEW pc, NEW answer, GoOn(p, pc, answer)
  PROVE  /\ proc'[p].pc = pc /\ proc'[p].slug = Op(p).slug /\ proc'[p].c = Nobody
         /\ proc'[p].failing = FALSE /\ proc'[p].answer = answer
BY DEF Shape, GoOn, Idle, Op

LEMMA CallWrites ==
  ASSUME Shape, NEW p \in Requests, NEW pc, NEW slug, NEW c, NEW then, Call(p, pc, slug, c, then)
  PROVE  /\ proc'[p].pc = pc /\ proc'[p].slug = slug /\ proc'[p].c = c
         /\ proc'[p].failing = proc[p].failing /\ proc'[p].answer = proc[p].answer
BY DEF Shape, Call, Fields

LEMMA NamingWrites ==
  ASSUME Shape, NEW p \in Requests, NEW pc, NEW c, proc' = [proc EXCEPT ![p].pc = pc, ![p].c = c]
  PROVE  /\ proc'[p].pc = pc /\ proc'[p].slug = proc[p].slug /\ proc'[p].c = c
         /\ proc'[p].failing = proc[p].failing /\ proc'[p].answer = proc[p].answer
BY DEF Shape, Fields

LEMMA UndoWrites ==
  ASSUME Shape, NEW p \in Requests, Undo(p)
  PROVE  \/ /\ NeedsCharacter(p) /\ proc'[p].pc = "erase" /\ proc'[p].slug = desk[p].slug
            /\ proc'[p].failing = TRUE
         \/ ~NeedsCharacter(p) /\ proc'[p].pc = "done" /\ proc'[p].answer = "refused"
<1>1. CASE NeedsCharacter(p)
  <2>1. proc' = [proc EXCEPT ![p].pc = "erase", ![p].slug = desk[p].slug, ![p].failing = TRUE]
    BY <1>1 DEF Undo
  <2>2. proc'[p] = [proc[p] EXCEPT !.pc = "erase", !.slug = desk[p].slug, !.failing = TRUE]
    BY <2>1 DEF Shape
  <2>3. proc'[p].pc = "erase" /\ proc'[p].slug = desk[p].slug
    BY <2>2 DEF Shape, Fields
  <2>4. proc'[p].failing = TRUE
    BY <2>2 DEF Shape, Fields
  <2> QED  BY <1>1, <2>3, <2>4
<1>2. CASE ~NeedsCharacter(p)
  BY <1>2, GoOnWrites DEF Undo, End
<1> QED  BY <1>1, <1>2

LEMMA CascadeWrites ==
  ASSUME Shape, NEW p \in Requests,
         \/ \E rest : proc' = [proc EXCEPT ![p].todo = rest]
         \/ \E rest, seen : proc' = [proc EXCEPT ![p].todo = rest, ![p].seen = seen]
         \/ \E rest : proc' = [proc EXCEPT ![p].pc = "cascade", ![p].todo = rest]
  PROVE  /\ proc'[p].pc \in {proc[p].pc, "cascade"} /\ proc'[p].slug = proc[p].slug
         /\ proc'[p].c = proc[p].c /\ proc'[p].failing = proc[p].failing
<1>1. ASSUME NEW rest, proc' = [proc EXCEPT ![p].todo = rest]
      PROVE  /\ proc'[p].pc \in {proc[p].pc, "cascade"} /\ proc'[p].slug = proc[p].slug
             /\ proc'[p].c = proc[p].c /\ proc'[p].failing = proc[p].failing
  BY <1>1 DEF Shape, Fields
<1>2. ASSUME NEW rest, NEW seen, proc' = [proc EXCEPT ![p].todo = rest, ![p].seen = seen]
      PROVE  /\ proc'[p].pc \in {proc[p].pc, "cascade"} /\ proc'[p].slug = proc[p].slug
             /\ proc'[p].c = proc[p].c /\ proc'[p].failing = proc[p].failing
  BY <1>2 DEF Shape, Fields
<1>3. ASSUME NEW rest, proc' = [proc EXCEPT ![p].pc = "cascade", ![p].todo = rest]
      PROVE  /\ proc'[p].pc \in {proc[p].pc, "cascade"} /\ proc'[p].slug = proc[p].slug
             /\ proc'[p].c = proc[p].c /\ proc'[p].failing = proc[p].failing
  BY <1>3 DEF Shape, Fields
<1> QED  BY <1>1, <1>2, <1>3

(* What a deletion does in between: it goes on, or it returns.             *)
LEMMA CascadeGoesOn ==
  ASSUME EditsConsistent, NEW p \in Requests, proc[p].pc = "cascade",
         \/ CascadeInventory(p) \/ CascadeFind(p) \/ CascadeFails(p)
         \/ \E a \in Accounts : CascadeOwners(p, a)
  PROVE  \/ Return(p, TRUE)
         \/ /\ proc'[p].pc = "cascade" /\ proc'[p].slug = proc[p].slug
            /\ proc'[p].c = proc[p].c /\ proc'[p].failing = proc[p].failing
<1>0. Shape
  BY DEF EditsConsistent
<1>s. ASSUME NEW rest, Settled(p, rest)
      PROVE  Return(p, TRUE) \/ \E x : proc' = [proc EXCEPT ![p].todo = x]
  BY <1>s DEF Settled
<1>1. CascadeInventory(p) \/ CascadeFails(p) => \E rest : Settled(p, rest)
  BY DEF CascadeInventory, CascadeFails
<1>2. CascadeFind(p) => \/ Settled(p, {})
                        \/ \E rest, seen : proc' = [proc EXCEPT ![p].todo = rest, ![p].seen = seen]
  BY Zenon DEF CascadeFind
<1>3. ASSUME NEW a \in Accounts, CascadeOwners(p, a)  PROVE \E rest : Settled(p, rest)
  BY <1>3 DEF CascadeOwners
<1>4. \/ Return(p, TRUE)
      \/ \E rest : proc' = [proc EXCEPT ![p].todo = rest]
      \/ \E rest, seen : proc' = [proc EXCEPT ![p].todo = rest, ![p].seen = seen]
  BY <1>s, <1>1, <1>2, <1>3
<1> QED  BY <1>0, <1>4, CascadeWrites

-----------------------------------------------------------------------------
(* What happens to the characters.                                         *)
LEMMA CharacterSteps ==
  ASSUME EditsConsistent, Cast, NEW p \in Requests, Acts(p), NEW c \in Characters
  PROVE  /\ character'[c].exists => \/ character[c].exists /\ character'[c].slug = character[c].slug
                                    \/ c = p /\ CreateSave(p) /\ ~UNCHANGED character
         /\ CreateSave(p) /\ ~UNCHANGED character =>
              /\ character'[p].exists /\ character'[p].slug = proc[p].slug
              /\ Named(proc[p].slug) = {} /\ (c # p => character'[c] = character[c])
         /\ Erase(p) => ~character'[proc[p].c].exists
<1>0. Shape /\ People /\ Sits(p)
  BY DEF EditsConsistent, Cast
<1> DEFINE is == [exists |-> TRUE, slug |-> proc[p].slug, npc |-> FALSE, place |-> Places(p)]
<1>1. ASSUME CreateSave(p), ~UNCHANGED character
      PROVE  character' = [character EXCEPT ![p] = is] /\ Named(proc[p].slug) = {}
  BY <1>1, Zenon DEF CreateSave
<1>2. is.exists = TRUE /\ is.slug = proc[p].slug
  OBVIOUS
<1> HIDE DEF is
<1>3. CreateSave(p) /\ ~UNCHANGED character =>
        /\ character'[p].exists /\ character'[p].slug = proc[p].slug
        /\ Named(proc[p].slug) = {} /\ (c # p => character'[c] = character[c])
  BY <1>0, <1>1, <1>2 DEF People, Characters
<1>4. Erase(p) => ~character'[proc[p].c].exists /\ character'[c].slug = character[c].slug
                  /\ (character'[c].exists => character[c].exists)
  <2>1. Erase(p) => proc[p].c \in Characters
    BY <1>0 DEF Erase, At, Sits, Casting
  <2> QED  BY <1>0, <2>1 DEF Erase, People, NoCharacter
<1>5. ConvertWrite(p) \/ SyncWrite(p) =>
        character'[c].slug = character[c].slug /\ (character'[c].exists => character[c].exists)
  BY <1>0 DEF ConvertWrite, SyncWrite, People, NoCharacter
<1> QED  BY <1>3, <1>4, <1>5, CharacterWritten

LEMMA StepUnique ==
  ASSUME EditsConsistent, Cast, Unique, NEW p \in Requests, Acts(p)
  PROVE  Unique'
<1> SUFFICES ASSUME NEW c \in Characters, NEW d \in Characters,
                    character'[c].exists, character'[d].exists,
                    character'[c].slug = character'[d].slug
             PROVE  c = d
  BY DEF Unique
<1> QED  BY CharacterSteps DEF Unique, Named

(* What happens to the pages.                                              *)
LEMMA PageSteps ==
  ASSUME EditsConsistent, NEW p \in Requests, Acts(p), NEW g \in Pages
  PROVE  /\ page'[g].exists => (page[g].exists \/ (g = p /\ SavePage(p) /\ Goto(p, "again")))
         /\ Unsave(p) => ~page'[p].exists
<1>0. Shape /\ p \in Pages /\ Mine(p) \in Pages
  BY DEF EditsConsistent, Mine, Shape, Pages
<1>1. SavePage(p) => (page'[g] = page[g] \/ (g = p /\ Goto(p, "again")))
  BY <1>0 DEF SavePage, Shape
<1>2. Unsave(p) => (page'[g].exists => page[g].exists) /\ ~page'[p].exists
  BY <1>0 DEF Unsave, Shape, NoPage
<1>3. DropPage(p) => (page'[g].exists => page[g].exists)
  BY <1>0 DEF DropPage, Shape, NoPage
<1>4. WritePage(p) => (page'[g].exists => page[g].exists)
  <2>1. WritePage(p) => UNCHANGED page \/ (page[Mine(p)].exists /\ \A h \in Pages \ {Mine(p)} : page'[h] = page[h])
    BY <1>0 DEF WritePage, Write, Shape
  <2> QED  BY <2>1
<1> QED  BY <1>1, <1>2, <1>3, <1>4, PaperWritten

LEMMA CreatorActs ==
  ASSUME EditsConsistent, NEW p \in Requests, Acts(p), Op(p).kind = "create"
  PROVE  \/ CreateMay(p) \/ SlugPage(p) \/ SlugCharacter(p) \/ SavePage(p) \/ WorldAgain(p)
         \/ Unsave(p) \/ CreateCheck(p) \/ CreateSave(p) \/ Furnish(p) \/ EraseFind(p) \/ Erase(p)
         \/ CascadeInventory(p) \/ CascadeFind(p) \/ (\E a \in Accounts : CascadeOwners(p, a))
         \/ CascadeFails(p) \/ UnsaveFails(p) \/ UndoFails(p) \/ Die(p)
<1>1. Course(p)
  BY DEF EditsConsistent
<1> QED  BY <1>1 DEF Course, Making, Unmade, Acts, Peopling, Filing, MayManage, AccountFind,
     AccountCount, AccountInsert, ReadOwners, AddOwner, RemoveOwner, PassOwnership, OpenFind,
     OpenLook, OpenCreate, OpenParent, OpenRollback, ConvertFind, ConvertWrite, ConvertHide,
     ConvertLook, ConvertFit, SyncFind, SyncWrite, Load, ReadPage, MayEdit, WritePage, Write,
     DeleteMay, DeleteFind, DropPage, CloseWorld, At, Is

LEMMA DeskKept ==
  ASSUME EditsConsistent, NEW p \in Requests, Acts(p), NEW q \in Requests
  PROVE  /\ q # p => desk'[q] = desk[q]
         /\ Op(q).kind = "create" => desk'[q].was = desk[q].was
         /\ ~ReadPage(p) => desk'[q].was = desk[q].was
         /\ SlugPage(p) \/ SlugCharacter(p) \/ desk'[q].slug = desk[q].slug
<1>0. Shape
  BY DEF EditsConsistent
<1>1. ASSUME NEW x, desk' = [desk EXCEPT ![p].slug = x]
      PROVE  /\ q # p => desk'[q] = desk[q]
             /\ desk'[q].was = desk[q].was
  BY <1>0, <1>1 DEF Shape
<1>2. ASSUME NEW x, desk' = [desk EXCEPT ![p].loaded = x]
      PROVE  /\ q # p => desk'[q] = desk[q]
             /\ desk'[q].was = desk[q].was /\ desk'[q].slug = desk[q].slug
  BY <1>0, <1>2 DEF Shape
<1>3. ASSUME NEW x, desk' = [desk EXCEPT ![p].was = x]
      PROVE  /\ q # p => desk'[q] = desk[q]
             /\ desk'[q].slug = desk[q].slug
  BY <1>0, <1>3 DEF Shape
<1>4. /\ SlugPage(p) \/ SlugCharacter(p) => UNCHANGED desk \/ \E x : desk' = [desk EXCEPT ![p].slug = x]
      /\ Load(p) => UNCHANGED desk \/ \E x : desk' = [desk EXCEPT ![p].loaded = x]
      /\ ReadPage(p) => UNCHANGED desk \/ \E x : desk' = [desk EXCEPT ![p].was = x]
  BY DEF SlugPage, SlugCharacter, Load, ReadPage
<1>5. ReadPage(p) => Op(p).kind = "edit"
  BY DEF ReadPage, Is
<1>6. ASSUME ReadPage(p) PROVE /\ q # p => desk'[q] = desk[q]
                               /\ Op(q).kind = "create" => desk'[q].was = desk[q].was
                               /\ desk'[q].slug = desk[q].slug
  BY <1>3, <1>4, <1>5, <1>6
<1> QED  BY <1>1, <1>2, <1>4, <1>6, PaperWritten

LEMMA NeedKept ==
  ASSUME EditsConsistent, NEW p \in Requests, Acts(p), NEW q \in Requests, Op(q).kind = "create"
  PROVE  NeedsCharacter(q)' <=> NeedsCharacter(q)
BY Solo, DeskKept DEF NeedsCharacter, NewType

LEMMA CreatorOthers ==
  ASSUME EditsConsistent, Cast, NEW p \in Requests, Acts(p), NEW q \in Requests \ {p}, Creator(q)
  PROVE  Creator(q)'
<1> SUFFICES ASSUME Op(q).kind = "create"  PROVE Creator(q)'
  BY Solo DEF Creator
<1>0. q \in Characters /\ q \in Pages
  BY DEF Characters, Pages
<1>1. Op(q)' = Op(q) /\ proc'[q] = proc[q] /\ desk'[q] = desk[q]
      /\ (NeedsCharacter(q)' <=> NeedsCharacter(q))
  BY Solo, DeskKept, NeedKept
<1>2. character'[q].exists => character[q].exists /\ character'[q].slug = character[q].slug
  BY <1>0, CharacterSteps
<1>3. page'[q].exists => page[q].exists
  BY <1>0, PageSteps
<1>4. q \in phantom' => q \in phantom
  BY PaperWritten DEF SavePage
<1>5. ~world => ~world'
  BY WorldWritten DEF CloseWorld
<1>6. junk \subseteq junk'
  BY LeftGrows
<1> QED  BY <1>1, <1>2, <1>3, <1>4, <1>5, <1>6 DEF Creator

LEMMA CreatorOwn ==
  ASSUME EditsConsistent, Cast, Unique, NEW p \in Requests, Acts(p), Creator(p)
  PROVE  Creator(p)'
<1> SUFFICES ASSUME Op(p).kind = "create"  PROVE Creator(p)'
  BY Solo DEF Creator
<1> USE DEF At, Is
<1>0. Shape /\ Course(p) /\ p \in Characters /\ p \in Pages /\ Sits(p)
  BY DEF EditsConsistent, Cast, Characters, Pages
<1>k. Op(p)' = Op(p) /\ Op(p)'.kind = "create"
      /\ (NeedsCharacter(p)' <=> NeedsCharacter(p))
  BY Solo, NeedKept
<1>w. ~world => ~world'
  BY WorldWritten DEF CloseWorld
<1>c. /\ character'[p].exists => \/ character[p].exists /\ character'[p].slug = character[p].slug
                                 \/ CreateSave(p) /\ ~UNCHANGED character
  BY <1>0, CharacterSteps
<1>d. SlugPage(p) \/ SlugCharacter(p) \/ desk'[p].slug = desk[p].slug
  BY DeskKept
<1>g. page'[p].exists => page[p].exists \/ (SavePage(p) /\ Goto(p, "again"))
  BY <1>0, PageSteps
<1>h. SavePage(p) \/ UNCHANGED phantom
  BY PaperWritten
<1>l. junk \subseteq junk'
  BY LeftGrows
<1>1. CASE CreateMay(p)
  <2>1. proc'[p].pc = "slug" \/ proc'[p].pc = "done"
    BY <1>1, WhereTo
  <2>2. ~CreateSave(p) /\ ~SavePage(p)
    BY <1>1 DEF CreateMay, CreateSave, SavePage
  <2>3. ~character[p].exists /\ ~page[p].exists /\ p \notin phantom
    BY <1>1 DEF CreateMay, Creator
  <2> QED  BY <1>k, <1>c, <1>g, <1>h, <2>1, <2>2, <2>3 DEF Creator, Making
<1>2. CASE SlugPage(p)
  <2>1. proc'[p].pc = "slug" \/ proc'[p].pc = "slugged"
    BY <1>2, WhereTo
  <2>2. ~CreateSave(p) /\ ~SavePage(p)
    BY <1>2 DEF SlugPage, CreateSave, SavePage
  <2>3. ~character[p].exists /\ ~page[p].exists /\ p \notin phantom
    BY <1>2 DEF SlugPage, Creator
  <2> QED  BY <1>k, <1>c, <1>g, <1>h, <2>1, <2>2, <2>3 DEF Creator, Making
<1>3. CASE SlugCharacter(p)
  <2>1. \/ proc'[p].pc = "slug" \/ proc'[p].pc = "page"
        \/ /\ proc'[p].pc = "create" /\ NeedsCharacter(p) /\ proc'[p].slug = desk[p].slug
           /\ UNCHANGED desk
    <3>1. \/ Goto(p, "slug") \/ Goto(p, "page")
          \/ Call(p, "create", desk[p].slug, Nobody, "page") /\ NeedsCharacter(p) /\ UNCHANGED desk
      BY <1>3 DEF SlugCharacter
    <3> QED  BY <1>0, <3>1, GotoWrites, CallWrites
  <2>2. ~CreateSave(p) /\ ~SavePage(p)
    BY <1>3 DEF SlugCharacter, CreateSave, SavePage
  <2>3. ~character[p].exists /\ ~page[p].exists /\ p \notin phantom
    BY <1>3 DEF SlugCharacter, Creator
  <2> QED  BY <1>k, <1>c, <1>g, <1>h, <2>1, <2>2, <2>3 DEF Creator, Making
<1>r. ASSUME NEW ok \in BOOLEAN, Return(p, ok)
      PROVE  /\ proc'[p].pc = IF ok THEN proc[p].then ELSE "done"
             /\ proc'[p].answer = IF ok /\ ~proc[p].failing THEN "ok" ELSE "refused"
  <2>1. GoOn(p, IF ok THEN proc[p].then ELSE proc[p].otherwise,
                IF ok /\ ~proc[p].failing THEN "ok" ELSE "refused")
    BY <1>r DEF Return
  <2>2. /\ proc'[p].pc = IF ok THEN proc[p].then ELSE proc[p].otherwise
        /\ proc'[p].answer = IF ok /\ ~proc[p].failing THEN "ok" ELSE "refused"
    BY <1>0, <2>1, GoOnWrites
  <2> QED  BY <1>0, <2>2 DEF Course
<1>4. CASE CreateCheck(p)
  <2>1. proc[p].pc = "create" /\ NeedsCharacter(p) /\ proc[p].slug = desk[p].slug
    BY <1>4 DEF CreateCheck, Creator, Making
  <2>2. \/ proc'[p].pc = "save" /\ proc'[p].slug = proc[p].slug
        \/ proc'[p].pc = "done"
    BY <1>0, <1>4, <1>r, GotoWrites DEF CreateCheck
  <2>3. ~CreateSave(p) /\ ~SavePage(p)
    BY <2>1 DEF CreateSave, SavePage
  <2>4. ~character[p].exists /\ ~page[p].exists /\ p \notin phantom
    BY <2>1 DEF Creator
  <2> QED  BY <1>k, <1>c, <1>d, <1>g, <1>h, <2>1, <2>2, <2>3, <2>4, <1>4
           DEF Creator, Making, CreateCheck, SlugPage, SlugCharacter
<1>5. CASE CreateSave(p)
  <2>1. proc[p].pc = "save" /\ NeedsCharacter(p) /\ proc[p].slug = desk[p].slug
    BY <1>5 DEF CreateSave, Creator, Making
  <2>2. \/ proc'[p].pc = "furnish" /\ proc'[p].slug = proc[p].slug
        \/ proc'[p].pc = "done" /\ UNCHANGED character
    <3>1. CASE Return(p, FALSE) /\ UNCHANGED character
      BY <1>r, <3>1
    <3>2. CASE proc' = [proc EXCEPT ![p].pc = "furnish", ![p].c = p]
      BY <1>0, <3>2 DEF Shape, Fields
    <3> QED  BY <1>5, <3>1, <3>2 DEF CreateSave
  <2>3. ~SavePage(p) /\ desk'[p].slug = desk[p].slug
    BY <1>d, <2>1 DEF SavePage, SlugPage, SlugCharacter
  <2>4. ~character[p].exists /\ ~page[p].exists /\ p \notin phantom
    BY <2>1 DEF Creator
  <2>5. character'[p].exists => character'[p].slug = proc[p].slug /\ proc'[p].pc = "furnish"
    BY <1>0, <1>c, <1>5, <2>2, <2>4, CharacterSteps
  <2> QED  BY <1>k, <1>g, <1>h, <2>1, <2>2, <2>3, <2>4, <2>5 DEF Creator, Making
<1>6. CASE Furnish(p)
  <2>1. proc[p].pc = "furnish" /\ proc[p].then = "page"
    BY <1>0, <1>6 DEF Furnish, Course, Making
  <2>2. \/ proc'[p].pc = "page"
        \/ proc'[p].pc = "done" /\ <<p, "character">> \in junk'
    BY <1>6, <1>r, <2>1 DEF Furnish, Leave
  <2>3. ~CreateSave(p) /\ ~SavePage(p) /\ desk'[p].slug = desk[p].slug
    BY <1>d, <2>1 DEF CreateSave, SavePage, SlugPage, SlugCharacter
  <2>4. ~page[p].exists /\ p \notin phantom
    BY <2>1 DEF Creator
  <2> QED  BY <1>k, <1>c, <1>g, <1>h, <2>1, <2>2, <2>3, <2>4 DEF Creator, Making
<1>7. CASE SavePage(p)
  <2>1. proc[p].pc = "page" /\ ~page[p].exists /\ p \notin phantom
    BY <1>7 DEF SavePage, Creator
  <2>2. ~CreateSave(p) /\ desk'[p].slug = desk[p].slug
    BY <1>d, <2>1 DEF CreateSave, SlugPage, SlugCharacter
  <2>3. CASE Undo(p) /\ UNCHANGED <<page, phantom>>
    <3>1. \/ /\ NeedsCharacter(p) /\ proc'[p].pc = "erase" /\ proc'[p].slug = desk[p].slug
             /\ proc'[p].failing = TRUE
          \/ ~NeedsCharacter(p) /\ proc'[p].pc = "done" /\ proc'[p].answer = "refused"
      BY <1>0, <2>3, UndoWrites
    <3>2. ~NeedsCharacter(p) => ~character[p].exists
      BY DEF Creator
    <3> QED  BY <1>k, <1>c, <2>1, <2>2, <2>3, <3>1, <3>2 DEF Creator, Making
  <2>4. CASE Goto(p, "again")
    <3>1. proc'[p].pc = "again"
      BY <1>0, <2>4, GotoWrites
    <3>2. phantom' = IF world THEN phantom ELSE phantom \cup {p}
      <4>1. ~Undo(p)
        BY <1>0, <3>1, UndoWrites
      <4> QED  BY <1>7, <4>1 DEF SavePage
    <3> QED  BY <1>k, <1>c, <1>w, <2>1, <2>2, <3>1, <3>2 DEF Creator, Making
  <2> QED  BY <1>7, <2>3, <2>4 DEF SavePage
<1>8. CASE WorldAgain(p)
  <2>1. proc[p].pc = "again"
    BY <1>8 DEF WorldAgain
  <2>2. \/ world /\ proc'[p].pc = "done" /\ proc'[p].answer = "ok"
        \/ proc'[p].pc = "unsave"
    <3>1. CASE world /\ End(p, "ok")
      BY <1>0, <3>1, GoOnWrites DEF End
    <3>2. CASE Goto(p, "unsave")
      BY <1>0, <3>2, GotoWrites
    <3> QED  BY <1>8, <3>1, <3>2 DEF WorldAgain
  <2>3. ~CreateSave(p) /\ ~SavePage(p) /\ desk'[p].slug = desk[p].slug
    BY <1>d, <2>1 DEF CreateSave, SavePage, SlugPage, SlugCharacter
  <2> QED  BY <1>k, <1>c, <1>g, <1>h, <1>w, <2>1, <2>2, <2>3 DEF Creator, Making
<1>9. CASE Unsave(p) \/ UnsaveFails(p)
  <2>1. proc[p].pc \in {"again", "unsave"} /\ (~page'[p].exists \/ <<p, "page">> \in junk')
    BY <1>0, <1>9, PageSteps DEF Unsave, UnsaveFails, Leave
  <2>2. \/ /\ NeedsCharacter(p) /\ proc'[p].pc = "erase" /\ proc'[p].slug = desk[p].slug
           /\ proc'[p].failing = TRUE
        \/ ~NeedsCharacter(p) /\ proc'[p].pc = "done" /\ proc'[p].answer = "refused"
    BY <1>0, <1>9, UndoWrites DEF Unsave, UnsaveFails
  <2>3. ~CreateSave(p) /\ ~SavePage(p) /\ desk'[p].slug = desk[p].slug
    BY <1>d, <2>1 DEF CreateSave, SavePage, SlugPage, SlugCharacter
  <2>4. ~NeedsCharacter(p) => ~character[p].exists
    BY DEF Creator
  <2> QED  BY <1>k, <1>c, <1>h, <1>w, <2>1, <2>2, <2>3, <2>4 DEF Creator, Making
<1>10. CASE EraseFind(p)
  <2>1. /\ proc[p].pc = "erase" /\ proc[p].slug = desk[p].slug /\ proc[p].failing = TRUE
        /\ ~page[p].exists \/ <<p, "page">> \in junk
    BY <1>10 DEF EraseFind, Creator
  <2>3. ~CreateSave(p) /\ ~SavePage(p) /\ desk'[p].slug = desk[p].slug
    BY <1>d, <2>1 DEF CreateSave, SavePage, SlugPage, SlugCharacter
  <2>4. CASE Named(proc[p].slug) = {}
    <3>1. proc'[p].pc = "done" /\ proc'[p].answer = "refused"
      BY <1>10, <1>r, <2>4 DEF EraseFind
    <3>2. ~character[p].exists
      BY <1>0, <2>1, <2>4 DEF Named, Creator
    <3> QED  BY <1>k, <1>c, <1>g, <1>h, <1>l, <1>w, <2>1, <2>3, <3>1, <3>2 DEF Creator, Making
  <2>5. CASE Named(proc[p].slug) # {}
    <3>1. PICK c \in Named(proc[p].slug) : proc' = [proc EXCEPT ![p].pc = "vanish", ![p].c = c]
      BY <1>10, <2>5 DEF EraseFind
    <3>2. proc'[p].pc = "vanish" /\ proc'[p].c = c /\ proc'[p].failing = proc[p].failing
      BY <1>0, <3>1 DEF Shape, Fields
    <3>3. character[p].exists => c = p
      BY <1>0, <2>1, NamedType DEF Named, Unique, Creator
    <3> QED  BY <1>k, <1>c, <1>g, <1>h, <1>l, <1>w, <2>1, <2>3, <3>2, <3>3 DEF Creator, Making
  <2> QED  BY <2>4, <2>5
<1>11. CASE Erase(p)
  <2>1. /\ proc[p].pc = "vanish" /\ proc[p].failing = TRUE
        /\ ~page[p].exists \/ <<p, "page">> \in junk
    BY <1>11 DEF Erase, Creator
  <2>2. proc'[p].pc = "cascade" /\ proc'[p].failing = TRUE
    <3>1. \E rest : proc' = [proc EXCEPT ![p].pc = "cascade", ![p].todo = rest]
      BY <1>11 DEF Erase
    <3>2. proc'[p].failing = proc[p].failing
      BY <1>0, <3>1, CascadeWrites
    <3> QED  BY <1>11, <2>1, <3>2, WhereTo
  <2>3. ~CreateSave(p) /\ ~SavePage(p)
    BY <2>1 DEF CreateSave, SavePage
  <2>4. ~character'[p].exists
    <3>1. character[p].exists => proc[p].c = p
      BY <2>1 DEF Creator
    <3>2. ~character'[proc[p].c].exists
      BY <1>0, <1>11, CharacterSteps
    <3> QED  BY <1>c, <2>3, <3>1, <3>2
  <2> QED  BY <1>k, <1>g, <1>h, <1>l, <1>w, <2>1, <2>2, <2>3, <2>4 DEF Creator, Making
<1>12. CASE \/ CascadeInventory(p) \/ CascadeFind(p) \/ CascadeFails(p)
            \/ \E a \in Accounts : CascadeOwners(p, a)
  <2>1. proc[p].pc = "cascade"
    BY <1>12 DEF CascadeInventory, CascadeFind, CascadeFails, CascadeOwners, Deletes
  <2>2. /\ proc[p].failing = TRUE /\ ~character[p].exists
        /\ ~page[p].exists \/ <<p, "page">> \in junk
    BY <2>1 DEF Creator
  <2>3. ~CreateSave(p) /\ ~SavePage(p)
    BY <2>1 DEF CreateSave, SavePage
  <2>4. \/ proc'[p].pc = "cascade" /\ proc'[p].failing = TRUE
        \/ proc'[p].pc = "done" /\ proc'[p].answer = "refused"
    <3>1. CASE Return(p, TRUE)
      <4>1. proc[p].then = "done"
        BY <1>0, <2>1 DEF Course, Making
      <4> QED  BY <1>r, <2>2, <3>1, <4>1
    <3> QED  BY <1>12, <2>1, <2>2, <3>1, CascadeGoesOn
  <2> QED  BY <1>k, <1>c, <1>g, <1>h, <1>l, <1>w, <2>1, <2>2, <2>3, <2>4 DEF Creator, Making
<1>13. CASE Die(p)
  <2>1. UNCHANGED <<world, character, proc, junk>>
    BY <1>13 DEF Die
  <2>2. ~SavePage(p) /\ ~CreateSave(p) /\ UNCHANGED <<page, desk, phantom>>
    <3>1. ~UNCHANGED dead
      BY <1>13 DEF Die
    <3>2. ~Filing(p)
      BY <3>1 DEF Filing, SlugPage, SlugCharacter, CreateMay, SavePage, WorldAgain, Unsave,
         UnsaveFails, UndoFails, Load, ReadPage, MayEdit, WritePage, Write, DeleteMay, DeleteFind,
         DropPage, CloseWorld, Step, Refuse, Stay, Keep
    <3> QED  BY <3>1, <3>2 DEF Acts, Filed, paper, Filing, CreateSave
  <2> QED  BY <2>1, <2>2 DEF Creator, NeedsCharacter, NewType, Op
<1>14. CASE UndoFails(p)
  <2>1. /\ proc[p].pc \in {"erase", "vanish"} /\ <<p, "character">> \in junk'
        /\ proc'[p].pc = "done" /\ proc'[p].answer = "refused"
    BY <1>0, <1>14, GoOnWrites DEF UndoFails, End, Leave
  <2>2. ~page[p].exists \/ <<p, "page">> \in junk
    BY <2>1 DEF Creator
  <2>3. ~CreateSave(p) /\ ~SavePage(p) /\ desk'[p].slug = desk[p].slug
    BY <1>d, <2>1 DEF CreateSave, SavePage, SlugPage, SlugCharacter
  <2> QED  BY <1>k, <1>c, <1>g, <1>h, <1>l, <1>w, <2>1, <2>2, <2>3 DEF Creator, Making
<1> QED  BY <1>1, <1>2, <1>3, <1>4, <1>5, <1>6, <1>7, <1>8, <1>9, <1>10, <1>11, <1>12, <1>13,
            <1>14, CreatorActs

Whole == Unique /\ \A p \in Requests : Creator(p)

LEMMA InitWhole == Init => Whole
<1> SUFFICES ASSUME Init  PROVE Whole
  OBVIOUS
<1>1. Unique
  <2>1. \A c \in Characters : character[c].exists =>
          \/ c = hero /\ character[c].slug = <<Heroes, 1>>
          \/ c = squire /\ character[c].slug = <<Squires, 1>>
    BY DEF Init, CharactersInit, NoCharacter
  <2>2. <<Heroes, 1>> # <<Squires, 1>>
    BY Cast0
  <2> QED  BY <2>1, <2>2 DEF Unique
<1>2. ASSUME NEW p \in Requests  PROVE Creator(p)
  <2>1. proc[p].pc = "start"
    BY DEF Init, CharactersInit, Idle
  <2>2. ~character[p].exists /\ ~page[p].exists /\ p \notin phantom
    BY Cast0 DEF Init, CharactersInit, NoCharacter, NoPage, Characters, Pages
  <2> QED  BY <2>1, <2>2 DEF Creator, Making
<1> QED  BY <1>1, <1>2 DEF Whole

LEMMA StepWhole == EditsConsistent /\ Cast /\ Whole /\ [Next]_vars => Whole'
<1>1. Whole /\ UNCHANGED vars => Whole'
  BY DEF Whole, Unique, Creator, NeedsCharacter, NewType, Op, vars, people, paper
<1>2. ASSUME EditsConsistent, Cast, Whole, Next  PROVE Whole'
  <2>1. PICK p \in Requests : Acts(p)
    BY <1>2, SomebodyActs
  <2>2. Unique'
    BY <1>2, <2>1, StepUnique DEF Whole
  <2>3. \A q \in Requests : Creator(q)'
    BY <1>2, <2>1, CreatorOthers, CreatorOwn DEF Whole
  <2> QED  BY <2>2, <2>3 DEF Whole
<1> QED  BY <1>1, <1>2

(***************************************************************************)
(* create (DI-04, RC-D2): a page whose creation was refused is not there,  *)
(* nor is its character, whichever step failed, whoever took its slug and  *)
(* whenever the world was closed; unless their deletion failed as well,    *)
(* or what failed was a listener of the character, which DI-04 leaves out. *)
(***************************************************************************)
THEOREM CreationsWhole == Spec => []CreateAllOrNothing
<1>1. Whole => CreateAllOrNothing
  BY DEF Whole, Creator, CreateAllOrNothing
<1> QED  BY <1>1, InitWhole, StepWhole, CastType, PTL DEF Spec

-----------------------------------------------------------------------------
(* The character of a page.                                                *)

(* Whoever is the character of a page, other requests have done with him.  *)
Past(c) == c \in Requests => \/ Op(c).kind = "create" /\ proc[c].pc \notin Unmade
                             \/ Edits(c) /\ proc[c].pc = "done"
Home(c) == IF c \in Requests THEN Mine(c) ELSE sheet
Was(p) == desk[p].was
Now(p) == page[Mine(p)]
Kindly(c, p) == character[c].place <=> Op(p).type = "place"

Refers(g) ==
  /\ page[g].type # "wiki" => page[g].ref # Nobody
  /\ page[g].ref # Nobody => g = Home(page[g].ref) /\ Past(page[g].ref)

(* What an edit has read, and what the page has become meanwhile.          *)
Amid(p) == Edits(p) /\ proc[p].pc \notin {"start", "read", "done"}
Follows(p) ==
  /\ Was(p).version <= Now(p).version
  /\ Was(p).ref # Nobody => /\ Now(p).ref # Nobody
                            /\ Mine(p) = Home(Was(p).ref) /\ Past(Was(p).ref)
  /\ Was(p).type # "wiki" => Was(p).ref # Nobody
  /\ Was(p).version = Now(p).version =>
       Was(p).type = Now(p).type /\ Was(p).ref = Now(p).ref /\ Was(p).slug = Now(p).slug
  /\ Now(p).slug = Was(p).slug \/ Mine(p) \in renamed

(* The character an edit makes, or the one whose kind follows.             *)
Employs(p) ==
  /\ proc[p].pc \in Making => Made(p) /\ proc[p].slug = Was(p).slug
  /\ character[p].exists => Made(p) /\ character[p].slug = Was(p).slug /\ Kindly(p, p)
  /\ proc[p].pc \in {"sync", "resync"} => Synced(p) /\ proc[p].c = Was(p).ref

Maker(p) ==
  /\ Edits(p) /\ character[p].exists => proc[p].pc \in {"furnish", "write", "done"}
  /\ Op(p).kind = "create" /\ proc[p].pc \in Unmade /\ character[p].exists => Kindly(p, p)
  /\ proc[p].pc \in {"sync", "resync"} => Edits(p)
  /\ Op(p).kind = "create" => Op(p).type # "same"

Pends(q, g) == proc[q].pc \in {"resync", "write"} /\ Mine(q) = g /\ Synced(q)

(* An edit that is about to write its page has its character's kind right, *)
(* unless another one is as far, or it will not be accepted.               *)
Waiting(p) ==
  Edits(p) /\ proc[p].pc = "write" /\ Synced(p) /\ Now(p).version = Was(p).version
    /\ character[Was(p).ref].exists /\ Mine(p) \notin halfway
  => Kindly(Was(p).ref, p) \/ \E q \in Requests \ {p} : Pends(q, Mine(p))

Fits(g) ==
  page[g].exists /\ page[g].ref \in Characters /\ character[page[g].ref].exists =>
    /\ character[page[g].ref].slug = page[g].slug \/ g \in renamed
    /\ \/ page[g].type = "wiki" \/ g \in halfway \/ \E q \in Requests : Pends(q, g)
       \/ character[page[g].ref].place <=> page[g].type = "place"

References ==
  /\ \A g \in Pages : Refers(g) /\ Fits(g)
  /\ \A p \in Requests : /\ Amid(p) => Follows(p) /\ Employs(p)
                         /\ Maker(p) /\ Waiting(p)

-----------------------------------------------------------------------------
(* What a step does to a character that is there after it.                 *)
SameCharacter(c) ==
  /\ character[c].exists /\ character'[c].slug = character[c].slug
  /\ character'[c].place <=> character[c].place

LEMMA PlaceSteps ==
  ASSUME EditsConsistent, Cast, NEW p \in Requests, Acts(p), NEW c \in Characters,
         character'[c].exists
  PROVE  \/ SameCharacter(c)
         \/ /\ SyncWrite(p) /\ c = proc[p].c /\ character[c].exists
            /\ character'[c].slug = character[c].slug
            /\ character'[c].place <=> Op(p).type = "place"
         \/ /\ CreateSave(p) /\ c = p /\ character'[p].slug = proc[p].slug
            /\ character'[p].place <=> Op(p).type = "place"
            /\ proc'[p].pc = "furnish"
<1>0. Shape /\ People /\ Sits(p)
  BY DEF EditsConsistent, Cast
<1> DEFINE is == [exists |-> TRUE, slug |-> proc[p].slug, npc |-> FALSE, place |-> Places(p)]
<1>1. CASE UNCHANGED character
  BY <1>1 DEF SameCharacter
<1>2. CASE CreateSave(p) /\ ~UNCHANGED character
  <2>1. character' = [character EXCEPT ![p] = is]
        /\ proc' = [proc EXCEPT ![p].pc = "furnish", ![p].c = p]
    BY <1>2, Zenon DEF CreateSave
  <2>2. is.slug = proc[p].slug /\ (is.place <=> Op(p).type = "place")
    BY DEF Places
  <2> HIDE DEF is
  <2>3. CASE c = p
    <3>1. character'[p] = is
      BY <1>0, <2>1, <2>3 DEF People
    <3>2. proc'[p].pc = "furnish"
      BY <1>0, <2>1 DEF Shape, Fields
    <3> QED  BY <1>2, <2>2, <2>3, <3>1, <3>2
  <2>4. CASE c # p
    BY <1>0, <2>1, <2>4 DEF People, SameCharacter
  <2> QED  BY <2>3, <2>4
<1>3. CASE Erase(p)
  <2>1. c # proc[p].c
    BY <1>0, <1>3 DEF Erase, People, NoCharacter
  <2> QED  BY <1>0, <1>3, <2>1 DEF Erase, People, SameCharacter
<1>4. CASE ConvertWrite(p) /\ ~UNCHANGED character
  <2>1. character' = [character EXCEPT ![proc[p].c].npc = Op(p).npc]
    BY <1>4 DEF ConvertWrite
  <2>2. character'[c].exists = character[c].exists /\ character'[c].slug = character[c].slug
        /\ character'[c].place = character[c].place
    BY <1>0, <2>1 DEF People, NoCharacter
  <2> QED  BY <2>2 DEF SameCharacter
<1>5. CASE SyncWrite(p) /\ ~UNCHANGED character
  <2>1. character' = [character EXCEPT ![proc[p].c].place = Places(p)]
    BY <1>5 DEF SyncWrite
  <2>2. character'[c].exists = character[c].exists /\ character'[c].slug = character[c].slug
    BY <1>0, <2>1 DEF People, NoCharacter
  <2>3. CASE c = proc[p].c
    <3>1. character'[c].place = Places(p)
      BY <1>0, <2>1, <2>3 DEF People, NoCharacter
    <3> QED  BY <1>5, <2>2, <2>3, <3>1 DEF Places
  <2>4. CASE c # proc[p].c
    BY <1>0, <2>1, <2>4 DEF People, SameCharacter
  <2> QED  BY <2>3, <2>4
<1> QED  BY <1>1, <1>2, <1>3, <1>4, <1>5, CharacterWritten

(* What a step does to a page.                                             *)
SamePage(g) ==
  /\ page'[g].exists => page[g].exists
  /\ page'[g].slug = page[g].slug /\ page'[g].type = page[g].type
  /\ page'[g].ref = page[g].ref /\ page'[g].version = page[g].version

NewPage(p) ==
  /\ proc[p].pc = "page" /\ proc'[p].pc = "again" /\ Op(p).kind = "create"
  /\ page'[p].slug = desk[p].slug /\ page'[p].type = Op(p).type
  /\ page'[p].ref = IF NeedsCharacter(p) THEN p ELSE Nobody

Edited(p) ==
  /\ Edits(p) /\ proc[p].pc = "write" /\ proc'[p].pc = "done" /\ Now(p).exists
  /\ page'[Mine(p)] = Patched(p, Now(p))
  /\ renamed' = IF Patched(p, Now(p)).slug = Now(p).slug THEN renamed ELSE renamed \cup {Mine(p)}
  /\ halfway' = IF Op(p).type = "same" \/ Now(p).version = Was(p).version
                THEN halfway ELSE halfway \cup {Mine(p)}

LEMMA PaperSteps ==
  ASSUME EditsConsistent, NEW p \in Requests, Acts(p), NEW g \in Pages
  PROVE  \/ SamePage(g)
         \/ g = p /\ NewPage(p)
         \/ g = Mine(p) /\ Edited(p)
<1>0. Shape /\ Course(p) /\ p \in Pages /\ Mine(p) \in Pages
  BY DEF EditsConsistent, Mine, Shape, Pages
<1>1. UNCHANGED page => SamePage(g)
  BY DEF SamePage
<1>2. ASSUME NEW h \in Pages, page' = [page EXCEPT ![h].exists = FALSE]  PROVE SamePage(g)
  BY <1>0, <1>2 DEF SamePage, Shape, NoPage
<1>3. Unsave(p) \/ DropPage(p) => SamePage(g)
  BY <1>0, <1>2 DEF Unsave, DropPage
<1>4. CASE SavePage(p) /\ ~UNCHANGED page
  <2> DEFINE is == [exists |-> TRUE, slug |-> desk[p].slug, type |-> Op(p).type,
                    ref |-> IF NeedsCharacter(p) THEN p ELSE Nobody, version |-> 0]
  <2>1. page' = [page EXCEPT ![p] = is] /\ Goto(p, "again") /\ proc[p].pc = "page"
    BY <1>4 DEF SavePage, At
  <2>2. Op(p).kind = "create"
    BY <1>0, <2>1 DEF Course, Making
  <2>3. is.slug = desk[p].slug /\ is.type = Op(p).type
        /\ is.ref = IF NeedsCharacter(p) THEN p ELSE Nobody
    OBVIOUS
  <2> HIDE DEF is
  <2>4. CASE g = p
    BY <1>0, <2>1, <2>2, <2>3, <2>4, GotoWrites DEF NewPage, Shape
  <2>5. CASE g # p
    BY <1>0, <2>1, <2>5 DEF SamePage, Shape
  <2> QED  BY <2>4, <2>5
<1>5. CASE WritePage(p) /\ ~UNCHANGED page
  <2> DEFINE is == Patched(p, Now(p))
  <2>1. /\ page' = [page EXCEPT ![Mine(p)] = is] /\ Now(p).exists
        /\ proc[p].pc = "write" /\ Op(p).kind = "edit" /\ End(p, "ok")
    BY <1>5 DEF WritePage, Write, Is, At, Now
  <2>2. /\ renamed' = IF is.slug = Now(p).slug THEN renamed ELSE renamed \cup {Mine(p)}
        /\ halfway' = IF Op(p).type = "same" \/ Now(p).version = Was(p).version
                      THEN halfway ELSE halfway \cup {Mine(p)}
    BY <1>5 DEF WritePage, Write, Now, Was
  <2> HIDE DEF is
  <2>3. CASE g = Mine(p)
    <3>1. page'[Mine(p)] = is
      BY <1>0, <2>1 DEF Shape
    <3>2. proc'[p].pc = "done"
      BY <1>0, <2>1, GoOnWrites DEF End
    <3> QED  BY <2>1, <2>2, <2>3, <3>1, <3>2 DEF Edited, Edits, is
  <2>4. CASE g # Mine(p)
    BY <1>0, <2>1, <2>4 DEF SamePage, Shape
  <2> QED  BY <2>3, <2>4
<1> QED  BY <1>1, <1>3, <1>4, <1>5, PaperWritten

(* What the histories remember, they go on remembering; a page that is     *)
(* written is no page still to be made.                                    *)
LEMMA HistoryGrows ==
  ASSUME NEW p \in Requests, Acts(p)
  PROVE  renamed \subseteq renamed' /\ halfway \subseteq halfway'
BY PaperWritten DEF WritePage, Write

(* Nobody is amid an edit of a page that is made just now.                 *)
LEMMA NobodyAmid ==
  ASSUME EditsConsistent, NEW p \in Requests, NewPage(p), NEW q \in Requests, Amid(q)
  PROVE  Mine(q) # p
<1>1. Creates(p)
  BY DEF NewPage, Creates, Unmade
<1>2. Begun(q) /\ Edits(q) /\ Mine(q) = Op(q).page
  BY DEF Amid, Begun, Mine, Edits
<1> QED  BY <1>1, <1>2 DEF EditsConsistent, Unmet

LEMMA PastOn ==
  ASSUME EditsConsistent, NEW p \in Requests, Acts(p), NEW c
  PROVE  /\ Home(c)' = Home(c)
         /\ Past(c) => Past(c)'
<1>1. Home(c)' = Home(c)
  BY Solo DEF Home, Mine
<1>2. ASSUME c = p, Past(c)  PROVE Past(c)'
  <2>1. Course(p) /\ Op(p)' = Op(p)
    BY Solo DEF EditsConsistent
  <2>2. Op(p).kind = "create" /\ proc[p].pc \in {"again", "unsave", "erase", "vanish", "cascade"}
    BY <1>2, <2>1, WhereActs DEF Past, Course, Edits
  <2>3. proc'[p].pc \notin Unmade
    BY <2>2, WhereActs, WhereTo DEF Unmade, Making
  <2> QED  BY <1>2, <2>1, <2>2, <2>3 DEF Past
<1>3. ASSUME c # p, Past(c)  PROVE Past(c)'
  BY <1>3, Solo DEF Past, Edits
<1> QED  BY <1>1, <1>2, <1>3

LEMMA EditorActs ==
  ASSUME EditsConsistent, NEW p \in Requests, Acts(p), Edits(p)
  PROVE  \/ Load(p) \/ ReadPage(p) \/ MayEdit(p) \/ SlugPage(p) \/ SlugCharacter(p)
         \/ CreateCheck(p) \/ CreateSave(p) \/ Furnish(p) \/ SyncFind(p) \/ SyncWrite(p)
         \/ WritePage(p) \/ Die(p)
<1>1. Course(p)
  BY DEF EditsConsistent
<1> QED  BY <1>1 DEF Edits, Course, Making, Unmade, Acts, Peopling, Filing, MayManage, AccountFind,
     AccountCount, AccountInsert, ReadOwners, AddOwner, RemoveOwner, PassOwnership, OpenFind,
     OpenLook, OpenCreate, OpenParent, OpenRollback, ConvertFind, ConvertWrite, ConvertHide,
     ConvertLook, ConvertFit, EraseFind, Erase, CascadeInventory, CascadeFind, CascadeFails,
     CascadeOwners, Deletes, CreateMay, SavePage, WorldAgain, Unsave, UnsaveFails, UndoFails,
     DeleteMay, DeleteFind, DropPage, CloseWorld, At, Is

LEMMA ProceedWrites ==
  ASSUME Shape, NEW p \in Requests, Proceed(p)
  PROVE  \/ proc'[p].pc = "create" /\ Made(p) /\ proc'[p].slug = Was(p).slug
         \/ proc'[p].pc = "sync" /\ Synced(p) /\ proc'[p].c = Was(p).ref
         \/ proc'[p].pc = "write" /\ ~Synced(p)
<1>1. CASE Made(p)
  <2>1. Call(p, "create", Was(p).slug, Nobody, "write")
    BY <1>1 DEF Proceed, Made, Was
  <2> QED  BY <1>1, <2>1, CallWrites
<1>2. CASE ~Made(p) /\ Synced(p)
  <2>1. Call(p, "sync", Op(p).slug, Was(p).ref, "write")
    BY <1>2 DEF Proceed, Made, Synced, Was
  <2> QED  BY <1>2, <2>1, CallWrites
<1>3. CASE ~Made(p) /\ ~Synced(p)
  <2>1. Goto(p, "write")
    BY <1>3 DEF Proceed, Made, Synced
  <2> QED  BY <1>3, <2>1, GotoWrites
<1> QED  BY <1>1, <1>2, <1>3

(* What an edit means by its plan stays.                                   *)
LEMMA MeansOn ==
  ASSUME EditsConsistent, NEW p \in Requests, Acts(p), NEW q \in Requests,
         q # p \/ ~ReadPage(p)
  PROVE  /\ Was(q)' = Was(q) /\ Mine(q)' = Mine(q) /\ (Edits(q)' <=> Edits(q))
         /\ (Made(q)' <=> Made(q)) /\ (Synced(q)' <=> Synced(q))
<1>1. desk'[q].was = desk[q].was /\ Op(q)' = Op(q)
  BY DeskKept, Solo
<1> QED  BY <1>1 DEF Was, Mine, Edits, Made, Synced, NeedsCharacter, NewType

LEMMA ReadWrites ==
  ASSUME EditsConsistent, NEW p \in Requests, ReadPage(p), proc'[p].pc # "done"
  PROVE  desk'[p].was = Now(p) /\ UNCHANGED page /\ proc[p].pc = "read" /\ proc'[p].pc = "may"
<1>0. Shape
  BY DEF EditsConsistent
<1>1. ~End(p, "refused")
  BY <1>0, GoOnWrites DEF End
<1>2. desk' = [desk EXCEPT ![p].was = page[Mine(p)]] /\ Goto(p, "may")
  BY <1>1 DEF ReadPage
<1>3. desk'[p].was = Now(p)
  BY <1>0, <1>2 DEF Shape, Now
<1> QED  BY <1>0, <1>2, <1>3, GotoWrites DEF ReadPage, Is, At

-----------------------------------------------------------------------------
LEMMA RefersOn ==
  ASSUME EditsConsistent, Cast, References, NEW p \in Requests, Acts(p), NEW g \in Pages
  PROVE  Refers(g)'
<1>0. Refers(g) /\ Maker(p) /\ p # Nobody
  BY CharactersAssumption DEF References, CharactersAssumption, Characters
<1>1. CASE SamePage(g)
  BY <1>0, <1>1, PastOn DEF SamePage, Refers
<1>2. CASE g = p /\ NewPage(p)
  <2>1. Op(p)' = Op(p) /\ Op(p).kind = "create" /\ Op(p).type # "same"
    BY <1>0, <1>2, Solo DEF NewPage, Maker
  <2>2. page'[p].type # "wiki" => page'[p].ref = p
    BY <1>2, <2>1 DEF NewPage, NeedsCharacter, NewType
  <2>3. Home(p)' = p /\ Past(p)'
    BY <1>2, <2>1 DEF Home, Mine, Past, NewPage, Unmade, Making
  <2> QED  BY <1>0, <1>2, <2>2, <2>3 DEF Refers, NewPage
<1>3. CASE g = Mine(p) /\ Edited(p)
  <2>1. Amid(p) /\ Follows(p) /\ Op(p)' = Op(p)
    BY <1>3, Solo DEF Amid, Edited, References
  <2>2. page'[g].type = IF Op(p).type = "same" THEN page[g].type ELSE Op(p).type
    BY <1>3 DEF Edited, Patched, Now
  <2>3. page'[g].ref = IF Made(p) THEN p ELSE page[g].ref
    BY <1>3 DEF Edited, Patched, Now
  <2>4. CASE Made(p)
    <3>1. Home(p)' = g /\ Past(p)'
      BY <1>3, <2>1 DEF Home, Mine, Past, Edited, Edits
    <3> QED  BY <1>0, <2>3, <2>4, <3>1 DEF Refers
  <2>5. CASE ~Made(p)
    <3>1. page'[g].type # "wiki" => page'[g].ref # Nobody
      <4>1. CASE Op(p).type = "same"
        BY <1>0, <2>2, <2>3, <2>5, <4>1 DEF Refers
      <4>2. CASE Op(p).type # "same"
        <5>1. page'[g].type # "wiki" => Was(p).ref # Nobody
          BY <2>2, <2>5, <4>2 DEF Made, NeedsCharacter, NewType, Was
        <5> QED  BY <1>3, <2>1, <2>3, <2>5, <5>1 DEF Follows, Now
      <4> QED  BY <4>1, <4>2
    <3> QED  BY <1>0, <2>3, <2>5, <3>1, PastOn DEF Refers
  <2> QED  BY <2>4, <2>5
<1> QED  BY <1>1, <1>2, <1>3, PaperSteps

LEMMA FollowsOn ==
  ASSUME EditsConsistent, Cast, References, NEW p \in Requests, Acts(p), NEW q \in Requests,
         Amid(q)'
  PROVE  Follows(q)'
<1>0. Shape /\ Mine(q) \in Pages /\ Mine(q)' = Mine(q) /\ (Edits(q)' <=> Edits(q))
      /\ page[Mine(q)].version \in Nat /\ desk[q].was.version \in Nat
  BY Solo DEF EditsConsistent, Mine, Shape, Pages, Edits, Cast, Papers
<1>1. ASSUME Amid(q), Was(q)' = Was(q), ~(q = p /\ Edited(p))  PROVE Follows(q)'
  <2>0. Follows(q)
    BY <1>1 DEF References
  <2>1. CASE SamePage(Mine(q))
    BY <1>0, <1>1, <2>0, <2>1, PastOn, HistoryGrows DEF SamePage, Follows, Now
  <2>2. CASE Mine(q) = p /\ NewPage(p)
    BY <1>1, <2>2, NobodyAmid
  <2>3. CASE Mine(q) = Mine(p) /\ Edited(p)
    <3> DEFINE g == Mine(q)
    <3>1. /\ page'[g].version = page[g].version + 1
          /\ page'[g].ref = IF Made(p) THEN p ELSE page[g].ref
      BY <2>3 DEF Edited, Patched, Now
    <3>2. page'[g].slug = page[g].slug \/ g \in renamed'
      BY <2>3 DEF Edited, Now
    <3>3. p # Nobody
      BY CharactersAssumption DEF CharactersAssumption, Characters
    <3>4. Was(q).version <= page[g].version /\ Was(q).version \in Nat
      BY <1>0, <2>0 DEF Follows, Now, Was
    <3>5. Was(q).version < page'[g].version
      BY <1>0, <3>1, <3>4
    <3>6. Was(q).version <= page'[g].version /\ Was(q).version # page'[g].version
      BY <1>0, <3>1, <3>4
    <3>7. page'[g].slug = Was(q).slug \/ g \in renamed'
      BY <2>0, <3>2, HistoryGrows DEF Follows, Now
    <3>8. Was(q).ref # Nobody => page'[g].ref # Nobody
      BY <2>0, <3>1, <3>3 DEF Follows, Now
    <3> QED  BY <1>0, <1>1, <2>0, <3>6, <3>7, <3>8, PastOn DEF Follows, Now
  <2> QED  BY <1>0, <2>1, <2>2, <2>3, PaperSteps
<1>2. CASE q # p
  BY <1>0, <1>1, <1>2, Solo, MeansOn DEF Amid
<1>3. CASE q = p /\ Amid(p)
  <2>1. ~ReadPage(p) /\ ~Edited(p)
    BY <1>3 DEF ReadPage, Amid, Is, At, Edited
  <2> QED  BY <1>1, <1>3, <2>1, MeansOn
<1>4. CASE q = p /\ ~Amid(p)
  <2>1. Edits(p) /\ proc[p].pc \in {"start", "read"}
    BY <1>0, <1>4, WhereActs DEF Amid
  <2>2. ReadPage(p) /\ proc'[p].pc # "done"
    BY <1>4, <2>1, EditorActs, WhereTo DEF Amid, MayEdit, SlugPage, SlugCharacter, CreateCheck,
       CreateSave, Furnish, SyncFind, SyncWrite, WritePage, Write, Is, At
  <2>3. Was(p)' = Now(p) /\ UNCHANGED page
    BY <2>2, ReadWrites DEF Was
  <2>4. Refers(Mine(p))
    BY <1>0, <1>4 DEF References
  <2> QED  BY <1>0, <1>4, <2>3, <2>4, PastOn DEF Follows, Refers, Now
<1> QED  BY <1>2, <1>3, <1>4

(* An edit that has changed its character goes on to write its page.       *)
LEMMA PendsOn ==
  ASSUME EditsConsistent, References, NEW p \in Requests, Acts(p), NEW r \in Requests, NEW g,
         Pends(r, g)
  PROVE  \/ Pends(r, g)'
         \/ r = p /\ g = Mine(p) /\ (Edited(p) \/ g \in halfway')
<1>1. CASE r # p
  BY <1>1, Solo, MeansOn DEF Pends
<1>2. CASE r = p
  <2>0. Shape /\ Course(p) /\ Mine(p) \in Pages
    BY DEF EditsConsistent, Mine, Shape, Pages
  <2>1. ~ReadPage(p)
    BY <1>2 DEF Pends, ReadPage, Is, At
  <2>2. CASE Die(p)
    BY <1>2, <2>1, <2>2, MeansOn DEF Die, Pends
  <2>3. CASE SyncWrite(p)
    <3>1. Edits(p) /\ proc[p].pc = "resync"
      BY <2>3 DEF References, Maker, SyncWrite, At
    <3>2. proc'[p].pc = "write"
      BY <2>0, <2>3, <3>1, GotoWrites DEF SyncWrite, Course, Edits
    <3> QED  BY <1>2, <2>1, <3>2, MeansOn DEF Pends
  <2>4. CASE WritePage(p)
    <3>1. CASE Edited(p)
      BY <1>2, <3>1 DEF Pends
    <3>2. CASE ~Edited(p)
      <4>1. Edits(p) /\ proc[p].pc = "write"
        BY <2>4 DEF WritePage, Write, Is, At, Edits
      <4>2. UNCHANGED page
        <5>1. ~UNCHANGED page => Now(p).exists /\ page' = [page EXCEPT ![Mine(p)] = Patched(p, Now(p))]
          BY <2>4 DEF WritePage, Write, Now
        <5>2. ~UNCHANGED page => page'[Mine(p)] = Patched(p, Now(p))
          BY <2>0, <5>1 DEF Shape
        <5>3. ~UNCHANGED page => End(p, "ok")
          BY <2>4 DEF WritePage, Write
        <5>4. ~UNCHANGED page => proc'[p].pc = "done"
          BY <2>0, <5>3, GoOnWrites DEF End
        <5>5. ~UNCHANGED page =>
                /\ renamed' = IF Patched(p, Now(p)).slug = Now(p).slug THEN renamed ELSE renamed \cup {Mine(p)}
                /\ halfway' = IF Op(p).type = "same" \/ Now(p).version = Was(p).version
                              THEN halfway ELSE halfway \cup {Mine(p)}
          BY <2>4 DEF WritePage, Write, Now, Was
        <5> QED  BY <3>2, <4>1, <5>1, <5>2, <5>4, <5>5 DEF Edited
      <4>3. Mine(p) \in halfway'
        <5>1. page' = [page EXCEPT ![Mine(p)] = Patched(p, Now(p))] => page'[Mine(p)].version = Now(p).version + 1
          BY <2>0 DEF Shape, Patched
        <5>2. Now(p).version + 1 # Now(p).version
          BY <2>0 DEF Shape, Now
        <5>3. halfway' = IF Synced(p) THEN halfway \cup {Mine(p)} ELSE halfway
          BY <2>4, <4>2, <5>1, <5>2 DEF WritePage, Write, Now
        <5> QED  BY <1>2, <5>3 DEF Pends
      <4> QED  BY <1>2, <4>3 DEF Pends
    <3> QED  BY <3>1, <3>2
  <2> QED  BY <1>2, <2>2, <2>3, <2>4, WhereActs DEF Pends
<1> QED  BY <1>1, <1>2

(* A request that dies leaves everything as it is.                         *)
LEMMA DieStays ==
  ASSUME NEW p \in Requests, Acts(p), Die(p)
  PROVE  UNCHANGED <<character, proc, page, desk, renamed, halfway>>
<1>1. ~UNCHANGED dead
  BY DEF Die
<1>2. ~Filing(p)
  BY <1>1 DEF Filing, SlugPage, SlugCharacter, CreateMay, SavePage, WorldAgain, Unsave,
     UnsaveFails, UndoFails, Load, ReadPage, MayEdit, WritePage, Write, DeleteMay, DeleteFind,
     DropPage, CloseWorld, Step, Refuse, Stay, Keep
<1> QED  BY <1>2 DEF Acts, Filed, paper, Die

(* Who is the character of a page, or was when an edit read it, is no more *)
(* being made; an edit that changes a kind changes that of its page.       *)
LEMMA SyncMeans ==
  ASSUME EditsConsistent, Cast, References, NEW p \in Requests,
         proc[p].pc \in {"sync", "resync"}
  PROVE  /\ Edits(p) /\ Amid(p) /\ Synced(p)
         /\ proc[p].c = Was(p).ref /\ Was(p).ref \in Characters
         /\ Mine(p) = Home(proc[p].c) /\ Past(proc[p].c)
<1>1. Edits(p) /\ Amid(p)
  BY DEF References, Maker, Amid
<1>2. Follows(p) /\ Employs(p)
  BY <1>1 DEF References
<1>3. Synced(p) /\ proc[p].c = Was(p).ref
  BY <1>2 DEF Employs
<1>4. Was(p).ref # Nobody
  BY <1>3 DEF Synced, Was
<1> QED  BY <1>1, <1>2, <1>3, <1>4 DEF Follows, Cast, Papers, Was

LEMMA SyncSets ==
  ASSUME EditsConsistent, Cast, NEW p \in Requests, SyncWrite(p), character[proc[p].c].exists
  PROVE  character'[proc[p].c].place <=> Op(p).type = "place"
<1>0. Shape /\ People /\ proc[p].c \in Characters
  BY DEF EditsConsistent, Cast, Sits, Casting, SyncWrite, At
<1>1. character' = [character EXCEPT ![proc[p].c].place = Places(p)]
  BY DEF SyncWrite
<1>2. character'[proc[p].c].place = Places(p)
  BY <1>0, <1>1 DEF People, NoCharacter
<1> QED  BY <1>2 DEF Places

(* The character an edit has made stays, or is made now.                   *)
LEMMA OwnCharacter ==
  ASSUME EditsConsistent, Cast, References, NEW p \in Requests, Acts(p), Edits(p),
         character'[p].exists
  PROVE  \/ SameCharacter(p) /\ (Furnish(p) \/ WritePage(p) \/ Die(p))
         \/ /\ CreateSave(p) /\ character'[p].slug = proc[p].slug
            /\ character'[p].place <=> Op(p).type = "place"
            /\ proc'[p].pc = "furnish"
<1>0. p \in Characters /\ Maker(p)
  BY DEF Characters, References
<1>1. CASE character[p].exists
  <2>1. proc[p].pc \in {"furnish", "write"}
    BY <1>0, <1>1, WhereActs DEF Maker
  <2>2. Furnish(p) \/ WritePage(p) \/ Die(p)
    BY <2>1, WhereActs
  <2>3. ~SyncWrite(p) /\ ~CreateSave(p)
    BY <2>1 DEF SyncWrite, CreateSave, At
  <2> QED  BY <1>0, <2>2, <2>3, PlaceSteps
<1>2. CASE ~character[p].exists
  BY <1>0, <1>2, PlaceSteps DEF SameCharacter
<1> QED  BY <1>1, <1>2

LEMMA EmploysOn ==
  ASSUME EditsConsistent, Cast, References, NEW p \in Requests, Acts(p), NEW q \in Requests,
         Amid(q)'
  PROVE  Employs(q)'
<1>0. Shape /\ (Edits(q)' <=> Edits(q)) /\ Edits(q) /\ Op(q)' = Op(q) /\ q \in Characters
  BY Solo DEF EditsConsistent, Edits, Amid, Characters
<1>1. CASE q # p
  <2>1. Amid(q) /\ proc'[q] = proc[q] /\ Employs(q)
    BY <1>0, <1>1, Solo DEF Amid, References
  <2>2. Was(q)' = Was(q) /\ (Made(q)' <=> Made(q)) /\ (Synced(q)' <=> Synced(q))
    BY <1>1, MeansOn
  <2>3. ASSUME character'[q].exists  PROVE SameCharacter(q)
    <3>1. ~(SyncWrite(p) /\ q = proc[p].c)
      <4> SUFFICES ASSUME SyncWrite(p), q = proc[p].c  PROVE FALSE
        OBVIOUS
      <4>1. Past(q)
        BY SyncMeans DEF SyncWrite, At
      <4> QED  BY <1>0, <2>1, <4>1 DEF Past, Amid, Edits
    <3> QED  BY <1>0, <1>1, <2>3, <3>1, PlaceSteps
  <2> QED  BY <1>0, <2>1, <2>2, <2>3 DEF Employs, Kindly, SameCharacter
<1>2. CASE q = p /\ ~Amid(p)
  <2>1. proc[p].pc \in {"start", "read"}
    BY <1>0, <1>2, WhereActs DEF Amid
  <2>2. proc'[p].pc = "may"
    BY <1>0, <1>2, <2>1, EditorActs, WhereTo DEF Amid, MayEdit, SlugPage, SlugCharacter,
       CreateCheck, CreateSave, Furnish, SyncFind, SyncWrite, WritePage, Write, Is, At
  <2>3. ~character'[p].exists
    BY <1>0, <1>2, <2>1, OwnCharacter DEF CreateSave, Furnish, WritePage, Write, Is, At, Die, Amid
  <2> QED  BY <1>2, <2>2, <2>3 DEF Employs, Making
<1>3. CASE q = p /\ Amid(p)
  <2>0. Employs(p) /\ Course(p)
    BY <1>3 DEF References, EditsConsistent
  <2>1. Was(p)' = Was(p) /\ (Made(p)' <=> Made(p)) /\ (Synced(p)' <=> Synced(p))
    <3>1. ~ReadPage(p)
      BY <1>3 DEF Amid, ReadPage, Is, At
    <3> QED  BY <3>1, MeansOn
  <2>2. ASSUME character'[p].exists
        PROVE  Made(p) /\ character'[p].slug = Was(p).slug /\ (character'[p].place <=> Op(p).type = "place")
    <3>1. CASE SameCharacter(p)
      BY <2>0, <3>1 DEF SameCharacter, Employs, Kindly
    <3>2. CASE CreateSave(p) /\ character'[p].slug = proc[p].slug
               /\ (character'[p].place <=> Op(p).type = "place")
      BY <2>0, <3>2 DEF CreateSave, At, Employs, Making
    <3> QED  BY <1>0, <1>3, <2>2, <3>1, <3>2, OwnCharacter
  <2>3. proc'[p].pc \in Making => Made(p) /\ proc'[p].slug = Was(p).slug
    <3>1. CASE Die(p)
      BY <2>0, <3>1, DieStays DEF Employs
    <3>2. CASE SlugCharacter(p) \/ MayEdit(p)
      <4>1. Proceed(p) \/ Goto(p, "slug") \/ End(p, "refused")
        BY <1>0, <1>3, <3>2 DEF SlugCharacter, MayEdit, Edits
      <4>2. Goto(p, "slug") => proc'[p].pc = "slug"
        BY <1>0, GotoWrites
      <4>3. End(p, "refused") => proc'[p].pc = "done"
        BY <1>0, GoOnWrites DEF End
      <4> QED  BY <1>0, <4>1, <4>2, <4>3, ProceedWrites DEF Making
    <3>3. CASE CreateCheck(p)
      <4>1. Made(p) /\ proc[p].slug = Was(p).slug
        BY <2>0, <3>3 DEF CreateCheck, At, Employs, Making
      <4>2. Return(p, FALSE) \/ Goto(p, "save")
        BY <3>3 DEF CreateCheck
      <4>3. Return(p, FALSE) => proc'[p].pc = "done"
        BY <1>0, <2>0, GoOnWrites DEF Return, Course
      <4> QED  BY <1>0, <4>1, <4>2, <4>3, GotoWrites DEF Making
    <3>4. CASE CreateSave(p)
      <4>1. Made(p) /\ proc[p].slug = Was(p).slug
        BY <2>0, <3>4 DEF CreateSave, At, Employs, Making
      <4>2. Return(p, FALSE) \/ proc' = [proc EXCEPT ![p].pc = "furnish", ![p].c = p]
        BY <3>4 DEF CreateSave
      <4>3. Return(p, FALSE) => proc'[p].pc = "done"
        BY <1>0, <2>0, GoOnWrites DEF Return, Course
      <4>4. ASSUME proc' = [proc EXCEPT ![p].pc = "furnish", ![p].c = p]
            PROVE  proc'[p].slug = proc[p].slug
        BY <1>0, <4>4, NamingWrites
      <4> QED  BY <4>1, <4>2, <4>3, <4>4 DEF Making
    <3>5. ~MayManage(p)
      BY <1>0, <1>3 DEF MayManage, Is, Edits
    <3> QED  BY <3>1, <3>2, <3>3, <3>4, <3>5, WhereFrom DEF Making
  <2>4. proc'[p].pc \in {"sync", "resync"} => Synced(p) /\ proc'[p].c = Was(p).ref
    <3>1. CASE Die(p)
      BY <2>0, <3>1, DieStays DEF Employs
    <3>2. CASE SlugCharacter(p) \/ MayEdit(p)
      <4>1. Proceed(p) \/ Goto(p, "slug") \/ End(p, "refused")
        BY <1>0, <1>3, <3>2 DEF SlugCharacter, MayEdit, Edits
      <4>2. Goto(p, "slug") => proc'[p].pc = "slug"
        BY <1>0, GotoWrites
      <4>3. End(p, "refused") => proc'[p].pc = "done"
        BY <1>0, GoOnWrites DEF End
      <4> QED  BY <1>0, <4>1, <4>2, <4>3, ProceedWrites
    <3>3. CASE SyncFind(p)
      <4>1. Synced(p) /\ proc[p].c = Was(p).ref
        BY <2>0, <3>3 DEF SyncFind, At, Employs
      <4>2. \E pc : Goto(p, pc)
        BY <3>3 DEF SyncFind
      <4> QED  BY <1>0, <4>1, <4>2, GotoWrites
    <3> QED  BY <3>1, <3>2, <3>3, WhereFrom
  <2> QED  BY <1>0, <1>3, <2>1, <2>2, <2>3, <2>4 DEF Employs, Kindly
<1> QED  BY <1>1, <1>2, <1>3

LEMMA MakerOn ==
  ASSUME EditsConsistent, Cast, References, NEW p \in Requests, Acts(p), NEW q \in Requests
  PROVE  Maker(q)'
<1>0. /\ Shape /\ (Edits(q)' <=> Edits(q)) /\ Op(q)' = Op(q) /\ q \in Characters
      /\ Maker(q) /\ Course(q)'
  BY Solo DEF EditsConsistent, Edits, Characters, References
<1>1. Edits(q)' /\ character'[q].exists => proc'[q].pc \in {"furnish", "write", "done"}
  <2> SUFFICES ASSUME Edits(q), character'[q].exists
               PROVE  proc'[q].pc \in {"furnish", "write", "done"}
    BY <1>0
  <2>1. CASE q = p
    <3>1. Furnish(p) => proc'[p].pc \in {"page", "write", "done"}
      BY WhereTo
    <3>2. WritePage(p) => proc'[p].pc = "done"
      BY WhereTo
    <3>3. proc'[p].pc # "page"
      BY <1>0, <2>1 DEF Course, Edits, Making
    <3>4. Die(p) /\ character[p].exists => proc'[p].pc \in {"furnish", "write", "done"}
      BY <1>0, <2>1, DieStays DEF Maker
    <3> QED  BY <1>0, <2>1, <3>1, <3>2, <3>3, <3>4, OwnCharacter DEF SameCharacter
  <2>2. CASE q # p
    <3>1. character[q].exists
      BY <1>0, <2>2, PlaceSteps DEF SameCharacter
    <3> QED  BY <1>0, <2>2, <3>1, Solo DEF Maker
  <2> QED  BY <2>1, <2>2
<1>2. Op(q)'.kind = "create" /\ proc'[q].pc \in Unmade /\ character'[q].exists => Kindly(q, q)'
  <2> SUFFICES ASSUME Op(q).kind = "create", proc'[q].pc \in Unmade, character'[q].exists
               PROVE  character'[q].place <=> Op(q).type = "place"
    BY <1>0 DEF Kindly
  <2>1. ~Past(q)
    <3>1. ~Past(q)'
      BY <1>0 DEF Past, Edits
    <3> QED  BY <3>1, PastOn
  <2>2. proc[q].pc \in Unmade
    BY <2>1 DEF Past
  <2>3. CASE SameCharacter(q)
    BY <1>0, <2>2, <2>3 DEF Maker, SameCharacter, Kindly
  <2>4. ~(SyncWrite(p) /\ q = proc[p].c)
    BY <2>1, SyncMeans DEF SyncWrite, At
  <2> QED  BY <1>0, <2>3, <2>4, PlaceSteps
<1>3. proc'[q].pc \in {"sync", "resync"} => Edits(q)'
  <2> SUFFICES ASSUME proc'[q].pc \in {"sync", "resync"}  PROVE Edits(q)
    BY <1>0
  <2>1. CASE q # p \/ Die(p)
    BY <1>0, <2>1, Solo, DieStays DEF Maker
  <2>2. CASE q = p /\ SyncFind(p)
    BY <1>0, <2>2 DEF Maker, SyncFind, At
  <2>3. CASE q = p /\ MayEdit(p)
    BY <2>3 DEF MayEdit, Is, Edits
  <2>4. CASE q = p /\ SlugCharacter(p) /\ ~Edits(p)
    <3>1. \/ Goto(p, "slug") \/ Goto(p, "page")
          \/ Call(p, "create", desk[p].slug, Nobody, "page")
      BY <2>4 DEF SlugCharacter, Edits
    <3> QED  BY <1>0, <2>4, <3>1, GotoWrites, CallWrites
  <2> QED  BY <2>1, <2>2, <2>3, <2>4, WhereFrom
<1>4. Op(q)'.kind = "create" => Op(q)'.type # "same"
  BY <1>0 DEF Maker
<1> QED  BY <1>1, <1>2, <1>3, <1>4 DEF Maker

(* Another edit of the page has changed nothing, if the page is as it was. *)
LEMMA SameMeanwhile ==
  ASSUME EditsConsistent, Cast, References, NEW p \in Requests, Acts(p), NEW q \in Requests \ {p},
         Amid(q), Now(q)'.version = Was(q)'.version
  PROVE  SamePage(Mine(q)) /\ ~(Mine(p) = Mine(q) /\ Edited(p))
<1>0. /\ Follows(q) /\ Mine(q) \in Pages /\ Mine(q)' = Mine(q) /\ Was(q)' = Was(q)
      /\ Now(q).version \in Nat /\ Was(q).version \in Nat
  BY MeansOn DEF References, EditsConsistent, Mine, Shape, Pages, Cast, Papers, Now, Was
<1>1. ~(Mine(q) = p /\ NewPage(p))
  BY NobodyAmid
<1>2. ~(Mine(q) = Mine(p) /\ Edited(p))
  <2> SUFFICES ASSUME Mine(q) = Mine(p), Edited(p)  PROVE FALSE
    OBVIOUS
  <2>1. Now(q)'.version = Now(q).version + 1
    BY <1>0 DEF Edited, Patched, Now
  <2>2. Was(q).version <= Now(q).version
    BY <1>0 DEF Follows
  <2> QED  BY <1>0, <2>1, <2>2
<1> QED  BY <1>0, <1>1, <1>2, PaperSteps

LEMMA WaitingOn ==
  ASSUME EditsConsistent, Cast, References, NEW p \in Requests, Acts(p), NEW q \in Requests
  PROVE  Waiting(q)'
<1> SUFFICES ASSUME Edits(q)', proc'[q].pc = "write", Synced(q)', Now(q)'.version = Was(q)'.version,
                    character'[Was(q)'.ref].exists, Mine(q)' \notin halfway'
             PROVE  Kindly(Was(q).ref, q)' \/ \E r \in Requests \ {q} : Pends(r, Mine(q))'
  BY DEF Waiting
<1>0. /\ Shape /\ (Edits(q)' <=> Edits(q)) /\ Edits(q) /\ Op(q)' = Op(q) /\ Mine(q)' = Mine(q)
      /\ Waiting(q) /\ Mine(q) \notin halfway' /\ Mine(q) \notin halfway
  BY Solo, HistoryGrows DEF EditsConsistent, Edits, Mine, References
<1>1. CASE q # p
  <2> DEFINE c == Was(q).ref
  <2>1. Was(q)' = Was(q) /\ Synced(q) /\ proc[q].pc = "write" /\ Amid(q) /\ Follows(q)
    BY <1>0, <1>1, MeansOn, Solo DEF Amid, References
  <2>2. c \in Characters /\ c # Nobody /\ character'[c].exists
    BY <2>1 DEF Synced, Was, Cast, Papers
  <2>3. SamePage(Mine(q)) /\ ~(Mine(p) = Mine(q) /\ Edited(p))
    BY <1>1, <2>1, SameMeanwhile
  <2>4. Now(q).version = Was(q).version
    BY <1>0, <2>1, <2>3 DEF SamePage, Now
  <2>5. CASE SameCharacter(c)
    <3>1. CASE Kindly(c, q)
      BY <1>0, <2>1, <2>5, <3>1 DEF SameCharacter, Kindly
    <3>2. ASSUME NEW r \in Requests \ {q}, Pends(r, Mine(q))  PROVE Pends(r, Mine(q))'
      BY <1>0, <2>3, <3>2, PendsOn DEF Pends
    <3>3. Kindly(c, q) \/ \E r \in Requests \ {q} : Pends(r, Mine(q))
      BY <1>0, <2>1, <2>4, <2>5 DEF Waiting, SameCharacter
    <3> QED  BY <3>1, <3>2, <3>3
  <2>6. CASE SyncWrite(p) /\ c = proc[p].c
    <3>1. /\ Synced(p) /\ Mine(p) = Home(c) /\ Mine(q) = Home(c) /\ proc[p].pc = "resync"
      BY <2>1, <2>2, <2>6, SyncMeans DEF SyncWrite, At, Follows
    <3>2. Pends(p, Mine(q)) /\ ~Edited(p)
      BY <3>1 DEF Pends, Edited
    <3> QED  BY <1>0, <1>1, <3>2, PendsOn
  <2>7. CASE CreateSave(p) /\ c = p
    BY <2>1, <2>2, <2>7 DEF Follows, Past, CreateSave, At, Unmade, Making
  <2> QED  BY <2>2, <2>5, <2>6, <2>7, PlaceSteps
<1>2. CASE q = p
  <2>1. CASE Die(p)
    <3>1. /\ UNCHANGED <<character, proc, page, desk, halfway>>
      BY <2>1, DieStays
    <3>2. Waiting(q)'
      <4>1. \A r \in Requests : Op(r)' = Op(r) /\ Mine(r)' = Mine(r) /\ Was(r)' = Was(r)
                                /\ Now(r)' = Now(r) /\ (Synced(r)' <=> Synced(r))
        BY <3>1 DEF Op, Mine, Was, Now, Synced
      <4>2. \A r \in Requests : Pends(r, Mine(q))' <=> Pends(r, Mine(q))
        BY <1>0, <3>1, <4>1 DEF Pends
      <4> QED  BY <1>0, <3>1, <4>1, <4>2 DEF Waiting, Kindly, Edits
    <3> QED  BY <3>2 DEF Waiting
  <2>2. ASSUME ~ReadPage(p)
        PROVE  Was(p)' = Was(p) /\ Synced(p) /\ Was(p).ref # Nobody /\ ~Made(p)
    BY <1>2, <2>2, MeansOn DEF Synced, Made, Was
  <2>3. CASE CreateCheck(p) \/ CreateSave(p) \/ Furnish(p)
    <3>1. Amid(p) /\ proc[p].pc \in Making /\ ~ReadPage(p)
      BY <1>0, <1>2, <2>3 DEF CreateCheck, CreateSave, Furnish, At, Amid, Making, ReadPage, Is
    <3> QED  BY <2>2, <3>1 DEF References, Employs
  <2>4. CASE SlugCharacter(p) \/ MayEdit(p)
    <3>1. Proceed(p) \/ Goto(p, "slug") \/ End(p, "refused")
      BY <1>0, <1>2, <2>4 DEF SlugCharacter, MayEdit, Edits
    <3>2. Goto(p, "slug") => proc'[p].pc = "slug"
      BY <1>0, GotoWrites
    <3>3. End(p, "refused") => proc'[p].pc = "done"
      BY <1>0, GoOnWrites DEF End
    <3>4. ~Synced(p)
      BY <1>0, <1>2, <3>1, <3>2, <3>3, ProceedWrites
    <3>5. ~ReadPage(p)
      BY <2>4 DEF SlugCharacter, MayEdit, ReadPage, Is, At
    <3> QED  BY <2>2, <3>4, <3>5
  <2>5. CASE SyncFind(p)
    <3>1. ~ReadPage(p) /\ proc[p].c = Was(p).ref /\ UNCHANGED character
      BY <2>5, SyncMeans DEF SyncFind, At, ReadPage, Is, Keep
    <3>2. ~Goto(p, "resync")
      BY <1>0, <1>2, GotoWrites
    <3>3. character[proc[p].c].exists => character[proc[p].c].place = Places(p)
      BY <2>5, <3>2 DEF SyncFind
    <3> QED  BY <1>0, <1>2, <2>2, <3>1, <3>3 DEF Kindly, Places
  <2>6. CASE SyncWrite(p)
    <3>1. ~ReadPage(p) /\ proc[p].c = Was(p).ref /\ Was(p).ref \in Characters /\ ~CreateSave(p)
      BY <2>6, SyncMeans DEF SyncWrite, At, ReadPage, Is, CreateSave
    <3>2. character[proc[p].c].exists
      BY <1>2, <2>2, <3>1, PlaceSteps DEF SameCharacter
    <3> QED  BY <1>0, <1>2, <2>2, <2>6, <3>1, <3>2, SyncSets DEF Kindly
  <2> QED  BY <1>2, <2>1, <2>3, <2>4, <2>5, <2>6, WhereFrom
<1> QED  BY <1>1, <1>2

LEMMA FitsOn ==
  ASSUME EditsConsistent, Cast, References, NEW p \in Requests, Acts(p), Creator(p)',
         NEW g \in Pages
  PROVE  Fits(g)'
<1> DEFINE c == page'[g].ref
<1> SUFFICES ASSUME page'[g].exists, c \in Characters, character'[c].exists
             PROVE  /\ character'[c].slug = page'[g].slug \/ g \in renamed'
                    /\ \/ page'[g].type = "wiki" \/ g \in halfway' \/ \E r \in Requests : Pends(r, g)'
                       \/ character'[c].place <=> page'[g].type = "place"
  BY DEF Fits
<1> HIDE DEF c
<1>0. /\ c # Nobody /\ Refers(g) /\ Fits(g) /\ Maker(p) /\ p \in Characters /\ Op(p)' = Op(p)
      /\ Mine(p) \in Pages /\ page[g].version \in Nat
      /\ renamed \subseteq renamed' /\ halfway \subseteq halfway'
  BY CharactersAssumption, Solo, HistoryGrows DEF CharactersAssumption, References, Characters,
     EditsConsistent, Shape, Mine, Pages
<1>1. CASE SamePage(g)
  <2>1. /\ page[g].ref = c /\ page[g].exists
        /\ page'[g].slug = page[g].slug /\ page'[g].type = page[g].type
        /\ g = Home(c) /\ Past(c)
    BY <1>0, <1>1 DEF SamePage, Refers, c
  <2>2. CASE SameCharacter(c)
    <3>1. /\ character[c].slug = page[g].slug \/ g \in renamed
          /\ \/ page[g].type = "wiki" \/ g \in halfway \/ \E r \in Requests : Pends(r, g)
             \/ character[c].place <=> page[g].type = "place"
      BY <1>0, <2>1, <2>2 DEF Fits, SameCharacter
    <3>2. ASSUME NEW r \in Requests, Pends(r, g)  PROVE Pends(r, g)' \/ g \in halfway'
      <4>1. ~(g = Mine(p) /\ Edited(p))
        BY <1>0, <1>1 DEF SamePage, Edited, Patched, Now
      <4> QED  BY <3>2, <4>1, PendsOn
    <3> QED  BY <1>0, <2>1, <2>2, <3>1, <3>2 DEF SameCharacter
  <2>3. CASE SyncWrite(p) /\ c = proc[p].c /\ character[c].exists
             /\ character'[c].slug = character[c].slug
    <3>1. Synced(p) /\ Mine(p) = g /\ proc[p].pc = "resync"
      BY <2>1, <2>3, SyncMeans DEF SyncWrite, At
    <3>2. Pends(p, g) /\ ~Edited(p)
      BY <3>1 DEF Pends, Edited
    <3>3. Pends(p, g)' \/ g \in halfway'
      BY <3>2, PendsOn
    <3> QED  BY <1>0, <2>1, <2>3, <3>3 DEF Fits
  <2>4. ~(CreateSave(p) /\ c = p)
    BY <2>1 DEF Past, CreateSave, At, Unmade, Making
  <2> QED  BY <2>2, <2>3, <2>4, PlaceSteps
<1>2. CASE g = p /\ NewPage(p)
  <2>1. c = p /\ Op(p).kind = "create" /\ proc[p].pc = "page" /\ page'[g].slug = desk[p].slug
        /\ page'[g].type = Op(p).type
    BY <1>0, <1>2 DEF NewPage, c
  <2>2. character'[p].slug = desk[p].slug
    <3>1. character'[p].slug = desk'[p].slug
      BY <1>0, <2>1 DEF Creator
    <3>2. desk'[p].slug = desk[p].slug
      BY <2>1, DeskKept DEF SlugPage, SlugCharacter, At
    <3> QED  BY <3>1, <3>2
  <2>3. SameCharacter(p)
    BY <1>0, <2>1, PlaceSteps DEF SyncWrite, CreateSave, At
  <2>4. Kindly(p, p)
    BY <1>0, <2>1, <2>3 DEF Maker, SameCharacter, Unmade
  <2> QED  BY <1>2, <2>1, <2>2, <2>3, <2>4 DEF Kindly, SameCharacter
<1>3. CASE g = Mine(p) /\ Edited(p)
  <2>0. Amid(p) /\ Follows(p) /\ Employs(p) /\ Waiting(p) /\ proc[p].pc = "write" /\ Edits(p)
    BY <1>3 DEF Edited, Amid, References
  <2>1. SameCharacter(c)
    BY <2>0, PlaceSteps DEF SyncWrite, CreateSave, At
  <2>2. /\ page'[g].type = IF Op(p).type = "same" THEN page[g].type ELSE Op(p).type
        /\ c = IF Made(p) THEN p ELSE page[g].ref
        /\ page'[g].slug = page[g].slug \/ g \in renamed'
        /\ page[g].exists
    BY <1>3 DEF Edited, Patched, Now, c
  <2>3. ASSUME NEW r \in Requests, Pends(r, g), r # p \/ ~Synced(p)  PROVE Pends(r, g)'
    BY <2>3, PendsOn DEF Pends
  <2>4. CASE Made(p)
    <3>1. c = p /\ character[p].slug = Was(p).slug /\ Kindly(p, p)
      BY <2>0, <2>1, <2>2, <2>4 DEF Employs, SameCharacter
    <3>2. Op(p).type # "same"
      BY <2>0, <2>4 DEF Made, NeedsCharacter, NewType, Follows, Was
    <3>3. page[g].slug = Was(p).slug \/ g \in renamed'
      BY <1>0, <1>3, <2>0 DEF Follows, Now
    <3> QED  BY <2>1, <2>2, <3>1, <3>2, <3>3 DEF Kindly, SameCharacter
  <2>5. CASE ~Made(p)
    <3>0. /\ character[c].slug = page[g].slug \/ g \in renamed
          /\ \/ page[g].type = "wiki" \/ g \in halfway \/ \E r \in Requests : Pends(r, g)
             \/ character[c].place <=> page[g].type = "place"
          /\ c = page[g].ref
      BY <1>0, <2>1, <2>2, <2>5 DEF Fits, SameCharacter
    <3>1. character'[c].slug = page'[g].slug \/ g \in renamed'
      BY <1>0, <2>1, <2>2, <3>0 DEF SameCharacter
    <3>2. CASE Op(p).type = "same"
      <4>1. ~Synced(p)
        BY <3>2 DEF Synced
      <4> QED  BY <1>0, <2>1, <2>2, <2>3, <3>0, <3>1, <3>2, <4>1 DEF SameCharacter
    <3>3. CASE Op(p).type # "same" /\ ~Synced(p)
      <4>1. Op(p).type = "wiki"
        BY <2>5, <3>3 DEF Synced, Made, NeedsCharacter, NewType
      <4> QED  BY <2>2, <3>1, <3>3, <4>1
    <3>4. CASE Op(p).type # "same" /\ Synced(p)
      <4>1. CASE Now(p).version # Was(p).version
        BY <1>3, <3>1, <3>4, <4>1 DEF Edited
      <4>2. CASE Now(p).version = Was(p).version /\ g \notin halfway
        <5>1. Was(p).ref = c
          BY <1>3, <2>0, <3>0, <4>2 DEF Follows, Now
        <5>2. Kindly(c, p) \/ \E r \in Requests \ {p} : Pends(r, g)
          BY <1>3, <2>0, <2>1, <3>4, <4>2, <5>1 DEF Waiting, SameCharacter
        <5> QED  BY <2>1, <2>2, <2>3, <3>1, <3>4, <5>2 DEF Kindly, SameCharacter
      <4> QED  BY <1>0, <3>1, <4>1, <4>2
    <3> QED  BY <3>2, <3>3, <3>4
  <2> QED  BY <2>4, <2>5
<1> QED  BY <1>1, <1>2, <1>3, PaperSteps

-----------------------------------------------------------------------------
LEMMA InitReferences == Init => References
<1> SUFFICES ASSUME Init  PROVE References
  OBVIOUS
<1>1. PICK plan \in Plans : proc = [p \in Requests |-> Idle(plan[p])]
  BY DEF Init, CharactersInit
<1>2. \A p \in Requests : /\ proc[p].pc = "start" /\ ~character[p].exists
                          /\ Op(p).kind = "create" => Op(p).type # "same"
  BY <1>1, Cast0, CharactersAssumption DEF CharactersAssumption, Init, CharactersInit, NoCharacter,
     Characters, Idle, Op
<1>3. ASSUME NEW p \in Requests
      PROVE  (Amid(p) => Follows(p) /\ Employs(p)) /\ Maker(p) /\ Waiting(p)
  BY <1>2 DEF Amid, Maker, Waiting
<1>4. ASSUME NEW g \in Pages  PROVE Refers(g) /\ Fits(g)
  <2>0. hero \notin Requests /\ hero # Nobody /\ hero \in Characters /\ Nobody \notin Characters
        /\ sheet # note
    BY Cast0, CharactersAssumption DEF CharactersAssumption, Characters
  <2>1. CASE g = sheet
    <3>1. page[g].exists /\ page[g].slug = <<Heroes, 1>> /\ page[g].type = "sheet"
          /\ page[g].ref = hero
      <4> DEFINE is == [NoPage EXCEPT !.exists = TRUE, !.slug = <<Heroes, 1>>,
                                      !.type = "sheet", !.ref = hero]
                 other == [NoPage EXCEPT !.exists = TRUE]
      <4>1. page = [h \in Pages |-> CASE h = sheet -> is [] h = note -> other [] OTHER -> NoPage]
        BY Zenon DEF Init
      <4>2. is.exists = TRUE
        BY DEF NoPage
      <4>3. is.slug = <<Heroes, 1>> /\ is.type = "sheet" /\ is.ref = hero
        BY DEF NoPage
      <4> HIDE DEF is, other
      <4>4. page[sheet] = is
        BY <4>1, Cast0 DEF Pages
      <4> QED  BY <2>1, <4>2, <4>3, <4>4
    <3>2. character[hero].slug = <<Heroes, 1>> /\ character[hero].place = FALSE
      <4> DEFINE is == [NoCharacter EXCEPT !.exists = TRUE]
                 other == [NoCharacter EXCEPT !.exists = TRUE, !.slug = <<Squires, 1>>]
      <4>1. character = [c \in Characters |-> CASE c = hero -> is [] c = squire -> other
                                               [] OTHER -> NoCharacter]
        BY Zenon DEF Init, CharactersInit
      <4>2. is.slug = <<Heroes, 1>> /\ is.place = FALSE
        BY DEF NoCharacter
      <4> HIDE DEF is, other
      <4>3. character[hero] = is
        BY <2>0, <4>1, Cast0
      <4> QED  BY <4>2, <4>3
    <3> QED  BY <2>0, <2>1, <3>1, <3>2 DEF Refers, Fits, Home, Past
  <2>2. CASE g # sheet
    <3>1. page[g].type = "wiki" /\ page[g].ref = Nobody
      BY <2>2 DEF Init, NoPage
    <3> QED  BY <2>0, <3>1 DEF Refers, Fits
  <2> QED  BY <2>1, <2>2
<1> QED  BY <1>3, <1>4 DEF References

LEMMA StepReferences ==
  EditsConsistent /\ Cast /\ Whole' /\ References /\ [Next]_vars => References'
<1>1. ASSUME References, UNCHANGED vars  PROVE References'
  <2>1. UNCHANGED <<character, proc, page, desk, renamed, halfway>>
    BY <1>1 DEF vars, people, paper
  <2>2. \A r \in Requests : /\ Op(r)' = Op(r) /\ Mine(r)' = Mine(r) /\ Was(r)' = Was(r)
                            /\ Now(r)' = Now(r) /\ (Synced(r)' <=> Synced(r))
                            /\ (Made(r)' <=> Made(r)) /\ (Edits(r)' <=> Edits(r))
                            /\ (Amid(r)' <=> Amid(r))
    BY <2>1 DEF Op, Mine, Was, Now, Synced, Made, NeedsCharacter, NewType, Edits, Amid
  <2>3. \A g : \A r \in Requests : Pends(r, g)' <=> Pends(r, g)
    BY <2>1, <2>2 DEF Pends
  <2>4. \A x : (Home(x)' = Home(x)) /\ (Past(x)' <=> Past(x))
    BY <2>1, <2>2 DEF Home, Past
  <2>5. \A g \in Pages : Refers(g)' /\ Fits(g)'
    BY <1>1, <2>1, <2>3, <2>4 DEF References, Refers, Fits
  <2>6. ASSUME NEW r \in Requests
        PROVE  (Amid(r)' => Follows(r)' /\ Employs(r)') /\ Maker(r)' /\ Waiting(r)'
    <3>1. (Amid(r) => Follows(r) /\ Employs(r)) /\ Maker(r) /\ Waiting(r)
      BY <1>1 DEF References
    <3>2. Follows(r) => Follows(r)'
      BY <2>1, <2>2, <2>4 DEF Follows
    <3>3. Employs(r) => Employs(r)'
      BY <2>1, <2>2 DEF Employs, Kindly
    <3>4. Maker(r) => Maker(r)'
      BY <2>1, <2>2 DEF Maker, Kindly
    <3>5. Waiting(r) => Waiting(r)'
      BY <2>1, <2>2, <2>3 DEF Waiting, Kindly
    <3> QED  BY <2>2, <3>1, <3>2, <3>3, <3>4, <3>5
  <2> QED  BY <2>5, <2>6 DEF References
<1>2. ASSUME EditsConsistent, Cast, Whole', References, Next  PROVE References'
  <2>1. PICK p \in Requests : Acts(p)
    BY <1>2, SomebodyActs
  <2>2. Creator(p)'
    BY <1>2, <2>1 DEF Whole
  <2>3. \A g \in Pages : Refers(g)' /\ Fits(g)'
    BY <1>2, <2>1, <2>2, RefersOn, FitsOn
  <2>4. \A q \in Requests : (Amid(q)' => Follows(q)' /\ Employs(q)') /\ Maker(q)' /\ Waiting(q)'
    BY <1>2, <2>1, FollowsOn, EmploysOn, MakerOn, WaitingOn
  <2> QED  BY <2>3, <2>4 DEF References
<1> QED  BY <1>1, <1>2

(***************************************************************************)
(* ensureAvailableSlug and syncKind: whatever edits, renames, conversions  *)
(* and deletions overlap, the character of a page has the slug of the page *)
(* unless it was renamed, and its kind unless an edit has yet to write the *)
(* page, was refused after the kind was changed, or wrote over another.    *)
(***************************************************************************)
THEOREM ReferencesExplained == Spec => []ReferenceExplained
<1>1. References => ReferenceExplained
  <2> SUFFICES ASSUME \A g \in Pages : Fits(g)  PROVE ReferenceExplained
    BY DEF References
  <2>1. \A g \in Pages : Pending(g) <=> \E r \in Requests : Pends(r, g)
    BY DEF Pending, Pends
  <2> QED  BY <2>1 DEF Fits, ReferenceExplained
<1> QED  BY <1>1, InitReferences, StepReferences, InitWhole, StepWhole, CastType, PTL DEF Spec

-----------------------------------------------------------------------------
(***************************************************************************)
(* The scenes.  The inductive invariant, Minuted, follows the writes of a  *)
(* request: whom it has moved and not told of yet (Wrote), that it is the  *)
(* only one to have moved him, where its record will say he is, and that   *)
(* this record will be the last about him (Known).                         *)
(***************************************************************************)
Post == [op: SceneOperation, pc: PCs, gone: MapPlaces, left: SUBSET (Users \cup Scenes),
         old: [Users -> MapPlaces], wrote: SUBSET Users, seq: Nat,
         answer: {"none", "ok", "refused", "noop", "crashed"}]

(* What a step of r leaves of the other requests. *)
Alone(r) == \A q \in Posts : q # r => req'[q] = req[q]

(* A step of r that comes to `place' with `left' and writes nothing else.  *)
Proceeds(r, place, left) ==
  /\ Alone(r) /\ req'[r].op = req[r].op /\ req'[r].pc = place /\ req'[r].left = left
  /\ req'[r].gone = req[r].gone /\ req'[r].old = req[r].old
  /\ req'[r].wrote = req[r].wrote /\ req'[r].seq = req[r].seq

Ends(r) ==
  /\ Alone(r) /\ req'[r].op = req[r].op /\ req'[r].pc = "done"
  /\ req'[r].left = {} /\ req'[r].wrote = {} /\ req'[r].seq = 0

LEMMA Rewritten ==
  ASSUME TypeOK, NEW r \in Posts, NEW rec \in Post, req' = [req EXCEPT ![r] = rec]
  PROVE  req' \in [Posts -> Post] /\ Alone(r) /\ req'[r] = rec
BY DEF TypeOK, Post, Alone

LEMMA GoToProceeds ==
  ASSUME TypeOK, NEW r \in Posts, NEW place \in PCs, NEW left \in SUBSET (Users \cup Scenes),
         GoTo(r, place, left)
  PROVE  req' \in [Posts -> Post] /\ Proceeds(r, place, left)
<1> DEFINE rec == [req[r] EXCEPT !.pc = place, !.left = left]
<1>1. req[r] \in Post BY DEF TypeOK, Post
<1>2. rec \in Post BY <1>1 DEF Post
<1>3. req' = [req EXCEPT ![r] = rec] BY DEF GoTo, TypeOK
<1>4. /\ rec.op = req[r].op /\ rec.pc = place /\ rec.left = left /\ rec.gone = req[r].gone
      /\ rec.old = req[r].old /\ rec.wrote = req[r].wrote /\ rec.seq = req[r].seq
  BY <1>1 DEF Post
<1> HIDE DEF rec
<1>5. req' \in [Posts -> Post] /\ Alone(r) /\ req'[r] = rec BY <1>2, <1>3, Rewritten
<1> QED BY <1>4, <1>5 DEF Proceeds

LEMMA FinishEnds ==
  ASSUME TypeOK, NEW r \in Posts,
         NEW answer \in {"none", "ok", "refused", "noop", "crashed"}, Finish(r, answer)
  PROVE  req' \in [Posts -> Post] /\ Ends(r)
<1> DEFINE rec == [req[r] EXCEPT !.pc = "done", !.answer = answer, !.left = {},
                                  !.wrote = {}, !.gone = Nowhere, !.seq = 0]
<1>1. Nowhere \in MapPlaces /\ "done" \in PCs BY DEF MapPlaces, PCs
<1>2. req[r] \in Post BY DEF TypeOK, Post
<1>3. rec \in Post BY <1>1, <1>2 DEF Post
<1>4. req' = [req EXCEPT ![r] = rec] BY DEF Finish, TypeOK
<1>5. /\ rec.op = req[r].op /\ rec.pc = "done" /\ rec.left = {}
      /\ rec.wrote = {} /\ rec.seq = 0
  BY <1>2 DEF Post
<1> HIDE DEF rec
<1>6. req' \in [Posts -> Post] /\ Alone(r) /\ req'[r] = rec BY <1>3, <1>4, Rewritten
<1> QED BY <1>5, <1>6 DEF Ends

LEMMA DenyEnds ==
  ASSUME TypeOK, NEW r \in Posts, Deny(r)
  PROVE  req' \in [Posts -> Post] /\ Ends(r) /\ KeepAll
BY FinishEnds DEF Deny

(* The operation of a request, once begun, does not change. *)
LEMMA OrderType ==
  ASSUME TypeOK, NEW r \in Posts
  PROVE  /\ Order(r) \in SceneOperation /\ Order(r).who \subseteq Users
         /\ Order(r).to \in [Users -> MapPlaces] /\ Order(r).scene \in Scenes
         /\ Order(r).kind \in SceneKinds /\ Targets(r) \subseteq Scenes
         /\ Order(r).by \in Users /\ Order(r).of \in Posts
<1>1. Order(r) \in SceneOperation BY DEF TypeOK, Order
<1>2. /\ Order(r).who \subseteq Users /\ Order(r).to \in [Users -> MapPlaces]
      /\ Order(r).scene \in Scenes /\ Order(r).kind \in SceneKinds
      /\ Order(r).by \in Users /\ Order(r).of \in Posts
  BY <1>1 DEF SceneOperation
<1> QED BY <1>1, <1>2 DEF Targets, MapPlaces

(* FindScene, FindToken and Recheck take one of those left. *)
LEMMA ThroughProceeds ==
  ASSUME TypeOK, NEW r \in Posts, NEW here \in PCs, NEW onward \in PCs,
         NEW x, NEW work \in SUBSET (Users \cup Scenes),
         Through(r, x, here, onward, work)
  PROVE  /\ req' \in [Posts -> Post]
         /\ \/ Proceeds(r, onward, work) /\ req[r].left = {x}
            \/ Proceeds(r, here, req[r].left \ {x})
<1>1. req[r].left \ {x} \in SUBSET (Users \cup Scenes) BY DEF TypeOK
<1>2. CASE req[r].left = {x} BY <1>2, GoToProceeds DEF Through
<1>3. CASE req[r].left # {x} BY <1>1, <1>3, GoToProceeds DEF Through
<1> QED BY <1>2, <1>3

-----------------------------------------------------------------------------
(* What the steps that only prepare have in common: all but the writes,    *)
(* the second look, the numbers and the records.                           *)
Preparing == {"start", "scenes", "members", "tokens", "remove", "delete", "cas",
              "affected", "unassign"}

Prepares(r) ==
  /\ req' \in [Posts -> Post] /\ Alone(r)
  /\ UNCHANGED <<scenes, members, at, last, log, stuck, disputed>>
  /\ active' \subseteq scenes
  /\ req[r].pc \in Preparing /\ req'[r].pc \in Preparing \cup {"write", "done"}
  /\ req'[r].wrote \in {{}, req[r].wrote}
  /\ req'[r].pc = "write" => req'[r].left = req'[r].op.who
  /\ req'[r].op.kind = "deactivate" => req'[r].left \subseteq Users
  /\ \/ req'[r].op = req[r].op
     \/ req'[r].op.kind = "unassign" =>
          \A u \in req'[r].op.who : req'[r].op.to[u] = Nowhere

Preparation(r) ==
  \/ Begin(r) \/ BeginUndo(r) \/ FindScene(r) \/ ReadMember(r)
  \/ FindToken(r) \/ RemoveToken(r) \/ FindToDelete(r) \/ (Delete(r) /\ ~Found(r))
  \/ DeactivateFind(r) \/ Deactivate(r) \/ Affected(r) \/ DeactivateEnd(r)
  \/ ActivateFind(r) \/ Activate(r) \/ SetActive(r)

LEMMA Prepared ==
  ASSUME TypeOK, NEW r \in Posts, Preparation(r)
  PROVE  Prepares(r)
<1> USE DEF Doing, Preparing, Prepares, MoveKinds
<1>0. /\ req[r].left \subseteq Users \cup Scenes /\ Preparing \cup {"write", "done"} \subseteq PCs
      /\ active \subseteq scenes /\ {} \subseteq Users \cup Scenes
  BY DEF TypeOK, PCs
<1>1. CASE Deny(r) /\ req[r].pc \in Preparing
  BY <1>0, <1>1, DenyEnds DEF Ends, KeepAll, data
<1>2. ASSUME NEW place \in Preparing \cup {"write"}, NEW left \in SUBSET (Users \cup Scenes),
             GoTo(r, place, left), KeepAll, req[r].pc \in Preparing,
             place = "write" => left = Order(r).who,
             Order(r).kind = "deactivate" => left \subseteq Users
      PROVE  Prepares(r)
  <2>1. req' \in [Posts -> Post] /\ Proceeds(r, place, left) BY <1>0, <1>2, GoToProceeds
  <2> QED BY <1>0, <1>2, <2>1 DEF Proceeds, KeepAll, data, Order
<1>3. CASE Begin(r)
  <2>1. Targets(r) \subseteq Users \cup Scenes /\ Order(r).who \subseteq Users \cup Scenes
    BY OrderType
  <2> QED BY <1>1, <1>2, <1>3, <2>1 DEF Begin
<1>4. CASE BeginUndo(r)
  <2> DEFINE q == Order(r).of
             kind == CASE Order(q).kind \in {"bulk", "restore"} -> "restore"
                       [] \E u \in Order(q).who : req[q].old[u] # Nowhere -> "assign"
                       [] OTHER -> "unassign"
             op == [req[r].op EXCEPT !.kind = kind, !.who = Order(q).who,
                                     !.to = req[q].old]
  <2>1. q \in Posts /\ req[q].old \in [Users -> MapPlaces] /\ Order(q).who \subseteq Users
    BY OrderType DEF TypeOK
  <2>2. kind \in SceneKinds BY DEF SceneKinds, MoveKinds
  <2>3. op \in SceneOperation
    <3> HIDE DEF kind, q
    <3>1. req[r].op \in SceneOperation BY DEF TypeOK
    <3> QED BY <2>1, <2>2, <3>1 DEF SceneOperation
  <2>4. req' = [req EXCEPT ![r].op = op]
    <3>1. /\ q \in Posts /\ DOMAIN req = Posts
          /\ req' = [req EXCEPT ![r].op.kind = kind, ![r].op.who = Order(q).who,
                                ![r].op.to = req[q].old]
      BY <1>4, <2>1 DEF BeginUndo, TypeOK
    <3>2. "op" \in DOMAIN req[r] /\ r \in DOMAIN req BY DEF TypeOK
    <3> HIDE DEF kind, q
    <3> QED BY <3>1, <3>2
  <2>5. req' \in [Posts -> Post] /\ Alone(r) /\ req'[r] = [req[r] EXCEPT !.op = op]
    <3> HIDE DEF op
    <3> QED BY <2>3, <2>4 DEF TypeOK, Post, Alone
  <2>6. op.kind = kind /\ op.who = Order(q).who /\ op.to = req[q].old
    <3> HIDE DEF kind, q
    <3>1. req[r].op \in SceneOperation BY DEF TypeOK
    <3> QED BY <3>1 DEF SceneOperation
  <2>7. op.kind = "unassign" => \A u \in op.who : op.to[u] = Nowhere
    BY <2>6
  <2>9. op.kind # "deactivate" BY <2>6
  <2>8. req'[r].op = op /\ req'[r].pc = req[r].pc /\ req'[r].wrote = req[r].wrote
    <3> HIDE DEF op
    <3> QED BY <2>5 DEF TypeOK
  <2> HIDE DEF op
  <2> QED BY <1>0, <1>4, <2>5, <2>7, <2>8, <2>9 DEF BeginUndo, KeepAll, data
<1>5. CASE FindScene(r)
  <2> PICK s \in req[r].left :
        IF s \in scenes THEN Through(r, s, "scenes", "members", Order(r).who) /\ KeepAll
        ELSE Deny(r)
    BY <1>5 DEF FindScene
  <2>1. Order(r).who \subseteq Users \cup Scenes BY OrderType
  <2>2. req[r].left \ {s} \subseteq Users \cup Scenes BY <1>0
  <2> QED BY <1>1, <1>2, <1>5, <2>1, <2>2 DEF FindScene, Through
<1>6. CASE ReadMember(r)
  <2> PICK u \in req[r].left :
        LET old == [req[r].old EXCEPT ![u] = at[u]]
            more == req[r].left \ {u}
        IN IF u \notin members THEN Deny(r)
           ELSE /\ KeepAll
                /\ req' = [req EXCEPT ![r].old = old,
                     ![r].pc = IF more # {} THEN "members"
                               ELSE IF Leavers(r, old) # {} THEN "tokens" ELSE "write",
                     ![r].left = IF more # {} THEN more
                                 ELSE IF Leavers(r, old) # {} THEN Leavers(r, old)
                                 ELSE Order(r).who]
    BY <1>6 DEF ReadMember
  <2>1. CASE u \notin members BY <1>1, <1>6, <2>1 DEF ReadMember
  <2>2. CASE u \in members
    <3> DEFINE old == [req[r].old EXCEPT ![u] = at[u]]
               more == req[r].left \ {u}
               place == IF more # {} THEN "members"
                        ELSE IF Leavers(r, old) # {} THEN "tokens" ELSE "write"
               left == IF more # {} THEN more
                       ELSE IF Leavers(r, old) # {} THEN Leavers(r, old) ELSE Order(r).who
    <3>1. old \in [Users -> MapPlaces] BY <2>2 DEF TypeOK
    <3>2. Order(r).who \subseteq Users /\ Leavers(r, old) \subseteq Users
      BY OrderType DEF Leavers
    <3>3. left \subseteq Users \cup Scenes BY <1>0, <3>2
    <3>4. place \in {"members", "tokens", "write"} /\ (place = "write" => left = Order(r).who)
      OBVIOUS
    <3>5. req' = [req EXCEPT ![r].old = old, ![r].pc = place, ![r].left = left] /\ KeepAll
      BY <2>2
    <3> HIDE DEF old, more, place, left
    <3> DEFINE rec == [req[r] EXCEPT !.old = old, !.pc = place, !.left = left]
    <3>a. req[r] \in Post /\ place \in PCs BY <1>0, <3>4 DEF TypeOK, Post, Preparing, PCs
    <3>b. rec \in Post BY <3>1, <3>3, <3>a DEF Post
    <3>c. req' = [req EXCEPT ![r] = rec] BY <3>5 DEF TypeOK
    <3>7. /\ rec.op = req[r].op /\ rec.pc = place /\ rec.left = left
          /\ rec.wrote = req[r].wrote
      BY <3>a DEF Post
    <3> HIDE DEF rec
    <3>6. req' \in [Posts -> Post] /\ Alone(r) /\ req'[r] = rec BY <3>b, <3>c, Rewritten
    <3> QED BY <1>0, <1>6, <3>4, <3>5, <3>6, <3>7 DEF ReadMember, KeepAll, data, Order
  <2> QED BY <2>1, <2>2
<1>7. CASE FindToken(r)
  <2> PICK u \in req[r].left :
        \/ Through(r, u, "tokens", "write", Order(r).who)
        \/ /\ req[r].old[u] \in scenes
           /\ req' = [req EXCEPT ![r].pc = "remove", ![r].left = @ \ {u},
                                 ![r].gone = req[r].old[u]]
    BY <1>7 DEF FindToken
  <2>1. Order(r).who \subseteq Users \cup Scenes /\ req[r].left \ {u} \subseteq Users \cup Scenes
    BY <1>0, OrderType
  <2>2. CASE Through(r, u, "tokens", "write", Order(r).who)
    BY <1>2, <1>7, <2>1, <2>2 DEF FindToken, Through
  <2>3. CASE /\ req[r].old[u] \in scenes
             /\ req' = [req EXCEPT ![r].pc = "remove", ![r].left = @ \ {u},
                                   ![r].gone = req[r].old[u]]
    <3>1. req[r].old[u] \in MapPlaces BY <2>3 DEF TypeOK, MapPlaces
    <3>2. /\ req' \in [Posts -> Post] /\ Alone(r) /\ req'[r].op = req[r].op
          /\ req'[r].pc = "remove" /\ req'[r].wrote = req[r].wrote
      BY <2>1, <2>3, <3>1 DEF TypeOK, Post, Alone, PCs
    <3> QED BY <1>0, <1>7, <3>2 DEF FindToken, KeepAll, data, Order
  <2> QED BY <2>2, <2>3
<1>8. CASE RemoveToken(r)
  <2>1. CASE Deny(r) BY <1>1, <1>8, <2>1 DEF RemoveToken
  <2>2. CASE ~Deny(r)
    <3> DEFINE place == IF req[r].left = {} THEN "write" ELSE "tokens"
               left == IF req[r].left = {} THEN Order(r).who ELSE req[r].left
    <3>1. /\ req' = [req EXCEPT ![r].gone = Nowhere, ![r].pc = place, ![r].left = left]
          /\ KeepAll
      BY <1>8, <2>2 DEF RemoveToken, TypeOK
    <3>2. left \subseteq Users \cup Scenes BY <1>0, OrderType
    <3>3. place \in {"tokens", "write"} /\ (place = "write" => left = Order(r).who)
      OBVIOUS
    <3>4. Nowhere \in MapPlaces BY DEF MapPlaces
    <3> HIDE DEF place, left
    <3> DEFINE rec == [req[r] EXCEPT !.gone = Nowhere, !.pc = place, !.left = left]
    <3>a. req[r] \in Post /\ place \in PCs BY <1>0, <3>3 DEF TypeOK, Post, PCs
    <3>b. rec \in Post BY <3>2, <3>4, <3>a DEF Post
    <3>c. req' = [req EXCEPT ![r] = rec] BY <3>1 DEF TypeOK
    <3>5. /\ rec.op = req[r].op /\ rec.pc = place /\ rec.left = left
          /\ rec.wrote = req[r].wrote
      BY <3>a DEF Post
    <3> HIDE DEF rec
    <3>6. req' \in [Posts -> Post] /\ Alone(r) /\ req'[r] = rec BY <3>b, <3>c, Rewritten
    <3> QED BY <1>0, <1>8, <3>1, <3>3, <3>5, <3>6 DEF RemoveToken, KeepAll, data, Order
  <2> QED BY <2>1, <2>2
<1>9. CASE FindToDelete(r) BY <1>0, <1>1, <1>2, <1>9 DEF FindToDelete
<1>10. CASE Delete(r) /\ ~Found(r) BY <1>1, <1>10 DEF Delete
<1>11. CASE DeactivateFind(r) BY <1>0, <1>1, <1>2, <1>11 DEF DeactivateFind
<1>12. CASE Deactivate(r)
  <2>1. CASE GoTo(r, "affected", {})
    <3>1. req' \in [Posts -> Post] /\ Proceeds(r, "affected", {}) BY <1>0, <2>1, GoToProceeds
    <3> QED BY <1>0, <1>12, <2>1, <3>1 DEF Deactivate, Proceeds, KeepAll, data
  <2>2. CASE Finish(r, "noop")
    <3>1. req' \in [Posts -> Post] /\ Ends(r) BY <2>2, FinishEnds
    <3> QED BY <1>0, <1>12, <2>2, <3>1 DEF Deactivate, Ends, KeepAll, data
  <2> QED BY <1>12, <2>1, <2>2 DEF Deactivate
<1>13. CASE Affected(r)
  <2>1. {u \in members : at[u] = Order(r).scene} \subseteq Users BY DEF TypeOK
  <2> QED BY <1>2, <1>13, <2>1 DEF Affected
<1>14. CASE DeactivateEnd(r)
  <2>1. req' \in [Posts -> Post] /\ Ends(r) BY <1>14, FinishEnds DEF DeactivateEnd
  <2> QED BY <1>0, <1>14, <2>1 DEF DeactivateEnd, Ends, KeepAll, data
<1>15. CASE ActivateFind(r) BY <1>0, <1>1, <1>2, <1>15 DEF ActivateFind
<1>16. CASE Activate(r) \/ SetActive(r)
  <2>1. req' \in [Posts -> Post] /\ Ends(r) BY <1>16, FinishEnds DEF Activate, SetActive
  <2> QED BY <1>0, <1>16, <2>1 DEF Activate, SetActive, Found, Ends, KeepAll, data
<1> QED BY <1>3, <1>4, <1>5, <1>6, <1>7, <1>8, <1>9, <1>10, <1>11, <1>12, <1>13, <1>14,
           <1>15, <1>16 DEF Preparation

-----------------------------------------------------------------------------
(* The inductive invariant.                                                *)
Unassigning == \A r \in Posts : Order(r).kind = "unassign" =>
                 \A u \in Order(r).who : Order(r).to[u] = Nowhere

Absent == \A u \in Users \ members : at[u] = Nowhere

(* What v says of u is true, or was when its scene was still there.        *)
Stands(u, v) == at[u] = v \/ (at[u] = Nowhere /\ v \notin scenes)

(* Where the record of r, still to come, will say that u is.               *)
Heads(r, u) == IF Order(r).kind = "deactivate" THEN Nowhere ELSE Order(r).to[u]

Numbered == {r \in Posts : req[r].pc \in {"append", "record"}}

(* Whom a request has written and not told of yet.                         *)
Wrote(r) ==
  /\ req[r].wrote # {} =>
       \/ Order(r).kind \in MoveKinds /\ req[r].pc \in {"check", "rollback", "allocate", "append"}
       \/ Doing(r, {"restore"}, "write") \/ Doing(r, {"deactivate"}, "number")
       \/ Doing(r, {"deactivate"}, "record")
  /\ Order(r).kind \in MoveKinds /\ req[r].pc \in {"check", "rollback", "allocate", "append"} =>
       req[r].wrote = Order(r).who
  /\ Doing(r, {"restore"}, "write") => req[r].wrote \cup req[r].left = Order(r).who
  /\ req[r].pc = "rollback" => Order(r).who \subseteq disputed /\ req[r].left \subseteq Order(r).who
  /\ req[r].pc = "clear" => Order(r).scene \notin scenes
  /\ req[r].pc = "check" => req[r].left \subseteq Scenes
  /\ Order(r).kind = "deactivate" => req[r].left \subseteq Users

Numbers ==
  /\ \A e, f \in log : e.seq = f.seq => e = f
  /\ \A r \in Numbered : req[r].seq \in 1..last /\ \A e \in log : e.seq # req[r].seq
  /\ \A r, q \in Numbered : req[r].seq = req[q].seq => r = q

(* One request at a time has moved u without saying so, and what it will   *)
(* say is true and will be the last word; when there is none, the last     *)
(* word is true already.                                                   *)
Known(u) ==
  /\ \A r, q \in Posts : u \in req[r].wrote \cap req[q].wrote => r = q
  /\ \A r \in Posts : u \in req[r].wrote =>
       /\ Stands(u, Heads(r, u))
       /\ r \in Numbered => \A e \in log : u \in e.who => e.seq < req[r].seq
  /\ (\A r \in Posts : u \notin req[r].wrote) =>
       \E e \in log : /\ u \in e.who /\ Stands(u, e.to[u])
                      /\ \A f \in log : u \in f.who => f.seq <= e.seq

Courses == \A r \in Posts : Wrote(r)
Knowns == \A u \in members \ disputed : Known(u)

Minuted ==
  TypeOK /\ Absent /\ Unassigning /\ DanglingExplained /\ Courses /\ Numbers /\ Knowns

-----------------------------------------------------------------------------
(* What a step of r need only show about r, and about those it touches.    *)
LEMMA DanglersOn ==
  ASSUME DanglingExplained, NEW r \in Posts, Alone(r),
         \A u \in Users : Dangling(u)' =>
           \/ u \in stuck' \/ WillSeeTo(r, u)'
           \/ /\ at'[u] = at[u] /\ at[u] \notin scenes /\ (u \in stuck => u \in stuck')
              /\ ~WillSeeTo(r, u)
  PROVE  DanglingExplained'
<1> SUFFICES ASSUME NEW u \in Users, Dangling(u)', u \notin stuck', ~WillSeeTo(r, u)'
             PROVE  \E q \in Posts : WillSeeTo(q, u)'
  BY DEF DanglingExplained
<1>1. /\ at'[u] = at[u] /\ at[u] \notin scenes /\ u \notin stuck /\ ~WillSeeTo(r, u)
  OBVIOUS
<1>2. Dangling(u) BY <1>1 DEF Dangling
<1>3. PICK q \in Posts : WillSeeTo(q, u) BY <1>1, <1>2 DEF DanglingExplained
<1>4. req'[q] = req[q] BY <1>1, <1>3 DEF Alone
<1>5. WillSeeTo(q, u)' BY <1>1, <1>3, <1>4 DEF WillSeeTo, Doing, Order
<1> QED BY <1>5

LEMMA CoursesOn ==
  ASSUME Courses, NEW r \in Posts, Alone(r), scenes' \subseteq scenes,
         disputed \subseteq disputed', Wrote(r)'
  PROVE  Courses'
<1> SUFFICES ASSUME NEW q \in Posts, q # r PROVE Wrote(q)' BY DEF Courses
<1>1. req'[q] = req[q] /\ Wrote(q) BY DEF Alone, Courses
<1> QED BY <1>1 DEF Wrote, Order, Doing

LEMMA UnassigningOn ==
  ASSUME Unassigning, NEW r \in Posts, Alone(r),
         \/ req'[r].op = req[r].op
         \/ req'[r].op.kind = "unassign" =>
              \A u \in req'[r].op.who : req'[r].op.to[u] = Nowhere
  PROVE  Unassigning'
BY DEF Unassigning, Alone, Order

LEMMA NumbersOn ==
  ASSUME Numbers, NEW r \in Posts, Alone(r), log' = log, last' = last,
         req'[r].pc \in {"append", "record"} =>
           req[r].pc \in {"append", "record"} /\ req'[r].seq = req[r].seq
  PROVE  Numbers'
<1>1. ASSUME NEW q \in Numbered'
      PROVE  q \in Numbered /\ req'[q].seq = req[q].seq
  BY <1>1 DEF Numbered, Alone
<1>2. \A q \in Numbered' : req'[q].seq \in 1..last' /\ \A e \in log' : e.seq # req'[q].seq
  BY <1>1 DEF Numbers
<1>3. \A q, p \in Numbered' : req'[q].seq = req'[p].seq => q = p BY <1>1 DEF Numbers
<1>4. \A e, f \in log' : e.seq = f.seq => e = f BY DEF Numbers
<1> QED BY <1>2, <1>3, <1>4 DEF Numbers

(* Somebody the step does not touch, or whom the deletion clears.          *)
LEMMA KnownOn ==
  ASSUME TypeOK, NEW r \in Posts, NEW u \in Users, Alone(r), Known(u), scenes' \subseteq scenes,
         at'[u] = at[u] \/ (at'[u] = Nowhere /\ at[u] \in Scenes \ scenes'),
         u \in req'[r].wrote <=> u \in req[r].wrote,
         u \in req[r].wrote => /\ req'[r].op = req[r].op
                               /\ req'[r].pc \in {"append", "record"} =>
                                    /\ req[r].pc \in {"append", "record"}
                                    /\ req'[r].seq = req[r].seq,
         log \subseteq log', \A e \in log' : u \in e.who => e \in log
  PROVE  Known(u)'
<1>1. \A q \in Posts : u \in req'[q].wrote <=> u \in req[q].wrote BY DEF Alone
<1>2. \A v : Stands(u, v) => Stands(u, v)'
  <2>1. Nowhere \notin Scenes BY SceneAssumption
  <2> QED BY <2>1 DEF Stands
<1>3. \A q, p \in Posts : u \in req'[q].wrote \cap req'[p].wrote => q = p
  BY <1>1 DEF Known
<1>4. ASSUME NEW q \in Posts, u \in req'[q].wrote
      PROVE  /\ Stands(u, Heads(q, u))'
             /\ q \in Numbered' => \A e \in log' : u \in e.who => e.seq < req'[q].seq
  <2>1. req'[q].op = req[q].op BY <1>1, <1>4 DEF Alone
  <2>2. Heads(q, u)' = Heads(q, u) BY <2>1 DEF Heads, Order
  <2>3. Stands(u, Heads(q, u)) BY <1>1, <1>4 DEF Known
  <2>4. Stands(u, Heads(q, u))' BY <1>2, <2>2, <2>3 DEF Stands
  <2>5. q \in Numbered' => q \in Numbered /\ req'[q].seq = req[q].seq
    BY <1>1, <1>4 DEF Numbered, Alone
  <2> QED BY <1>1, <1>4, <2>4, <2>5 DEF Known
<1>5. ASSUME \A q \in Posts : u \notin req'[q].wrote
      PROVE  \E e \in log' : /\ u \in e.who /\ Stands(u, e.to[u])'
                             /\ \A f \in log' : u \in f.who => f.seq <= e.seq
  BY <1>1, <1>2, <1>5 DEF Known
<1> QED BY <1>3, <1>4, <1>5 DEF Known, Stands

(* Somebody r has just moved, and nobody else.                             *)
LEMMA KnownMoved ==
  ASSUME NEW r \in Posts, NEW u \in Users, Alone(r),
         u \in req'[r].wrote, \A q \in Posts \ {r} : u \notin req[q].wrote,
         at'[u] = Heads(r, u)', req'[r].pc \notin {"append", "record"}
  PROVE  Known(u)'
BY DEF Known, Alone, Stands, Numbered

(* Somebody r has just told of.                                            *)
LEMMA KnownTold ==
  ASSUME TypeOK, NEW r \in Posts, NEW u \in Users, Alone(r), Known(u), r \in Numbered,
         u \in req[r].wrote, u \notin req'[r].wrote,
         NEW rec, log' = log \cup {rec}, rec.seq = req[r].seq, u \in rec.who,
         rec.to[u] = Heads(r, u), at' = at, scenes' = scenes
  PROVE  Known(u)'
<1>1. \A q \in Posts : u \notin req'[q].wrote BY DEF Known, Alone
<1>2. Stands(u, rec.to[u])' BY DEF Known, Stands
<1>3. req[r].seq \in Nat /\ \A e \in log : e.seq \in Nat BY DEF TypeOK
<1>4. \A f \in log' : u \in f.who => f.seq <= rec.seq BY <1>3 DEF Known
<1> QED BY <1>1, <1>2, <1>4 DEF Known, Stands

-----------------------------------------------------------------------------
LEMMA MinutedInit == SceneInit => Minuted
<1> SUFFICES ASSUME SceneInit PROVE Minuted OBVIOUS
<1>1. PICK b \in Beginnings :
        /\ members = b.members /\ at = b.at
        /\ log = {[seq |-> 0, who |-> Users, to |-> b.at]}
        /\ \E plan \in ScenePlans :
             req = [r \in Posts |->
                      [op |-> plan[r], pc |-> "start", left |-> {}, gone |-> Nowhere,
                       old |-> b.at, wrote |-> {}, seq |-> 0, answer |-> "none"]]
  BY DEF SceneInit
<1>2. PICK plan \in ScenePlans :
        req = [r \in Posts |->
                 [op |-> plan[r], pc |-> "start", left |-> {}, gone |-> Nowhere,
                  old |-> b.at, wrote |-> {}, seq |-> 0, answer |-> "none"]]
  BY <1>1
<1>3. /\ b.members \subseteq Users /\ b.at \in [Users -> MapPlaces]
      /\ \A u \in Users : u \notin b.members => b.at[u] = Nowhere
  BY SceneAssumption
<1>4. plan \in [Posts -> SceneOperation] BY SceneAssumption
<1>5. \A r \in Posts : plan[r].kind = "unassign" =>
        \A u \in plan[r].who : plan[r].to[u] = Nowhere
  BY SceneAssumption
<1>6. scenes = Scenes /\ active = Scenes /\ last = 0 /\ stuck = {} /\ disputed = {}
  BY DEF SceneInit
<1>7. TypeOK
  <2>1. req \in [Posts -> Post]
    BY <1>2, <1>3, <1>4 DEF Post, PCs, MapPlaces
  <2>2. \A e \in log : e.seq \in 0..last /\ e.who \subseteq Users
                         /\ e.to \in [Users -> MapPlaces]
    BY <1>1, <1>3, <1>6
  <2> QED BY <1>1, <1>3, <1>6, <2>1, <2>2 DEF TypeOK, Post
<1>8. \A r \in Posts : /\ Order(r) = plan[r] /\ req[r].pc = "start"
                         /\ req[r].wrote = {} /\ req[r].left = {}
  BY <1>2 DEF Order
<1>9. Absent BY <1>1, <1>3 DEF Absent
<1>10. Unassigning BY <1>5, <1>8 DEF Unassigning
<1>11. DanglingExplained BY <1>1, <1>3, <1>6 DEF DanglingExplained, Dangling, MapPlaces
<1>12. Courses BY <1>8 DEF Courses, Wrote, Doing
<1>13. Numbered = {} BY <1>8 DEF Numbered
<1>14. Numbers BY <1>1, <1>13 DEF Numbers
<1>15. Knowns
  <2> SUFFICES ASSUME NEW u \in Users PROVE Known(u) BY <1>1, <1>3 DEF Knowns
  <2> DEFINE e == [seq |-> 0, who |-> Users, to |-> b.at]
  <2>1. e \in log /\ u \in e.who /\ Stands(u, e.to[u]) /\ \A f \in log : f.seq <= e.seq
    BY <1>1 DEF Stands
  <2> QED BY <1>8, <2>1 DEF Known
<1> QED BY <1>7, <1>9, <1>10, <1>11, <1>12, <1>14, <1>15 DEF Minuted

LEMMA PreparesMinuted ==
  ASSUME Minuted, NEW r \in Posts, Prepares(r)
  PROVE  Minuted'
<1> USE DEF Minuted, Prepares
<1>1. req[r].wrote = {} /\ req'[r].wrote = {} BY DEF Courses, Wrote, Doing, Preparing
<1>2. TypeOK' BY DEF TypeOK, Post
<1>3. Absent' /\ Unassigning' BY UnassigningOn DEF Absent
<1>4. DanglingExplained'
  <2>1. \A u \in Users : ~WillSeeTo(r, u) BY DEF WillSeeTo, Doing, Preparing
  <2>2. \A u \in Users : Dangling(u)' <=> Dangling(u) BY DEF Dangling
  <2> QED BY <2>1, <2>2, DanglersOn DEF Dangling
<1>5. Wrote(r)' BY <1>1 DEF Wrote, Doing, Order, Preparing
<1>6. Courses' BY <1>5, CoursesOn
<1>7. Numbers' BY NumbersOn DEF Preparing
<1>8. Knowns'
  <2> SUFFICES ASSUME NEW u \in members \ disputed PROVE Known(u)' BY DEF Knowns
  <2>1. u \in Users /\ Known(u) BY DEF Knowns, TypeOK
  <2> QED BY <1>1, <2>1, KnownOn
<1> QED BY <1>2, <1>3, <1>4, <1>6, <1>7, <1>8

LEMMA DeleteMinuted ==
  ASSUME Minuted, NEW r \in Posts, Delete(r), Found(r)
  PROVE  Minuted'
<1> USE DEF Minuted
<1> DEFINE s == Order(r).scene
<1>1. /\ Doing(r, {"delete"}, "delete") /\ GoTo(r, "clear", {}) /\ s \in scenes
      /\ scenes' = scenes \ {s} /\ active' = active \ {s}
      /\ UNCHANGED <<members, at, last, log, stuck, disputed>>
  <2>1. ~(~Found(r) /\ Deny(r)) OBVIOUS
  <2> QED BY <2>1 DEF Delete, Found
<1>2. req' \in [Posts -> Post] /\ Proceeds(r, "clear", {}) BY <1>1, GoToProceeds DEF PCs
<1>3. req[r].wrote = {} /\ req'[r].wrote = {} BY <1>1, <1>2 DEF Courses, Wrote, Doing, Proceeds
<1>4. TypeOK' BY <1>1, <1>2 DEF TypeOK, Post
<1>5. Absent' /\ Unassigning' BY <1>1, <1>2, UnassigningOn DEF Absent, Proceeds
<1>6. DanglingExplained'
  <2> SUFFICES ASSUME NEW u \in Users, Dangling(u)'
               PROVE  \/ u \in stuck' \/ WillSeeTo(r, u)'
                      \/ /\ at'[u] = at[u] /\ at[u] \notin scenes /\ (u \in stuck => u \in stuck')
                         /\ ~WillSeeTo(r, u)
    BY <1>2, DanglersOn DEF Proceeds
  <2>1. ~WillSeeTo(r, u) BY <1>1 DEF WillSeeTo, Doing
  <2>2. CASE at[u] = s BY <1>1, <1>2, <2>2 DEF WillSeeTo, Doing, Order, Proceeds
  <2>3. CASE at[u] # s BY <1>1, <2>1, <2>3 DEF Dangling
  <2> QED BY <2>2, <2>3
<1>7. Wrote(r)' BY <1>1, <1>2, <1>3 DEF Wrote, Doing, Order, Proceeds, MoveKinds
<1>8. Courses' BY <1>1, <1>2, <1>7, CoursesOn DEF Proceeds
<1>9. Numbers' BY <1>1, <1>2, NumbersOn DEF Proceeds
<1>10. Knowns'
  <2> SUFFICES ASSUME NEW u \in members \ disputed PROVE Known(u)' BY <1>1 DEF Knowns
  <2>1. u \in Users /\ Known(u) BY DEF Knowns, TypeOK
  <2> QED BY <1>1, <1>2, <1>3, <2>1, KnownOn DEF Proceeds
<1> QED BY <1>4, <1>5, <1>6, <1>8, <1>9, <1>10

LEMMA ClearMinuted ==
  ASSUME Minuted, NEW r \in Posts, Clear(r)
  PROVE  Minuted'
<1> USE DEF Minuted
<1> DEFINE s == Order(r).scene
           there == {u \in members : at[u] = s}
<1>1. /\ Doing(r, {"delete"}, "clear") /\ Finish(r, "ok")
      /\ at' = [u \in Users |-> IF u \in there THEN Nowhere ELSE at[u]]
      /\ stuck' = stuck \ there
      /\ UNCHANGED <<scenes, active, members, last, log, disputed>>
  BY DEF Clear
<1>2. req' \in [Posts -> Post] /\ Ends(r) BY <1>1, FinishEnds
<1>3. req[r].wrote = {} BY <1>1 DEF Courses, Wrote, Doing, MoveKinds
<1>4. TypeOK' BY <1>1, <1>2 DEF TypeOK, Post, MapPlaces
<1>5. Absent' /\ Unassigning' BY <1>1, <1>2, UnassigningOn DEF Absent, Ends
<1>6. DanglingExplained'
  <2> SUFFICES ASSUME NEW u \in Users, Dangling(u)'
               PROVE  /\ at'[u] = at[u] /\ at[u] \notin scenes /\ (u \in stuck => u \in stuck')
                      /\ ~WillSeeTo(r, u)
    BY <1>2, DanglersOn DEF Ends
  <2>1. u \notin there BY <1>1 DEF Dangling
  <2>2. at'[u] = at[u] /\ at[u] # Nowhere /\ at[u] \notin scenes
    BY <1>1, <2>1 DEF Dangling
  <2>3. at[u] # s BY <2>1, <2>2 DEF Absent
  <2>4. ~WillSeeTo(r, u) BY <1>1, <2>3 DEF WillSeeTo, Doing
  <2> QED BY <1>1, <2>1, <2>2, <2>4
<1>7. Wrote(r)' BY <1>2 DEF Wrote, Doing, Order, Ends
<1>8. Courses' BY <1>1, <1>2, <1>7, CoursesOn DEF Ends
<1>9. Numbers' BY <1>1, <1>2, NumbersOn DEF Ends
<1>10. Knowns'
  <2> SUFFICES ASSUME NEW u \in members \ disputed PROVE Known(u)' BY <1>1 DEF Knowns
  <2>1. u \in Users /\ Known(u) BY DEF Knowns, TypeOK
  <2>2. s \in Scenes \ scenes BY <1>1, OrderType DEF Courses, Wrote, Doing
  <2>3. at'[u] = at[u] \/ (at'[u] = Nowhere /\ at[u] \in Scenes \ scenes')
    BY <1>1, <2>1, <2>2
  <2> QED BY <1>1, <1>2, <1>3, <2>1, <2>3, KnownOn DEF Ends
<1> QED BY <1>4, <1>5, <1>6, <1>8, <1>9, <1>10

LEMMA CrashMinuted ==
  ASSUME Minuted, NEW r \in Posts, Crash(r)
  PROVE  Minuted'
<1> USE DEF Minuted
<1>1. /\ Finish(r, "crashed")
      /\ stuck' = stuck \cup
           {u \in members : /\ Dangling(u)
                            /\ at[u] \in {Order(r).scene} \cup Targets(r)}
      /\ disputed' = disputed \cup req[r].wrote
      /\ UNCHANGED <<scenes, active, members, at, last, log>>
  BY DEF Crash, data
<1>2. req' \in [Posts -> Post] /\ Ends(r) BY <1>1, FinishEnds
<1>3. TypeOK'
  <2>1. req[r].wrote \subseteq Users BY DEF TypeOK
  <2> QED BY <1>1, <1>2, <2>1 DEF TypeOK, Post
<1>4. Absent' /\ Unassigning' BY <1>1, <1>2, UnassigningOn DEF Absent, Ends
<1>5. DanglingExplained'
  <2> SUFFICES ASSUME NEW u \in Users, Dangling(u)', u \notin stuck'
               PROVE  /\ at'[u] = at[u] /\ at[u] \notin scenes /\ (u \in stuck => u \in stuck')
                      /\ ~WillSeeTo(r, u)
    BY <1>2, DanglersOn DEF Ends
  <2>1. Dangling(u) BY <1>1 DEF Dangling
  <2>2. u \in members BY <2>1 DEF Dangling, Absent
  <2>3. WillSeeTo(r, u) => at[u] \in {Order(r).scene} \cup Targets(r)
    BY <2>1 DEF WillSeeTo, Targets, Dangling
  <2> QED BY <1>1, <2>1, <2>2, <2>3 DEF Dangling
<1>6. Wrote(r)' BY <1>2 DEF Wrote, Doing, Order, Ends
<1>7. Courses' BY <1>1, <1>2, <1>6, CoursesOn DEF Ends
<1>8. Numbers' BY <1>1, <1>2, NumbersOn DEF Ends
<1>9. Knowns'
  <2> SUFFICES ASSUME NEW u \in members \ disputed, u \notin req[r].wrote PROVE Known(u)'
    BY <1>1 DEF Knowns
  <2>1. u \in Users /\ Known(u) BY DEF Knowns, TypeOK
  <2> QED BY <1>1, <1>2, <2>1, KnownOn DEF Ends
<1> QED BY <1>3, <1>4, <1>5, <1>7, <1>8, <1>9

-----------------------------------------------------------------------------
(* Numbers and records.                                                    *)
LEMMA NumberMinuted ==
  ASSUME Minuted, NEW r \in Posts, Allocate(r) \/ TakeOffAllocate(r)
  PROVE  Minuted'
<1> USE DEF Minuted
<1>1. PICK place \in {"append", "record"} :
        /\ Number(r, place)
        /\ \/ Doing(r, MoveKinds, "allocate") /\ place = "append"
           \/ Doing(r, {"deactivate"}, "number") /\ place = "record"
  BY DEF Allocate, TakeOffAllocate
<1> DEFINE rec == [req[r] EXCEPT !.pc = place, !.seq = last + 1]
<1>2. req[r] \in Post /\ last \in Nat BY DEF TypeOK, Post
<1>a. last + 1 \in Nat /\ place \in PCs BY <1>1, <1>2 DEF PCs
<1>3. rec \in Post
  <2> HIDE <1>1
  <2> QED BY <1>2, <1>a DEF Post
<1>4. req' = [req EXCEPT ![r] = rec] BY <1>1 DEF Number, TypeOK
<1>5. /\ rec.op = req[r].op /\ rec.pc = place /\ rec.left = req[r].left
      /\ rec.wrote = req[r].wrote /\ rec.seq = last + 1
  BY <1>2 DEF Post
<1> HIDE DEF rec
<1>6. req' \in [Posts -> Post] /\ Alone(r) /\ req'[r] = rec BY <1>3, <1>4, Rewritten
<1>7. last' = last + 1 /\ UNCHANGED <<scenes, active, members, at, log, stuck, disputed>>
  BY <1>1 DEF Number
<1>8. TypeOK' BY <1>2, <1>6, <1>7 DEF TypeOK, Post
<1>9. Absent' /\ Unassigning' BY <1>5, <1>6, <1>7, UnassigningOn DEF Absent
<1>10. DanglingExplained'
  <2>1. \A u \in Users : ~WillSeeTo(r, u) BY <1>1 DEF WillSeeTo, Doing
  <2>2. \A u \in Users : Dangling(u)' <=> Dangling(u) BY <1>7 DEF Dangling
  <2> QED BY <1>6, <1>7, <2>1, <2>2, DanglersOn DEF Dangling
<1>11. Wrote(r)'
  <2>1. Wrote(r) BY DEF Courses
  <2> QED BY <1>1, <1>5, <1>6, <1>7, <2>1 DEF Wrote, Doing, Order, MoveKinds
<1>12. Courses' BY <1>6, <1>7, <1>11, CoursesOn
<1>13. Numbers'
  <2>1. \A q \in Posts : q # r => (q \in Numbered' <=> q \in Numbered) BY <1>6 DEF Numbered, Alone
  <2>2. \A q \in Numbered : req[q].seq \in 1..last /\ \A e \in log : e.seq # req[q].seq
    BY DEF Numbers
  <2>3. \A e \in log : e.seq \in 0..last BY DEF TypeOK
  <2>4. req'[r].seq = last + 1 BY <1>5, <1>6
  <2>5. \A q \in Numbered' : q # r => q \in Numbered /\ req'[q].seq = req[q].seq
    BY <1>6, <2>1 DEF Alone, Numbered
  <2>6. \A q \in Numbered' : req'[q].seq \in 1..last' /\ \A e \in log' : e.seq # req'[q].seq
    <3> SUFFICES ASSUME NEW q \in Numbered'
                 PROVE  req'[q].seq \in 1..last' /\ \A e \in log' : e.seq # req'[q].seq
      OBVIOUS
    <3>1. CASE q = r BY <1>2, <1>7, <2>3, <2>4, <3>1
    <3>2. CASE q # r BY <1>2, <1>7, <2>2, <2>5, <3>2
    <3> QED BY <3>1, <3>2
  <2>7. \A q, p \in Numbered' : req'[q].seq = req'[p].seq => q = p
    <3> SUFFICES ASSUME NEW q \in Numbered', NEW p \in Numbered', req'[q].seq = req'[p].seq
                 PROVE  q = p
      OBVIOUS
    <3>1. \A o \in Numbered' : o # r => req'[o].seq # last + 1 BY <1>2, <2>2, <2>5
    <3> QED BY <2>4, <2>5, <3>1 DEF Numbers
  <2>8. \A e, f \in log' : e.seq = f.seq => e = f BY <1>7 DEF Numbers
  <2> QED BY <2>6, <2>7, <2>8 DEF Numbers
<1>14. Knowns'
  <2> SUFFICES ASSUME NEW u \in members \ disputed PROVE Known(u)' BY <1>7 DEF Knowns
  <2>1. u \in Users /\ Known(u) BY DEF Knowns, TypeOK
  <2>2. CASE u \notin req[r].wrote BY <1>5, <1>6, <1>7, <2>1, <2>2, KnownOn
  <2>3. CASE u \in req[r].wrote
    <3>1. \A q, p \in Posts : u \in req'[q].wrote \cap req'[p].wrote => q = p
      BY <1>5, <1>6, <2>1 DEF Known, Alone
    <3>2. \A q \in Posts : u \in req'[q].wrote => q = r
      BY <1>5, <1>6, <2>1, <2>3 DEF Known, Alone
    <3>3. Stands(u, Heads(r, u)) BY <2>1, <2>3 DEF Known
    <3>4. Stands(u, Heads(r, u))' BY <1>5, <1>6, <1>7, <3>3 DEF Stands, Heads, Order
    <3>5. \A e \in log' : e.seq < req'[r].seq
      <4>1. \A e \in log : e.seq \in 0..last BY DEF TypeOK
      <4> QED BY <1>2, <1>5, <1>6, <1>7, <4>1
    <3>6. u \in req'[r].wrote BY <1>5, <1>6, <2>3
    <3> QED BY <3>1, <3>2, <3>4, <3>5, <3>6 DEF Known
  <2> QED BY <2>2, <2>3
<1> QED BY <1>8, <1>9, <1>10, <1>12, <1>13, <1>14

LEMMA RecordMinuted ==
  ASSUME Minuted, NEW r \in Posts, AppendRecord(r) \/ TakeOffAppend(r)
  PROVE  Minuted'
<1> USE DEF Minuted
<1>1. PICK to \in [Users -> MapPlaces] :
        /\ Record(r, req[r].wrote, to) /\ r \in Numbered
        /\ \A u \in req[r].wrote : to[u] = Heads(r, u)
        /\ req' \in [Posts -> Post] /\ Alone(r) /\ req'[r].op = req[r].op
        /\ req'[r].wrote = {} /\ req'[r].pc \in {"done", "unassign"}
        /\ req'[r].left \in {{}, req[r].left}
  <2>1. CASE AppendRecord(r)
    <3>1. Doing(r, MoveKinds, "append") /\ Finish(r, "ok") /\ Record(r, Order(r).who, Order(r).to)
      BY <2>1 DEF AppendRecord
    <3>2. req' \in [Posts -> Post] /\ Ends(r) BY <3>1, FinishEnds
    <3>3. req[r].wrote = Order(r).who BY <3>1 DEF Courses, Wrote, Doing
    <3>4. Order(r).to \in [Users -> MapPlaces] BY OrderType
    <3>5. \A u \in req[r].wrote : Order(r).to[u] = Heads(r, u)
      BY <3>1 DEF Heads, Doing, MoveKinds
    <3> QED BY <3>1, <3>2, <3>3, <3>4, <3>5 DEF Ends, Numbered, Doing
  <2>2. CASE TakeOffAppend(r)
    <3>1. /\ Doing(r, {"deactivate"}, "record") /\ Record(r, req[r].wrote, Cleared)
          /\ req' = [req EXCEPT ![r].pc = "unassign", ![r].wrote = {}]
      BY <2>2 DEF TakeOffAppend
    <3> DEFINE rec == [req[r] EXCEPT !.pc = "unassign", !.wrote = {}]
    <3>2. req[r] \in Post BY DEF TypeOK, Post
    <3>3. rec \in Post BY <3>2 DEF Post, PCs
    <3>4. req' = [req EXCEPT ![r] = rec] BY <3>1 DEF TypeOK
    <3>5. /\ rec.op = req[r].op /\ rec.pc = "unassign" /\ rec.wrote = {}
          /\ rec.left = req[r].left
      BY <3>2 DEF Post
    <3> HIDE DEF rec
    <3>6. req' \in [Posts -> Post] /\ Alone(r) /\ req'[r] = rec BY <3>3, <3>4, Rewritten
    <3>7. Cleared \in [Users -> MapPlaces] BY DEF Cleared, MapPlaces
    <3>8. \A u \in req[r].wrote : Cleared[u] = Heads(r, u)
      BY <3>1 DEF Heads, Doing, Cleared, TypeOK
    <3> QED BY <3>1, <3>5, <3>6, <3>7, <3>8 DEF Numbered, Doing
  <2> QED BY <2>1, <2>2
<1> DEFINE rec == [seq |-> req[r].seq, who |-> req[r].wrote, to |-> to]
<1>2. /\ log' = log \cup {rec}
      /\ UNCHANGED <<scenes, active, members, at, last, stuck, disputed>>
  BY <1>1 DEF Record
<1>3. req[r].seq \in 1..last /\ \A e \in log : e.seq # req[r].seq BY <1>1 DEF Numbers
<1>4. req[r].wrote \subseteq Users /\ last \in Nat BY DEF TypeOK
<1>5. TypeOK'
  <2>1. rec.seq \in 0..last /\ rec.who \subseteq Users /\ rec.to \in [Users -> MapPlaces]
    BY <1>1, <1>3, <1>4
  <2> QED BY <1>1, <1>2, <2>1 DEF TypeOK, Post
<1>6. Absent' /\ Unassigning' BY <1>1, <1>2, UnassigningOn DEF Absent
<1>7. DanglingExplained'
  <2>1. \A u \in Users : ~WillSeeTo(r, u) BY <1>1 DEF WillSeeTo, Doing, Numbered
  <2>2. \A u \in Users : Dangling(u)' <=> Dangling(u) BY <1>2 DEF Dangling
  <2> QED BY <1>1, <1>2, <2>1, <2>2, DanglersOn DEF Dangling
<1>8. Wrote(r)'
  <2>1. Wrote(r) BY DEF Courses
  <2> QED BY <1>1, <1>2, <2>1 DEF Wrote, Doing, Order
<1>9. Courses' BY <1>1, <1>2, <1>8, CoursesOn
<1>10. Numbers'
  <2>1. \A q \in Numbered' : q \in Numbered /\ q # r /\ req'[q].seq = req[q].seq
    BY <1>1 DEF Numbered, Alone
  <2>2. \A q \in Numbered' : req'[q].seq \in 1..last' /\ \A e \in log' : e.seq # req'[q].seq
    BY <1>1, <1>2, <2>1 DEF Numbers
  <2>3. \A q, p \in Numbered' : req'[q].seq = req'[p].seq => q = p BY <2>1 DEF Numbers
  <2>4. \A e, f \in log' : e.seq = f.seq => e = f BY <1>2, <1>3 DEF Numbers
  <2> HIDE DEF rec
  <2> QED BY <2>2, <2>3, <2>4 DEF Numbers
<1>11. Knowns'
  <2> SUFFICES ASSUME NEW u \in members \ disputed PROVE Known(u)' BY <1>2 DEF Knowns
  <2>1. u \in Users /\ Known(u) BY DEF Knowns, TypeOK
  <2>2. rec.seq = req[r].seq /\ rec.who = req[r].wrote /\ rec.to = to OBVIOUS
  <2> HIDE DEF rec
  <2>3. CASE u \notin req[r].wrote BY <1>1, <1>2, <2>1, <2>2, <2>3, KnownOn
  <2>4. CASE u \in req[r].wrote BY <1>1, <1>2, <2>1, <2>2, <2>4, KnownTold
  <2> QED BY <2>3, <2>4
<1> QED BY <1>5, <1>6, <1>7, <1>9, <1>10, <1>11

-----------------------------------------------------------------------------
(* The writes of currentSceneId.                                           *)
LEMMA PutMoves ==
  ASSUME TypeOK, NEW r \in Posts, NEW who \in SUBSET Users, NEW to \in [Users -> MapPlaces],
         NEW blamed \in SUBSET Users, Put(r, who, to, blamed)
  PROVE  /\ at' \in [Users -> MapPlaces] /\ stuck' \subseteq Users
         /\ disputed \subseteq disputed' /\ disputed' \subseteq Users
         /\ \A u \in Users : at'[u] = IF u \in who \cap members THEN to[u] ELSE at[u]
         /\ stuck' = (stuck \ (who \cap members)) \cup blamed
         /\ \A u \in (who \cap members) \ disputed' :
              \A q \in Posts \ {r} : u \notin req[q].wrote
         /\ UNCHANGED <<scenes, active, members, last, log>>
BY DEF Put, TypeOK

(* What the first write of a member by a request has to keep: he stands    *)
(* where the request sends him, and it will look again.                    *)
LEMMA MovesMinuted ==
  ASSUME Minuted, NEW r \in Posts, NEW who \in SUBSET Users,
         NEW to \in [Users -> MapPlaces], Put(r, who, to, {}),
         req' \in [Posts -> Post], Alone(r), req'[r].op = req[r].op,
         req'[r].wrote = req[r].wrote \cup who,
         req'[r].pc \in {"check", "allocate", "write", "number"},
         \A u \in who : to[u] = Heads(r, u),
         \A u \in who : to[u] # Nowhere /\ at'[u] = to[u] => WillSeeTo(r, u)',
         \A u \in Users \ who : WillSeeTo(r, u) /\ at[u] # Nowhere /\ at'[u] = at[u] =>
           WillSeeTo(r, u)',
         Wrote(r)'
  PROVE  Minuted'
<1> USE DEF Minuted
<1>a. {} \in SUBSET Users /\ TypeOK /\ Put(r, who, to, {}) OBVIOUS
<1>1. /\ at' \in [Users -> MapPlaces] /\ stuck' \subseteq Users
      /\ disputed \subseteq disputed' /\ disputed' \subseteq Users
      /\ \A u \in Users : at'[u] = IF u \in who \cap members THEN to[u] ELSE at[u]
      /\ stuck' = (stuck \ (who \cap members)) \cup {}
      /\ \A u \in (who \cap members) \ disputed' :
           \A q \in Posts \ {r} : u \notin req[q].wrote
      /\ UNCHANGED <<scenes, active, members, last, log>>
  BY <1>a, PutMoves
<1>2. TypeOK' BY <1>1 DEF TypeOK, Post
<1>3. Absent' /\ Unassigning' BY <1>1, UnassigningOn DEF Absent, TypeOK
<1>4. DanglingExplained'
  <2> SUFFICES ASSUME NEW u \in Users, Dangling(u)', ~WillSeeTo(r, u)'
               PROVE  /\ at'[u] = at[u] /\ at[u] \notin scenes /\ (u \in stuck => u \in stuck')
                      /\ ~WillSeeTo(r, u)
    BY DanglersOn
  <2>1. at'[u] # Nowhere /\ at'[u] \notin scenes BY <1>1 DEF Dangling
  <2>2. u \in members BY <1>1, <2>1 DEF Absent
  <2>3. u \notin who BY <1>1, <2>1, <2>2
  <2> QED BY <1>1, <2>1, <2>3
<1>5. Courses' BY <1>1, CoursesOn
<1>6. Numbers' BY <1>1, NumbersOn
<1>7. Knowns'
  <2> SUFFICES ASSUME NEW u \in members \ disputed' PROVE Known(u)' BY <1>1 DEF Knowns
  <2>1. u \in Users /\ Known(u) BY <1>1 DEF Knowns, TypeOK
  <2>2. CASE u \in who
    <3>1. at'[u] = Heads(r, u)' BY <1>1, <2>1, <2>2 DEF Heads, Order
    <3> QED BY <1>1, <2>1, <2>2, <3>1, KnownMoved
  <2>3. CASE u \notin who BY <1>1, <2>1, <2>3, KnownOn
  <2> QED BY <2>2, <2>3
<1> QED BY <1>2, <1>3, <1>4, <1>5, <1>6, <1>7

LEMMA WriteForDoes ==
  ASSUME TypeOK, NEW r \in Posts, NEW who \in SUBSET Users, NEW place \in PCs,
         NEW left \in SUBSET (Users \cup Scenes), WriteFor(r, who, place, left)
  PROVE  /\ Put(r, who, Order(r).to, {})
         /\ req' \in [Posts -> Post] /\ Alone(r) /\ req'[r].op = req[r].op
         /\ req'[r].pc = place /\ req'[r].left = left /\ req'[r].wrote = req[r].wrote \cup who
<1> DEFINE rec == [req[r] EXCEPT !.pc = place, !.left = left, !.wrote = @ \cup who]
<1>1. req[r] \in Post BY DEF TypeOK, Post
<1>2. rec \in Post BY <1>1 DEF Post
<1>3. req' = [req EXCEPT ![r] = rec] BY DEF WriteFor, TypeOK
<1>4. /\ rec.op = req[r].op /\ rec.pc = place /\ rec.left = left
      /\ rec.wrote = req[r].wrote \cup who
  BY <1>1 DEF Post
<1> HIDE DEF rec
<1>5. req' \in [Posts -> Post] /\ Alone(r) /\ req'[r] = rec BY <1>2, <1>3, Rewritten
<1> QED BY <1>4, <1>5 DEF WriteFor

LEMMA WriteMinuted ==
  ASSUME Minuted, NEW r \in Posts,
         AssignWrite(r) \/ UnassignWrite(r) \/ BulkWrite(r) \/ RestoreWrite(r)
  PROVE  Minuted'
<1> USE DEF Minuted
<1>1. PICK who \in SUBSET Users, place \in {"check", "allocate", "write"},
           left \in SUBSET (Users \cup Scenes) :
        /\ WriteFor(r, who, place, left) /\ Doing(r, MoveKinds, "write")
        /\ who \subseteq Order(r).who
        /\ place \in {"check", "allocate"} => req[r].wrote \cup who = Order(r).who
        /\ place = "write" => /\ Doing(r, {"restore"}, "write")
                              /\ left = req[r].left \ who
        /\ place = "check" => left = Targets(r)
        /\ place = "allocate" => Targets(r) = {} \/ Order(r).kind = "unassign"
  <2>0. /\ Order(r).who \in SUBSET Users /\ Targets(r) \in SUBSET (Users \cup Scenes)
        /\ {} \in SUBSET (Users \cup Scenes)
    BY OrderType
  <2>1. Doing(r, {"assign", "unassign", "bulk"}, "write") => req[r].wrote = {}
    BY DEF Courses, Wrote, Doing
  <2>2. CASE AssignWrite(r) \/ BulkWrite(r)
    <3>1. WriteFor(r, Order(r).who, "check", Targets(r)) /\ Doing(r, {"assign", "bulk"}, "write")
      BY <2>2 DEF AssignWrite, BulkWrite, Doing
    <3> QED BY <2>0, <2>1, <3>1 DEF Doing, MoveKinds
  <2>3. CASE UnassignWrite(r)
    <3>1. WriteFor(r, Order(r).who, "allocate", {}) /\ Doing(r, {"unassign"}, "write")
      BY <2>3 DEF UnassignWrite
    <3> QED BY <2>0, <2>1, <3>1 DEF Doing, MoveKinds
  <2>4. CASE RestoreWrite(r)
    <3>1. PICK u \in req[r].left :
            IF req[r].left # {u} THEN WriteFor(r, {u}, "write", req[r].left \ {u})
            ELSE WriteFor(r, {u}, IF Targets(r) = {} THEN "allocate" ELSE "check", Targets(r))
      BY <2>4 DEF RestoreWrite
    <3>2. Doing(r, {"restore"}, "write") /\ Doing(r, MoveKinds, "write")
      BY <2>4 DEF RestoreWrite, Doing, MoveKinds
    <3>3. req[r].wrote \cup req[r].left = Order(r).who BY <3>2 DEF Courses, Wrote
    <3>4. {u} \in SUBSET Users /\ {u} \subseteq Order(r).who BY <2>0, <3>3
    <3>5. req[r].left \ {u} \in SUBSET (Users \cup Scenes) BY <2>0, <3>3
    <3>6. CASE req[r].left # {u} BY <3>1, <3>2, <3>4, <3>5, <3>6
    <3>7. CASE req[r].left = {u}
      <4>1. WriteFor(r, {u}, IF Targets(r) = {} THEN "allocate" ELSE "check", Targets(r))
        BY <3>1, <3>7
      <4>2. req[r].wrote \cup {u} = Order(r).who BY <3>3, <3>7
      <4>3. CASE Targets(r) = {} BY <2>0, <3>2, <3>4, <4>1, <4>2, <4>3
      <4>4. CASE Targets(r) # {} BY <2>0, <3>2, <3>4, <4>1, <4>2, <4>4
      <4> QED BY <4>3, <4>4
    <3> QED BY <3>6, <3>7
  <2> QED BY <2>2, <2>3, <2>4
<1>2. place \in PCs BY DEF PCs
<1>3. /\ Put(r, who, Order(r).to, {})
      /\ req' \in [Posts -> Post] /\ Alone(r) /\ req'[r].op = req[r].op
      /\ req'[r].pc = place /\ req'[r].left = left /\ req'[r].wrote = req[r].wrote \cup who
  BY <1>1, <1>2, WriteForDoes
<1>4. Order(r).to \in [Users -> MapPlaces] BY OrderType
<1>5. \A u \in who : Order(r).to[u] = Heads(r, u) BY <1>1 DEF Heads, Doing, MoveKinds
<1>6. Order(r).kind = "unassign" => \A u \in Order(r).who : Order(r).to[u] = Nowhere
  BY DEF Unassigning
<1>7. \A u \in Order(r).who : Order(r).to[u] # Nowhere => Order(r).to[u] \in Targets(r)
  BY DEF Targets
<1>8. Order(r).kind \in MoveKinds /\ req[r].pc = "write" BY <1>1 DEF Doing
<1>9. ASSUME NEW u \in who, Order(r).to[u] # Nowhere, at'[u] = Order(r).to[u]
      PROVE  WillSeeTo(r, u)'
  BY <1>1, <1>3, <1>6, <1>7, <1>8, <1>9 DEF WillSeeTo, Doing, Order, MoveKinds
<1>10. ASSUME NEW u \in Users \ who, WillSeeTo(r, u), at[u] # Nowhere, at'[u] = at[u]
       PROVE  WillSeeTo(r, u)'
  <2>1. u \in Order(r).who /\ Order(r).to[u] = at[u] BY <1>8, <1>10 DEF WillSeeTo, Doing
  <2>2. at[u] \in Targets(r) /\ Order(r).kind # "unassign" BY <1>6, <1>7, <1>10, <2>1
  <2> QED BY <1>1, <1>3, <1>8, <1>10, <2>1, <2>2 DEF WillSeeTo, Doing, Order, MoveKinds
<1>11. Wrote(r)'
  <2>1. Doing(r, {"restore"}, "write") => req[r].wrote \cup req[r].left = Order(r).who
    BY DEF Courses, Wrote
  <2>2. Order(r)' = Order(r) BY <1>3 DEF Order
  <2>3. CASE place = "write"
    <3>1. left = req[r].left \ who /\ Doing(r, {"restore"}, "write") BY <1>1, <2>3
    <3>2. req'[r].wrote \cup req'[r].left = Order(r).who BY <1>1, <1>3, <2>1, <3>1
    <3>3. Doing(r, {"restore"}, "write")' BY <1>3, <2>2, <2>3, <3>1 DEF Doing
    <3> QED BY <1>3, <1>8, <2>2, <2>3, <3>2, <3>3 DEF Wrote, MoveKinds
  <2>4. CASE place # "write"
    <3>1. place \in {"check", "allocate"} /\ req'[r].wrote = Order(r).who BY <1>1, <1>3, <2>4
    <3>2. place = "check" => req'[r].left \subseteq Scenes BY <1>1, <1>3, OrderType
    <3> QED BY <1>3, <1>8, <2>2, <3>1, <3>2 DEF Wrote, Doing, MoveKinds
  <2> QED BY <2>3, <2>4
<1> QED BY <1>3, <1>4, <1>5, <1>9, <1>10, <1>11, MovesMinuted

LEMMA TakeOffMinuted ==
  ASSUME Minuted, NEW r \in Posts, TakeOff(r)
  PROVE  Minuted'
<1> USE DEF Minuted
<1>1. Doing(r, {"deactivate"}, "unassign") BY DEF TakeOff
<1>2. PICK x \in req[r].left :
        /\ Put(r, {x}, Cleared, {})
        /\ req' = [req EXCEPT ![r].pc = "number", ![r].left = @ \ {x}, ![r].wrote = {x}]
  BY DEF TakeOff
<1> DEFINE rec == [req[r] EXCEPT !.pc = "number", !.left = @ \ {x}, !.wrote = {x}]
<1>3. req[r] \in Post /\ Order(r).kind = "deactivate" /\ Wrote(r)
  BY <1>1 DEF TypeOK, Post, Doing, Courses
<1>4. x \in Users /\ req[r].wrote = {} BY <1>1, <1>3 DEF Wrote, Doing, MoveKinds
<1>5. {x} \in SUBSET Users /\ Cleared \in [Users -> MapPlaces]
  BY <1>4 DEF Cleared, MapPlaces
<1>6. rec \in Post BY <1>3, <1>5 DEF Post, PCs
<1>7. req' = [req EXCEPT ![r] = rec] BY <1>2 DEF TypeOK
<1>8. /\ rec.op = req[r].op /\ rec.pc = "number" /\ rec.left = req[r].left \ {x}
      /\ rec.wrote = {x}
  BY <1>3 DEF Post
<1> HIDE DEF rec
<1>9. req' \in [Posts -> Post] /\ Alone(r) /\ req'[r] = rec BY <1>6, <1>7, Rewritten
<1>10. req'[r].wrote = req[r].wrote \cup {x} BY <1>4, <1>8, <1>9
<1>11. \A u \in {x} : Cleared[u] = Nowhere /\ Cleared[u] = Heads(r, u)
  BY <1>3, <1>4 DEF Cleared, Heads
<1>12. \A u \in Users : ~WillSeeTo(r, u) BY <1>1 DEF WillSeeTo, Doing
<1>13. Wrote(r)' BY <1>3, <1>8, <1>9 DEF Wrote, Doing, Order, MoveKinds
<1> QED BY <1>2, <1>5, <1>8, <1>9, <1>10, <1>11, <1>12, <1>13, MovesMinuted

LEMMA BackMinuted ==
  ASSUME Minuted, NEW r \in Posts, NEW who \in SUBSET Users, who \subseteq Order(r).who,
         NEW to \in [Users -> MapPlaces], NEW blamed \in SUBSET Users,
         Put(r, who, to, blamed), Doing(r, MoveKinds, "rollback"),
         req' \in [Posts -> Post],
         \/ Ends(r)
         \/ Proceeds(r, "rollback", req[r].left \ who),
         \A u \in who \cap members : to[u] \notin scenes \cup {Nowhere} => u \in blamed,
         \A u \in Users : WillSeeTo(r, u) /\ at'[u] = at[u] => u \in who \/ WillSeeTo(r, u)'
  PROVE  Minuted'
<1> USE DEF Minuted
<1>a. TypeOK /\ Put(r, who, to, blamed) OBVIOUS
<1>1. /\ at' \in [Users -> MapPlaces] /\ stuck' \subseteq Users
      /\ disputed \subseteq disputed' /\ disputed' \subseteq Users
      /\ \A u \in Users : at'[u] = IF u \in who \cap members THEN to[u] ELSE at[u]
      /\ stuck' = (stuck \ (who \cap members)) \cup blamed
      /\ UNCHANGED <<scenes, active, members, last, log>>
  <2> HIDE DEF Minuted
  <2> QED BY <1>a DEF Put, TypeOK
<1>2. Alone(r) /\ req'[r].op = req[r].op BY DEF Ends, Proceeds
<1>3. /\ Order(r).who \subseteq disputed /\ req[r].wrote = Order(r).who
      /\ Order(r).kind \in MoveKinds /\ req[r].left \subseteq Order(r).who
  BY DEF Courses, Wrote, Doing
<1>4. TypeOK' BY <1>1 DEF TypeOK, Post
<1>5. Absent' /\ Unassigning' BY <1>1, <1>2, UnassigningOn DEF Absent, TypeOK
<1>6. DanglingExplained'
  <2> SUFFICES ASSUME NEW u \in Users, Dangling(u)', u \notin stuck', ~WillSeeTo(r, u)'
               PROVE  /\ at'[u] = at[u] /\ at[u] \notin scenes /\ (u \in stuck => u \in stuck')
                      /\ ~WillSeeTo(r, u)
    BY <1>2, DanglersOn
  <2>1. at'[u] # Nowhere /\ at'[u] \notin scenes BY <1>1 DEF Dangling
  <2>2. u \in members BY <1>1, <2>1 DEF Absent
  <2>3. u \notin who BY <1>1, <2>1, <2>2
  <2> QED BY <1>1, <2>1, <2>3
<1>7. Wrote(r)'
  <2>1. req'[r].pc = "rollback" \/ (req'[r].pc = "done" /\ req'[r].wrote = {})
    BY DEF Ends, Proceeds
  <2>2. req'[r].pc = "rollback" =>
          req'[r].wrote = Order(r).who /\ req'[r].left \subseteq Order(r).who
    BY <1>3 DEF Ends, Proceeds
  <2> QED BY <1>1, <1>2, <1>3, <2>1, <2>2 DEF Wrote, Doing, Order, MoveKinds
<1>8. Courses' BY <1>1, <1>2, <1>7, CoursesOn
<1>9. Numbers' BY <1>1, <1>2, NumbersOn DEF Ends, Proceeds
<1>10. Knowns'
  <2> SUFFICES ASSUME NEW u \in members \ disputed PROVE Known(u)' BY <1>1 DEF Knowns
  <2>1. u \in Users /\ Known(u) /\ u \notin Order(r).who BY <1>3 DEF Knowns, TypeOK
  <2>2. u \notin req[r].wrote /\ u \notin req'[r].wrote BY <1>3, <2>1 DEF Ends, Proceeds
  <2>3. at'[u] = at[u] BY <1>1, <2>1
  <2> QED BY <1>1, <1>2, <2>1, <2>2, <2>3, KnownOn
<1> QED BY <1>4, <1>5, <1>6, <1>8, <1>9, <1>10

LEMMA RollbackMinuted ==
  ASSUME Minuted, NEW r \in Posts, AssignBack(r) \/ BulkBack(r) \/ RestoreBack(r)
  PROVE  Minuted'
<1> USE DEF Minuted
<1>1. /\ Doing(r, MoveKinds, "rollback") /\ Order(r).who \in SUBSET Users
      /\ req[r].old \in [Users -> MapPlaces] /\ Cleared \in [Users -> MapPlaces]
      /\ {} \in SUBSET Users /\ \A u \in Users : Cleared[u] = Nowhere
      /\ \A u \in Users : WillSeeTo(r, u) => u \in Order(r).who /\ u \in req[r].left
  BY OrderType DEF AssignBack, BulkBack, RestoreBack, Doing, MoveKinds, TypeOK, Cleared,
                   MapPlaces, WillSeeTo
<1>2. CASE AssignBack(r)
  <2> DEFINE blamed == {u \in Order(r).who \cap members :
                          req[r].old[u] \notin scenes \cup {Nowhere}}
  <2>1. Put(r, Order(r).who, req[r].old, blamed) /\ Finish(r, "refused")
    BY <1>2 DEF AssignBack
  <2>2. req' \in [Posts -> Post] /\ Ends(r) BY <2>1, FinishEnds
  <2>3. blamed \in SUBSET Users BY <1>1
  <2>4. \A u \in Order(r).who \cap members :
          req[r].old[u] \notin scenes \cup {Nowhere} => u \in blamed
    OBVIOUS
  <2> HIDE DEF blamed
  <2> QED BY <1>1, <2>1, <2>2, <2>3, <2>4, BackMinuted
<1>3. CASE BulkBack(r)
  <2>1. Put(r, Order(r).who, Cleared, {}) /\ Finish(r, "refused") BY <1>3 DEF BulkBack
  <2>2. req' \in [Posts -> Post] /\ Ends(r) BY <2>1, FinishEnds
  <2>3. \A u \in Order(r).who \cap members :
          Cleared[u] \notin scenes \cup {Nowhere} => u \in {}
    BY <1>1
  <2> HIDE DEF Minuted
  <2> QED BY <1>1, <2>1, <2>2, <2>3, BackMinuted
<1>4. CASE RestoreBack(r)
  <2>1. PICK x \in req[r].left :
          /\ Put(r, {x}, Cleared, {})
          /\ IF req[r].left = {x} THEN Finish(r, "refused")
             ELSE GoTo(r, "rollback", req[r].left \ {x})
    BY <1>4 DEF RestoreBack
  <2>2. req[r].left \ {x} \in SUBSET (Users \cup Scenes) /\ "rollback" \in PCs
    BY DEF TypeOK, PCs
  <2>3. x \in Order(r).who
    BY <1>1 DEF Courses, Wrote, Doing
  <2>4. req' \in [Posts -> Post] /\ (Ends(r) \/ Proceeds(r, "rollback", req[r].left \ {x}))
    BY <2>1, <2>2, FinishEnds, GoToProceeds
  <2>5. ASSUME NEW u \in Users, WillSeeTo(r, u), at'[u] = at[u], u # x
        PROVE  WillSeeTo(r, u)'
    <3>1. u \in req[r].left BY <1>1, <2>5
    <3>2. GoTo(r, "rollback", req[r].left \ {x}) BY <2>1, <2>5, <3>1
    <3>3. Proceeds(r, "rollback", req[r].left \ {x}) BY <2>2, <3>2, GoToProceeds
    <3> QED BY <1>1, <2>5, <3>1, <3>3 DEF WillSeeTo, Doing, Order, Proceeds
  <2>6. \A u \in {x} \cap members : Cleared[u] \notin scenes \cup {Nowhere} => u \in {}
    BY <1>1, <2>3
  <2>7. {x} \in SUBSET Users /\ {x} \subseteq Order(r).who BY <1>1, <2>3
  <2>8. Put(r, {x}, Cleared, {}) BY <2>1
  <2>9. \A u \in Users : WillSeeTo(r, u) /\ at'[u] = at[u] => u \in {x} \/ WillSeeTo(r, u)'
    BY <2>5
  <2> HIDE DEF Minuted
  <2> QED BY <1>1, <2>4, <2>6, <2>7, <2>8, <2>9, BackMinuted
<1> QED BY <1>2, <1>3, <1>4

LEMMA RecheckMinuted ==
  ASSUME Minuted, NEW r \in Posts, Recheck(r)
  PROVE  Minuted'
<1> USE DEF Minuted
<1>1. Doing(r, MoveKinds, "check") BY DEF Recheck
<1>2. PICK s \in req[r].left :
        IF s \in scenes THEN Through(r, s, "check", "allocate", {}) /\ KeepAll
        ELSE /\ req' = [req EXCEPT
                  ![r].pc = "rollback", ![r].gone = s,
                  ![r].left = {u \in Order(r).who : Order(r).to[u] = s}]
             /\ stuck' = stuck \cup
                  {u \in Order(r).who : /\ Dangling(u) /\ at[u] = Order(r).to[u]
                                        /\ at[u] \in req[r].left \ {s}}
             /\ disputed' = disputed \cup Order(r).who
             /\ UNCHANGED data
  BY DEF Recheck
<1>3. /\ Order(r).kind \in MoveKinds /\ req[r].pc = "check" /\ Wrote(r)
      /\ req[r].wrote = Order(r).who /\ req[r].left \subseteq Scenes
      /\ Order(r).who \in SUBSET Users
  BY <1>1, OrderType DEF Doing, Courses, Wrote
<1> DEFINE stage == IF s \notin scenes THEN "rollback"
                    ELSE IF req[r].left = {s} THEN "allocate" ELSE "check"
           left == IF s \notin scenes THEN {u \in Order(r).who : Order(r).to[u] = s}
                   ELSE IF req[r].left = {s} THEN {} ELSE req[r].left \ {s}
<1>4. /\ UNCHANGED <<scenes, active, members, at, last, log>>
      /\ s \in scenes => UNCHANGED <<stuck, disputed>>
      /\ s \notin scenes =>
           /\ stuck' = stuck \cup
                {u \in Order(r).who : /\ Dangling(u) /\ at[u] = Order(r).to[u]
                                      /\ at[u] \in req[r].left \ {s}}
           /\ disputed' = disputed \cup Order(r).who
  BY <1>2 DEF KeepAll, data
<1>5. /\ req' \in [Posts -> Post] /\ Alone(r) /\ req'[r].op = req[r].op
      /\ req'[r].pc = stage /\ req'[r].left = left /\ req'[r].wrote = req[r].wrote
  <2>1. CASE s \in scenes
    <3>1. Through(r, s, "check", "allocate", {}) BY <1>2, <2>1
    <3>2. {"check", "allocate"} \subseteq PCs /\ {} \in SUBSET (Users \cup Scenes) BY DEF PCs
    <3>3. req[r].left \ {s} \in SUBSET (Users \cup Scenes) BY <1>3
    <3>4. CASE req[r].left = {s}
      <4>1. GoTo(r, "allocate", {}) BY <3>1, <3>4 DEF Through
      <4>2. req' \in [Posts -> Post] /\ Proceeds(r, "allocate", {})
        BY <3>2, <4>1, GoToProceeds
      <4> QED BY <2>1, <3>4, <4>2 DEF Proceeds
    <3>5. CASE req[r].left # {s}
      <4>1. GoTo(r, "check", req[r].left \ {s}) BY <3>1, <3>5 DEF Through
      <4>2. req' \in [Posts -> Post] /\ Proceeds(r, "check", req[r].left \ {s})
        BY <3>2, <3>3, <4>1, GoToProceeds
      <4> QED BY <2>1, <3>5, <4>2 DEF Proceeds
    <3> QED BY <3>4, <3>5
  <2>2. CASE s \notin scenes
    <3> DEFINE rec == [req[r] EXCEPT !.pc = "rollback", !.gone = s, !.left = left]
    <3>1. left = {u \in Order(r).who : Order(r).to[u] = s} BY <2>2
    <3>2. req' = [req EXCEPT ![r] = rec] BY <1>2, <2>2, <3>1 DEF TypeOK
    <3>3. req[r] \in Post BY DEF TypeOK, Post
    <3>4. left \in SUBSET (Users \cup Scenes) /\ s \in MapPlaces /\ "rollback" \in PCs
      BY <1>3, <3>1 DEF MapPlaces, PCs
    <3> HIDE DEF left
    <3>5. rec \in Post BY <3>3, <3>4 DEF Post
    <3>6. /\ rec.op = req[r].op /\ rec.pc = "rollback" /\ rec.left = left
          /\ rec.wrote = req[r].wrote
      BY <3>3 DEF Post
    <3> HIDE DEF rec
    <3>7. req' \in [Posts -> Post] /\ Alone(r) /\ req'[r] = rec BY <3>2, <3>5, Rewritten
    <3> QED BY <2>2, <3>6, <3>7
  <2> QED BY <2>1, <2>2
<1>6. stage \in {"rollback", "allocate", "check"} OBVIOUS
<1>7. disputed \subseteq disputed' /\ stuck \subseteq stuck' BY <1>4
<1>8. TypeOK' BY <1>3, <1>4, <1>5 DEF TypeOK, Post
<1>9. Absent' /\ Unassigning' BY <1>4, <1>5, UnassigningOn DEF Absent
<1>10. DanglingExplained'
  <2> SUFFICES ASSUME NEW u \in Users, Dangling(u)', u \notin stuck', ~WillSeeTo(r, u)'
               PROVE  ~WillSeeTo(r, u)
    BY <1>4, <1>5, <1>7, DanglersOn DEF Dangling
  <2> SUFFICES ASSUME WillSeeTo(r, u) PROVE FALSE OBVIOUS
  <2>1. Dangling(u) BY <1>4 DEF Dangling
  <2>2. /\ u \in Order(r).who /\ Order(r).to[u] = at[u] /\ at[u] \in req[r].left
        /\ Order(r).kind \in {"assign", "bulk", "restore"}
    BY <1>3 DEF WillSeeTo, Doing
  <2>3. CASE s \in scenes
    <3>1. at[u] # s BY <2>1, <2>3 DEF Dangling
    <3>2. req'[r].pc = "check" /\ at[u] \in req'[r].left BY <1>5, <2>2, <2>3, <3>1
    <3> QED BY <1>4, <1>5, <2>2, <3>2 DEF WillSeeTo, Order
  <2>4. CASE s \notin scenes
    <3>1. at[u] = s BY <1>4, <2>1, <2>2, <2>4
    <3>2. req'[r].pc = "rollback" /\ u \in req'[r].left BY <1>5, <2>2, <2>4, <3>1
    <3> QED BY <1>4, <1>5, <2>2, <3>2 DEF WillSeeTo, Order
  <2> QED BY <2>3, <2>4
<1>11. Wrote(r)'
  <2>1. stage = "rollback" => Order(r).who \subseteq disputed' BY <1>4
  <2>2. stage = "check" => left \subseteq Scenes BY <1>3
  <2>3. stage = "rollback" => left \subseteq Order(r).who OBVIOUS
  <2> HIDE DEF stage, left
  <2> QED BY <1>3, <1>5, <1>6, <2>1, <2>2, <2>3 DEF Wrote, Doing, Order, MoveKinds
<1>12. Courses' BY <1>4, <1>5, <1>7, <1>11, CoursesOn
<1>13. Numbers' BY <1>4, <1>5, <1>6, NumbersOn
<1>14. Knowns'
  <2> SUFFICES ASSUME NEW u \in members \ disputed PROVE Known(u)' BY <1>4, <1>7 DEF Knowns
  <2>1. u \in Users /\ Known(u) BY DEF Knowns, TypeOK
  <2> QED BY <1>4, <1>5, <1>6, <2>1, KnownOn
<1> QED BY <1>8, <1>9, <1>10, <1>12, <1>13, <1>14

LEMMA MinutedStep == Minuted /\ [SceneNext]_sceneVars => Minuted'
<1> SUFFICES ASSUME Minuted, [SceneNext]_sceneVars PROVE Minuted' OBVIOUS
<1>1. ASSUME NEW r \in Posts, Moving(r) PROVE Minuted'
  <2>1. TypeOK BY DEF Minuted
  <2>2. CASE Preparation(r) BY <2>1, <2>2, Prepared, PreparesMinuted
  <2>3. CASE ~Preparation(r)
    BY <1>1, <2>3, WriteMinuted, RecheckMinuted, RollbackMinuted, NumberMinuted, RecordMinuted
    DEF Moving, Preparation
  <2> QED BY <2>2, <2>3
<1>2. ASSUME NEW r \in Posts, Staging(r) PROVE Minuted'
  <2>1. TypeOK BY DEF Minuted
  <2>2. CASE Preparation(r) BY <2>1, <2>2, Prepared, PreparesMinuted
  <2>3. CASE ~Preparation(r)
    BY <1>2, <2>3, DeleteMinuted, ClearMinuted, TakeOffMinuted, NumberMinuted, RecordMinuted
    DEF Staging, Preparation
  <2> QED BY <2>2, <2>3
<1>3. ASSUME NEW r \in Posts, Crash(r) PROVE Minuted' BY <1>3, CrashMinuted
<1>4. CASE UNCHANGED sceneVars
  <2>1. /\ UNCHANGED <<scenes, active, members, at, last, log, req, stuck, disputed>>
    BY <1>4 DEF sceneVars, data
  <2>2. TypeOK' BY <2>1 DEF Minuted, TypeOK
  <2>3. Absent' /\ Unassigning' BY <2>1 DEF Minuted, Absent, Unassigning, Order
  <2>4. DanglingExplained'
    BY <2>1 DEF Minuted, DanglingExplained, Dangling, WillSeeTo, Doing, Order
  <2>5. Courses' BY <2>1 DEF Minuted, Courses, Wrote, Doing, Order
  <2>6. Numbers' BY <2>1 DEF Minuted, Numbers, Numbered
  <2>7. Knowns'
    <3> SUFFICES ASSUME NEW u \in members \ disputed, Known(u) PROVE Known(u)'
      BY <2>1 DEF Minuted, Knowns
    <3> QED BY <2>1 DEF Known, Stands, Heads, Numbered, Order
  <2> QED BY <2>2, <2>3, <2>4, <2>5, <2>6, <2>7 DEF Minuted
<1> QED BY <1>1, <1>2, <1>3, <1>4 DEF SceneNext

LEMMA AlwaysMinuted == SceneSpec => []Minuted
<1>1. Minuted /\ [SceneNext]_sceneVars => Minuted' BY MinutedStep
<1> QED BY <1>1, MinutedInit, PTL DEF SceneSpec

(* Quiet means that nobody owes a record. *)
LEMMA MinutedTells == Minuted => LogTells
<1> SUFFICES ASSUME Minuted, Quiet, NEW u \in members \ disputed
             PROVE  LET told == Latest(u).to[u] IN
                    at[u] = told \/ (at[u] = Nowhere /\ told \notin scenes)
  BY DEF LogTells
<1>1. Known(u) /\ TypeOK /\ Numbers BY DEF Minuted, Knowns
<1>2. \A r \in Posts : req[r].wrote = {} BY DEF Quiet, Minuted, Courses, Wrote, Doing
<1>3. PICK e \in log : /\ u \in e.who /\ Stands(u, e.to[u])
                       /\ \A f \in log : u \in f.who => f.seq <= e.seq
  BY <1>1, <1>2 DEF Known
<1>4. ASSUME NEW g \in log, u \in g.who, \A f \in log : u \in f.who => f.seq <= g.seq
      PROVE  g = e
  <2>1. g.seq \in Nat /\ e.seq \in Nat BY <1>1 DEF TypeOK
  <2>2. g.seq = e.seq BY <1>3, <1>4, <2>1
  <2> QED BY <1>1, <2>2 DEF Numbers
<1>5. Latest(u) = e BY <1>3, <1>4 DEF Latest
<1> QED BY <1>3, <1>5 DEF Stands

(* Whatever requests are posted and wherever a process dies, scenes,       *)
(* memberships, the log and every request in WorldOperationsService are    *)
(* what their schemas say; the active scenes are among those that exist.   *)
THEOREM SceneTypes == SceneSpec => []TypeOK
<1>1. Minuted => TypeOK BY DEF Minuted
<1> QED BY <1>1, AlwaysMinuted, PTL

(* RC-D6 and CD-04: a member points at a deleted scene only while a        *)
(* deletion is about to clear it or a move about to look again, or for one *)
(* of the named exceptions (stuck).                                        *)
THEOREM DanglersExplained == SceneSpec => []DanglingExplained
<1>1. Minuted => DanglingExplained BY DEF Minuted
<1> QED BY <1>1, AlwaysMinuted, PTL

(* When all is quiet, the last record of worldOperations about a member    *)
(* names his scene, unless that scene was deleted since, or two requests   *)
(* moved him at once, or he was moved back.                                *)
THEOREM LogTold == SceneSpec => []LogTells
<1> QED BY AlwaysMinuted, MinutedTells, PTL

=============================================================================
