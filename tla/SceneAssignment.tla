---------------------------- MODULE SceneAssignment ----------------------------
(***************************************************************************)
(* WorldOperationsService: on which scene of the tactical map each member  *)
(* of a world is.  Assigning one or many, taking off, restoring after a    *)
(* mass move, undoing; and against it what happens to the scenes           *)
(* themselves: deletion, deactivation, activation.                         *)
(*                                                                         *)
(* currentSceneId lives in the membership and refers to a document of      *)
(* another collection; nothing but this code keeps the two together.       *)
(***************************************************************************)
EXTENDS Integers, FiniteSets

CONSTANTS
  Users, PJs,          \* PJs: who may move others (PomocnyPJ and above)
  Scenes, Posts,
  Nowhere,             \* currentSceneId is null
  ScenePlans, Beginnings,
  Crashes

MapPlaces == Scenes \cup {Nowhere}
MoveKinds == {"assign", "unassign", "bulk", "restore"}
SceneKinds ==
  MoveKinds \cup {"undo", "delete", "deactivate", "activate", "setActive"}

(* `to' says where each user of `who' goes. *)
SceneOperation == [kind: SceneKinds, by: Users, who: SUBSET Users,
                   to: [Users -> MapPlaces], scene: Scenes, of: Posts]

ASSUME SceneAssumption ==
  /\ Nowhere \notin Scenes /\ PJs \subseteq Users
  /\ ScenePlans \subseteq [Posts -> SceneOperation]
  /\ Beginnings \subseteq [members: SUBSET Users, at: [Users -> MapPlaces]]
  /\ \A b \in Beginnings, u \in Users : u \notin b.members => b.at[u] = Nowhere
  /\ \A plan \in ScenePlans, r \in Posts : plan[r].kind = "unassign" =>
       \A u \in plan[r].who : plan[r].to[u] = Nowhere
  /\ Crashes \in BOOLEAN

VARIABLES
  scenes, active,   \* scenes that exist; those that are active
  members, at,      \* members of the world; the currentSceneId of each
  last, log,        \* World.lastSeqNumber and the collection worldOperations
  req,
  stuck,            \* history: dangling, and no request will look again
  disputed          \* history: moved by two requests at once, or moved back

data == <<scenes, active, members, at, last, log>>
sceneVars == <<data, req, stuck, disputed>>

SceneInit ==
  /\ scenes = Scenes /\ active = Scenes /\ last = 0
  /\ \E b \in Beginnings :
       /\ members = b.members /\ at = b.at
       /\ log = {[seq |-> 0, who |-> Users, to |-> b.at]}
       /\ \E plan \in ScenePlans :
            req = [r \in Posts |->
                     [op |-> plan[r], pc |-> "start", left |-> {}, gone |-> Nowhere,
                      old |-> b.at, wrote |-> {}, seq |-> 0, answer |-> "none"]]
  /\ stuck = {} /\ disputed = {}

-----------------------------------------------------------------------------
Order(r) == req[r].op
Doing(r, kinds, place) == Order(r).kind \in kinds /\ req[r].pc = place
Targets(r) == {Order(r).to[u] : u \in Order(r).who} \ {Nowhere}

KeepAll == UNCHANGED <<data, stuck, disputed>>
GoTo(r, place, left) ==
  req' = [req EXCEPT ![r].pc = place, ![r].left = left]
Finish(r, answer) ==
  req' = [req EXCEPT ![r].pc = "done", ![r].answer = answer, ![r].left = {},
                     ![r].wrote = {}, ![r].gone = Nowhere, ![r].seq = 0]
Deny(r) == Finish(r, "refused") /\ KeepAll

Dangling(u) == at[u] # Nowhere /\ at[u] \notin scenes

(* setCurrentScene and setCurrentSceneForMany: no membership, no effect.   *)
(* A member written by r is disputed while another request has written it  *)
(* and not said so yet.                                                    *)
Put(r, who, to, blamed) ==
  LET moved == who \cap members IN
  /\ at' = [u \in Users |-> IF u \in moved THEN to[u] ELSE at[u]]
  /\ stuck' = {u \in stuck : u \notin moved} \cup blamed
  /\ disputed' = disputed \cup
       {u \in moved : \E q \in Posts \ {r} : u \in req[q].wrote}
  /\ UNCHANGED <<scenes, active, members, last, log>>

-----------------------------------------------------------------------------
(***************************************************************************)
(* apply: validate, authorize.  A player may only take himself off.        *)
(***************************************************************************)
May(r) == Order(r).by \in PJs
            \/ (Order(r).kind = "unassign" /\ Order(r).who = {Order(r).by})

(* The next of those left; after the last one, the next stage. *)
Through(r, x, here, next, work) ==
  IF req[r].left = {x} THEN GoTo(r, next, work)
  ELSE GoTo(r, here, req[r].left \ {x})

Begin(r) ==
  /\ Doing(r, MoveKinds, "start")
  /\ IF ~May(r) THEN Deny(r)
     ELSE /\ KeepAll
          /\ IF Targets(r) = {} THEN GoTo(r, "members", Order(r).who)
             ELSE GoTo(r, "scenes", Targets(r))

(* An undo posts the inverse that an earlier request was answered with. *)
BeginUndo(r) ==
  LET q == Order(r).of IN
  /\ Doing(r, {"undo"}, "start") /\ req[q].answer = "ok" /\ Order(q).kind \in MoveKinds
  /\ Order(q).kind = "unassign" => \E u \in Order(q).who : req[q].old[u] # Nowhere
  /\ req' = [req EXCEPT ![r].op.kind =
                CASE Order(q).kind \in {"bulk", "restore"} -> "restore"
                  [] \E u \in Order(q).who : req[q].old[u] # Nowhere -> "assign"
                  [] OTHER -> "unassign",
              ![r].op.who = Order(q).who, ![r].op.to = req[q].old]
  /\ KeepAll

(* The target scenes, one after the other. *)
FindScene(r) ==
  /\ Doing(r, MoveKinds, "scenes")
  /\ \E s \in req[r].left :
       IF s \in scenes THEN Through(r, s, "scenes", "members", Order(r).who) /\ KeepAll
       ELSE Deny(r)

(* cascadeRemoveTokenFromScene is for members who leave a scene. *)
Leavers(r, old) ==
  {u \in Order(r).who : /\ old[u] # Nowhere
                     /\ Order(r).kind = "restore" => old[u] # Order(r).to[u]}

(* The memberships, each with the scene it is on. *)
ReadMember(r) ==
  /\ Doing(r, MoveKinds, "members")
  /\ \E u \in req[r].left :
       LET old == [req[r].old EXCEPT ![u] = at[u]]
           more == req[r].left \ {u}
       IN IF u \notin members THEN Deny(r)
          ELSE /\ KeepAll
               /\ req' = [req EXCEPT ![r].old = old,
                    ![r].pc = IF more # {} THEN "members"
                              ELSE IF Leavers(r, old) # {} THEN "tokens" ELSE "write",
                    ![r].left = IF more # {} THEN more
                                ELSE IF Leavers(r, old) # {} THEN Leavers(r, old)
                                ELSE Order(r).who]

(* Find the scene the member leaves, and on it his token, if he has one ... *)
FindToken(r) ==
  /\ Doing(r, MoveKinds, "tokens") /\ KeepAll
  /\ \E u \in req[r].left :
       \/ Through(r, u, "tokens", "write", Order(r).who)
       \/ /\ req[r].old[u] \in scenes
          /\ req' = [req EXCEPT ![r].pc = "remove", ![r].left = @ \ {u},
                                ![r].gone = req[r].old[u]]

(* ... and remove it with MapOperationsService.apply, of which only the    *)
(* outcome counts here: 404 when the scene is gone, or when a player's own *)
(* token is.                                                               *)
RemoveToken(r) ==
  /\ Doing(r, MoveKinds, "remove")
  /\ \/ /\ req[r].gone \in scenes /\ KeepAll
        /\ req' = [req EXCEPT ![r].gone = Nowhere,
                 ![r].pc = IF req[r].left = {} THEN "write" ELSE "tokens",
                 ![r].left = IF @ = {} THEN Order(r).who ELSE @]
     \/ (req[r].gone \notin scenes \/ Order(r).by \notin PJs) /\ Deny(r)

WriteFor(r, who, place, left) ==
  /\ Put(r, who, Order(r).to, {})
  /\ req' = [req EXCEPT ![r].pc = place, ![r].left = left, ![r].wrote = @ \cup who]

AssignWrite(r) ==
  Doing(r, {"assign"}, "write") /\ WriteFor(r, Order(r).who, "check", Targets(r))

UnassignWrite(r) ==
  Doing(r, {"unassign"}, "write") /\ WriteFor(r, Order(r).who, "allocate", {})

BulkWrite(r) ==
  Doing(r, {"bulk"}, "write") /\ WriteFor(r, Order(r).who, "check", Targets(r))

RestoreWrite(r) ==
  /\ Doing(r, {"restore"}, "write")
  /\ \E u \in req[r].left :
       IF req[r].left # {u} THEN WriteFor(r, {u}, "write", req[r].left \ {u})
       ELSE WriteFor(r, {u}, IF Targets(r) = {} THEN "allocate" ELSE "check", Targets(r))

(* RC-D6: is the scene still there?  The first one that is not ends the    *)
(* request, and the members sent to the others are not looked after.       *)
Recheck(r) ==
  /\ Doing(r, MoveKinds, "check")
  /\ \E s \in req[r].left :
       IF s \in scenes THEN Through(r, s, "check", "allocate", {}) /\ KeepAll
       ELSE /\ req' = [req EXCEPT
                 ![r].pc = "rollback", ![r].gone = s,
                 ![r].left = {u \in Order(r).who : Order(r).to[u] = s}]
            /\ stuck' = stuck \cup
                 {u \in Order(r).who : /\ Dangling(u) /\ at[u] = Order(r).to[u]
                                    /\ at[u] \in req[r].left \ {s}}
            /\ disputed' = disputed \cup Order(r).who
            /\ UNCHANGED data

(* Mutant: the scene just found missing stays. *)
AssignForgotten(r) ==
  /\ Doing(r, {"assign"}, "rollback") /\ Deny(r)

(* The old scene is written back unseen: it may be gone too. *)
AssignBack(r) ==
  /\ Doing(r, {"assign"}, "rollback") /\ Finish(r, "refused")
  /\ Put(r, Order(r).who, req[r].old,
         {u \in Order(r).who \cap members : req[r].old[u] \notin scenes \cup {Nowhere}})

Cleared == [u \in Users |-> Nowhere]

BulkBack(r) ==
  /\ Doing(r, {"bulk"}, "rollback") /\ Finish(r, "refused")
  /\ Put(r, Order(r).who, Cleared, {})

RestoreBack(r) ==
  /\ Doing(r, {"restore"}, "rollback")
  /\ \E u \in req[r].left :
       /\ Put(r, {u}, Cleared, {})
       /\ IF req[r].left = {u} THEN Finish(r, "refused")
          ELSE GoTo(r, "rollback", req[r].left \ {u})

-----------------------------------------------------------------------------
(* A number of the world's log, then the record, then the broadcast. *)
Number(r, place) ==
  /\ last' = last + 1
  /\ req' = [req EXCEPT ![r].pc = place, ![r].seq = last + 1]
  /\ UNCHANGED <<scenes, active, members, at, log, stuck, disputed>>

Record(r, who, to) ==
  /\ log' = log \cup {[seq |-> req[r].seq, who |-> who, to |-> to]}
  /\ UNCHANGED <<scenes, active, members, at, last, stuck, disputed>>

Allocate(r) == Doing(r, MoveKinds, "allocate") /\ Number(r, "append")

AppendRecord(r) ==
  /\ Doing(r, MoveKinds, "append") /\ Finish(r, "ok")
  /\ Record(r, Order(r).who, Order(r).to)

-----------------------------------------------------------------------------
(***************************************************************************)
(* The scenes.                                                             *)
(***************************************************************************)
Found(r) == Order(r).scene \in scenes

(* deleteScene *)
FindToDelete(r) ==
  /\ Doing(r, {"delete"}, "start")
  /\ IF Found(r) /\ Order(r).by \in PJs THEN GoTo(r, "delete", {}) /\ KeepAll ELSE Deny(r)

Delete(r) ==
  /\ Doing(r, {"delete"}, "delete")
  /\ \/ /\ Found(r) /\ GoTo(r, "clear", {})
        /\ scenes' = scenes \ {Order(r).scene} /\ active' = active \ {Order(r).scene}
        /\ UNCHANGED <<members, at, last, log, stuck, disputed>>
     \/ ~Found(r) /\ Deny(r)

(* Mutant: before CD-04. *)
ClearNobody(r) ==
  /\ Doing(r, {"delete"}, "clear") /\ Finish(r, "ok") /\ KeepAll

(* clearSceneForAll *)
Clear(r) ==
  LET there == {u \in members : at[u] = Order(r).scene} IN
  /\ Doing(r, {"delete"}, "clear") /\ Finish(r, "ok")
  /\ at' = [u \in Users |-> IF u \in there THEN Nowhere ELSE at[u]]
  /\ stuck' = stuck \ there
  /\ UNCHANGED <<scenes, active, members, last, log, disputed>>

(* scene.deactivate *)
DeactivateFind(r) ==
  /\ Doing(r, {"deactivate"}, "start")
  /\ IF Found(r) /\ Order(r).by \in PJs THEN GoTo(r, "cas", {}) /\ KeepAll ELSE Deny(r)

Deactivate(r) ==
  /\ Doing(r, {"deactivate"}, "cas")
  /\ \/ /\ Order(r).scene \in active /\ active' = active \ {Order(r).scene}
        /\ GoTo(r, "affected", {})
        /\ UNCHANGED <<scenes, members, at, last, log, stuck, disputed>>
     \/ Order(r).scene \notin active /\ Finish(r, "noop") /\ KeepAll

Affected(r) ==
  /\ Doing(r, {"deactivate"}, "affected") /\ KeepAll
  /\ GoTo(r, "unassign", {u \in members : at[u] = Order(r).scene})

(* Each of them is taken off, wherever he is by now. *)
TakeOff(r) ==
  /\ Doing(r, {"deactivate"}, "unassign")
  /\ \E u \in req[r].left :
       /\ Put(r, {u}, Cleared, {})
       /\ req' = [req EXCEPT ![r].pc = "number", ![r].left = @ \ {u},
                             ![r].wrote = {u}]

TakeOffAllocate(r) == Doing(r, {"deactivate"}, "number") /\ Number(r, "record")

(* Mutant: the log is not told. *)
TakeOffUnlogged(r) ==
  /\ Doing(r, {"deactivate"}, "record") /\ KeepAll
  /\ req' = [req EXCEPT ![r].pc = "unassign", ![r].wrote = {}]

TakeOffAppend(r) ==
  /\ Doing(r, {"deactivate"}, "record") /\ Record(r, req[r].wrote, Cleared)
  /\ req' = [req EXCEPT ![r].pc = "unassign", ![r].wrote = {}]

(* The operation's own number is one of the scene. *)
DeactivateEnd(r) ==
  /\ Doing(r, {"deactivate"}, "unassign") /\ req[r].left = {} /\ KeepAll
  /\ Finish(r, IF Found(r) THEN "ok" ELSE "refused")

(* scene.activate, and setActive, which looks first and does not compare. *)
ActivateFind(r) ==
  /\ Doing(r, {"activate", "setActive"}, "start")
  /\ IF Found(r) /\ Order(r).by \in PJs THEN GoTo(r, "cas", {}) /\ KeepAll ELSE Deny(r)

Activate(r) ==
  /\ Doing(r, {"activate"}, "cas")
  /\ \/ /\ Found(r) /\ Order(r).scene \notin active /\ Finish(r, "ok")
        /\ active' = active \cup {Order(r).scene}
        /\ UNCHANGED <<scenes, members, at, last, log, stuck, disputed>>
     \/ (Order(r).scene \in active \/ ~Found(r)) /\ Finish(r, "noop") /\ KeepAll

SetActive(r) ==
  /\ Doing(r, {"setActive"}, "cas") /\ Finish(r, "ok")
  /\ active' = active \cup ({Order(r).scene} \cap scenes)
  /\ UNCHANGED <<scenes, members, at, last, log, stuck, disputed>>

(* The process dies: whoever it left on a scene that is gone stays there,  *)
(* and whoever it moved without a record is moved all the same.            *)
Crash(r) ==
  /\ Crashes /\ req[r].pc \notin {"start", "done"} /\ Finish(r, "crashed")
  /\ stuck' = stuck \cup
       {u \in members : /\ Dangling(u)
                        /\ at[u] \in {Order(r).scene} \cup Targets(r)}
  /\ disputed' = disputed \cup req[r].wrote
  /\ UNCHANGED data

Moving(r) ==
  \/ Begin(r) \/ BeginUndo(r) \/ FindScene(r) \/ ReadMember(r)
  \/ FindToken(r) \/ RemoveToken(r)
  \/ AssignWrite(r) \/ UnassignWrite(r) \/ BulkWrite(r) \/ RestoreWrite(r)
  \/ Recheck(r) \/ AssignBack(r) \/ BulkBack(r) \/ RestoreBack(r)
  \/ Allocate(r) \/ AppendRecord(r)

Staging(r) ==
  \/ FindToDelete(r) \/ Delete(r) \/ Clear(r)
  \/ DeactivateFind(r) \/ Deactivate(r) \/ Affected(r) \/ TakeOff(r)
  \/ TakeOffAllocate(r) \/ TakeOffAppend(r) \/ DeactivateEnd(r)
  \/ ActivateFind(r) \/ Activate(r) \/ SetActive(r)

SceneNext == \E r \in Posts : Moving(r) \/ Staging(r) \/ Crash(r)

SceneSpec == SceneInit /\ [][SceneNext]_sceneVars

(* The event loop runs every continuation that is pending. *)
FairSpec == SceneSpec /\ \A r \in Posts : WF_sceneVars(Moving(r) \/ Staging(r))

-----------------------------------------------------------------------------
PCs == {"start", "scenes", "members", "tokens", "remove", "write", "check",
        "rollback", "allocate", "append", "delete", "clear", "cas", "affected",
        "unassign", "number", "record", "done"}

TypeOK ==
  /\ scenes \subseteq Scenes /\ active \subseteq scenes
  /\ members \subseteq Users /\ at \in [Users -> MapPlaces] /\ last \in Nat
  /\ \A e \in log : e.seq \in 0..last /\ e.who \subseteq Users
                      /\ e.to \in [Users -> MapPlaces]
  /\ req \in [Posts -> [op: SceneOperation, pc: PCs, gone: MapPlaces,
                left: SUBSET (Users \cup Scenes), old: [Users -> MapPlaces],
                wrote: SUBSET Users, seq: Nat,
                answer: {"none", "ok", "refused", "noop", "crashed"}]]
  /\ stuck \subseteq Users /\ disputed \subseteq Users

(***************************************************************************)
(* RC-D6 and CD-04: a member points at a deleted scene only while a        *)
(* request that will see to it is on its way: the deletion that has not    *)
(* cleared yet, or a move that has not looked again yet.  The exceptions   *)
(* (stuck) are the rollback to an old scene that is gone, a restore with   *)
(* two scenes gone, and a crash.                                           *)
(***************************************************************************)
WillSeeTo(r, u) ==
  \/ Doing(r, {"delete"}, "clear") /\ Order(r).scene = at[u]
  \/ /\ Order(r).kind \in {"assign", "bulk", "restore"} /\ u \in Order(r).who
     /\ Order(r).to[u] = at[u]
     /\ \/ req[r].pc = "write" \/ (req[r].pc = "check" /\ at[u] \in req[r].left)
        \/ req[r].pc = "rollback" /\ u \in req[r].left

DanglingExplained ==
  \A u \in Users : Dangling(u) => u \in stuck \/ \E r \in Posts : WillSeeTo(r, u)

(***************************************************************************)
(* And it is seen to in the end: again and again there comes a time when   *)
(* nobody points at a deleted scene, those exceptions aside.               *)
(***************************************************************************)
DanglingSettled == []<>(\A u \in Users : Dangling(u) => u \in stuck)

(***************************************************************************)
(* A client that follows the log, in the order of its numbers, knows where *)
(* everybody is when all is quiet: the last record about a member names    *)
(* his scene, unless that scene was deleted since.  Members who were moved *)
(* by two requests at once, or moved back, are left out: numbers are given *)
(* after the write.                                                        *)
(***************************************************************************)
Latest(u) == CHOOSE e \in log : u \in e.who /\ \A f \in log : u \in f.who => f.seq <= e.seq

Quiet == \A r \in Posts : req[r].pc \in {"start", "done"}

LogTells ==
  Quiet => \A u \in members \ disputed :
    LET told == Latest(u).to[u] IN
    at[u] = told \/ (at[u] = Nowhere /\ told \notin scenes)

(***************************************************************************)
(* What test/race/maps.race.e2e-spec.ts says: once a scene is gone and all *)
(* is done, no membership points at it.  Crashes aside, as in the test.    *)
(***************************************************************************)
NobodyDangles == Quiet => \A u \in members : ~Dangling(u)

=============================================================================
