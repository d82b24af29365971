---------------------------- MODULE WorldMembership ----------------------------
(***************************************************************************)
(* WorldsService: who is in a world, with which role, and who owns it.     *)
(* Entering by joining, by an access request or by an invitation, roles,   *)
(* leaving, handing the world over, deleting, restoring and purging it.    *)
(*                                                                         *)
(* One world.  Users of other worlds, groups, avatars, themes and the      *)
(* elevation switch itself are left out.  Reads of one request that follow *)
(* each other are separate steps when a write in between could matter.     *)
(***************************************************************************)
EXTENDS Integers, FiniteSets

CONSTANTS
  Users, Requests,
  OldInvites,        \* invitations sent before the requests of Requests
  Admins,            \* platform administrators with elevated rights here
  Plans,             \* what the requests of a run do
  Beginnings,        \* the worlds, with their documents, a run starts from
  Crashes,
  Seed               \* stands for whoever made the initial documents

(* WorldRole.  No operation makes a Zadatel, but updateMemberRole accepts    *)
(* the role.  Nobody stands for no membership.                             *)
Nobody == -1
Zadatel == 0
Ctenar == 1
Hrac == 2
Korektor == 3
PomocnyPJ == 4
PJ == 5
Roles == Zadatel..PJ

(* A document is named by the request that made it. *)
Ids == Requests \cup {Seed}
InviteIds == Requests \cup OldInvites

Membership == [role: Roles \cup {Nobody}, id: Ids]
NoMember == [role |-> Nobody, id |-> Seed]

Application == [open: BOOLEAN, draft: BOOLEAN, id: Ids]
NoApplication == [open |-> FALSE, draft |-> FALSE, id |-> Seed]

Invite == [kind: {"none", "user", "link"}, user: Users, used: Nat, max: Nat,
           late: BOOLEAN,
           status: {"pending", "accepted", "declined", "revoked", "expired"}]

(* `old': the 30 days in which a deleted world can be restored are over. *)
World == [exists: BOOLEAN, owner: Users, players: Int, deleted: BOOLEAN,
          old: BOOLEAN, mode: {"public", "open", "closed"}]

Kinds == {"join", "apply", "cancel", "approve", "reject", "invite", "revoke",
          "accept", "decline", "follow", "role", "leave", "transfer", "delete",
          "restore", "closeAccount", "handover", "purge", "mode"}

Operation == [kind: Kinds, by: Users, on: Users, role: Roles, draft: BOOLEAN,
              invite: InviteIds, mode: {"public", "open", "closed"}]

ASSUME WorldAssumption ==
  /\ Plans \subseteq [Requests -> Operation] /\ Admins \subseteq Users
  /\ Seed \notin Requests /\ Requests \cap OldInvites = {}
  /\ Beginnings \subseteq [world: World, members: [Users -> Membership],
                            applications: [Users -> Application],
                            invites: [OldInvites -> Invite],
                            replicaSet: BOOLEAN]
  /\ Crashes \in BOOLEAN /\ IsFiniteSet(Users) /\ IsFiniteSet(Requests)
  /\ \A b \in Beginnings :
       /\ b.world.exists /\ b.members[b.world.owner].role = PJ
       /\ b.world.players = Cardinality({u \in Users : b.members[u].role = Hrac})

VARIABLES
  world, members, applications, invites,
  replicaSet, \* does the database have transactions?
  req,        \* each request's program counter and what it has read
  admitted,   \* history: everyone who has ever been a member
  orphaned,   \* history: an owner without a membership was left on record
  uncounted   \* history: a player came or went without the counter

data == <<world, members, applications, invites>>
worldHistory == <<admitted, orphaned, uncounted>>
worldVars == <<data, replicaSet, req, worldHistory>>

RoleOf(u) == members[u].role
IsMember(u) == RoleOf(u) # Nobody

WorldInit ==
  /\ \E b \in Beginnings :
       /\ world = b.world /\ members = b.members /\ applications = b.applications
       /\ replicaSet = b.replicaSet
       /\ invites = [i \in InviteIds |-> IF i \in OldInvites THEN b.invites[i]
                      ELSE [kind |-> "none", user |-> world.owner, used |-> 0,
                            max |-> 0, late |-> FALSE, status |-> "pending"]]
  /\ \E plan \in Plans :
       req = [r \in Requests |->
                [op |-> plan[r], pc |-> "start", owner |-> world.owner,
                 copy |-> NoMember, old |-> NoMember, delta |-> 0,
                 answer |-> "none"]]
  /\ admitted = {u \in Users : IsMember(u)}
  /\ orphaned = FALSE /\ uncounted = FALSE

-----------------------------------------------------------------------------
Op(r) == req[r].op
Is(r, kind, place) == Op(r).kind = kind /\ req[r].pc = place

Goto(r, place) == req' = [req EXCEPT ![r].pc = place]

Finish(r, answer) ==
  req' = [req EXCEPT ![r].pc = "done", ![r].answer = answer, ![r].delta = 0,
                     ![r].copy = NoMember, ![r].old = NoMember]

Keep(place, r) == Goto(r, place) /\ UNCHANGED <<data, worldHistory>>
Refuse(r) == Finish(r, "refused") /\ UNCHANGED <<data, worldHistory>>

(* The world as a request has read it: only its owner is used later. *)
SeeWorld(r, place) ==
  /\ req' = [req EXCEPT ![r].pc = place, ![r].owner = world.owner]
  /\ UNCHANGED <<data, worldHistory>>

SeeMember(r, u, place) ==
  /\ req' = [req EXCEPT ![r].pc = place, ![r].copy = members[u]]
  /\ UNCHANGED <<data, worldHistory>>

Running == world.exists /\ ~world.deleted

CanAdminWorld(u) == u \in Admins \/ RoleOf(u) >= PJ
CanManageMembers(u) == CanAdminWorld(u) \/ RoleOf(u) >= PomocnyPJ
CanEditWorldData(u) == CanManageMembers(u) \/ RoleOf(u) >= Korektor

(* assertCanModerateAccessRequests, the owner as read with the world. *)
Moderates(r) == CanAdminWorld(Op(r).by) \/ req[r].owner = Op(r).by

-----------------------------------------------------------------------------
(* Commands on memberships.  (userId, worldId) is unique. *)
Insert(r, u, role) ==
  /\ members' = [members EXCEPT ![u] = [role |-> role, id |-> r]]
  /\ admitted' = admitted \cup {u}
  /\ uncounted' = (uncounted \/ role = Hrac)
  /\ UNCHANGED <<world, invites, orphaned>>

(* update(id, {role}): no document of that id, no effect. *)
WriteRole(u, id, role) ==
  LET there == IsMember(u) /\ members[u].id = id IN
  /\ members' = IF there THEN [members EXCEPT ![u].role = role] ELSE members
  /\ uncounted' = (uncounted \/ (there /\ (RoleOf(u) = Hrac) # (role = Hrac)))
  /\ UNCHANGED <<world, applications, invites, admitted, orphaned>>

(***************************************************************************)
(* joinPublic.                                                             *)
(***************************************************************************)
Join(r) ==
  /\ Is(r, "join", "start")
  /\ IF Running /\ world.mode = "public" THEN Keep("member", r) ELSE Refuse(r)

(* Neither a member nor an applicant.  The quota of worlds per user may    *)
(* refuse as well: it depends on the other worlds.                         *)
JoinCheck(r) ==
  LET u == Op(r).by IN
  /\ Is(r, "join", "member")
  /\ \/ ~IsMember(u) /\ ~applications[u].open /\ Keep("save", r)
     \/ Refuse(r)

JoinSave(r) ==
  LET u == Op(r).by IN
  /\ Is(r, "join", "save")
  /\ \/ /\ ~IsMember(u) /\ Insert(r, u, Ctenar) /\ UNCHANGED applications
        /\ Finish(r, "ok")
     \/ /\ IsMember(u) /\ Finish(r, "failed") /\ UNCHANGED <<data, worldHistory>>

(***************************************************************************)
(* requestAccess and cancelAccessRequest.                                  *)
(***************************************************************************)
RequestAccess(r) ==
  /\ Is(r, "apply", "start")
  /\ IF Running /\ world.mode = "open" THEN Keep("member", r) ELSE Refuse(r)

RequestCheck(r) ==
  /\ Is(r, "apply", "member")
  /\ \/ ~IsMember(Op(r).by) /\ Keep("create", r)
     \/ Refuse(r)

RequestCreate(r) ==
  LET u == Op(r).by IN
  /\ Is(r, "apply", "create")
  /\ \/ /\ ~applications[u].open /\ Finish(r, "ok")
        /\ applications' = [applications EXCEPT ![u] =
             [open |-> TRUE, draft |-> Op(r).draft, id |-> r]]
        /\ UNCHANGED <<world, members, invites, worldHistory>>
     \/ applications[u].open /\ Refuse(r)

(* The application a request has found, by its id. *)
FindApplication(r, u, place) ==
  IF applications[u].open
  THEN /\ req' = [req EXCEPT ![r].pc = place,
                             ![r].copy = [NoMember EXCEPT !.id = applications[u].id]]
       /\ UNCHANGED <<data, worldHistory>>
  ELSE Refuse(r)

Found(r, u) == applications[u].open /\ applications[u].id = req[r].copy.id

DropApplication(r, u) ==
  /\ applications' = IF Found(r, u)
                     THEN [applications EXCEPT ![u] = NoApplication]
                     ELSE applications
  /\ UNCHANGED <<world, members, invites, worldHistory>>

CancelFind(r) ==
  Is(r, "cancel", "start") /\ FindApplication(r, Op(r).by, "drop")

CancelDrop(r) ==
  Is(r, "cancel", "drop") /\ DropApplication(r, Op(r).by) /\ Finish(r, "ok")

(***************************************************************************)
(* approveAccessRequest and rejectAccessRequest.                           *)
(***************************************************************************)
ApproveRead(r) ==
  /\ Is(r, "approve", "start")
  /\ IF Running THEN SeeWorld(r, "rights") ELSE Refuse(r)

ApproveFind(r) ==
  /\ Is(r, "approve", "rights")
  /\ \/ ~Moderates(r) /\ Refuse(r)
     \/ /\ Moderates(r)
        /\ FindApplication(r, Op(r).on,
             IF applications[Op(r).on].draft THEN "page"
             ELSE IF replicaSet THEN "tx" ELSE "save")

(* Both writes in one transaction; a member already there aborts it. *)
ApproveTx(r) ==
  LET u == Op(r).on IN
  /\ Is(r, "approve", "tx")
  /\ \/ /\ ~IsMember(u) /\ Insert(r, u, Ctenar) /\ Finish(r, "ok")
        /\ applications' = IF Found(r, u)
                           THEN [applications EXCEPT ![u] = NoApplication]
                           ELSE applications
     \/ IsMember(u) /\ Keep("existing", r)

(* approveAccessRequestSequentialFallback. *)
ApproveSave(r) ==
  LET u == Op(r).on IN
  /\ Is(r, "approve", "save")
  /\ \/ ~IsMember(u) /\ Insert(r, u, Ctenar) /\ UNCHANGED applications
        /\ Goto(r, "drop")
     \/ IsMember(u) /\ Keep("existing", r)

(* The membership that was in the way; without one the error is thrown on. *)
ApproveExisting(r) ==
  /\ Is(r, "approve", "existing")
  /\ IF IsMember(Op(r).on) THEN Keep("drop", r)
     ELSE Finish(r, "failed") /\ UNCHANGED <<data, worldHistory>>

(* Mutant: the application is taken out of the queue first. *)
ApprovePageLast(r) ==
  /\ Is(r, "approve", "page") /\ DropApplication(r, Op(r).on)
  /\ Goto(r, "saveDraft") \/ Finish(r, "failed")

(* approveAccessRequestWithCharacter: the page, which may be refused ... *)
ApprovePage(r) ==
  /\ Is(r, "approve", "page") /\ UNCHANGED <<data, worldHistory>>
  /\ Goto(r, "saveDraft") \/ Finish(r, "failed")

(* ... then a player, or the member already there made one. *)
ApproveSaveDraft(r) ==
  LET u == Op(r).on IN
  /\ Is(r, "approve", "saveDraft")
  /\ \/ ~IsMember(u) /\ Insert(r, u, Hrac) /\ UNCHANGED applications
        /\ Goto(r, "drop")
     \/ IsMember(u) /\ Keep("clash", r)

ApproveClash(r) ==
  /\ Is(r, "approve", "clash") /\ UNCHANGED <<data, worldHistory>>
  /\ IF IsMember(Op(r).on)
     THEN req' = [req EXCEPT ![r].pc = "raise", ![r].old = members[Op(r).on]]
     ELSE Finish(r, "failed")

ApproveRaise(r) ==
  /\ Is(r, "approve", "raise") /\ Goto(r, "drop")
  /\ WriteRole(Op(r).on, req[r].old.id, Hrac)

ApproveDrop(r) ==
  Is(r, "approve", "drop") /\ DropApplication(r, Op(r).on) /\ Finish(r, "ok")

RejectRead(r) ==
  /\ Is(r, "reject", "start")
  /\ IF Running THEN SeeWorld(r, "rights") ELSE Refuse(r)

RejectFind(r) ==
  /\ Is(r, "reject", "rights")
  /\ \/ ~Moderates(r) /\ Refuse(r)
     \/ Moderates(r) /\ FindApplication(r, Op(r).on, "drop")

RejectDrop(r) ==
  /\ Is(r, "reject", "drop") /\ DropApplication(r, Op(r).on)
  /\ Finish(r, IF Found(r, Op(r).on) THEN "ok" ELSE "refused")

-----------------------------------------------------------------------------
(***************************************************************************)
(* Invitations: to a user, or a link anyone may follow.                    *)
(***************************************************************************)
InviteRead(r) ==
  /\ Is(r, "invite", "start")
  /\ IF Running THEN SeeWorld(r, "rights") ELSE Refuse(r)

Invited(u) == {i \in InviteIds : /\ invites[i].kind = "user"
                                /\ invites[i].user = u
                                /\ invites[i].status = "pending"}

ForUser(r) == ~Op(r).draft   \* an operation "invite" with draft makes a link

InviteCheck(r) ==
  /\ Is(r, "invite", "rights")
  /\ IF Moderates(r) /\ (ForUser(r) => ~IsMember(Op(r).on) /\ Invited(Op(r).on) = {})
     THEN Keep("create", r) ELSE Refuse(r)

(* One pending invitation per user: a partial unique index. *)
InviteCreate(r) ==
  /\ Is(r, "invite", "create")
  /\ \/ /\ ForUser(r) => Invited(Op(r).on) = {}
        /\ invites' = [invites EXCEPT ![r] =
             [kind |-> IF ForUser(r) THEN "user" ELSE "link", user |-> Op(r).on,
              used |-> 0, max |-> 1, late |-> FALSE, status |-> "pending"]]
        /\ Finish(r, "ok") /\ UNCHANGED <<world, members, applications, worldHistory>>
     \/ ForUser(r) /\ Invited(Op(r).on) # {} /\ Refuse(r)

SetStatus(i, status) ==
  /\ invites' = [invites EXCEPT ![i].status = status]
  /\ UNCHANGED <<world, members, applications, worldHistory>>

RevokeRead(r) ==
  /\ Is(r, "revoke", "start")
  /\ IF world.exists THEN SeeWorld(r, "rights") ELSE Refuse(r)

RevokeFind(r) ==
  /\ Is(r, "revoke", "rights")
  /\ IF Moderates(r) /\ invites[Op(r).invite].kind # "none"
     THEN Keep("set", r) ELSE Refuse(r)

RevokeSet(r) ==
  Is(r, "revoke", "set") /\ SetStatus(Op(r).invite, "revoked") /\ Finish(r, "ok")

Mine(r) == invites[Op(r).invite].kind = "user" /\ invites[Op(r).invite].user = Op(r).by

(* acceptUserInvite reads neither the world nor the day the invitation ends. *)
AcceptFind(r) ==
  /\ Is(r, "accept", "start")
  /\ IF Mine(r) /\ invites[Op(r).invite].status = "pending"
     THEN Keep("save", r) ELSE Refuse(r)

(* createCtenarMembership: a new member, or the one already there. *)
CreateCtenar(r, place) ==
  LET u == Op(r).by IN
  \/ ~IsMember(u) /\ Insert(r, u, Ctenar) /\ UNCHANGED applications
     /\ Goto(r, place)
  \/ IsMember(u) /\ Keep("existing", r)

Existing(r, place) ==
  IF IsMember(Op(r).by) THEN Keep(place, r)
  ELSE Finish(r, "failed") /\ UNCHANGED <<data, worldHistory>>

AcceptSave(r) == Is(r, "accept", "save") /\ CreateCtenar(r, "set")
AcceptExisting(r) == Is(r, "accept", "existing") /\ Existing(r, "set")
AcceptSet(r) ==
  Is(r, "accept", "set") /\ SetStatus(Op(r).invite, "accepted") /\ Finish(r, "ok")

DeclineFind(r) ==
  /\ Is(r, "decline", "start")
  /\ \/ ~Mine(r) /\ Refuse(r)
     \/ Mine(r) /\ invites[Op(r).invite].status = "pending" /\ Keep("set", r)
     \/ /\ Mine(r) /\ invites[Op(r).invite].status # "pending"
        /\ Finish(r, "ok") /\ UNCHANGED <<data, worldHistory>>

DeclineSet(r) ==
  Is(r, "decline", "set") /\ SetStatus(Op(r).invite, "declined") /\ Finish(r, "ok")

(* acceptLinkInvite. *)
Exhausted(i) == invites[i].used >= invites[i].max

FollowFind(r) ==
  LET i == Op(r).invite
      live == invites[i].kind = "link" /\ invites[i].status = "pending"
  IN
  /\ Is(r, "follow", "start")
  /\ \/ ~live /\ Refuse(r)
     \/ live /\ invites[i].late /\ Keep("late", r)
     \/ live /\ ~invites[i].late /\ Exhausted(i) /\ Refuse(r)
     \/ live /\ ~invites[i].late /\ ~Exhausted(i) /\ Keep("world", r)

FollowLate(r) ==
  Is(r, "follow", "late") /\ SetStatus(Op(r).invite, "expired") /\ Finish(r, "refused")

FollowWorld(r) ==
  Is(r, "follow", "world") /\ IF Running THEN Keep("member", r) ELSE Refuse(r)

FollowMember(r) ==
  /\ Is(r, "follow", "member")
  /\ IF ~IsMember(Op(r).by) THEN Keep("save", r) ELSE Refuse(r)

FollowSave(r) == Is(r, "follow", "save") /\ CreateCtenar(r, "use")
FollowExisting(r) == Is(r, "follow", "existing") /\ Existing(r, "use")

(* incrementUsedCount, and then the last use closes the link. *)
FollowUse(r) ==
  LET i == Op(r).invite IN
  /\ Is(r, "follow", "use")
  /\ invites' = [invites EXCEPT ![i].used = @ + 1]
  /\ IF invites[i].used + 1 >= invites[i].max THEN Goto(r, "close")
     ELSE Finish(r, "ok")
  /\ UNCHANGED <<world, members, applications, worldHistory>>

FollowClose(r) ==
  Is(r, "follow", "close") /\ SetStatus(Op(r).invite, "expired") /\ Finish(r, "ok")

-----------------------------------------------------------------------------
(***************************************************************************)
(* updateMemberRole.                                                       *)
(***************************************************************************)
RoleMember(r) ==
  /\ Is(r, "role", "start")
  /\ IF IsMember(Op(r).on) THEN SeeMember(r, Op(r).on, "world") ELSE Refuse(r)

RoleWorld(r) ==
  Is(r, "role", "world") /\ IF Running THEN SeeWorld(r, "rights") ELSE Refuse(r)

(* R-03: who is not the owner gives and changes only roles below his own. *)
BelowOwn(r) ==
  Op(r).role < RoleOf(Op(r).by) /\ req[r].copy.role < RoleOf(Op(r).by)

RoleRights(r) ==
  /\ Is(r, "role", "rights")
  /\ IF /\ CanManageMembers(Op(r).by)
        /\ req[r].owner # Op(r).on
        /\ req[r].owner = Op(r).by \/ BelowOwn(r)
     THEN Keep("write", r) ELSE Refuse(r)

CountAs(role) == IF role = Hrac THEN 1 ELSE 0

(* Mutant: before RC-R2, wasPlayer comes from the first read. *)
RoleWriteStale(r) ==
  LET u == Op(r).on
      there == IsMember(u) /\ members[u].id = req[r].copy.id
      delta == CountAs(Op(r).role) - CountAs(req[r].copy.role)
  IN
  /\ Is(r, "role", "write")
  /\ \/ ~there /\ Refuse(r)
     \/ /\ there
        /\ members' = [members EXCEPT ![u].role = Op(r).role]
        /\ UNCHANGED <<world, applications, invites, worldHistory>>
        /\ IF delta = 0 THEN Finish(r, "ok")
           ELSE req' = [req EXCEPT ![r].pc = "count", ![r].delta = delta]

(* updateRoleIfChanged: the counter follows the role that was replaced. *)
RoleWrite(r) ==
  LET u == Op(r).on
      hit == /\ IsMember(u) /\ members[u].id = req[r].copy.id
             /\ RoleOf(u) # Op(r).role
      delta == CountAs(Op(r).role) - CountAs(RoleOf(u))
  IN
  /\ Is(r, "role", "write")
  /\ \/ ~hit /\ Keep("current", r)
     \/ /\ hit
        /\ members' = [members EXCEPT ![u].role = Op(r).role]
        /\ UNCHANGED <<world, applications, invites, worldHistory>>
        /\ IF delta = 0 THEN Finish(r, "ok")
           ELSE req' = [req EXCEPT ![r].pc = "count", ![r].delta = delta]

RoleCurrent(r) ==
  LET u == Op(r).on IN
  /\ Is(r, "role", "current") /\ UNCHANGED <<data, worldHistory>>
  /\ Finish(r, IF IsMember(u) /\ members[u].id = req[r].copy.id
               THEN "ok" ELSE "refused")

(* $inc playerCount; a world that is gone is not counted. *)
CountPlayers(r) ==
  /\ req[r].pc = "count"
  /\ world' = IF world.exists THEN [world EXCEPT !.players = @ + req[r].delta]
              ELSE world
  /\ Finish(r, "ok") /\ UNCHANGED <<members, applications, invites, worldHistory>>

-----------------------------------------------------------------------------
(***************************************************************************)
(* leave: on one's own, or put out by those who manage members.            *)
(***************************************************************************)
LeaveMember(r) ==
  /\ Is(r, "leave", "start")
  /\ IF IsMember(Op(r).on) THEN SeeMember(r, Op(r).on, "world") ELSE Refuse(r)

LeaveWorld(r) ==
  Is(r, "leave", "world") /\ IF world.exists THEN SeeWorld(r, "rights") ELSE Refuse(r)

(* Only who leaves on his own is compared with the owner. *)
LeaveRights(r) ==
  /\ Is(r, "leave", "rights")
  /\ IF /\ Op(r).by # Op(r).on => CanManageMembers(Op(r).by)
        /\ ~(Op(r).by = Op(r).on /\ req[r].owner = Op(r).by)
     THEN Keep("delete", r) ELSE Refuse(r)

LeaveDelete(r) ==
  LET u == Op(r).on
      there == IsMember(u) /\ members[u].id = req[r].copy.id
      player == req[r].copy.role = Hrac
  IN
  /\ Is(r, "leave", "delete")
  /\ members' = IF there THEN [members EXCEPT ![u] = NoMember] ELSE members
  /\ orphaned' = (orphaned \/ (there /\ world.owner = u))
  /\ uncounted' = (uncounted \/ (there /\ RoleOf(u) = Hrac) # player)
  /\ UNCHANGED <<world, applications, invites, admitted>>
  /\ IF player THEN req' = [req EXCEPT ![r].pc = "count", ![r].delta = -1]
     ELSE Finish(r, "ok")

-----------------------------------------------------------------------------
(***************************************************************************)
(* transferOwnership.                                                      *)
(***************************************************************************)
TransferRead(r) ==
  /\ Is(r, "transfer", "start")
  /\ IF world.exists /\ world.owner = Op(r).by /\ Op(r).on # Op(r).by
     THEN SeeWorld(r, "member") ELSE Refuse(r)

TransferMember(r) ==
  /\ Is(r, "transfer", "member")
  /\ \/ ~IsMember(Op(r).on) /\ Refuse(r)
     \/ /\ IsMember(Op(r).on)
        /\ SeeMember(r, Op(r).on, IF RoleOf(Op(r).on) = PJ THEN "old" ELSE "promote")

TransferPromote(r) ==
  /\ Is(r, "transfer", "promote") /\ Goto(r, "old")
  /\ WriteRole(Op(r).on, req[r].copy.id, PJ)

TransferOld(r) ==
  LET old == members[req[r].owner] IN
  /\ Is(r, "transfer", "old") /\ UNCHANGED <<data, worldHistory>>
  /\ req' = [req EXCEPT ![r].old = old,
                        ![r].pc = IF old.role = PJ THEN "demote" ELSE "owner"]

TransferDemote(r) ==
  /\ Is(r, "transfer", "demote") /\ Goto(r, "owner")
  /\ WriteRole(req[r].owner, req[r].old.id, PomocnyPJ)

TransferOwner(r) ==
  /\ Is(r, "transfer", "owner") /\ UNCHANGED <<members, applications, invites, worldHistory>>
  /\ IF world.exists
     THEN world' = [world EXCEPT !.owner = Op(r).on] /\ Goto(r, "recheck")
     ELSE UNCHANGED world /\ Finish(r, "refused")

(* Mutant: before RC-R3, nobody looks again. *)
TransferNoRecheck(r) ==
  /\ Is(r, "transfer", "recheck") /\ UNCHANGED <<data, worldHistory>>
  /\ Finish(r, "ok")

(* RC-R3: is the new owner still a member? *)
TransferRecheck(r) ==
  /\ Is(r, "transfer", "recheck") /\ UNCHANGED <<data, worldHistory>>
  /\ IF IsMember(Op(r).on) THEN Finish(r, "ok") ELSE Goto(r, "giveBack")

(***************************************************************************)
(* The rollback looks neither at the owner on record nor at the old one.   *)
(* Each of its two commands may fail, which is swallowed.                  *)
(***************************************************************************)
TransferGiveBack(r) ==
  /\ Is(r, "transfer", "giveBack")
  /\ \/ /\ world' = IF world.exists THEN [world EXCEPT !.owner = req[r].owner] ELSE world
        /\ orphaned' = (orphaned \/ ~IsMember(req[r].owner))
     \/ /\ UNCHANGED world
        /\ orphaned' = (orphaned \/ (world.owner = Op(r).on /\ ~IsMember(Op(r).on)))
  /\ UNCHANGED <<members, applications, invites, admitted, uncounted>>
  /\ IF req[r].old.role = PJ THEN Goto(r, "regrade") ELSE Finish(r, "refused")

TransferRegrade(r) ==
  /\ Is(r, "transfer", "regrade")
  /\ \/ WriteRole(req[r].owner, req[r].old.id, PJ) /\ Finish(r, "refused")
     \/ Refuse(r)

-----------------------------------------------------------------------------
(***************************************************************************)
(* Deleting, restoring and purging the world; accounts that close.         *)
(***************************************************************************)
DeleteRead(r) ==
  /\ Is(r, "delete", "start")
  /\ IF world.exists /\ ~world.deleted THEN Keep("rights", r) ELSE Refuse(r)

DeleteRights(r) ==
  /\ Is(r, "delete", "rights")
  /\ IF CanAdminWorld(Op(r).by) THEN Keep("write", r) ELSE Refuse(r)

MarkDeleted ==
  /\ world' = IF world.exists THEN [world EXCEPT !.deleted = TRUE, !.old = FALSE]
              ELSE world
  /\ UNCHANGED <<members, applications, invites, worldHistory>>

DeleteWrite(r) == Is(r, "delete", "write") /\ MarkDeleted /\ Finish(r, "ok")

RestoreRead(r) ==
  /\ Is(r, "restore", "start")
  /\ IF Op(r).by \in Admins /\ world.exists /\ world.deleted /\ ~world.old
     THEN Keep("write", r) ELSE Refuse(r)

(* A new owner, when one is named (by # on), is taken as given. *)
RestoreWrite(r) ==
  LET owner == IF Op(r).on = Op(r).by THEN world.owner ELSE Op(r).on IN
  /\ Is(r, "restore", "write") /\ Finish(r, "ok")
  /\ world' = IF world.exists
              THEN [world EXCEPT !.deleted = FALSE, !.old = FALSE, !.owner = owner]
              ELSE world
  /\ orphaned' = (orphaned \/ ~IsMember(owner))
  /\ UNCHANGED <<members, applications, invites, admitted, uncounted>>

(* onOwnerAccountHardDeleted. *)
CloseAccount(r) ==
  /\ Is(r, "closeAccount", "start")
  /\ IF Running /\ world.owner = Op(r).on THEN Keep("write", r) ELSE Refuse(r)

CloseAccountWrite(r) ==
  Is(r, "closeAccount", "write") /\ MarkDeleted /\ Finish(r, "ok")

(* assessPJHandover: the only PJ is about to go, a helper takes over. *)
Helpers == {u \in Users : RoleOf(u) = PomocnyPJ}
OtherPJs(u) == {v \in Users \ {u} : RoleOf(v) = PJ}

HandoverAssess(r) ==
  LET u == Op(r).on IN
  /\ Is(r, "handover", "start")
  /\ \/ /\ RoleOf(u) = PJ /\ OtherPJs(u) = {} /\ Op(r).by \in Helpers
        /\ Keep("find", r)
     \/ RoleOf(u) = PJ /\ OtherPJs(u) = {} /\ Helpers = {} /\ Refuse(r)
     \/ /\ RoleOf(u) # PJ \/ OtherPJs(u) # {}
        /\ Finish(r, "ok") /\ UNCHANGED <<data, worldHistory>>

(* executePJHandover; `by' is the helper the plan names. *)
HandoverFind(r) ==
  /\ Is(r, "handover", "find")
  /\ IF IsMember(Op(r).by) THEN SeeMember(r, Op(r).by, "write")
     ELSE Finish(r, "ok") /\ UNCHANGED <<data, worldHistory>>

HandoverWrite(r) ==
  /\ Is(r, "handover", "write") /\ Finish(r, "ok")
  /\ WriteRole(Op(r).by, req[r].copy.id, PJ)

(* The cron selects worlds whose 30 days are over; RC-D7 looks again. *)
PurgeSelect(r) ==
  /\ Is(r, "purge", "start")
  /\ IF world.exists /\ world.deleted /\ world.old THEN Keep("check", r) ELSE Refuse(r)

PurgeCheck(r) ==
  /\ Is(r, "purge", "check")
  /\ IF world.exists /\ world.deleted THEN Keep("applications", r) ELSE Refuse(r)

(* The cascade, in the order of WORLD_SCOPED_COLLECTIONS; no invitations.  *)
(* A command that fails is logged and the next one is run (safeDelete).    *)
PurgeApplications(r) ==
  /\ Is(r, "purge", "applications") /\ Goto(r, "members")
  /\ applications' \in {applications, [u \in Users |-> NoApplication]}
  /\ UNCHANGED <<world, members, invites, worldHistory>>

PurgeMembers(r) ==
  /\ Is(r, "purge", "members") /\ Goto(r, "world")
  /\ members' \in {members, [u \in Users |-> NoMember]}
  /\ orphaned' = TRUE /\ uncounted' = TRUE
  /\ UNCHANGED <<world, applications, invites, admitted>>

PurgeWorld(r) ==
  /\ Is(r, "purge", "world") /\ Finish(r, "ok")
  /\ world' \in {world, [world EXCEPT !.exists = FALSE]}
  /\ UNCHANGED <<members, applications, invites, worldHistory>>

(* update, of which only accessMode matters here. *)
UpdateRead(r) ==
  Is(r, "mode", "start") /\ IF Running THEN SeeWorld(r, "rights") ELSE Refuse(r)

UpdateWrite(r) ==
  /\ Is(r, "mode", "rights")
  /\ \/ ~CanEditWorldData(Op(r).by) /\ Refuse(r)
     \/ /\ CanEditWorldData(Op(r).by) /\ Finish(r, "ok")
        /\ world' = IF world.exists THEN [world EXCEPT !.mode = Op(r).mode] ELSE world
        /\ UNCHANGED <<members, applications, invites, worldHistory>>

-----------------------------------------------------------------------------
(* The process dies in the middle of a request. *)
RequestDies(r) ==
  /\ Crashes /\ req[r].pc \notin {"start", "done"}
  /\ uncounted' = (uncounted \/ req[r].pc = "count")
  /\ orphaned' = (orphaned \/ (Op(r).kind = "transfer"
                               /\ req[r].pc \in {"recheck", "giveBack"}))
  /\ Finish(r, "crashed") /\ UNCHANGED <<data, admitted>>

(* The 30 days go by. *)
MonthPasses ==
  /\ world.deleted /\ ~world.old /\ world' = [world EXCEPT !.old = TRUE]
  /\ UNCHANGED <<members, applications, invites, req, worldHistory>>

Entering(r) ==
  \/ Join(r) \/ JoinCheck(r) \/ JoinSave(r)
  \/ RequestAccess(r) \/ RequestCheck(r) \/ RequestCreate(r)
  \/ CancelFind(r) \/ CancelDrop(r)
  \/ ApproveRead(r) \/ ApproveFind(r) \/ ApproveTx(r) \/ ApproveSave(r)
  \/ ApproveExisting(r) \/ ApprovePage(r) \/ ApproveSaveDraft(r)
  \/ ApproveClash(r) \/ ApproveRaise(r) \/ ApproveDrop(r)
  \/ RejectRead(r) \/ RejectFind(r) \/ RejectDrop(r)

Inviting(r) ==
  \/ InviteRead(r) \/ InviteCheck(r) \/ InviteCreate(r)
  \/ RevokeRead(r) \/ RevokeFind(r) \/ RevokeSet(r)
  \/ AcceptFind(r) \/ AcceptSave(r) \/ AcceptExisting(r) \/ AcceptSet(r)
  \/ DeclineFind(r) \/ DeclineSet(r)
  \/ FollowFind(r) \/ FollowLate(r) \/ FollowWorld(r) \/ FollowMember(r)
  \/ FollowSave(r) \/ FollowExisting(r) \/ FollowUse(r) \/ FollowClose(r)

Governing(r) ==
  \/ RoleMember(r) \/ RoleWorld(r) \/ RoleRights(r) \/ RoleWrite(r)
  \/ RoleCurrent(r) \/ CountPlayers(r)
  \/ LeaveMember(r) \/ LeaveWorld(r) \/ LeaveRights(r) \/ LeaveDelete(r)
  \/ TransferRead(r) \/ TransferMember(r) \/ TransferPromote(r)
  \/ TransferOld(r) \/ TransferDemote(r) \/ TransferOwner(r)
  \/ TransferRecheck(r) \/ TransferGiveBack(r) \/ TransferRegrade(r)
  \/ HandoverAssess(r) \/ HandoverFind(r) \/ HandoverWrite(r)

Ending(r) ==
  \/ DeleteRead(r) \/ DeleteRights(r) \/ DeleteWrite(r)
  \/ RestoreRead(r) \/ RestoreWrite(r)
  \/ CloseAccount(r) \/ CloseAccountWrite(r)
  \/ PurgeSelect(r) \/ PurgeCheck(r) \/ PurgeApplications(r)
  \/ PurgeMembers(r) \/ PurgeWorld(r)
  \/ UpdateRead(r) \/ UpdateWrite(r)

WorldNext ==
  /\ \/ \E r \in Requests : Entering(r) \/ Inviting(r) \/ Governing(r) \/ Ending(r)
                            \/ RequestDies(r)
     \/ MonthPasses
  /\ UNCHANGED replicaSet

WorldSpec == WorldInit /\ [][WorldNext]_worldVars

-----------------------------------------------------------------------------
WorldPlaces == {"start", "member", "save", "create", "drop", "rights", "page",
                "tx", "existing", "saveDraft", "clash", "raise", "set", "late",
                "world", "use", "close", "write", "current", "count", "delete",
                "promote", "old", "demote", "owner", "recheck", "giveBack",
                "regrade", "find", "check", "applications", "members", "done"}

WorldTypeOK ==
  /\ world \in World /\ members \in [Users -> Membership]
  /\ applications \in [Users -> Application] /\ invites \in [InviteIds -> Invite]
  /\ replicaSet \in BOOLEAN
  /\ req \in [Requests -> [op: Operation, pc: WorldPlaces, owner: Users,
                           copy: Membership, old: Membership, delta: -1..1,
                           answer: {"none", "ok", "refused", "failed", "crashed"}]]
  /\ admitted \subseteq Users /\ orphaned \in BOOLEAN /\ uncounted \in BOOLEAN

(***************************************************************************)
(* What transferOwnership's second look (RC-R3) is for: whoever left while *)
(* the world was being handed to him does not stay its owner.  An owner    *)
(* without a membership is one who lost it as the owner, was named by an   *)
(* administrator, came back through a rollback after he had left, or was   *)
(* left by a transfer that died or whose rollback failed.                  *)
(***************************************************************************)
Rechecking ==
  \E r \in Requests : /\ Op(r).kind = "transfer" /\ Op(r).on = world.owner
                      /\ req[r].pc \in {"recheck", "giveBack"}

GhostExplained ==
  world.exists /\ ~IsMember(world.owner) => orphaned \/ Rechecking

(***************************************************************************)
(* DI-05 and RC-R2: playerCount is the number of players, up to increments *)
(* that are on their way.  The exceptions are those of the code: a player  *)
(* made by an approved draft, a player who becomes the owner or PJ without *)
(* updateMemberRole, a member whose role changed after leave had read it.  *)
(***************************************************************************)
Pending(delta) == Cardinality({r \in Requests : req[r].delta = delta})

PlayersCounted ==
  world.exists /\ ~uncounted =>
    world.players + Pending(1) - Pending(-1)
      = Cardinality({u \in Users : RoleOf(u) = Hrac})

(***************************************************************************)
(* An application leaves the queue only when its author has been let in,   *)
(* withdrew it or was rejected, whatever clashes or crashes in between.    *)
(***************************************************************************)
Steps(r, kinds) == Op(r).kind \in kinds /\ req'[r] # req[r]

ApplicantKept ==
  [][\A u \in Users :
       applications[u].open /\ ~applications'[u].open =>
         \/ u \in admitted'
         \/ \E r \in Requests : Steps(r, {"cancel", "reject", "purge"})]_worldVars

(***************************************************************************)
(* worlds.service.ts says that a world always has one owner who is a       *)
(* member.                                                                 *)
(***************************************************************************)
OwnerIsMember ==
  world.exists /\ ~world.deleted /\ (\A r \in Requests : req[r].pc \in {"start", "done"})
    => IsMember(world.owner)

=============================================================================
