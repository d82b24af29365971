----------------------------- MODULE MapOperations -----------------------------
(***************************************************************************)
(* MapOperationsService: the operations on one scene of the tactical map   *)
(* and their log.                                                          *)
(*                                                                         *)
(* apply reads the scene, decides (permission, precondition, inverse) on   *)
(* that snapshot, changes the scene with ONE atomic update, takes a number *)
(* from the scene's counter, appends a record to the log and broadcasts.   *)
(* Every one of these is a command of its own and other requests run       *)
(* between them.  undoLast applies the inverse of the user's last record   *)
(* the same way and then marks both records.                               *)
(*                                                                         *)
(* Operations that differ only in the field they write are one kind with   *)
(* the name of the field.  Left out are what goes beyond the scene (the    *)
(* memberships scene.deactivate clears, see SceneAssignment; the diary     *)
(* token.update mirrors hit points to; the blob an image leaves behind),   *)
(* other fields of a token, and combat.turn without a token, which the     *)
(* frontend no longer sends.                                               *)
(***************************************************************************)
EXTENDS Integers, Sequences, SequencesExt

CONSTANTS
  Requests,
  Users, Staff,      \* Staff \subseteq Users: PomocnyPJ and above
  TokenIds, Cells,
  Names, Values,     \* ids of everything else; contents
  Drawable,          \* a value of the field config: players may draw
  MaxHp,
  DiceLimit,         \* of diceRolls; 50 in the code
  InitialScene,
  Plans,             \* what the requests of a run do
  NoCombat, NoScene, NoPayload, NoRequest, Nothing,
  Faults             \* subset of {"crash", "io"}

(* npc: isNpc, and a bestiary token rather than a character of the world. *)
Token == [id: TokenIds, owner: Users, npc: BOOLEAN, locked: BOOLEAN,
          at: Cells, hp: Nat, template: Names \cup {Nothing}]

Order == Seq(TokenIds) \ {<<>>}

(* named: the effect itself, and not only the operation that adds it,     *)
(* carries the id of its token.                                            *)
EndOfTurnEffect == [id: Names \cup {Nothing}, named: BOOLEAN]

Combat == [round: Nat, current: TokenIds, order: Order, effects: Seq(EndOfTurnEffect)]

Override == {"unset", "locked", "free"}   \* playerStates[].isLocked

(* An effect, a drawing, a template, a wall or a light. *)
Element == [id: Names, by: Users, value: Values]
Edited == {"effects", "drawings", "npcTemplates"}   \* element by element
Lists == Edited \cup {"walls", "lights"}
Fields == {"name", "folder", "image", "config", "sounds", "hidden"}
Whitelists == {"activeCharacters", "activeBestie"}

Scene == [tokens: Seq(Token), combat: Combat \cup {NoCombat},
          locked: BOOLEAN, overrides: [Users -> Override],
          lists: [Lists -> Seq(Element)], fields: [Fields -> Values],
          allowed: [Whitelists -> SUBSET Names],
          fog: [enabled: BOOLEAN, revealed: SUBSET Cells],
          active: BOOLEAN, dice: Seq(Users)]

(* The payloads, by the code's operation types. *)
Payload ==
       [kind: {"token.add"}, token: Token]
  \cup [kind: {"token.move"}, id: TokenIds, at: Cells]
  \cup [kind: {"token.remove"}, id: TokenIds]
  \cup [kind: {"token.delta"}, id: TokenIds, delta: Int]  \* update, hpDelta
  \cup [kind: {"token.hp"}, id: TokenIds, hp: Int]        \* update, currentHp
  \cup [kind: {"scene.state"}, locked: BOOLEAN]
  \cup [kind: {"scene.playerState"}, user: Users, value: Override]
  \cup [kind: {"tokens.clear"}]
  \cup [kind: {"tokens.replace"}, tokens: Seq(Token),
        combat: Combat \cup {NoCombat}]
  \cup [kind: {"tokens.replace-npc"}, tokens: Seq(Token)]
  \cup [kind: {"combat.start"}, order: Order]
  \cup [kind: {"combat.turn"}, id: TokenIds, round: Nat]  \* 0: not given
  \cup [kind: {"combat.end"}]
  \cup [kind: {"combat.reorder"}, order: Order]
  \cup [kind: {"combat.effect.add"}, given: BOOLEAN, effect: EndOfTurnEffect]
  \cup [kind: {"combat.effect.remove"}, id: Names]
  \cup [kind: {"add"}, list: Edited, element: Element]
  \cup [kind: {"update"}, list: Edited \ {"drawings"}, id: Names, value: Values]
  \cup [kind: {"remove"}, list: Edited, id: Names]
  \cup [kind: {"replace"}, list: Lists, elements: Seq(Element)] \* and drawing.clear
  \cup [kind: {"set"}, field: Fields, value: Values]
  \cup [kind: {"allow", "disallow"}, list: Whitelists, id: Names]
  \cup [kind: {"fog.set"}, fog: [enabled: BOOLEAN, revealed: SUBSET Cells]]
  \cup [kind: {"fog.brush"}, reveal: BOOLEAN, hexes: SUBSET Cells]
  \cup [kind: {"scene.activate", "scene.deactivate"}]
  \cup [kind: {"dice.roll"}, by: Users, token: TokenIds \cup {Nothing}]

Operation == [kind: {"apply", "undo", "delete"}, user: Users,
              payload: Payload \cup {NoPayload}]

ASSUME MapAssumption ==
  /\ Staff \subseteq Users /\ MaxHp \in Nat \ {0} /\ DiceLimit \in Nat \ {0}
  /\ InitialScene \in Scene /\ Drawable \in Values
  /\ Plans \subseteq [Requests -> Operation]
  /\ \A plan \in Plans, r \in Requests :
       (plan[r].kind = "apply") = (plan[r].payload # NoPayload)
  /\ NoRequest \notin Requests /\ NoScene \notin Scene
  /\ NoCombat \notin Combat /\ NoPayload \notin Payload
  /\ Nothing \notin Names /\ Nothing \notin TokenIds
  /\ Faults \subseteq {"crash", "io"}

(***************************************************************************)
(* A record of the log.  A request appends at most one, so the request     *)
(* stands for its _id; seq = 0 when it has not been appended.              *)
(***************************************************************************)
Record == [seq: Nat, payload: Payload \cup {NoPayload},
           inverse: Payload \cup {NoPayload}, by: Users, undone: BOOLEAN]

Places == {"start", "load", "write", "allocate", "append", "emit",
           "mark", "markOwn", "settle", "done"}

Answers == {"none", "ok", "noop", "not_found", "forbidden", "refused", "failed",
            "nothing_to_undo", "unlogged", "unsent", "unmarked"}

VARIABLES
  scene,      \* the scene document, NoScene once it is deleted
  lastSeq,    \* its field lastSeqNumber
  log,        \* the collection mapOperations
  events,     \* the broadcasts map:operation
  req,        \* each request's program counter and local variables
  writes      \* history: the requests that wrote the scene, in that order

vars == <<scene, lastSeq, log, events, req, writes>>

Init ==
  /\ scene = InitialScene /\ lastSeq = 0 /\ events = {} /\ writes = <<>>
  /\ \E plan \in Plans :
       req = [r \in Requests |->
                [op |-> plan[r], pc |-> "start", snap |-> NoScene,
                 payload |-> NoPayload, inverse |-> NoPayload, seq |-> 0,
                 target |-> NoRequest, untold |-> FALSE, answer |-> "none"]]
  /\ log = [r \in Requests |->
              [seq |-> 0, payload |-> NoPayload, inverse |-> NoPayload,
               by |-> req[r].op.user, undone |-> FALSE]]

-----------------------------------------------------------------------------
Op(r) == req[r].op
User(r) == req[r].op.user
Logged(r) == log[r].seq > 0

Finish(r, answer) ==
  req' = [req EXCEPT ![r].pc = "done", ![r].answer = answer,
                     ![r].snap = NoScene]

(* $pull and Array.filter: the elements of S, in their order. *)
Kept(list, S) ==
  LET kept[n \in 0..Len(list)] ==
        IF n = 0 THEN <<>>
        ELSE IF list[n] \in S THEN Append(kept[n - 1], list[n]) ELSE kept[n - 1]
  IN kept[Len(list)]

Without(list, id) == Kept(list, {e \in Range(list) : e.id # id})
Npcs(tokens) == Kept(tokens, {t \in Range(tokens) : t.npc})
Pcs(tokens) == Kept(tokens, {t \in Range(tokens) : ~t.npc})

(* Position of the first token with this id, 0 when there is none. *)
Find(tokens, id) == SelectInSeq(tokens, LAMBDA t : t.id = id)
On(s, id) == Find(s.tokens, id) > 0
In(s, list, id) == Find(s.lists[list], id) > 0
ElementOf(s, list, id) == s.lists[list][Find(s.lists[list], id)]
TokenOf(s, id) == s.tokens[Find(s.tokens, id)]

Clamp(hp) == IF hp < 0 THEN 0 ELSE IF hp > MaxHp THEN MaxHp ELSE hp

-----------------------------------------------------------------------------
OwnToken(s, user, id) == On(s, id) /\ TokenOf(s, id).owner = user

(* assertCanDo: staff may do anything, a player little and with own tokens. *)
Locked(s, user) ==
  IF s.overrides[user] = "unset" THEN s.locked
                                 ELSE s.overrides[user] = "locked"

Authorized(s, user, p) ==
  \/ user \in Staff
  \/ /\ p.kind = "token.move"
     /\ OwnToken(s, user, p.id) /\ ~Locked(s, user)
  \/ /\ p.kind \in {"token.remove", "token.hp", "token.delta"}
     /\ OwnToken(s, user, p.id)
     /\ p.kind = "token.remove" \/ ~TokenOf(s, p.id).locked
  \/ /\ p.kind = "dice.roll" /\ p.by = user
     /\ p.token = Nothing \/ OwnToken(s, user, p.token)
  \/ /\ p.kind = "add" /\ p.list = "drawings"
     /\ s.fields["config"] = Drawable /\ p.element.by = user
  \/ /\ p.kind = "remove" /\ p.list = "drawings"
     /\ In(s, "drawings", p.id) => ElementOf(s, "drawings", p.id).by = user

(* What the validator refuses of what the service makes itself: an effect  *)
(* that is to be given back to no token.                                   *)
Valid(p) == p.kind = "combat.effect.add" => p.given

(* The checks applyAtomic makes on the snapshot.  "Must be a permutation"  *)
(* compares the lengths and looks for each id in the old order.            *)
Precondition(s, p) ==
  CASE p.kind = "token.delta" -> On(s, p.id) /\ TokenOf(s, p.id).npc
    [] p.kind = "combat.start" ->
         s.combat = NoCombat /\ \A i \in DOMAIN p.order : On(s, p.order[i])
    [] p.kind = "combat.turn" -> s.combat # NoCombat /\ On(s, p.id)
    [] p.kind = "combat.end" -> s.combat # NoCombat
    [] p.kind = "combat.reorder" ->
         /\ s.combat # NoCombat /\ Len(p.order) = Len(s.combat.order)
         /\ Range(p.order) \subseteq Range(s.combat.order)
    [] OTHER -> TRUE

(* Mutant: the undo of a clear forgets the combat. *)
TokensBack(s) ==
  [kind |-> "tokens.replace", tokens |-> s.tokens, combat |-> NoCombat]

(* The inverse of clear and replace: tokens and combat as they were. *)
ReplaceBack(s) ==
  [kind |-> "tokens.replace", tokens |-> s.tokens, combat |-> s.combat]

(* computeInverse; NoPayload (null) when there is nothing to go back to.   *)
TokenKinds == {"token.add", "token.move", "token.remove", "token.delta", "token.hp",
               "tokens.clear", "tokens.replace", "tokens.replace-npc"}

InverseOfToken(s, p) ==
  LET Of(inverse(_)) == IF On(s, p.id) THEN inverse(TokenOf(s, p.id)) ELSE NoPayload
  IN CASE p.kind = "token.add" -> [kind |-> "token.remove", id |-> p.token.id]
       [] p.kind = "token.move" -> Of(LAMBDA t : [p EXCEPT !.at = t.at])
       [] p.kind = "token.remove" -> Of(LAMBDA t : [kind |-> "token.add", token |-> t])
       [] p.kind \in {"token.delta", "token.hp"} ->
            Of(LAMBDA t : [kind |-> "token.hp", id |-> t.id, hp |-> t.hp])
       [] p.kind \in {"tokens.clear", "tokens.replace"} -> ReplaceBack(s)
       [] p.kind = "tokens.replace-npc" ->
            [p EXCEPT !.tokens = Npcs(s.tokens)]

CombatKinds == {"combat.start", "combat.turn", "combat.end", "combat.reorder",
                "combat.effect.add", "combat.effect.remove"}

InverseOfCombat(s, p) ==
  LET Of(inverse(_)) == IF s.combat = NoCombat THEN NoPayload ELSE inverse(s.combat)
      EffectBack(c) ==
        LET i == Find(c.effects, p.id)
        IN IF i = 0 THEN NoPayload
                    ELSE [kind |-> "combat.effect.add",
                          given |-> c.effects[i].named, effect |-> c.effects[i]]
  IN CASE p.kind = "combat.start" -> [kind |-> "combat.end"]
       [] p.kind = "combat.turn" ->
            Of(LAMBDA c : [p EXCEPT !.id = c.current, !.round = 0])
       [] p.kind = "combat.end" ->
            Of(LAMBDA c : [kind |-> "combat.start", order |-> c.order])
       [] p.kind = "combat.reorder" -> Of(LAMBDA c : [p EXCEPT !.order = c.order])
       [] p.kind = "combat.effect.add" ->
            IF p.effect.id = Nothing THEN NoPayload
               ELSE [kind |-> "combat.effect.remove", id |-> p.effect.id]
       [] p.kind = "combat.effect.remove" -> Of(EffectBack)

ListKinds == {"add", "update", "remove", "replace"}

InverseOfList(s, p) ==
  LET Of(inverse(_)) ==
        IF In(s, p.list, p.id) THEN inverse(ElementOf(s, p.list, p.id)) ELSE NoPayload
  IN CASE p.kind = "add" -> [kind |-> "remove", list |-> p.list, id |-> p.element.id]
       [] p.kind = "update" -> Of(LAMBDA e : [p EXCEPT !.value = e.value])
       [] p.kind = "remove" ->
            Of(LAMBDA e : [kind |-> "add", list |-> p.list, element |-> e])
       [] p.kind = "replace" -> [p EXCEPT !.elements = s.lists[p.list]]

InverseOfWhitelist(s, p) ==
  LET listed == p.id \in s.allowed[p.list] IN
  CASE p.kind = "allow" /\ ~listed -> [p EXCEPT !.kind = "disallow"]
    [] p.kind = "disallow" /\ listed -> [p EXCEPT !.kind = "allow"]
    [] OTHER -> NoPayload

(* An image cannot be undone: the old one is being deleted. *)
InverseOfField(s, p) ==
  CASE p.kind = "scene.state" -> [p EXCEPT !.locked = s.locked]
    [] p.kind = "scene.playerState" -> [p EXCEPT !.value = s.overrides[p.user]]
    [] p.kind = "set" ->
         IF p.field = "image" THEN NoPayload ELSE [p EXCEPT !.value = s.fields[p.field]]
    [] p.kind = "fog.set" -> [p EXCEPT !.fog = s.fog]
    [] p.kind = "fog.brush" -> [p EXCEPT !.reveal = ~p.reveal]
    [] p.kind = "scene.activate" -> [kind |-> "scene.deactivate"]
    [] p.kind = "scene.deactivate" -> [kind |-> "scene.activate"]
    [] p.kind = "dice.roll" -> NoPayload

InverseOp(s, p) ==
  CASE p.kind \in TokenKinds -> InverseOfToken(s, p)
    [] p.kind \in CombatKinds -> InverseOfCombat(s, p)
    [] p.kind \in ListKinds -> InverseOfList(s, p)
    [] p.kind \in {"allow", "disallow"} -> InverseOfWhitelist(s, p)
    [] OTHER -> InverseOfField(s, p)

-----------------------------------------------------------------------------
(***************************************************************************)
(* The update command.  `now' is the document the command finds, `s' the   *)
(* snapshot it was computed from.  Matches: the filter of a positional     *)
(* update; Changes: the condition of the two that look whether they change *)
(* anything; Applicable: MongoDB refuses to set a field inside a null.     *)
(***************************************************************************)
Positional(p) == p.kind \in {"token.move", "token.hp", "token.delta", "update"}

Matches(now, p) ==
  Positional(p) => IF p.kind = "update" THEN In(now, p.list, p.id) ELSE On(now, p.id)

Conditional(p) == p.kind \in {"scene.activate", "scene.deactivate"}
Changes(now, p) == Conditional(p) => now.active # (p.kind = "scene.activate")

Applicable(now, p) ==
  p.kind \in {"combat.turn", "combat.reorder", "combat.effect.add"} => now.combat # NoCombat

(* The maximum is that of the token in the snapshot: without one, none. *)
WithHp(tokens, s, p) ==   \* $: the first token that matches
  [tokens EXCEPT ![Find(tokens, p.id)].hp =
     IF On(s, p.id) \/ p.hp < 0 THEN Clamp(p.hp) ELSE p.hp]

(* Mutant: the delta is added to the value the snapshot had. *)
HitOnSnapshot(now, s, p) ==
  LET hp == IF On(s, p.id) THEN TokenOf(s, p.id).hp ELSE MaxHp
  IN [i \in DOMAIN now |-> IF now[i].id = p.id
        THEN [now[i] EXCEPT !.hp = Clamp(hp + p.delta)] ELSE now[i]]

(* The pipeline update adds to the stored value, in every token of the id. *)
Hit(now, s, p) ==
  [i \in DOMAIN now |-> IF now[i].id = p.id
     THEN [now[i] EXCEPT !.hp = Clamp(now[i].hp + p.delta)] ELSE now[i]]

NewCombat(order) ==
  [round |-> 1, current |-> order[1], order |-> order, effects |-> <<>>]

UpdateTokens(now, s, p) ==
  CASE p.kind = "token.add" -> [now EXCEPT !.tokens = Append(@, p.token)]
    [] p.kind = "token.move" ->
         [now EXCEPT !.tokens[Find(now.tokens, p.id)].at = p.at]
    [] p.kind = "token.remove" -> [now EXCEPT !.tokens = Without(@, p.id)]
    [] p.kind = "token.hp" -> [now EXCEPT !.tokens = WithHp(@, s, p)]
    [] p.kind = "token.delta" -> [now EXCEPT !.tokens = Hit(@, s, p)]
    [] p.kind = "tokens.clear" ->
         [now EXCEPT !.tokens = <<>>, !.combat = NoCombat]
    [] p.kind = "tokens.replace" ->
         [now EXCEPT !.tokens = p.tokens, !.combat = p.combat]
    [] p.kind = "tokens.replace-npc" ->   \* with the PCs it read
         [now EXCEPT !.tokens = Pcs(s.tokens) \o Npcs(p.tokens)]

(* $pull finds nothing in a combat that is null. *)
UpdateCombat(now, s, p) ==
  CASE p.kind = "combat.start" -> [now EXCEPT !.combat = NewCombat(p.order)]
    [] p.kind = "combat.turn" ->
         [now EXCEPT !.combat.current = p.id,
                     !.combat.round = IF p.round = 0 THEN s.combat.round
                                                     ELSE p.round]
    [] p.kind = "combat.end" -> [now EXCEPT !.combat = NoCombat]
    [] p.kind = "combat.reorder" -> [now EXCEPT !.combat.order = p.order]
    [] p.kind = "combat.effect.add" -> [now EXCEPT !.combat.effects = Append(@, p.effect)]
    [] p.kind = "combat.effect.remove" ->
         IF now.combat = NoCombat THEN now
                                  ELSE [now EXCEPT !.combat.effects = Without(@, p.id)]

(* With a template go the tokens made from it. *)
WithoutInstances(tokens, p) ==
  IF p.list = "npcTemplates" THEN Kept(tokens, {t \in Range(tokens) : t.template # p.id})
                             ELSE tokens

UpdateList(now, p) ==
  CASE p.kind = "add" -> [now EXCEPT !.lists[p.list] = Append(@, p.element)]
    [] p.kind = "update" ->
         [now EXCEPT !.lists[p.list][Find(now.lists[p.list], p.id)].value = p.value]
    [] p.kind = "remove" ->
         [now EXCEPT !.lists[p.list] = Without(@, p.id),
                     !.tokens = WithoutInstances(@, p)]
    [] p.kind = "replace" -> [now EXCEPT !.lists[p.list] = p.elements]

UpdateWhitelist(now, p) ==
  [now EXCEPT !.allowed[p.list] = IF p.kind = "allow" THEN @ \cup {p.id} ELSE @ \ {p.id}]

Brushed(revealed, p) == IF p.reveal THEN revealed \cup p.hexes ELSE revealed \ p.hexes

Rolled(dice, p) ==   \* the last DiceLimit are kept
  LET rolls == Append(dice, p.by)
  IN SubSeq(rolls, IF Len(rolls) > DiceLimit THEN 2 ELSE 1, Len(rolls))

UpdateField(now, s, p) ==
  CASE p.kind = "scene.state" -> [now EXCEPT !.locked = p.locked]
    [] p.kind = "scene.playerState" ->    \* the whole array is written back
         [now EXCEPT !.overrides = [s.overrides EXCEPT ![p.user] = p.value]]
    [] p.kind = "set" -> [now EXCEPT !.fields[p.field] = p.value]
    [] p.kind = "fog.set" -> [now EXCEPT !.fog = p.fog]
    [] p.kind = "fog.brush" -> [now EXCEPT !.fog.revealed = Brushed(@, p)]
    [] p.kind \in {"scene.activate", "scene.deactivate"} ->
         [now EXCEPT !.active = p.kind = "scene.activate"]
    [] p.kind = "dice.roll" -> [now EXCEPT !.dice = Rolled(@, p)]

Update(now, s, p) ==
  CASE p.kind \in TokenKinds -> UpdateTokens(now, s, p)
    [] p.kind \in CombatKinds -> UpdateCombat(now, s, p)
    [] p.kind \in ListKinds -> UpdateList(now, p)
    [] p.kind \in {"allow", "disallow"} -> UpdateWhitelist(now, p)
    [] OTHER -> UpdateField(now, s, p)

(* The operations whose effect depends on what they read. *)
UsesSnapshot(s, p) ==
  \/ p.kind \in {"scene.playerState", "tokens.replace-npc"}
  \/ p.kind = "combat.turn" /\ p.round = 0
  \/ p.kind = "token.hp" /\ ~On(s, p.id)

(* Mutant: log and broadcast keep the delta with its empty patch. *)
AsSent(p, after) ==
  IF p.kind = "token.delta" THEN [kind |-> "token.hp", id |-> p.id, hp |-> 0]
                            ELSE p

(* The op as logged and broadcast: a delta carries the value it produced. *)
Normalized(p, after) ==
  IF p.kind = "token.delta"
  THEN [kind |-> "token.hp", id |-> p.id, hp |-> TokenOf(after, p.id).hp]
  ELSE p

-----------------------------------------------------------------------------
(* apply: the payload of the request, or the inverse undoLast hands over. *)
Loading(r) == (Op(r).kind = "apply" /\ req[r].pc = "start") \/ req[r].pc = "load"

Wanted(r) == IF Op(r).kind = "apply" THEN Op(r).payload ELSE req[r].payload

Verdict(r) ==
  CASE ~Valid(Wanted(r)) -> "refused"
    [] scene = NoScene -> "not_found"
    [] ~Authorized(scene, User(r), Wanted(r)) -> "forbidden"
    [] ~Precondition(scene, Wanted(r)) -> "refused"
    [] OTHER -> "ok"

LoadRefused(r) ==
  /\ Loading(r) /\ Verdict(r) # "ok"
  /\ Finish(r, Verdict(r))
  /\ UNCHANGED <<scene, lastSeq, log, events, writes>>

Load(r) ==
  /\ Loading(r) /\ Verdict(r) = "ok"
  /\ req' = [req EXCEPT ![r].pc = "write", ![r].snap = scene,
               ![r].payload = Wanted(r), ![r].inverse = InverseOp(scene, Wanted(r))]
  /\ UNCHANGED <<scene, lastSeq, log, events, writes>>

(* Mutant: matchedCount is not looked at. *)
WriteUnchecked(r) ==
  /\ req[r].pc = "write" /\ scene # NoScene
  /\ ~Matches(scene, req[r].payload)
  /\ req' = [req EXCEPT ![r].pc = "allocate"]
  /\ UNCHANGED <<scene, lastSeq, log, events, writes>>

(* No document or no token matched the filter. *)
WriteMissed(r) ==
  /\ req[r].pc = "write"
  /\ IF scene = NoScene THEN Positional(req[r].payload)
                        ELSE ~Matches(scene, req[r].payload)
  /\ Finish(r, "not_found")
  /\ UNCHANGED <<scene, lastSeq, log, events, writes>>

(* MAP_OP_NOOP: the scene is as it should be, or gone; nothing is logged.  *)
(* undoLast marks its target all the same.                                 *)
WriteNoop(r) ==
  /\ req[r].pc = "write" /\ Conditional(req[r].payload)
  /\ scene # NoScene => ~Changes(scene, req[r].payload)
  /\ IF Op(r).kind = "undo" THEN req' = [req EXCEPT ![r].pc = "settle", ![r].snap = NoScene]
                            ELSE Finish(r, "noop")
  /\ UNCHANGED <<scene, lastSeq, log, events, writes>>

(* A field of a combat that has ended meanwhile. *)
WriteFailed(r) ==
  /\ req[r].pc = "write" /\ scene # NoScene
  /\ ~Applicable(scene, req[r].payload)
  /\ Finish(r, "failed")
  /\ UNCHANGED <<scene, lastSeq, log, events, writes>>

(* The other updates do not look at matchedCount. *)
WriteNothing(r) ==
  /\ req[r].pc = "write" /\ scene = NoScene
  /\ ~Positional(req[r].payload) /\ ~Conditional(req[r].payload)
  /\ req' = [req EXCEPT ![r].pc = "allocate", ![r].snap = NoScene]
  /\ UNCHANGED <<scene, lastSeq, log, events, writes>>

SameContent(s, t) ==
  s.tokens = t.tokens /\ s.combat = t.combat /\ s.overrides = t.overrides

(* History: the record does not tell all that the update did.  It wrote    *)
(* back what it had read and the scene no longer is, or hit several tokens *)
(* with one id, of which the record has the hit points of the first.       *)
Untold(now, s, p) ==
  \/ UsesSnapshot(s, p) /\ ~SameContent(now, s)
  \/ p.kind = "token.delta" /\ \E i, j \in DOMAIN now.tokens :
       i # j /\ now.tokens[i].id = p.id /\ now.tokens[j].id = p.id

Write(r) ==
  LET p == req[r].payload  snap == req[r].snap IN
  /\ req[r].pc = "write" /\ scene # NoScene
  /\ Matches(scene, p) /\ Changes(scene, p) /\ Applicable(scene, p)
  /\ scene' = Update(scene, snap, p)
  /\ writes' = Append(writes, r)
  /\ req' = [req EXCEPT ![r].pc = "allocate", ![r].snap = NoScene,
               ![r].payload = Normalized(p, scene'),
               ![r].untold = Untold(scene, snap, p)]
  /\ UNCHANGED <<lastSeq, log, events>>

(* allocateSeqNumber: $inc on the scene; no scene, no number. *)
AllocateGone(r) ==
  /\ req[r].pc = "allocate" /\ scene = NoScene
  /\ Finish(r, "not_found")
  /\ UNCHANGED <<scene, lastSeq, log, events, writes>>

(* Mutant: the number is the length of the log. *)
AllocateFromLog(r) ==
  LET n == Cardinality({q \in Requests : Logged(q)}) + 1 IN
  /\ req[r].pc = "allocate" /\ scene # NoScene
  /\ lastSeq' = n
  /\ req' = [req EXCEPT ![r].pc = "append", ![r].seq = n]
  /\ UNCHANGED <<scene, log, events, writes>>

Allocate(r) ==
  /\ req[r].pc = "allocate" /\ scene # NoScene
  /\ lastSeq' = lastSeq + 1
  /\ req' = [req EXCEPT ![r].pc = "append", ![r].seq = lastSeq + 1]
  /\ UNCHANGED <<scene, log, events, writes>>

(* The unique index (sceneId, seqNumber). *)
SeqTaken(n) == \E q \in Requests : log[q].seq = n

(* appendOperation. *)
AppendRecord(r) ==
  /\ req[r].pc = "append"
  /\ IF SeqTaken(req[r].seq)
     THEN UNCHANGED log /\ Finish(r, "unlogged")
     ELSE /\ log' = [log EXCEPT ![r].seq = req[r].seq,
                  ![r].payload = req[r].payload, ![r].inverse = req[r].inverse]
          /\ req' = [req EXCEPT ![r].pc = "emit", ![r].inverse = NoPayload]
  /\ UNCHANGED <<scene, lastSeq, events, writes>>

(* emitMapOperation, then the answer or the rest of undoLast. *)
Emit(r) ==
  /\ req[r].pc = "emit"
  /\ events' = events \cup {[seq |-> req[r].seq, payload |-> req[r].payload]}
  /\ IF Op(r).kind = "undo" THEN req' = [req EXCEPT ![r].pc = "mark"]
                             ELSE Finish(r, "ok")
  /\ UNCHANGED <<scene, lastSeq, log, writes>>

-----------------------------------------------------------------------------
(* findLastUndoableByUser *)
Undoable(user) ==
  {q \in Requests : /\ Logged(q) /\ ~log[q].undone
                    /\ log[q].by = user /\ log[q].inverse # NoPayload}

UndoVerdict(r) ==
  CASE scene = NoScene -> "not_found"
    [] User(r) \notin Staff -> "forbidden"
    [] Undoable(User(r)) = {} -> "nothing_to_undo"
    [] OTHER -> "ok"

UndoRefused(r) ==
  /\ Op(r).kind = "undo" /\ req[r].pc = "start" /\ UndoVerdict(r) # "ok"
  /\ Finish(r, UndoVerdict(r))
  /\ UNCHANGED <<scene, lastSeq, log, events, writes>>

UndoFind(r) ==
  /\ Op(r).kind = "undo" /\ req[r].pc = "start" /\ UndoVerdict(r) = "ok"
  /\ \E q \in Undoable(User(r)) :
       /\ \A o \in Undoable(User(r)) : log[o].seq <= log[q].seq
       /\ req' = [req EXCEPT ![r].pc = "load", ![r].target = q,
                             ![r].payload = log[q].inverse]
  /\ UNCHANGED <<scene, lastSeq, log, events, writes>>

(* markUndone(target.id), then markUndone(result.recordId). *)
MarkTarget(r) ==
  /\ req[r].pc = "mark"
  /\ log' = [log EXCEPT ![req[r].target].undone = TRUE]
  /\ req' = [req EXCEPT ![r].pc = "markOwn"]
  /\ UNCHANGED <<scene, lastSeq, events, writes>>

MarkOwn(r) ==
  /\ req[r].pc = "markOwn"
  /\ log' = [log EXCEPT ![r].undone = TRUE]
  /\ Finish(r, "ok")
  /\ UNCHANGED <<scene, lastSeq, events, writes>>

MarkNoop(r) ==
  /\ req[r].pc = "settle"
  /\ log' = [log EXCEPT ![req[r].target].undone = TRUE]
  /\ Finish(r, "noop")
  /\ UNCHANGED <<scene, lastSeq, events, writes>>

(* MapsService.deleteScene; clearing the memberships is left out. *)
DeleteScene(r) ==
  /\ Op(r).kind = "delete" /\ req[r].pc = "start"
  /\ IF scene # NoScene /\ User(r) \in Staff
     THEN scene' = NoScene /\ Finish(r, "ok")
     ELSE /\ UNCHANGED scene
          /\ Finish(r, IF scene = NoScene THEN "not_found" ELSE "forbidden")
  /\ UNCHANGED <<lastSeq, log, events, writes>>

(***************************************************************************)
(* A command that fails after the write ends the request with an error 500 *)
(* and takes nothing back; a process that dies gives no answer, and leaves *)
(* the same.  Either way the answer says how far the request had come.     *)
(* One that stops before its write is like one that was never made, and a  *)
(* command whose answer alone is lost has stopped one place further on.    *)
(***************************************************************************)
CutShort(r) ==
  CASE req[r].pc \in {"allocate", "append"} -> "unlogged"
    [] req[r].pc = "emit" -> "unsent"
    [] OTHER -> "unmarked"

Commands == {"allocate", "append", "mark", "markOwn", "settle"}

Fail(r) ==
  /\ "io" \in Faults /\ req[r].pc \in Commands
  /\ Finish(r, CutShort(r))
  /\ UNCHANGED <<scene, lastSeq, log, events, writes>>

Crash(r) ==
  /\ "crash" \in Faults /\ req[r].pc \in Commands \cup {"emit"}
  /\ Finish(r, CutShort(r))
  /\ UNCHANGED <<scene, lastSeq, log, events, writes>>

Step(r) ==
  \/ LoadRefused(r) \/ Load(r)
  \/ WriteMissed(r) \/ WriteNoop(r) \/ WriteFailed(r) \/ WriteNothing(r) \/ Write(r)
  \/ AllocateGone(r) \/ Allocate(r) \/ AppendRecord(r) \/ Emit(r)
  \/ UndoRefused(r) \/ UndoFind(r)
  \/ MarkTarget(r) \/ MarkOwn(r) \/ MarkNoop(r)
  \/ DeleteScene(r) \/ Fail(r) \/ Crash(r)

Next == \E r \in Requests : Step(r)

Spec == Init /\ [][Next]_vars

-----------------------------------------------------------------------------
(* Invariants *)

Local == [op: Operation, pc: Places, snap: Scene \cup {NoScene},
          payload: Payload \cup {NoPayload}, inverse: Payload \cup {NoPayload},
          seq: Nat, target: Requests \cup {NoRequest}, untold: BOOLEAN,
          answer: Answers]

(* Type invariant; hit points are never negative. *)
TypeOK ==
  /\ scene \in Scene \cup {NoScene}
  /\ lastSeq \in Nat
  /\ log \in [Requests -> Record]
  /\ events \subseteq [seq: Nat, payload: Payload]
  /\ req \in [Requests -> Local]
  /\ writes \in Seq(Requests)

Holds(r, n) ==
  \/ log[r].seq = n
  \/ req[r].seq = n /\ (req[r].pc = "append" \/ req[r].answer = "unlogged")

(***************************************************************************)
(* "seqNumber is strictly monotonic per scene, no gaps" and "no two        *)
(* inserts use the same value": every number the counter has given out     *)
(* belongs to one request, which has logged it, is about to, or failed or  *)
(* died before it could.                                                   *)
(***************************************************************************)
SeqGapless ==
  /\ \A n \in 1..lastSeq : \E r \in Requests :
       Holds(r, n) /\ \A q \in Requests \ {r} : ~Holds(q, n)
  /\ \A r \in Requests : log[r].seq <= lastSeq

(* "after the DB commit, not before": what is broadcast is in the log. *)
BroadcastIsDurable ==
  \A e \in events : \E r \in Requests :
    Logged(r) /\ e = [seq |-> log[r].seq, payload |-> log[r].payload]

(***************************************************************************)
(* 201 means written, logged and broadcast, and for an undo that both      *)
(* records are out of the undo stack.  A refusal means none of them, but   *)
(* for a write to a scene that was deleted right after.  A request that    *)
(* was cut short after its write, by an error 500 or a death, has left the *)
(* change: without a record, with one nobody was sent, or, an undo, sent   *)
(* and still to be undone again.                                           *)
(***************************************************************************)
Changed(r) == r \in Range(writes) \/ scene = NoScene
Sent(r) == \E e \in events : e.seq = log[r].seq

AnswerTruthful ==
  \A r \in Requests :
    LET answer == req[r].answer IN
    /\ answer = "ok" /\ Op(r).kind # "delete" => Logged(r) /\ Sent(r) /\ Changed(r)
    /\ answer = "ok" /\ Op(r).kind = "undo" =>
         log[r].undone /\ log[req[r].target].undone
    /\ answer = "unlogged" => ~Logged(r) /\ Changed(r)
    /\ answer = "unsent" => Logged(r) /\ Changed(r)
    /\ answer = "unmarked" =>
         /\ Op(r).kind = "undo"
         /\ IF Logged(r) THEN Sent(r) /\ Changed(r) ELSE r \notin Range(writes)
    /\ answer \notin {"none", "ok", "unlogged", "unsent", "unmarked"} =>
         ~Logged(r) /\ (r \in Range(writes) => scene = NoScene)

(***************************************************************************)
(* "allocate, apply, log insert" is the right order, and the client is to  *)
(* repeat an operation whose number could not be allocated: an operation   *)
(* that got no number has not changed the scene.  The code applies it      *)
(* first.                                                                  *)
(***************************************************************************)
NoNumberNoChange ==
  \A r \in Range(writes) : req[r].answer = "unlogged" => req[r].seq # 0

Hits(id) == {r \in Range(writes) : /\ Op(r).kind = "apply"
                                   /\ Op(r).payload.kind = "token.delta"
                                   /\ Op(r).payload.id = id}

SetsHp(p, id) ==
  \/ p.kind \in {"tokens.clear", "tokens.replace", "tokens.replace-npc"}
  \/ p.kind = "token.add" /\ p.token.id = id
  \/ p.kind = "remove" /\ p.list = "npcTemplates"
  \/ p.kind \in {"token.remove", "token.hp"} /\ p.id = id

(***************************************************************************)
(* "both hits show": concurrent damage to a token adds up, whatever the    *)
(* requests had read, as long as nobody sets its hit points absolutely.    *)
(***************************************************************************)
HitsAddUp ==
  scene # NoScene =>
    \A id \in {t.id : t \in Range(InitialScene.tokens)} :
      LET others == Range(writes) \ Hits(id)
          damage == MapThenSumSet(LAMBDA r : Op(r).payload.delta, Hits(id))
      IN /\ \A r \in others : ~SetsHp(req[r].payload, id)
         /\ \A r \in Hits(id) : Op(r).payload.delta <= 0
         => TokenOf(scene, id).hp = Clamp(TokenOf(InitialScene, id).hp + damage)

Distinct(list) == \A i, j \in DOMAIN list : list[i].id = list[j].id => i = j

UniqueIds(s) ==
  /\ Distinct(s.tokens) /\ \A l \in Lists : Distinct(s.lists[l])
  /\ s.combat # NoCombat => Distinct(s.combat.effects)

(* The log has every write, in the order of the writes. *)
LogInOrder ==
  /\ \A r \in Range(writes) : Logged(r) /\ ~req[r].untold
  /\ \A i, j \in DOMAIN writes : i < j => log[writes[i]].seq < log[writes[j]].seq

(***************************************************************************)
(* A client that applies the log to the scene it started from gets the     *)
(* scene of the server: the log names every effect of every operation.     *)
(* The code does not give this when numbers are allocated in another order *)
(* than the writes, when an operation wrote back a stale array, or when a  *)
(* hit found several tokens with one id.                                   *)
(***************************************************************************)
LogReplays ==
  scene # NoScene /\ LogInOrder =>
    FoldLeft(LAMBDA s, r : Update(s, s, log[r].payload), InitialScene, writes)
      = scene

(***************************************************************************)
(* "repeated undo does not return the same op twice", "never turns back    *)
(* the same op".                                                           *)
(***************************************************************************)
UndoneOnce ==
  \A q, r \in Range(writes) :
    q # r /\ req[q].target = req[r].target => req[q].target = NoRequest

-----------------------------------------------------------------------------
(* Action properties *)

Writes(r) == writes' = Append(writes, r)

HpInRange(s) == \A t \in Range(s.tokens) : t.hp <= MaxHp

Alike(a, b) == Len(a) = Len(b) /\ Range(a) = Range(b)

Plain(s) ==
  [s EXCEPT !.tokens = <<>>, !.lists = [l \in Lists |-> <<>>],
            !.combat = IF @ = NoCombat THEN @ ELSE [@ EXCEPT !.effects = <<>>]]

SameScene(s, t) ==   \* up to the order in the lists
  /\ Alike(s.tokens, t.tokens) /\ \A l \in Lists : Alike(s.lists[l], t.lists[l])
  /\ Plain(s) = Plain(t)
  /\ s.combat # NoCombat => Alike(s.combat.effects, t.combat.effects)

(* Verdict and filters on the scene as it is. *)
Accepted(s, p) ==
  Valid(p) /\ Precondition(s, p) /\ Matches(s, p) /\ Changes(s, p) /\ Applicable(s, p)

(***************************************************************************)
(* Where an inverse falls short: a turn's forgets the round and needs the  *)
(* token whose turn it was, the end of a combat is undone by a new combat, *)
(* a brush is undone by its opposite, a template comes back without its    *)
(* tokens and goes with tokens that named it before it came, an order that *)
(* names a token twice cannot be put back, and nor can an effect that does *)
(* not name its token.                                                     *)
(***************************************************************************)
MadeFrom(s, id) == {t \in Range(s.tokens) : t.template = id}

Lossy(s, p) ==
  CASE p.kind = "combat.end" -> TRUE
    [] p.kind = "combat.turn" ->
         p.round \notin {0, s.combat.round} \/ ~On(s, s.combat.current)
    [] p.kind = "combat.reorder" -> Range(p.order) # Range(s.combat.order)
    [] p.kind = "combat.effect.remove" ->
         \E e \in Range(s.combat.effects) : e.id = p.id /\ ~e.named
    [] p.kind = "fog.brush" ->
         \E h \in p.hexes : (h \in s.fog.revealed) = p.reveal
    [] p.kind = "remove" -> p.list = "npcTemplates" /\ MadeFrom(s, p.id) # {}
    [] p.kind = "add" -> p.list = "npcTemplates" /\ MadeFrom(s, p.element.id) # {}
    [] OTHER -> FALSE

(***************************************************************************)
(* Undo: the inverse stored with a record, applied right after it, is      *)
(* accepted and gives the scene back, except where it is known to fall     *)
(* short.                                                                  *)
(***************************************************************************)
InverseRestores ==
  [][\A r \in Requests :
       LET p == req[r].payload  back == req[r].inverse IN
       /\ Writes(r) /\ req[r].snap = scene /\ back # NoPayload
       /\ UniqueIds(scene) /\ UniqueIds(scene') /\ HpInRange(scene)
       /\ ~Lossy(scene, p)
       => /\ Accepted(scene', back)
          /\ SameScene(Update(scene', scene', back), scene)]_vars

(***************************************************************************)
(* "PC tokens are kept as they are", "the op pipeline serialises": an      *)
(* operation that writes a whole array back leaves the elements it is not  *)
(* about as they are.                                                      *)
(***************************************************************************)
OthersKept ==
  [][\A r \in Requests :
       Writes(r) =>
         LET p == req[r].payload IN
         /\ p.kind = "scene.playerState" =>
              \A u \in Users \ {p.user} : scene'.overrides[u] = scene.overrides[u]
         /\ p.kind = "tokens.replace-npc" =>
              Pcs(scene'.tokens) = Pcs(scene.tokens)]_vars

=============================================================================
