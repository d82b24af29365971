---------------------------- MODULE MCMapOperations ----------------------------
(***************************************************************************)
(* A scene with a player's token and a monster in a fight, a game master,  *)
(* a player, and a few concurrent requests.  The requests of one run are   *)
(* all about one part of the scene.                                        *)
(***************************************************************************)
EXTENDS MapOperations

CONSTANTS r1, r2, r3, gm, player, pc, npc, new, here, there, mark, orc, old, fresh,
          noCombat, noScene, noPayload, noRequest, nothing

Pawn == [id |-> pc, owner |-> player, npc |-> FALSE, locked |-> FALSE,
         at |-> here, hp |-> 3, template |-> nothing]
Monster == [id |-> npc, owner |-> gm, npc |-> TRUE, locked |-> TRUE,
            at |-> here, hp |-> 3, template |-> orc]
Newcomer == [Monster EXCEPT !.id = new, !.at = there, !.template = nothing]
Stray == [Newcomer EXCEPT !.template = mark]   \* its template was removed meanwhile

Poison == [id |-> mark, named |-> FALSE]
Fight == [round |-> 1, current |-> pc, order |-> <<pc, npc>>, effects |-> <<Poison>>]

Thing(id) == [id |-> id, by |-> gm, value |-> old]

MCScene ==
  [tokens |-> <<Pawn, Monster>>, combat |-> Fight, locked |-> FALSE,
   overrides |-> (gm :> "unset") @@ (player :> "unset"),
   lists |-> [l \in Lists |-> IF l = "npcTemplates" THEN <<Thing(orc)>>
                              ELSE IF l = "effects" THEN <<Thing(mark)>> ELSE <<>>],
   fields |-> [f \in Fields |-> old],
   allowed |-> [w \in Whitelists |-> {}],
   fog |-> [enabled |-> TRUE, revealed |-> {here}],
   active |-> TRUE, dice |-> <<gm>>]

Apply(user, payload) == [kind |-> "apply", user |-> user, payload |-> payload]
ByGm(payloads) == {Apply(gm, p) : p \in payloads}
ByPlayer(payloads) == {Apply(player, p) : p \in payloads}
Request(op) == [kind |-> op, user |-> gm, payload |-> noPayload]

Move(id) == [kind |-> "token.move", id |-> id, at |-> there]
RemoveToken(id) == [kind |-> "token.remove", id |-> id]
DamageTo(id, n) == [kind |-> "token.delta", id |-> id, delta |-> -n]
Damage(n) == DamageTo(npc, n)
SetHp(id, n) == [kind |-> "token.hp", id |-> id, hp |-> n]
AddToken(token) == [kind |-> "token.add", token |-> token]
Clear == [kind |-> "tokens.clear"]
ReplaceNpc == [kind |-> "tokens.replace-npc", tokens |-> <<Newcomer>>]

Turn(round) == [kind |-> "combat.turn", id |-> npc, round |-> round]
EndFight == [kind |-> "combat.end"]
Reorder(order) == [kind |-> "combat.reorder", order |-> order]
AddEffect(id) == [kind |-> "combat.effect.add", given |-> TRUE,
                  effect |-> [id |-> id, named |-> TRUE]]
RemoveEffect(id) == [kind |-> "combat.effect.remove", id |-> id]

SetField(field) == [kind |-> "set", field |-> field, value |-> fresh]
OverrideOf(user, value) ==
  [kind |-> "scene.playerState", user |-> user, value |-> value]
Drawing(user) ==
  [kind |-> "add", list |-> "drawings", element |-> [Thing(mark) EXCEPT !.by = user]]
Brush(reveal, hexes) == [kind |-> "fog.brush", reveal |-> reveal, hexes |-> hexes]

TokenOperations ==
  ByGm({RemoveToken(npc), Damage(2), SetHp(new, 7), AddToken(Newcomer), Clear, ReplaceNpc})
    \cup ByPlayer({Move(pc)})
    \cup {Request("undo"), Request("delete")}

TwinOperations ==   \* one id twice
  ByGm({AddToken(Newcomer), DamageTo(new, 1), RemoveToken(new)}) \cup {Request("undo")}

CombatOperations ==
  ByGm({Turn(0), Turn(2), EndFight, [kind |-> "combat.start", order |-> <<npc>>],
        Reorder(<<npc, pc>>), Reorder(<<pc, pc>>), RemoveToken(pc)})
    \cup {Request("undo")}

CombatEffectOperations ==
  ByGm({AddEffect(orc), RemoveEffect(mark), RemoveEffect(orc), EndFight})
    \cup {Request("undo")}

SettingOperations ==   \* and what they allow a player
  ByGm({[kind |-> "scene.state", locked |-> TRUE], SetField("config"),
        OverrideOf(player, "free")})
    \cup ByPlayer({Move(pc), Drawing(player),
                   [kind |-> "remove", list |-> "drawings", id |-> mark]})
    \cup {Request("undo")}

ActivationOperations ==
  ByGm({[kind |-> "scene.deactivate"], [kind |-> "scene.activate"], SetField("image")})
    \cup {Request("undo"), Request("delete")}

ListOperations ==
  ByGm({[kind |-> "update", list |-> "effects", id |-> mark, value |-> fresh],
        [kind |-> "remove", list |-> "effects", id |-> mark],
        [kind |-> "replace", list |-> "effects", elements |-> <<Thing(orc)>>],
        [kind |-> "remove", list |-> "npcTemplates", id |-> orc], RemoveToken(npc),
        [kind |-> "add", list |-> "npcTemplates", element |-> Thing(mark)], AddToken(Stray)})
    \cup {Request("undo")}

SetOperations ==
  ByGm({[kind |-> "allow", list |-> "activeBestie", id |-> mark],
        [kind |-> "disallow", list |-> "activeBestie", id |-> mark],
        [kind |-> "fog.set", fog |-> [enabled |-> FALSE, revealed |-> {there}]],
        Brush(TRUE, {here, there})})
    \cup ByPlayer({[kind |-> "dice.roll", by |-> player, token |-> pc]})
    \cup {Request("undo")}

MCPlans ==
  UNION {[Requests -> operations] : operations \in
           {TokenOperations, TwinOperations, CombatOperations, CombatEffectOperations,
            SettingOperations, ActivationOperations, ListOperations, SetOperations}}

Interchangeable == Permutations(Requests)

=============================================================================
