------------------------------ MODULE BotStatus ------------------------------
(***************************************************************************)
(* GBotStatus and GBotCommonStatus around the model of a bot: which model  *)
(* a binding gets from the factory, what the topics say of the bot, and    *)
(* how a lost connection resets both.  All of it is slots and events of    *)
(* the GUI thread.  The server decides about the deploy mode and about the *)
(* performance; commands to it may be lost, and so may what it reports.    *)
(***************************************************************************)
EXTENDS HeroModel

CONSTANT MaxGen         \* bound: bindings

ASSUME BotStatusAssumption == MaxGen \in Nat

VARIABLES
    binding,            \* _curBinding: generation and what its id stands for
    factory,            \* there is one
    kind, modelGen,     \* the model and its _curGen
    hero,               \* the state of a GHeroModel; NoHero, if the model is none
    shooter,            \* what the last static status said
    performance,        \* external: what the server has
    online,
    command,            \* the command about the deploy mode that was sent just now
    held                \* ticks for which K and L were down without a break

statusVars == <<shooter, online>>
modelVars == <<kind, modelGen, hero>>
vars == <<binding, factory, modelVars, statusVars, performance, command, held>>

Shooters == {"none", "ranged", "melee"}
BotIds == {"hero", "infantry", "other"}
HeldKeys == {"K", "L"}

IsHeroRanged(s) == s = "ranged"

TypeOK ==
    /\ binding \in [gen : 0..MaxGen, id : BotIds \cup {"none"}]
    /\ factory \in BOOLEAN
    /\ kind \in {"none", "hero", "infantry"}
    /\ modelGen \in 0..MaxGen
    /\ hero \in HeroType
    /\ shooter \in Shooters
    /\ performance \in Shooters
    /\ online \in BOOLEAN
    /\ command \in {"none", "on", "off"}
    /\ held \in [HeldKeys -> 0..PressTicks]

NoCommand == command' = "none"

NotHeld == [k \in HeldKeys |-> 0]

Init ==
    /\ binding = [gen |-> 0, id |-> "none"]
    /\ factory = FALSE
    /\ kind = "none" /\ modelGen = 0 /\ hero = NoHero
    /\ shooter = "none" /\ performance = "none"
    /\ online = FALSE
    /\ command = "none" /\ held = NotHeld

-----------------------------------------------------------------------------
\* rebuildBotModel() with a factory: the new model is made first, and then the
\* old one shows imgTrans on the items they share.  A new hero, whose server
\* has said nothing yet, shows it as well.
CreateBotModel(id, gen, s) ==
    /\ kind' = IF id = "other" THEN "none" ELSE id
    /\ modelGen' = IF id = "other" THEN 0 ELSE gen
    /\ hero' = IF id = "hero" THEN [NewHero(IsHeroRanged(s)) EXCEPT
                                      !.shown = IF kind = "hero" THEN "imgTrans" ELSE @]
               ELSE NoHero
    /\ held' = NotHeld

SetFactory ==
    /\ ~factory
    /\ factory' = TRUE
    /\ IF binding.gen = 0 THEN UNCHANGED <<modelVars, held>>
       ELSE CreateBotModel(binding.id, binding.gen, shooter)
    /\ UNCHANGED <<binding, statusVars, performance>>
    /\ NoCommand

\* The common status resets and registers its topics before the model changes.
OnBindingChanged(id) ==
    /\ binding.gen < MaxGen
    /\ binding' = [gen |-> binding.gen + 1, id |-> id]
    /\ shooter' = "none"
    /\ online' = FALSE
    /\ IF factory THEN CreateBotModel(id, binding.gen + 1, "none") ELSE UNCHANGED <<modelVars, held>>
    /\ UNCHANGED <<factory, performance>>
    /\ NoCommand

OnConnected ==
    /\ binding.gen > 0
    /\ online' = TRUE
    /\ UNCHANGED <<binding, factory, modelVars, shooter, performance, held>>
    /\ NoCommand

-----------------------------------------------------------------------------
\* What is known of the shooter changes, and an effective mode with it.
StaticStatusReaches(h, s) ==
    IF kind = "hero" /\ s # shooter THEN UpdateEffectiveDeployMode(h, IsHeroRanged(s)) ELSE h

\* The other statuses and the selection are kept and reset alike.
UpdateStaticStatus ==
    /\ online
    /\ shooter' = performance
    /\ hero' = StaticStatusReaches(hero, performance)
    /\ UNCHANGED <<binding, factory, kind, modelGen, online, performance, held>>
    /\ NoCommand

\* The common status hears of it before the model.
ConnectionLost ==
    /\ binding.gen > 0
    /\ shooter' = "none"
    /\ online' = FALSE
    /\ hero' = IF kind = "hero" THEN ResetStatus(StaticStatusReaches(hero, "none"), FALSE) ELSE hero
    /\ held' = NotHeld
    /\ UNCHANGED <<binding, factory, kind, modelGen, performance>>
    /\ NoCommand

-----------------------------------------------------------------------------
\* The hero.

DeployModeStatusSync(on) ==
    /\ online
    /\ kind = "hero"
    /\ hero' = ParseDeployModeStatus(hero, on, IsHeroRanged(shooter))
    /\ UNCHANGED <<binding, factory, kind, modelGen, statusVars, performance, held>>
    /\ NoCommand

OnKeyPress(key) ==
    /\ kind = "hero"
    /\ hero' = KeyPress(hero, key, IsHeroRanged(shooter))
    /\ UNCHANGED <<binding, factory, kind, modelGen, statusVars, performance, held>>
    /\ NoCommand

OnKeyRelease(key) ==
    /\ kind = "hero"
    /\ hero' = KeyRelease(hero, key)
    /\ held' = IF key \in HeldKeys THEN [held EXCEPT ![key] = 0] ELSE held
    /\ UNCHANGED <<binding, factory, kind, modelGen, statusVars, performance>>
    /\ NoCommand

\* The dispatcher's status changed.
OnKeyReset ==
    /\ kind = "hero"
    /\ hero' = KeyReset(hero)
    /\ held' = NotHeld
    /\ UNCHANGED <<binding, factory, kind, modelGen, statusVars, performance>>
    /\ NoCommand

\* The event loop is never so late that a release is handled after the
\* animation's end that came after it.
Tick ==
    LET later == TimePasses(hero) IN
    /\ kind = "hero"
    /\ held' = [k \in HeldKeys |-> IF k \in hero.pressed /\ held[k] < PressTicks
                                   THEN held[k] + 1 ELSE held[k]]
    /\ IF later.time = PressTicks
       THEN /\ hero' = AnimationFinished(later)
            /\ command' = IF Publishes(hero, IsHeroRanged(shooter)) THEN hero.pending ELSE "none"
       ELSE /\ hero' = later
            /\ command' = "none"
    /\ UNCHANGED <<binding, factory, kind, modelGen, statusVars, performance>>

\* publishPerformanceModeCmd() of either model, an infantry's being none of a
\* hero's: what is known already is not asked for.
PublishPerformanceModeCmd(s) ==
    /\ kind # "none"
    /\ (s = "none") = (kind = "infantry")
    /\ s # shooter
    /\ performance' = s
    /\ UNCHANGED <<binding, factory, modelVars, statusVars, held>>
    /\ NoCommand

-----------------------------------------------------------------------------
Next ==
    \/ SetFactory
    \/ \E id \in BotIds : OnBindingChanged(id)
    \/ OnConnected
    \/ UpdateStaticStatus
    \/ ConnectionLost
    \/ \E on \in BOOLEAN : DeployModeStatusSync(on)
    \/ \E key \in Keys : OnKeyPress(key) \/ OnKeyRelease(key)
    \/ OnKeyReset
    \/ Tick
    \/ \E s \in Shooters : PublishPerformanceModeCmd(s)

Spec == Init /\ [][Next]_vars

-----------------------------------------------------------------------------
\* Whatever order statuses, keys, lost connections and bindings come in, the
\* mode is the one reported, for a ranged hero only; the deploy view belongs to
\* it, goes when the hero is no longer ranged, and never outlives its model.
ViewFollowsReports ==
    /\ hero.mode = (hero.server /\ IsHeroRanged(shooter))
    /\ hero.mode => hero.vt
    /\ hero.vt => IsHeroRanged(shooter)
    /\ hero.shown = IF hero.vt THEN "deployVt" ELSE "imgTrans"
    /\ factory /\ binding.gen > 0 =>
         IF binding.id = "other" THEN kind = "none"
         ELSE kind = binding.id /\ modelGen = binding.gen

\* A command about the mode goes out only after its key was down for the whole
\* time: no release, lost focus or lost connection in between, and never for
\* the mode that is reported already.
FullPressOnly ==
    /\ command # "none" => held[KeyOf(command)] = PressTicks /\ hero.mode # (command = "on")
    /\ hero.pending # "none" =>
         /\ KeyOf(hero.pending) \in hero.pressed
         /\ held[KeyOf(hero.pending)] >= hero.time
         /\ IsHeroRanged(shooter)
         /\ hero.mode # (hero.pending = "on")
=============================================================================
