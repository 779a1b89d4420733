--------------------------- MODULE BotStatusProofs ---------------------------
(***************************************************************************)
(* The deploy mode of the hero, for every time a key must be held, every   *)
(* pause between restarts and any number of bindings.                      *)
(*                                                                         *)
(* HeroOk is what each call of the model leaves, whatever is known of the  *)
(* shooter; HeroFits adds what ties the model to the shooter.  A status or *)
(* a changed shooter breaks HeroFits until UpdateEffectiveDeployMode is    *)
(* done with the model: it needs HeroOk only.                              *)
(***************************************************************************)
EXTENDS BotStatus, TLAPS

HeroOk(h) ==
    /\ h \in HeroType
    /\ h.mode => h.vt
    /\ h.shown = IF h.vt THEN "deployVt" ELSE "imgTrans"
    /\ h.running = (h.pending # "none")
    /\ ~h.running => h.time = 0
    /\ h.time < PressTicks
    /\ h.pending # "none" => KeyOf(h.pending) \in h.pressed /\ h.mode # (h.pending = "on")

HeroFits(h, ranged) ==
    /\ HeroOk(h)
    /\ h.mode = (h.server /\ ranged)
    /\ h.vt => ranged
    /\ h.pending # "none" => ranged

\* How long the key of what is asked for was down.
HeldLongEnough(h, down) == h.pending # "none" => down[KeyOf(h.pending)] >= h.time

ModelOfBinding ==
    /\ kind # "hero" => hero = NoHero
    /\ ~factory => kind = "none"
    /\ binding.gen > 0 => binding.id # "none"
    /\ factory /\ binding.gen > 0 =>
         IF binding.id = "other" THEN kind = "none"
         ELSE kind = binding.id /\ modelGen = binding.gen

CommandAfterPress ==
    command # "none" => held[KeyOf(command)] = PressTicks /\ hero.mode # (command = "on")

IInv ==
    /\ TypeOK
    /\ HeroFits(hero, IsHeroRanged(shooter))
    /\ HeldLongEnough(hero, held)
    /\ ModelOfBinding
    /\ CommandAfterPress

-----------------------------------------------------------------------------
\* What the calls of the hero's model leave.

LEMMA TimesAreTimes ==
    /\ PressTicks \in Nat /\ 0 \in 0..PressTicks /\ 0 < PressTicks
    /\ RestartTicks \in 0..RestartTicks /\ 0 \in 0..RestartTicks
BY HeroModelAssumption

LEMMA NoHeroFits ==
    ASSUME NEW ranged \in BOOLEAN
    PROVE  HeroFits(NoHero, ranged) /\ NoHero.pending = "none"
BY TimesAreTimes DEF HeroFits, HeroOk, HeroType, NoHero, Keys

LEMMA CancelLeaves ==
    ASSUME NEW h, HeroOk(h)
    PROVE  /\ HeroOk(CancelDeployModePress(h))
           /\ CancelDeployModePress(h).pending = "none"
           /\ CancelDeployModePress(h).mode = h.mode
           /\ CancelDeployModePress(h).vt = h.vt
           /\ CancelDeployModePress(h).server = h.server
BY TimesAreTimes DEF HeroOk, HeroType, CancelDeployModePress

LEMMA SetDeployVtLeaves ==
    ASSUME NEW h, HeroOk(h), NEW on \in BOOLEAN, NEW ranged \in BOOLEAN, h.mode => on /\ ranged
    PROVE  LET v == SetDeployVt(h, on, ranged) IN
           /\ HeroOk(v)
           /\ v.vt = (on /\ ranged)
           /\ v.mode = h.mode /\ v.server = h.server
           /\ v.pending = h.pending /\ v.time = h.time
BY DEF HeroOk, HeroType, SetDeployVt

\* The press is cancelled if the mode changes.
LEMMA SetDeployModeLeaves ==
    ASSUME NEW h, HeroOk(h), NEW on \in BOOLEAN, NEW ranged \in BOOLEAN, on => ranged
    PROVE  LET m == SetDeployMode(h, on, ranged) IN
           /\ HeroOk(m)
           /\ m.mode = on /\ m.server = h.server
           /\ m = h \/ (m.vt = on /\ m.pending = "none")
<1>1. CASE h.mode = on
  BY <1>1 DEF SetDeployMode
<1>2. CASE h.mode # on
  <2> DEFINE c == CancelDeployModePress(h)
             d == [c EXCEPT !.mode = on]
             m == SetDeployVt(d, on, ranged)
  <2>1. SetDeployMode(h, on, ranged) = m
    BY <1>2 DEF SetDeployMode
  <2>2. /\ c \in HeroType /\ c.pending = "none" /\ c.running = FALSE /\ c.time = 0
        /\ c.server = h.server
    BY TimesAreTimes DEF HeroOk, HeroType, CancelDeployModePress
  <2>3. /\ d \in HeroType /\ d.pending = "none" /\ d.running = FALSE /\ d.time = 0
        /\ d.server = h.server /\ d.mode = on
    <3> HIDE DEF c
    <3> QED BY <2>2 DEF HeroType
  <2>4. /\ m \in HeroType /\ m.pending = "none" /\ m.running = FALSE /\ m.time = 0
        /\ m.server = h.server /\ m.mode = on /\ m.vt = on
        /\ m.shown = IF on THEN "deployVt" ELSE "imgTrans"
    <3> HIDE DEF d
    <3> QED BY <2>3 DEF HeroType, SetDeployVt
  <2> HIDE DEF m
  <2>5. HeroOk(m)
    BY <2>4, TimesAreTimes DEF HeroOk
  <2> QED
    BY <2>1, <2>4, <2>5
<1> QED
  BY <1>1, <1>2

\* What is done when the shooter or the reported mode changes makes the model
\* fit again; the press goes on as it was or ends.
LEMMA UpdateEffectiveFits ==
    ASSUME NEW h, HeroOk(h), NEW ranged \in BOOLEAN
    PROVE  LET u == UpdateEffectiveDeployMode(h, ranged) IN
           HeroFits(u, ranged) /\ (u = h \/ u.pending = "none")
<1>0. h.server \in BOOLEAN
  BY DEF HeroOk, HeroType
<1>1. CASE ranged
  <2> DEFINE m == SetDeployMode(h, h.server, TRUE)
  <2>1. HeroOk(m) /\ m.mode = h.server /\ m.server = h.server /\ (m = h \/ m.pending = "none")
    BY <1>0, SetDeployModeLeaves
  <2>2. UpdateEffectiveDeployMode(h, ranged) = m
    BY <1>1 DEF UpdateEffectiveDeployMode
  <2> HIDE DEF m
  <2> QED
    BY <1>0, <1>1, <2>1, <2>2 DEF HeroFits
<1>2. CASE ~ranged
  <2> DEFINE c == CancelDeployModePress(h)
             m == SetDeployMode(c, FALSE, FALSE)
             v == SetDeployVt(m, FALSE, FALSE)
  <2>1. HeroOk(c) /\ c.pending = "none"
    BY CancelLeaves
  <2>2. HeroOk(m) /\ m.mode = FALSE /\ m.pending = "none"
    <3> HIDE DEF c
    <3> QED BY <2>1, SetDeployModeLeaves
  <2>3. HeroOk(v) /\ v.mode = FALSE /\ v.vt = FALSE /\ v.pending = "none"
    <3> HIDE DEF m
    <3> QED BY <2>2, SetDeployVtLeaves
  <2>4. UpdateEffectiveDeployMode(h, ranged) = v
    BY <1>2 DEF UpdateEffectiveDeployMode
  <2> HIDE DEF v
  <2> QED
    BY <1>2, <2>3, <2>4 DEF HeroFits
<1> QED
  BY <1>1, <1>2

\* A new hero is as NoHero is.
LEMMA NewHeroIsNoHero ==
    ASSUME NEW ranged \in BOOLEAN
    PROVE  NewHero(ranged) = NoHero
<1>1. HeroOk(NoHero)
  BY NoHeroFits DEF HeroFits
<1>2. NoHero.server = FALSE /\ NoHero.mode = FALSE
  BY DEF NoHero
<1>3. SetDeployVt(NoHero, FALSE, ranged) = NoHero
  <2>1. (FALSE /\ ranged) = FALSE
    OBVIOUS
  <2> DEFINE v == [NoHero EXCEPT !.vt = FALSE, !.shown = "imgTrans"]
  <2>2. v = NoHero
    <3>1. NoHero.vt = FALSE /\ NoHero.shown = "imgTrans"
      BY DEF NoHero
    <3>2. DOMAIN v = DOMAIN NoHero /\ v = [f \in DOMAIN v |-> v[f]]
      OBVIOUS
    <3>3. \A f \in DOMAIN NoHero : v[f] = NoHero[f]
      BY <3>1
    <3>4. NoHero = [f \in DOMAIN NoHero |-> NoHero[f]]
      BY DEF NoHero
    <3> HIDE DEF v
    <3> QED
      BY <3>2, <3>3, <3>4
  <2> QED
    BY <2>1, <2>2 DEF SetDeployVt
<1>4. UpdateEffectiveDeployMode(NoHero, ranged) = NoHero
  BY DEF UpdateEffectiveDeployMode, SetDeployMode, SetDeployVt, CancelDeployModePress, NoHero
<1> QED
  BY <1>3, <1>4 DEF NewHero

\* A press that goes on is the one that was, one that begins has no time yet.
PressIsKnown(h, k) ==
    k.pending = "none" \/ k.time = 0 \/ (k.pending = h.pending /\ k.time = h.time)

LEMMA HeldStays ==
    ASSUME NEW h, NEW k, HeroOk(k), PressIsKnown(h, k),
           NEW down \in [HeldKeys -> 0..PressTicks], HeldLongEnough(h, down)
    PROVE  HeldLongEnough(k, down)
<1> SUFFICES ASSUME k.pending # "none" PROVE down[KeyOf(k.pending)] >= k.time
  BY DEF HeldLongEnough
<1>1. KeyOf(k.pending) \in HeldKeys
  BY DEF KeyOf, HeldKeys
<1>2. down[KeyOf(k.pending)] \in Nat
  BY <1>1, TimesAreTimes
<1>3. CASE k.time = 0
  BY <1>2, <1>3
<1>4. CASE k.pending = h.pending /\ k.time = h.time
  BY <1>4 DEF HeldLongEnough
<1> QED
  BY <1>3, <1>4 DEF PressIsKnown

LEMMA StartPressFits ==
    ASSUME NEW h, NEW ranged \in BOOLEAN, HeroFits(h, ranged),
           NEW target \in {"on", "off"}, KeyOf(target) \in h.pressed
    PROVE  LET s == StartDeployModePress(h, target, ranged) IN
           HeroFits(s, ranged) /\ PressIsKnown(h, s)
<1>1. CASE ~ranged \/ h.mode = (target = "on") \/ h.pending # "none"
  BY <1>1 DEF StartDeployModePress, PressIsKnown
<1>2. CASE ranged /\ h.mode # (target = "on") /\ h.pending = "none"
  <2>1. ~h.running /\ h.time = 0 /\ h \in HeroType
    BY <1>2 DEF HeroFits, HeroOk
  <2>2. StartDeployModePress(h, target, ranged)
          = [h EXCEPT !.pending = target, !.running = TRUE, !.time = 0]
    BY <1>2, <2>1 DEF StartDeployModePress
  <2> QED
    BY <1>2, <2>1, <2>2, TimesAreTimes DEF HeroFits, HeroOk, HeroType, PressIsKnown
<1> QED
  BY <1>1, <1>2

LEMMA KeyPressFits ==
    ASSUME NEW h, NEW ranged \in BOOLEAN, HeroFits(h, ranged), NEW key \in Keys
    PROVE  LET k == KeyPress(h, key, ranged) IN HeroFits(k, ranged) /\ PressIsKnown(h, k)
<1> DEFINE p == [h EXCEPT !.pressed = @ \cup {key}]
<1>1. /\ HeroFits(p, ranged) /\ p.pending = h.pending /\ p.time = h.time
      /\ p.mode = h.mode /\ p.vt = h.vt /\ key \in p.pressed
  BY DEF HeroFits, HeroOk, HeroType
<1>2. p.vt \in BOOLEAN /\ p.mode \in BOOLEAN /\ p \in HeroType
  BY <1>1 DEF HeroFits, HeroOk, HeroType
<1>3. \/ KeyPress(h, key, ranged) = h
      \/ KeyPress(h, key, ranged) = p
      \/ KeyPress(h, key, ranged) = RestartDeployVt(p)
      \/ ~h.mode /\ KeyPress(h, key, ranged) = SetDeployVt(p, ~p.vt, ranged)
      \/ key = "K" /\ KeyPress(h, key, ranged) = StartDeployModePress(p, "on", ranged)
      \/ key = "L" /\ KeyPress(h, key, ranged) = StartDeployModePress(p, "off", ranged)
  BY DEF KeyPress
<1> HIDE DEF p
<1>4. HeroFits(RestartDeployVt(p), ranged) /\ PressIsKnown(h, RestartDeployVt(p))
  BY <1>1, <1>2, TimesAreTimes DEF RestartDeployVt, HeroFits, HeroOk, HeroType, PressIsKnown
<1>5. ASSUME ~h.mode
      PROVE  /\ HeroFits(SetDeployVt(p, ~p.vt, ranged), ranged)
             /\ PressIsKnown(h, SetDeployVt(p, ~p.vt, ranged))
  <2> DEFINE v == SetDeployVt(p, ~p.vt, ranged)
  <2>1. HeroOk(p) /\ p.mode = FALSE /\ (~p.vt) \in BOOLEAN
    BY <1>1, <1>2, <1>5 DEF HeroFits
  <2>2. /\ HeroOk(v) /\ v.vt = (~p.vt /\ ranged) /\ v.mode = p.mode /\ v.server = p.server
        /\ v.pending = p.pending /\ v.time = p.time
    <3> DEFINE on == ~p.vt
    <3>1. on \in BOOLEAN /\ (p.mode => on /\ ranged)
      BY <2>1
    <3> HIDE DEF on
    <3>2. LET w == SetDeployVt(p, on, ranged) IN
          /\ HeroOk(w)
          /\ w.vt = (on /\ ranged)
          /\ w.mode = p.mode /\ w.server = p.server
          /\ w.pending = p.pending /\ w.time = p.time
      BY <2>1, <3>1, SetDeployVtLeaves
    <3> QED
      BY <3>2 DEF on
  <2> HIDE DEF v
  <2>3. PressIsKnown(h, v)
    BY <1>1, <2>2 DEF PressIsKnown
  <2>4. HeroFits(v, ranged)
    BY <1>1, <2>2 DEF HeroFits
  <2> QED
    BY <2>3, <2>4 DEF v
<1>6. ASSUME NEW target \in {"on", "off"}, KeyOf(target) = key
      PROVE  /\ HeroFits(StartDeployModePress(p, target, ranged), ranged)
             /\ PressIsKnown(h, StartDeployModePress(p, target, ranged))
  <2>1. HeroFits(p, ranged) /\ KeyOf(target) \in p.pressed
    BY <1>1, <1>6
  <2>2. /\ HeroFits(StartDeployModePress(p, target, ranged), ranged)
        /\ PressIsKnown(p, StartDeployModePress(p, target, ranged))
    BY <2>1, StartPressFits
  <2> QED
    BY <1>1, <2>2 DEF PressIsKnown
<1>7. HeroFits(p, ranged) /\ PressIsKnown(h, p) /\ PressIsKnown(h, h)
  BY <1>1 DEF PressIsKnown
<1>8. KeyOf("on") = "K" /\ KeyOf("off") = "L"
  BY DEF KeyOf
<1> QED
  BY <1>3, <1>4, <1>5, <1>6, <1>7, <1>8

LEMMA KeyReleaseFits ==
    ASSUME NEW h, NEW ranged \in BOOLEAN, HeroFits(h, ranged), NEW key \in Keys
    PROVE  LET k == KeyRelease(h, key) IN
           /\ HeroFits(k, ranged)
           /\ k.pending = "none" \/ (k.pending = h.pending /\ k.time = h.time /\ key # KeyOf(h.pending))
<1> DEFINE r == [h EXCEPT !.pressed = @ \ {key}]
<1>0. h \in HeroType
  BY DEF HeroFits, HeroOk
<1>1. /\ r \in HeroType /\ r.pending = h.pending /\ r.time = h.time /\ r.running = h.running
      /\ r.mode = h.mode /\ r.vt = h.vt /\ r.server = h.server /\ r.shown = h.shown
      /\ r.pressed = h.pressed \ {key}
  BY <1>0 DEF HeroType
<1>2. CASE key \in h.pressed /\ h.pending # "none" /\ key = KeyOf(h.pending)
  <2> DEFINE c == [r EXCEPT !.pending = "none", !.running = FALSE, !.time = 0]
  <2>1. KeyRelease(h, key) = c
    BY <1>2 DEF KeyRelease, CancelDeployModePress
  <2> HIDE DEF r
  <2>2. /\ c \in HeroType /\ c.pending = "none" /\ c.running = FALSE /\ c.time = 0
        /\ c.mode = h.mode /\ c.vt = h.vt /\ c.server = h.server /\ c.shown = h.shown
    BY <1>1, TimesAreTimes DEF HeroType
  <2> HIDE DEF c
  <2>3. HeroFits(c, ranged)
    BY <2>2, TimesAreTimes DEF HeroFits, HeroOk
  <2> QED
    BY <2>1, <2>2, <2>3
<1>3. CASE ~(key \in h.pressed /\ h.pending # "none" /\ key = KeyOf(h.pending))
  <2>1. KeyRelease(h, key) = r
    BY <1>3 DEF KeyRelease
  <2>2. h.pending # "none" => KeyOf(h.pending) \in h.pressed /\ key # KeyOf(h.pending)
    BY <1>3 DEF HeroFits, HeroOk
  <2> HIDE DEF r
  <2>3. HeroFits(r, ranged)
    BY <1>1, <2>2 DEF HeroFits, HeroOk
  <2> QED
    BY <1>1, <2>1, <2>2, <2>3
<1> QED
  BY <1>2, <1>3

LEMMA KeyResetFits ==
    ASSUME NEW h, HeroOk(h)
    PROVE  /\ HeroOk(KeyReset(h)) /\ KeyReset(h).pending = "none"
           /\ KeyReset(h).mode = h.mode /\ KeyReset(h).vt = h.vt /\ KeyReset(h).server = h.server
BY TimesAreTimes DEF HeroOk, HeroType, KeyReset, CancelDeployModePress

\* Nothing of the old connection is left.
LEMMA ResetStatusFits ==
    ASSUME NEW h, HeroOk(h)
    PROVE  HeroFits(ResetStatus(h, FALSE), FALSE) /\ ResetStatus(h, FALSE).pending = "none"
<1> DEFINE s == [h EXCEPT !.server = FALSE]
           k == KeyReset(s)
           m == SetDeployMode(k, FALSE, FALSE)
<1>1. HeroOk(s) /\ s.server = FALSE
  BY DEF HeroOk, HeroType
<1> HIDE DEF s
<1>2. HeroOk(k) /\ k.pending = "none" /\ k.server = FALSE
  BY <1>1, KeyResetFits
<1> HIDE DEF k
<1>3. HeroOk(m) /\ m.mode = FALSE /\ m.server = FALSE /\ m.pending = "none"
  BY <1>2, SetDeployModeLeaves
<1> HIDE DEF m
<1>4. /\ HeroOk(SetDeployVt(m, FALSE, FALSE)) /\ SetDeployVt(m, FALSE, FALSE).vt = FALSE
      /\ SetDeployVt(m, FALSE, FALSE).mode = FALSE /\ SetDeployVt(m, FALSE, FALSE).server = FALSE
      /\ SetDeployVt(m, FALSE, FALSE).pending = "none"
  BY <1>3, SetDeployVtLeaves
<1>5. ResetStatus(h, FALSE) = SetDeployVt(m, FALSE, FALSE)
  BY DEF ResetStatus, m, k, s
<1> QED
  BY <1>4, <1>5 DEF HeroFits

\* The reports of a status that changed, as UpdateEffectiveFits has it.
LEMMA ParseStatusFits ==
    ASSUME NEW h, HeroOk(h), NEW on \in BOOLEAN, NEW ranged \in BOOLEAN
    PROVE  LET u == ParseDeployModeStatus(h, on, ranged) IN
           HeroFits(u, ranged) /\ PressIsKnown(h, u)
<1> DEFINE s == [h EXCEPT !.server = on]
<1>1. HeroOk(s) /\ s.pending = h.pending /\ s.time = h.time
  BY DEF HeroOk, HeroType
<1>2. ParseDeployModeStatus(h, on, ranged) = UpdateEffectiveDeployMode(s, ranged)
  BY DEF ParseDeployModeStatus
<1> HIDE DEF s
<1> QED
  BY <1>1, <1>2, UpdateEffectiveFits DEF PressIsKnown

LEMMA StaticStatusFits ==
    ASSUME IInv, NEW s \in Shooters
    PROVE  LET u == StaticStatusReaches(hero, s) IN
           HeroFits(u, IsHeroRanged(s)) /\ PressIsKnown(hero, u)
<1>0. IsHeroRanged(s) \in BOOLEAN /\ HeroFits(hero, IsHeroRanged(shooter)) /\ HeroOk(hero)
  BY DEF IsHeroRanged, IInv, HeroFits
<1>1. CASE kind = "hero" /\ s # shooter
  BY <1>0, <1>1, UpdateEffectiveFits DEF StaticStatusReaches, PressIsKnown
<1>2. CASE s = shooter
  BY <1>0, <1>2 DEF StaticStatusReaches, PressIsKnown
<1>3. CASE kind # "hero"
  BY <1>0, <1>3, NoHeroFits DEF StaticStatusReaches, PressIsKnown, IInv, ModelOfBinding
<1> QED
  BY <1>1, <1>2, <1>3

-----------------------------------------------------------------------------
\* The steps.

LEMMA RangedIsKnown ==
    \A s : IsHeroRanged(s) \in BOOLEAN
BY DEF IsHeroRanged

LEMMA NotHeldIsType ==
    NotHeld \in [HeldKeys -> 0..PressTicks]
BY TimesAreTimes DEF NotHeld

LEMMA CreateBotModelFits ==
    ASSUME IInv, NEW id \in BotIds, NEW gen \in 0..MaxGen, NEW s \in Shooters,
           CreateBotModel(id, gen, s)
    PROVE  /\ kind' \in {"none", "hero", "infantry"} /\ modelGen' \in 0..MaxGen
           /\ HeroFits(hero', IsHeroRanged(s)) /\ hero'.pending = "none"
           /\ kind' # "hero" => hero' = NoHero
           /\ IF id = "other" THEN kind' = "none" ELSE kind' = id /\ modelGen' = gen
           /\ held' = NotHeld
<1>1. [NoHero EXCEPT !.shown = "imgTrans"] = NoHero
  <2> DEFINE v == [NoHero EXCEPT !.shown = "imgTrans"]
  <2>1. NoHero.shown = "imgTrans" /\ NoHero = [f \in DOMAIN NoHero |-> NoHero[f]]
    BY DEF NoHero
  <2>2. DOMAIN v = DOMAIN NoHero /\ v = [f \in DOMAIN v |-> v[f]]
    OBVIOUS
  <2>3. \A f \in DOMAIN NoHero : v[f] = NoHero[f]
    BY <2>1
  <2> HIDE DEF v
  <2> QED
    BY <2>1, <2>2, <2>3 DEF v
<1>2. [NoHero EXCEPT !.shown = NoHero.shown] = NoHero
  <2>1. NoHero.shown = "imgTrans"
    BY DEF NoHero
  <2> QED
    BY <1>1, <2>1
<1>3. NewHero(IsHeroRanged(s)) = NoHero
  BY NewHeroIsNoHero, RangedIsKnown
<1>4. hero' = NoHero
  BY <1>1, <1>2, <1>3 DEF CreateBotModel
<1>5. kind' \in {"none", "hero", "infantry"} /\ modelGen' \in 0..MaxGen
  BY BotStatusAssumption DEF CreateBotModel, BotIds
<1> QED
  BY <1>4, <1>5, NoHeroFits, RangedIsKnown DEF CreateBotModel

LEMMA SetFactoryKeepsIInv ==
    ASSUME IInv, SetFactory
    PROVE  IInv'
<1>1. CASE binding.gen = 0
  <2>1. kind = "none" /\ kind' = kind /\ hero' = hero /\ binding' = binding /\ binding'.gen = 0
    BY <1>1 DEF SetFactory, IInv, ModelOfBinding, modelVars
  <2> QED
    BY <1>1, <2>1 DEF SetFactory, NoCommand, IInv, TypeOK, HeldLongEnough, ModelOfBinding,
                      CommandAfterPress, modelVars, statusVars
<1>2. CASE binding.gen # 0
  <2>1. binding.id \in BotIds /\ binding.gen \in 0..MaxGen /\ binding.gen > 0 /\ shooter \in Shooters
    BY <1>2, BotStatusAssumption DEF IInv, TypeOK, ModelOfBinding
  <2>2. CreateBotModel(binding.id, binding.gen, shooter)
    BY <1>2 DEF SetFactory
  <2>3. /\ kind' \in {"none", "hero", "infantry"} /\ modelGen' \in 0..MaxGen
        /\ HeroFits(hero', IsHeroRanged(shooter)) /\ hero'.pending = "none"
        /\ kind' # "hero" => hero' = NoHero
        /\ IF binding.id = "other" THEN kind' = "none" ELSE kind' = binding.id /\ modelGen' = binding.gen
        /\ held' = NotHeld
    BY <2>1, <2>2, CreateBotModelFits
  <2> QED
    BY <2>1, <2>3, NotHeldIsType
       DEF SetFactory, NoCommand, IInv, TypeOK, HeroFits, HeroOk, HeldLongEnough, ModelOfBinding,
           CommandAfterPress, statusVars
<1> QED
  BY <1>1, <1>2

LEMMA OnBindingChangedKeepsIInv ==
    ASSUME IInv, NEW id \in BotIds, OnBindingChanged(id)
    PROVE  IInv'
<1>1. /\ binding' \in [gen : 0..MaxGen, id : BotIds \cup {"none"}]
      /\ binding'.gen = binding.gen + 1 /\ binding'.id = id /\ id # "none"
      /\ binding.gen + 1 \in 0..MaxGen
  BY BotStatusAssumption DEF OnBindingChanged, IInv, TypeOK, BotIds
<1>2. shooter' = "none" /\ shooter' \in Shooters /\ IsHeroRanged(shooter') = FALSE
  BY DEF OnBindingChanged, Shooters, IsHeroRanged
<1>3. CASE factory
  <2>1. CreateBotModel(id, binding.gen + 1, "none")
    BY <1>3 DEF OnBindingChanged
  <2>2. /\ kind' \in {"none", "hero", "infantry"} /\ modelGen' \in 0..MaxGen
        /\ HeroFits(hero', IsHeroRanged(shooter')) /\ hero'.pending = "none"
        /\ kind' # "hero" => hero' = NoHero
        /\ IF id = "other" THEN kind' = "none" ELSE kind' = id /\ modelGen' = binding.gen + 1
        /\ held' = NotHeld
    BY <1>1, <1>2, <2>1, CreateBotModelFits
  <2> QED
    BY <1>1, <1>2, <1>3, <2>2, NotHeldIsType
       DEF OnBindingChanged, NoCommand, IInv, TypeOK, HeroFits, HeroOk, HeldLongEnough,
           ModelOfBinding, CommandAfterPress
<1>4. CASE ~factory
  <2>1. kind = "none" /\ hero = NoHero
    BY <1>4 DEF IInv, ModelOfBinding
  <2>2. HeroFits(hero', IsHeroRanged(shooter')) /\ hero' = hero /\ hero'.pending = "none"
    BY <1>2, <1>4, <2>1, NoHeroFits DEF OnBindingChanged, modelVars
  <2> QED
    BY <1>1, <1>2, <1>4, <2>1, <2>2
       DEF OnBindingChanged, NoCommand, IInv, TypeOK, HeldLongEnough, ModelOfBinding,
           CommandAfterPress, modelVars
<1> QED
  BY <1>3, <1>4

\* The steps that change no more than the hero, the shooter and the keys.
LEMMA HeroStepKeepsIInv ==
    ASSUME IInv, UNCHANGED <<binding, factory, kind, modelGen, performance>>, NoCommand,
           online' \in BOOLEAN, shooter' \in Shooters, held' \in [HeldKeys -> 0..PressTicks],
           HeroFits(hero', IsHeroRanged(shooter')), HeldLongEnough(hero', held'),
           kind = "hero" \/ hero' = hero
    PROVE  IInv'
BY DEF IInv, TypeOK, HeroFits, HeroOk, HeldLongEnough, ModelOfBinding, CommandAfterPress, NoCommand

LEMMA UpdateStaticStatusKeepsIInv ==
    ASSUME IInv, UpdateStaticStatus
    PROVE  IInv'
<1> DEFINE u == StaticStatusReaches(hero, performance)
<1>1. performance \in Shooters /\ held \in [HeldKeys -> 0..PressTicks] /\ HeldLongEnough(hero, held)
  BY DEF IInv, TypeOK
<1>2. HeroFits(u, IsHeroRanged(performance)) /\ PressIsKnown(hero, u)
  BY <1>1, StaticStatusFits
<1>3. kind = "hero" \/ u = hero
  BY DEF StaticStatusReaches
<1>4. HeldLongEnough(u, held)
  <2> HIDE DEF u
  <2> QED BY <1>1, <1>2, HeldStays DEF HeroFits
<1> HIDE DEF u
<1>5. /\ hero' = u /\ shooter' = performance /\ held' = held /\ online' = online
      /\ UNCHANGED <<binding, factory, kind, modelGen, performance>> /\ NoCommand
      /\ online \in BOOLEAN
  BY DEF UpdateStaticStatus, u, IInv, TypeOK
<1>6. HeroFits(hero', IsHeroRanged(shooter')) /\ HeldLongEnough(hero', held')
  BY <1>2, <1>4, <1>5
<1> QED
  BY <1>1, <1>3, <1>5, <1>6, HeroStepKeepsIInv

LEMMA ConnectionLostKeepsIInv ==
    ASSUME IInv, ConnectionLost
    PROVE  IInv'
<1> DEFINE u == StaticStatusReaches(hero, "none")
           r == ResetStatus(u, FALSE)
<1>1. "none" \in Shooters /\ IsHeroRanged("none") = FALSE
  BY DEF Shooters, IsHeroRanged
<1>2. HeroOk(u)
  BY <1>1, StaticStatusFits DEF HeroFits
<1>3. HeroFits(r, FALSE) /\ r.pending = "none"
  <2> HIDE DEF u
  <2> QED BY <1>2, ResetStatusFits
<1>4. hero' = IF kind = "hero" THEN r ELSE hero
  BY DEF ConnectionLost
<1> HIDE DEF r
<1>5. HeroFits(hero', FALSE) /\ hero'.pending = "none"
  BY <1>3, <1>4, NoHeroFits DEF IInv, ModelOfBinding
<1>6. /\ shooter' = "none" /\ held' = NotHeld /\ online' = FALSE /\ NoCommand
      /\ UNCHANGED <<binding, factory, kind, modelGen, performance>>
  BY DEF ConnectionLost
<1>7. HeroFits(hero', IsHeroRanged(shooter')) /\ HeldLongEnough(hero', held')
  BY <1>1, <1>5, <1>6 DEF HeldLongEnough
<1> QED
  BY <1>1, <1>4, <1>6, <1>7, NotHeldIsType, HeroStepKeepsIInv

LEMMA KeysAndReportsKeepIInv ==
    ASSUME IInv, NEW on \in BOOLEAN, NEW key \in Keys,
           DeployModeStatusSync(on) \/ OnKeyPress(key)
    PROVE  IInv'
<1> DEFINE ranged == IsHeroRanged(shooter)
<1>1. /\ HeroFits(hero, ranged) /\ HeroOk(hero) /\ ranged \in BOOLEAN
      /\ HeldLongEnough(hero, held) /\ held \in [HeldKeys -> 0..PressTicks]
      /\ shooter \in Shooters /\ online \in BOOLEAN
  BY RangedIsKnown DEF IInv, TypeOK, HeroFits
<1>2. /\ kind = "hero" /\ held' = held /\ shooter' = shooter /\ online' = online /\ NoCommand
      /\ UNCHANGED <<binding, factory, kind, modelGen, performance>>
  BY DEF DeployModeStatusSync, OnKeyPress, statusVars
<1>3. \/ hero' = ParseDeployModeStatus(hero, on, ranged)
      \/ hero' = KeyPress(hero, key, ranged)
  BY DEF DeployModeStatusSync, OnKeyPress
<1> HIDE DEF ranged
<1>4. HeroFits(hero', ranged) /\ PressIsKnown(hero, hero')
  BY <1>1, <1>3, ParseStatusFits, KeyPressFits
<1>5. HeldLongEnough(hero', held)
  BY <1>1, <1>4, HeldStays DEF HeroFits
<1>6. HeroFits(hero', IsHeroRanged(shooter')) /\ HeldLongEnough(hero', held')
  BY <1>2, <1>4, <1>5 DEF ranged
<1> QED
  BY <1>1, <1>2, <1>6, HeroStepKeepsIInv

LEMMA OnKeyReleaseKeepsIInv ==
    ASSUME IInv, NEW key \in Keys, OnKeyRelease(key)
    PROVE  IInv'
<1> DEFINE ranged == IsHeroRanged(shooter)
<1>1. /\ HeroFits(hero, ranged) /\ ranged \in BOOLEAN /\ hero \in HeroType
      /\ HeldLongEnough(hero, held) /\ held \in [HeldKeys -> 0..PressTicks]
      /\ shooter \in Shooters /\ online \in BOOLEAN
  BY RangedIsKnown DEF IInv, TypeOK
<1>2. /\ kind = "hero" /\ shooter' = shooter /\ online' = online /\ NoCommand
      /\ UNCHANGED <<binding, factory, kind, modelGen, performance>>
      /\ hero' = KeyRelease(hero, key)
      /\ held' = IF key \in HeldKeys THEN [held EXCEPT ![key] = 0] ELSE held
  BY DEF OnKeyRelease, statusVars
<1> HIDE DEF ranged
<1>3. /\ HeroFits(hero', ranged)
      /\ \/ hero'.pending = "none"
         \/ /\ hero'.pending = hero.pending /\ hero'.time = hero.time
            /\ key # KeyOf(hero.pending)
  BY <1>1, <1>2, KeyReleaseFits
<1>4. held' \in [HeldKeys -> 0..PressTicks]
  BY <1>1, <1>2, TimesAreTimes
<1>5. \A k \in HeldKeys \ {key} : held'[k] = held[k]
  BY <1>1, <1>2
<1>6. \A pending : KeyOf(pending) \in HeldKeys
  BY DEF KeyOf, HeldKeys
<1>7. HeldLongEnough(hero', held')
  BY <1>1, <1>3, <1>5, <1>6 DEF HeldLongEnough
<1>8. HeroFits(hero', IsHeroRanged(shooter'))
  BY <1>2, <1>3 DEF ranged
<1> QED
  BY <1>1, <1>2, <1>4, <1>7, <1>8, HeroStepKeepsIInv

LEMMA OnKeyResetKeepsIInv ==
    ASSUME IInv, OnKeyReset
    PROVE  IInv'
<1>1. /\ kind = "hero" /\ shooter' = shooter /\ online' = online /\ NoCommand
      /\ UNCHANGED <<binding, factory, kind, modelGen, performance>>
      /\ hero' = KeyReset(hero) /\ held' = NotHeld
      /\ shooter \in Shooters /\ online \in BOOLEAN
  BY DEF OnKeyReset, statusVars, IInv, TypeOK
<1>2. HeroFits(hero, IsHeroRanged(shooter))
  BY DEF IInv
<1>3. /\ HeroOk(hero') /\ hero'.pending = "none" /\ hero'.mode = hero.mode
      /\ hero'.vt = hero.vt /\ hero'.server = hero.server
  BY <1>1, <1>2, KeyResetFits DEF HeroFits
<1>4. HeroFits(hero', IsHeroRanged(shooter')) /\ HeldLongEnough(hero', held')
  BY <1>1, <1>2, <1>3 DEF HeroFits, HeldLongEnough
<1> QED
  BY <1>1, <1>4, NotHeldIsType, HeroStepKeepsIInv

\* The command goes out at the tick that completes the press.
LEMMA TickKeepsIInv ==
    ASSUME IInv, Tick
    PROVE  IInv'
<1> DEFINE ranged == IsHeroRanged(shooter)
           later == TimePasses(hero)
           finished == AnimationFinished(later)
<1>1. /\ HeroFits(hero, ranged) /\ ranged \in BOOLEAN /\ hero \in HeroType
      /\ HeldLongEnough(hero, held) /\ held \in [HeldKeys -> 0..PressTicks]
  BY RangedIsKnown DEF IInv, TypeOK, HeroFits
<1>2. /\ kind = "hero" /\ shooter' = shooter /\ online' = online /\ performance' = performance
      /\ UNCHANGED <<binding, factory, kind, modelGen>>
      /\ held' = [k \in HeldKeys |-> IF k \in hero.pressed /\ held[k] < PressTicks
                                     THEN held[k] + 1 ELSE held[k]]
  BY DEF Tick, statusVars
<1>3. \/ later.time = PressTicks /\ hero' = finished
         /\ command' = IF Publishes(hero, ranged) THEN hero.pending ELSE "none"
      \/ later.time # PressTicks /\ hero' = later /\ command' = "none"
  BY DEF Tick
<1>4. held' \in [HeldKeys -> 0..PressTicks]
  BY <1>1, <1>2, TimesAreTimes
<1>5. /\ later.time = IF hero.running THEN hero.time + 1 ELSE hero.time
      /\ later.since \in 0..RestartTicks /\ hero.time + 1 \in 0..PressTicks
      /\ later.vt = hero.vt /\ later.mode = hero.mode /\ later.server = hero.server
      /\ later.pressed = hero.pressed /\ later.pending = hero.pending
      /\ later.running = hero.running /\ later.shown = hero.shown
      /\ later \in HeroType
  <2>1. /\ hero.time \in 0..PressTicks /\ hero.time < PressTicks
        /\ hero.since \in 0..RestartTicks
    BY <1>1 DEF HeroFits, HeroOk, HeroType
  <2>2. /\ hero.time + 1 \in 0..PressTicks
        /\ hero.since < RestartTicks => hero.since + 1 \in 0..RestartTicks
    BY <2>1, HeroModelAssumption
  <2>3. later = [hero EXCEPT !.time = IF hero.running THEN hero.time + 1 ELSE hero.time,
                             !.since = IF hero.since < RestartTicks THEN hero.since + 1 ELSE hero.since]
    BY DEF TimePasses
  <2> QED
    BY <1>1, <2>1, <2>2, <2>3 DEF HeroType
<1>6. hero.pending # "none" =>
        /\ KeyOf(hero.pending) \in HeldKeys
        /\ held'[KeyOf(hero.pending)] >= hero.time + 1
  <2> SUFFICES ASSUME hero.pending # "none"
               PROVE  /\ KeyOf(hero.pending) \in HeldKeys
                      /\ held'[KeyOf(hero.pending)] >= hero.time + 1
    OBVIOUS
  <2> DEFINE k == KeyOf(hero.pending)
  <2>1. k \in HeldKeys
    BY DEF KeyOf, HeldKeys
  <2>2. k \in hero.pressed /\ hero.time < PressTicks /\ held[k] >= hero.time
    BY <1>1 DEF HeroFits, HeroOk, HeldLongEnough
  <2> HIDE DEF k
  <2>3. held[k] \in 0..PressTicks /\ hero.time \in 0..PressTicks
    BY <1>1, <2>1 DEF HeroType
  <2>4. held'[k] = IF held[k] < PressTicks THEN held[k] + 1 ELSE held[k]
    BY <1>2, <2>1, <2>2
  <2>5. held'[k] >= hero.time + 1
    BY <2>2, <2>3, <2>4, TimesAreTimes
  <2> QED
    BY <2>1, <2>5 DEF k
<1>7. /\ finished.pending = "none" /\ finished.running = FALSE /\ finished.time = 0
      /\ finished.vt = hero.vt /\ finished.mode = hero.mode /\ finished.server = hero.server
      /\ finished.pressed = hero.pressed /\ finished.shown = hero.shown
      /\ finished \in HeroType
  <2> HIDE DEF later
  <2> QED BY <1>5, TimesAreTimes DEF HeroType, AnimationFinished
<1> HIDE DEF later, finished, ranged
<1>8. CASE later.time = PressTicks
  <2>1. hero' = finished /\ command' = IF Publishes(hero, ranged) THEN hero.pending ELSE "none"
    BY <1>3, <1>8
  <2>2. HeroFits(hero', ranged) /\ hero'.pending = "none" /\ hero'.mode = hero.mode
    BY <1>1, <1>7, <2>1, TimesAreTimes DEF HeroFits, HeroOk
  <2>3. command' \in {"none", "on", "off"}
    BY <1>1, <2>1 DEF HeroType
  <2>4. ASSUME command' # "none"
        PROVE  held'[KeyOf(command')] = PressTicks /\ hero'.mode # (command' = "on")
    <3>1. command' = hero.pending /\ hero.mode # (hero.pending = "on") /\ hero.pending # "none"
      BY <2>1, <2>4 DEF Publishes
    <3>2. hero.time + 1 = PressTicks
      BY <1>1, <1>5, <1>8, <3>1 DEF HeroFits, HeroOk
    <3>3. /\ KeyOf(command') \in HeldKeys /\ held'[KeyOf(command')] >= PressTicks
          /\ held'[KeyOf(command')] \in 0..PressTicks
      BY <1>4, <1>6, <3>1, <3>2
    <3> QED
      BY <2>2, <3>1, <3>3, TimesAreTimes
  <2> QED
    BY <1>2, <1>4, <2>2, <2>3, <2>4
       DEF IInv, TypeOK, HeroFits, HeroOk, HeldLongEnough, ModelOfBinding, CommandAfterPress, ranged
<1>9. CASE later.time # PressTicks
  <2>1. hero' = later /\ command' = "none"
    BY <1>3, <1>9
  <2>2. HeroFits(hero', ranged)
    BY <1>1, <1>5, <1>9, <2>1, TimesAreTimes DEF HeroFits, HeroOk, HeroType
  <2>3. HeldLongEnough(hero', held')
    BY <1>1, <1>5, <1>6, <2>1 DEF HeroFits, HeroOk, HeldLongEnough
  <2> QED
    BY <1>2, <1>4, <2>1, <2>2, <2>3
       DEF IInv, TypeOK, HeroFits, HeroOk, ModelOfBinding, CommandAfterPress, ranged
<1> QED
  BY <1>8, <1>9

LEMMA NextKeepsIInv ==
    ASSUME IInv, [Next]_vars
    PROVE  IInv'
<1>1. CASE SetFactory
  BY <1>1, SetFactoryKeepsIInv
<1>2. ASSUME NEW id \in BotIds, OnBindingChanged(id)
      PROVE  IInv'
  BY <1>2, OnBindingChangedKeepsIInv
<1>3. CASE OnConnected
  BY <1>3 DEF OnConnected, NoCommand, IInv, TypeOK, HeldLongEnough, ModelOfBinding,
              CommandAfterPress, modelVars
<1>4. CASE UpdateStaticStatus
  BY <1>4, UpdateStaticStatusKeepsIInv
<1>5. CASE ConnectionLost
  BY <1>5, ConnectionLostKeepsIInv
<1>6. ASSUME NEW on \in BOOLEAN, DeployModeStatusSync(on)
      PROVE  IInv'
  BY <1>6, KeysAndReportsKeepIInv DEF Keys
<1>7. ASSUME NEW key \in Keys, OnKeyPress(key) \/ OnKeyRelease(key)
      PROVE  IInv'
  BY <1>7, KeysAndReportsKeepIInv, OnKeyReleaseKeepsIInv
<1>8. CASE OnKeyReset
  BY <1>8, OnKeyResetKeepsIInv
<1>9. CASE Tick
  BY <1>9, TickKeepsIInv
<1>10. ASSUME NEW s \in Shooters, PublishPerformanceModeCmd(s)
       PROVE  IInv'
  BY <1>10 DEF PublishPerformanceModeCmd, NoCommand, IInv, TypeOK, HeldLongEnough,
               ModelOfBinding, CommandAfterPress, modelVars, statusVars
<1>11. CASE UNCHANGED vars
  BY <1>11 DEF vars, modelVars, statusVars, IInv, TypeOK, HeldLongEnough, ModelOfBinding,
               CommandAfterPress
<1> QED
  BY <1>1, <1>2, <1>3, <1>4, <1>5, <1>6, <1>7, <1>8, <1>9, <1>10, <1>11 DEF Next

\* The invariant holds in every state of the bot and its model.
THEOREM Invariance == Spec => []IInv
<1>1. Init => IInv
  <2> SUFFICES ASSUME Init PROVE IInv
    OBVIOUS
  <2>1. HeroFits(hero, IsHeroRanged(shooter)) /\ hero.pending = "none"
    BY NoHeroFits, RangedIsKnown DEF Init
  <2>2. TypeOK
    <3>1. 0 \in 0..MaxGen
      BY BotStatusAssumption
    <3>2. binding \in [gen : 0..MaxGen, id : BotIds \cup {"none"}]
      BY <3>1 DEF Init
    <3>3. hero \in HeroType
      BY <2>1 DEF HeroFits, HeroOk
    <3> QED
      BY <3>1, <3>2, <3>3, NotHeldIsType DEF Init, TypeOK, Shooters
  <2> QED
    BY <2>1, <2>2 DEF Init, IInv, HeldLongEnough, ModelOfBinding, CommandAfterPress
<1>2. IInv /\ [Next]_vars => IInv'
  BY NextKeepsIInv
<1> QED
  BY <1>1, <1>2, PTL DEF Spec

\* The deploy mode is the one reported, for a ranged hero only, the view belongs
\* to it, and the model is the one of the binding, for every number of bindings.
THEOREM ViewIsReported == Spec => []ViewFollowsReports
<1>1. IInv => ViewFollowsReports
  BY DEF IInv, HeroFits, HeroOk, ModelOfBinding, ViewFollowsReports
<1> QED
  BY <1>1, Invariance, PTL

\* A command goes out only after its key was down without a break for the whole
\* time, whatever that is, and never for the mode that is reported already.
THEOREM CommandNeedsFullPress == Spec => []FullPressOnly
<1>1. IInv => FullPressOnly
  BY DEF IInv, HeroFits, HeroOk, HeldLongEnough, CommandAfterPress, FullPressOnly
<1> QED
  BY <1>1, Invariance, PTL

\* Binding, model, statuses, deploy mode and the press in progress are of their
\* types, for every time a key must be held.
THEOREM TypeCorrect == Spec => []TypeOK
<1>1. IInv => TypeOK
  BY DEF IInv
<1> QED
  BY <1>1, Invariance, PTL
=============================================================================
