------------------------------ MODULE HeroModel ------------------------------
(***************************************************************************)
(* GHeroModel: the deploy mode the server reports, the view that goes with *)
(* it, and the key that must be held to ask for another mode.  What the    *)
(* calls make of the model is written as operators on its state; ranged is *)
(* what the common status says of the shooter.                             *)
(***************************************************************************)
EXTENDS Naturals

CONSTANTS
    PressTicks,         \* pressDeployModeTimeOut, in ticks
    RestartTicks        \* pause between restarts of the deploy video

ASSUME HeroModelAssumption == PressTicks \in Nat \ {0} /\ RestartTicks \in Nat

Keys == {"J", "H", "K", "L"}

HeroType == [
    vt : BOOLEAN,                       \* _isDeployVt
    mode : BOOLEAN,                     \* _isDeployMode
    server : BOOLEAN,                   \* _serverDeployMode
    pressed : SUBSET Keys,
    pending : {"none", "on", "off"},    \* _pendingDeployMode
    running : BOOLEAN,                  \* the animation
    time : 0..PressTicks,               \* ... and how far it is
    since : 0..RestartTicks,            \* since the last restart of the video
    shown : {"imgTrans", "deployVt"}]   \* which of the two items is visible

KeyOf(pending) == IF pending = "on" THEN "K" ELSE "L"

-----------------------------------------------------------------------------
SetDeployVt(h, on, ranged) ==
    [h EXCEPT !.vt = on /\ ranged, !.shown = IF on /\ ranged THEN "deployVt" ELSE "imgTrans"]

\* Only what was asked for is forgotten.
CancelDeployModePressOnly(h) == [h EXCEPT !.pending = "none"]

CancelDeployModePress(h) == [h EXCEPT !.pending = "none", !.running = FALSE, !.time = 0]

\* The view is left as it is.
SetDeployModeOnly(h, on, ranged) ==
    IF h.mode = on THEN h ELSE [CancelDeployModePress(h) EXCEPT !.mode = on]

SetDeployMode(h, on, ranged) ==
    IF h.mode = on THEN h
    ELSE SetDeployVt([CancelDeployModePress(h) EXCEPT !.mode = on], on, ranged)

UpdateEffectiveDeployMode(h, ranged) ==
    IF ranged THEN SetDeployMode(h, h.server, TRUE)
    ELSE SetDeployVt(SetDeployMode(CancelDeployModePress(h), FALSE, FALSE), FALSE, FALSE)

\* parseDeployModeStatus(), of a status that can be read and has a value.
ParseDeployModeStatus(h, on, ranged) == UpdateEffectiveDeployMode([h EXCEPT !.server = on], ranged)

\* An animation that runs is not started again.
StartDeployModePress(h, target, ranged) ==
    IF ~ranged \/ h.mode = (target = "on") \/ h.pending # "none" THEN h
    ELSE [h EXCEPT !.pending = target, !.running = TRUE, !.time = IF h.running THEN @ ELSE 0]

\* At most once in a while, and only while the video is looked at.
RestartDeployVt(h) ==
    IF h.vt /\ h.since = RestartTicks THEN [h EXCEPT !.since = 0] ELSE h

-----------------------------------------------------------------------------
\* onNewKeyEvent().

KeyReset(h) == CancelDeployModePress([h EXCEPT !.pressed = {}])

KeyPress(h, key, ranged) ==
    LET p == [h EXCEPT !.pressed = @ \cup {key}] IN
    IF key \in h.pressed THEN h
    ELSE IF key = "H" THEN RestartDeployVt(p)
    ELSE IF key = "J" /\ ~h.mode THEN SetDeployVt(p, ~p.vt, ranged)
    ELSE IF key = "K" /\ ~h.mode THEN StartDeployModePress(p, "on", ranged)
    ELSE IF key = "L" /\ h.mode THEN StartDeployModePress(p, "off", ranged)
    ELSE p

\* Only the key of what is asked for cancels it.
KeyRelease(h, key) ==
    LET r == [h EXCEPT !.pressed = @ \ {key}] IN
    IF key \in h.pressed /\ h.pending # "none" /\ key = KeyOf(h.pending)
    THEN CancelDeployModePress(r) ELSE r

-----------------------------------------------------------------------------
ResetStatus(h, ranged) ==
    SetDeployVt(SetDeployMode(KeyReset([h EXCEPT !.server = FALSE]), FALSE, ranged), FALSE, ranged)

\* The constructor; the destructor leaves the items as NoHero has them.
NoHero == [vt |-> FALSE, mode |-> FALSE, server |-> FALSE, pressed |-> {}, pending |-> "none",
           running |-> FALSE, time |-> 0, since |-> RestartTicks, shown |-> "imgTrans"]

NewHero(ranged) == UpdateEffectiveDeployMode(SetDeployVt(NoHero, FALSE, ranged), ranged)

\* One tick of the animation's and the restarts' time.
TimePasses(h) ==
    [h EXCEPT !.time = IF h.running THEN @ + 1 ELSE @,
              !.since = IF @ < RestartTicks THEN @ + 1 ELSE @]

\* The animation is over: the command goes out if it still makes sense.
AnimationFinished(h) == [h EXCEPT !.pending = "none", !.running = FALSE, !.time = 0]

Publishes(h, ranged) == h.pending # "none" /\ ranged /\ h.mode # (h.pending = "on")
=============================================================================
