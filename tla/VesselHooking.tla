---------------------------- MODULE VesselHooking ----------------------------
(***************************************************************************)
(* HUDDrawer lets MFDs draw on the head-up display.  It overwrites the     *)
(* entry of clbkDrawHUD in the virtual table of the focus vessel's class   *)
(* with its own method (Hook) and keeps the vessel's method in one slot,   *)
(* the entry of OldclbkDrawHUD in the table of its own class.  To draw, it *)
(* takes the hook out, calls the vessel's method, hooks again and calls    *)
(* the drawers that are registered and not on the black list.              *)
(*                                                                         *)
(* A method is named by the class that implements it; HOOK and OLD are     *)
(* VesselHooking's own clbkDrawHUD and OldclbkDrawHUD.  The simulator, the *)
(* environment, creates and deletes vessels, moves the input focus, draws, *)
(* and constructs and destroys drawers (MFDs) at any time.                 *)
(***************************************************************************)
EXTENDS Integers, SequencesExt

CONSTANTS
    Vessels, Classes,
    ClassOf,         \* ClassOf[v]: the class that implements v
    Compatible,      \* classes of the version this module is built for
    ProtectResults,  \* what VirtualProtect may return
    Drawers,         \* objects that draw on the HUD
    NameOf,          \* NameOf[d]: the module of d, numbered as the names sort; 0 is ""
    HOOK, OLD, NULL

ASSUME HookingAssumption ==
    /\ ClassOf \in [Vessels -> Classes]
    /\ Compatible \subseteq Classes
    /\ ProtectResults \subseteq BOOLEAN
    /\ NameOf \in [Drawers -> Nat]
    /\ HOOK \notin Classes /\ OLD \notin Classes /\ HOOK # OLD
    /\ NULL \notin Vessels \union Classes \union {HOOK, OLD}

VARIABLES
    vessels,         \* vessels that exist
    focus,           \* the one with the input focus, NULL between simulations
    hooks,           \* .entry[c]: the table of class c, .saved: the slot
    vecHUDrawers,    \* the registered drawers
    moduleBlackList, \* names of disabled modules
    iSelected,       \* the line HUDDrawerMFD highlights, from 0
    constructed,     \* drawers that exist
    hud              \* what the last step drew on the HUD

simulator == <<vessels, focus>>
drawing   == <<vecHUDrawers, constructed>>
vars      == <<simulator, hooks, drawing, moduleBlackList, iSelected, hud>>

Methods == Classes \union {HOOK, OLD}

\* The method that has drawn the vessel's own picture, and the drawers that have
\* drawn over it.  The hook as own picture is the call that never returns.
HUD(own, overlays) == [own |-> own, overlays |-> overlays]
NoHUD == HUD(NULL, {})
HungHUD == HUD(HOOK, {})

\* Everything in its type.
TypeOK ==
    /\ vessels \subseteq Vessels
    /\ focus \in vessels \union {NULL}
    /\ hooks \in [entry : [Classes -> Methods], saved : Methods]
    /\ vecHUDrawers \in Seq(Drawers)
    /\ moduleBlackList \in Seq(Nat)
    /\ iSelected \in Nat
    /\ constructed \subseteq Drawers
    /\ hud \in [own : Methods \union {NULL}, overlays : SUBSET Drawers]

----------------------------------------------------------------------------
(* The virtual tables.  ok tells whether VirtualProtect lets them be       *)
(* written.                                                                *)

Hook(h, c, ok) ==
    IF ok THEN [entry |-> [h.entry EXCEPT ![c] = HOOK], saved |-> h.entry[c]]
          ELSE h

UnHook(h, c, ok) ==
    IF ok THEN [h EXCEPT !.entry[c] = h.saved] ELSE h

TryHook(h, new, ok) ==
    IF ClassOf[new] \in Compatible THEN Hook(h, ClassOf[new], ok) ELSE h

\* Slip: the version of the vessel is not looked at.
TryUnHookAny(h, old, ok) ==
    IF old # NULL THEN UnHook(h, ClassOf[old], ok) ELSE h

TryUnHook(h, old, ok) ==
    IF old # NULL /\ ClassOf[old] \in Compatible
    THEN UnHook(h, ClassOf[old], ok) ELSE h

\* Slip: the new vessel is hooked before the old one is unhooked.
HookFirst(new, old) ==
    \E ok1, ok2 \in ProtectResults :
        hooks' = TryUnHook(TryHook(hooks, new, ok1), old, ok2)

FocusChanged(new, old) ==
    \E ok1, ok2 \in ProtectResults :
        hooks' = TryHook(TryUnHook(hooks, old, ok1), new, ok2)

----------------------------------------------------------------------------
(* The simulator.                                                          *)

\* The first focus: the callback's old_focus is NULL.
SimulationStart ==
    /\ focus = NULL
    /\ vessels' \in SUBSET Vessels
    /\ focus' \in vessels'
    /\ FocusChanged(focus', NULL)
    /\ hud' = NoHUD
    /\ UNCHANGED <<drawing, moduleBlackList, iSelected>>

SwitchFocus ==
    /\ focus # NULL
    /\ focus' \in vessels \ {focus}
    /\ FocusChanged(focus', focus)
    /\ hud' = NoHUD
    /\ UNCHANGED <<vessels, drawing, moduleBlackList, iSelected>>

CreateVessel ==
    /\ focus # NULL
    /\ \E v \in Vessels \ vessels : vessels' = vessels \union {v}
    /\ UNCHANGED <<focus, hooks, drawing, moduleBlackList, iSelected, hud>>

\* A class is unloaded with its last vessel; its table is fresh when it is
\* loaded again.
Unloaded(left) ==
    [hooks EXCEPT !.entry =
        [c \in Classes |-> IF \E v \in left : ClassOf[v] = c
                           THEN hooks.entry[c] ELSE c]]

\* The focus leaves a vessel before it is deleted.
DeleteVessel ==
    /\ \E v \in vessels \ {focus} :
         /\ vessels' = vessels \ {v}
         /\ hooks' = Unloaded(vessels')
    /\ focus # NULL
    /\ UNCHANGED <<focus, drawing, moduleBlackList, iSelected, hud>>

\* Nothing is unhooked at the end: the module has no callback for it.
SimulationEnd ==
    /\ focus # NULL
    /\ focus' = NULL /\ vessels' = {}
    /\ hooks' = Unloaded({})
    /\ hud' = NoHUD
    /\ UNCHANGED <<drawing, moduleBlackList, iSelected>>

----------------------------------------------------------------------------
(* The drawers and the black list.                                         *)

OnMFDConstruction ==
    /\ \E d \in Drawers \ constructed :
         /\ constructed' = constructed \union {d}
         /\ vecHUDrawers' = Append(vecHUDrawers, d)
    /\ hud' = NoHUD
    /\ UNCHANGED <<simulator, hooks, moduleBlackList, iSelected>>

\* Slip: the last one registered is taken out.
DestructionPops(d) ==
    vecHUDrawers' = Front(vecHUDrawers)

Unregister(d) ==
    vecHUDrawers' = RemoveFirst(vecHUDrawers, d)

OnMFDDestruction ==
    /\ \E d \in constructed :
         /\ constructed' = constructed \ {d}
         /\ Unregister(d)
    /\ hud' = NoHUD
    /\ UNCHANGED <<simulator, hooks, moduleBlackList, iSelected>>

\* The names of the registered modules, sorted, each once.
Registered == {NameOf[d] : d \in Range(vecHUDrawers)} \ {0}
GetDrawersList == CHOOSE q \in [1 .. Cardinality(Registered) -> Registered] :
                      \A i, j \in DOMAIN q : i < j => q[i] < q[j]

BlackListed(name) == \E i \in DOMAIN moduleBlackList : moduleBlackList[i] = name

\* The user has set the module's switch to the contrary of what it was.
UpdateDrawer(name) ==
    moduleBlackList' = IF BlackListed(name) THEN RemoveFirst(moduleBlackList, name)
                                            ELSE Append(moduleBlackList, name)

\* Slip: the selection does not wrap around.
SelectPrevNoWrap ==
    /\ Registered # {}
    /\ iSelected' = iSelected - 1
    /\ UNCHANGED moduleBlackList

SelectPrev ==
    /\ Registered # {}
    /\ iSelected' = IF iSelected = 0 THEN Cardinality(Registered) - 1 ELSE iSelected - 1
    /\ UNCHANGED moduleBlackList

SelectNext ==
    /\ Registered # {}
    /\ iSelected' = (iSelected + 1) % Cardinality(Registered)
    /\ UNCHANGED moduleBlackList

\* iSelected may be beyond the list: the list shrinks with the drawers.
ModItem ==
    /\ iSelected < Cardinality(Registered)
    /\ UpdateDrawer(GetDrawersList[iSelected + 1])
    /\ UNCHANGED iSelected

EnableAll == moduleBlackList' = <<>> /\ UNCHANGED iSelected

\* Slip: the black list is not cleared before.
DisableAllAppends ==
    /\ moduleBlackList' = moduleBlackList \o GetDrawersList
    /\ UNCHANGED iSelected

DisableAll == moduleBlackList' = GetDrawersList /\ UNCHANGED iSelected

ReopenMFD == iSelected' = 0 /\ UNCHANGED moduleBlackList

\* A button of HUDDrawerMFD, or opening it anew.
Configure ==
    /\ SelectPrev \/ SelectNext \/ ModItem \/ EnableAll \/ DisableAll \/ ReopenMFD
    /\ hud' = NoHUD
    /\ UNCHANGED <<simulator, hooks, drawing>>

----------------------------------------------------------------------------
(* Drawing a frame.                                                        *)

Overlays(willing) ==
    {d \in Range(vecHUDrawers) : d \in willing /\ ~BlackListed(NameOf[d])}

\* VesselHooking::clbkDrawHUD, called through the table of class c.  If the
\* entry is still the hook after UnHook, the call of this->clbkDrawHUD comes
\* back here for ever.
DrawHooked(c, willing) ==
    \E ok1, ok2 \in ProtectResults :
        LET unhooked == UnHook(hooks, c, ok1)
            own == unhooked.entry[c]
        IN  IF own = HOOK
            THEN hud' = HungHUD /\ hooks' = unhooked
            ELSE /\ hooks' = Hook(unhooked, c, ok2)
                 /\ hud' = HUD(own, Overlays(willing))

\* The simulator draws the HUD of the vessel in focus.  Each drawer may or may
\* not be willing (ShouldDrawHUD).
DrawHUD ==
    /\ focus # NULL /\ hud # HungHUD
    /\ LET c == ClassOf[focus]
       IN  \/ /\ hooks.entry[c] = HOOK
              /\ \E willing \in SUBSET Drawers : DrawHooked(c, willing)
           \/ /\ hooks.entry[c] # HOOK
              /\ hud' = HUD(hooks.entry[c], {})
              /\ UNCHANGED hooks
    /\ UNCHANGED <<simulator, drawing, moduleBlackList, iSelected>>

----------------------------------------------------------------------------
Init ==
    /\ vessels = {} /\ focus = NULL
    /\ hooks = [entry |-> [c \in Classes |-> c], saved |-> OLD]
    /\ vecHUDrawers = <<>> /\ constructed = {}
    /\ moduleBlackList = <<>> /\ iSelected = 0
    /\ hud = NoHUD

Next ==
    \/ SimulationStart \/ SimulationEnd \/ SwitchFocus \/ CreateVessel \/ DeleteVessel
    \/ OnMFDConstruction \/ OnMFDDestruction \/ Configure \/ DrawHUD

Spec == Init /\ [][Next]_vars

----------------------------------------------------------------------------
(* Properties.                                                             *)

\* The class of the vessel in focus is hooked, and no other, and the slot holds
\* its own method, whatever vessels of other versions have had the focus
\* between: taking the hook out restores the table.
OnlyFocusHooked ==
    \A c \in Classes :
        IF focus # NULL /\ c = ClassOf[focus] /\ c \in Compatible
        THEN hooks.entry[c] = HOOK /\ hooks.saved = c
        ELSE hooks.entry[c] = c

\* Drawing comes to an end, and has drawn the vessel's own HUD, by the vessel's
\* own method.
OwnHUDIsDrawn == hud.own # NULL => hud.own = ClassOf[focus]

\* Every drawer that exists can draw once a frame, and none that is gone can.
DrawersAreAlive ==
    IsInjective(vecHUDrawers) /\ Range(vecHUDrawers) = constructed

\* A name is on the black list at most once, so that erasing it once enables
\* the module.
OneSwitchPerModule == IsInjective(moduleBlackList)
=============================================================================
