------------------------- MODULE VesselHookingProofs -------------------------
(***************************************************************************)
(* The hook follows the focus and every frame shows the vessel's own HUD,  *)
(* for any number of vessels, classes and versions, as long as the virtual *)
(* tables can be written.                                                  *)
(***************************************************************************)
EXTENDS VesselHooking, FiniteSetTheorems, SequenceTheorems, TLAPS

----------------------------------------------------------------------------
(* Lists of pointers: sequences without repetition.                         *)

\* Removing a position from such a sequence removes its element, and only it.
LEMMA RemoveAtProperties ==
    ASSUME NEW S, NEW s \in Seq(S), IsInjective(s), NEW i \in DOMAIN s
    PROVE  /\ RemoveAt(s, i) \in Seq(S)
           /\ IsInjective(RemoveAt(s, i))
           /\ Range(RemoveAt(s, i)) = Range(s) \ {s[i]}
<1> DEFINE n == Len(s)
           l == SubSeq(s, 1, i - 1)
           r == SubSeq(s, i + 1, n)
           t == RemoveAt(s, i)
<1>1. n \in Nat /\ DOMAIN s = 1 .. n /\ i \in 1 .. n /\ \A k \in 1 .. n : s[k] \in S
  BY LenProperties
<1>2. l \in Seq(S) /\ Len(l) = i - 1 /\ \A k \in 1 .. i - 1 : l[k] = s[k]
  BY <1>1
<1>3. r \in Seq(S) /\ Len(r) = n - i
  BY <1>1
<1>4. \A k \in 1 .. n - i : r[k] = s[i + k]
  BY <1>1
<1>5. t = l \o r
  BY DEF RemoveAt
<1> HIDE DEF l, r, n, t
<1>6. /\ t \in Seq(S) /\ Len(t) = n - 1
      /\ \A k \in 1 .. n - 1 : t[k] = IF k <= i - 1 THEN l[k] ELSE r[k - (i - 1)]
  <2>1. Len(l) + Len(r) = n - 1
    BY <1>1, <1>2, <1>3
  <2>2. /\ t \in Seq(S) /\ Len(t) = Len(l) + Len(r)
        /\ \A k \in 1 .. Len(l) + Len(r) : t[k] = IF k <= Len(l) THEN l[k] ELSE r[k - Len(l)]
    BY <1>2, <1>3, <1>5, ConcatProperties
  <2> QED BY <1>2, <2>1, <2>2
<1>7. DOMAIN t = 1 .. n - 1 /\ \A k \in 1 .. n - 1 : t[k] = IF k < i THEN s[k] ELSE s[k + 1]
  <2>1. ASSUME NEW k \in 1 .. n - 1, ~(k < i) PROVE t[k] = s[k + 1]
    <3>1. k - (i - 1) \in 1 .. n - i /\ ~(k <= i - 1) /\ i + (k - (i - 1)) = k + 1
      BY <1>1, <2>1
    <3> QED BY <1>4, <1>6, <3>1
  <2> QED BY <1>1, <1>2, <1>6, <2>1, LenProperties
<1>8. \A j, k \in 1 .. n : s[j] = s[k] => j = k
  BY <1>1 DEF IsInjective
<1>9. IsInjective(t)
  BY <1>1, <1>7, <1>8 DEF IsInjective
<1>10. ASSUME NEW x \in Range(t) PROVE x \in Range(s) \ {s[i]}
    BY <1>1, <1>7, <1>8 DEF Range
<1>11. ASSUME NEW x \in Range(s) \ {s[i]} PROVE x \in Range(t)
  <2>1. PICK k \in 1 .. n : x = s[k] /\ k # i
    BY <1>1 DEF Range
  <2>2. t[IF k < i THEN k ELSE k - 1] = x /\ (IF k < i THEN k ELSE k - 1) \in 1 .. n - 1
    BY <1>1, <1>7, <2>1
  <2> QED BY <1>7, <2>2 DEF Range
<1> QED BY <1>6, <1>9, <1>10, <1>11 DEF t

\* Erasing what std::find has found removes the element, and only it.
LEMMA RemoveFirstProperties ==
    ASSUME NEW S, NEW s \in Seq(S), IsInjective(s), NEW e \in Range(s)
    PROVE  /\ RemoveFirst(s, e) \in Seq(S)
           /\ IsInjective(RemoveFirst(s, e))
           /\ Range(RemoveFirst(s, e)) = Range(s) \ {e}
<1>1. PICK i \in DOMAIN s : s[i] = e
  BY DEF Range
<1>2. DOMAIN s = 1 .. Len(s) /\ Len(s) \in Nat
  BY LenProperties
<1>3. {j \in 1 .. Len(s) : s[j] = e} = {i}
  BY <1>1, <1>2 DEF IsInjective
<1>4. Min({i}) = i
  BY <1>1, <1>2 DEF Min
<1>5. SelectInSeq(s, LAMBDA v : v = e) = i
  BY <1>3, <1>4 DEF SelectInSeq
<1>6. RemoveFirst(s, e) = RemoveAt(s, i)
  BY <1>1, <1>2, <1>5 DEF RemoveFirst
<1> QED BY <1>1, <1>6, RemoveAtProperties

\* Appending a new element to one keeps it one.
LEMMA AppendNew ==
    ASSUME NEW S, NEW s \in Seq(S), IsInjective(s), NEW e \in S, e \notin Range(s)
    PROVE  /\ Append(s, e) \in Seq(S)
           /\ IsInjective(Append(s, e))
           /\ Range(Append(s, e)) = Range(s) \union {e}
<1> DEFINE n == Len(s)
           t == Append(s, e)
<1>1. n \in Nat /\ DOMAIN s = 1 .. n
  BY LenProperties
<1>2. /\ t \in Seq(S) /\ DOMAIN t = 1 .. n + 1 /\ t[n + 1] = e
      /\ \A k \in 1 .. n : t[k] = s[k]
  BY <1>1
<1> HIDE DEF n, t
<1>3. \A k \in 1 .. n : s[k] # e
  BY <1>1 DEF Range
<1>4. IsInjective(t)
  BY <1>1, <1>2, <1>3 DEF IsInjective
<1>5. Range(t) = Range(s) \union {e}
  BY <1>1, <1>2 DEF Range
<1> QED BY <1>2, <1>4, <1>5 DEF t

LEMMA EmptySequence ==
    ASSUME NEW S
    PROVE  <<>> \in Seq(S) /\ IsInjective(<<>>) /\ Range(<<>>) = {}
BY DEF IsInjective, Range

Hooks == [entry : [Classes -> Methods], saved : Methods]

\* The inductive invariant: OnlyFocusHooked and OwnHUDIsDrawn, with as much of
\* the types as they need.  Without the slot's content in OnlyFocusHooked no
\* step that takes the hook out would restore the table.
HookInv ==
    /\ vessels \subseteq Vessels
    /\ focus \in vessels \union {NULL}
    /\ hooks \in Hooks
    /\ OnlyFocusHooked
    /\ OwnHUDIsDrawn
    /\ focus = NULL => hud = NoHUD

\* What OnlyFocusHooked asks of the tables when f has the focus.
Follows(h, f) ==
    \A c \in Classes :
        IF f # NULL /\ c = ClassOf[f] /\ c \in Compatible
        THEN h.entry[c] = HOOK /\ h.saved = c
        ELSE h.entry[c] = c

LEMMA HooksRecord ==
    ASSUME NEW e \in [Classes -> Methods], NEW m \in Methods, NEW t,
           t = [entry |-> e, saved |-> m]
    PROVE  t \in Hooks /\ t.entry = e /\ t.saved = m
BY DEF Hooks

\* Taking the hook out of the class of the old focus restores all tables.
LEMMA UnHooked ==
    ASSUME NEW h \in Hooks, NEW f \in Vessels \union {NULL}, Follows(h, f)
    PROVE  /\ TryUnHook(h, f, TRUE) \in Hooks
           /\ Follows(TryUnHook(h, f, TRUE), NULL)
<1>1. CASE f # NULL /\ ClassOf[f] \in Compatible
  <2> DEFINE c == ClassOf[f]
  <2>1. c \in Classes
    BY <1>1, HookingAssumption
  <2>2. h.entry[c] = HOOK /\ h.saved = c
    BY <1>1, <2>1 DEF Follows
  <2>3. TryUnHook(h, f, TRUE) = [h EXCEPT !.entry[c] = h.saved]
    BY <1>1 DEF TryUnHook, UnHook
  <2>4. TryUnHook(h, f, TRUE) = [entry |-> [h.entry EXCEPT ![c] = c], saved |-> h.saved]
    BY <2>2, <2>3 DEF Hooks
  <2>5. \A b \in Classes \ {c} : h.entry[b] = b
    BY DEF Follows
  <2> DEFINE e == [h.entry EXCEPT ![c] = c]
  <2>6. e \in [Classes -> Methods] /\ \A b \in Classes : e[b] = b
    BY <2>1, <2>5 DEF Hooks, Methods
  <2>7. TryUnHook(h, f, TRUE) = [entry |-> e, saved |-> h.saved] /\ h.saved \in Methods
    BY <2>4 DEF Hooks
  <2> DEFINE t == TryUnHook(h, f, TRUE)
  <2>8. t \in Hooks /\ t.entry = e
    <3>1. t = [entry |-> e, saved |-> h.saved]
      BY <2>7
    <3> HIDE DEF e, t
    <3> QED BY <2>6, <2>7, <3>1, HooksRecord
  <2> HIDE DEF e, t
  <2>9. Follows(t, NULL)
    BY <2>6, <2>8 DEF Follows
  <2> QED BY <2>8, <2>9 DEF t
<1>2. CASE ~(f # NULL /\ ClassOf[f] \in Compatible)
  <2>1. TryUnHook(h, f, TRUE) = h
    BY <1>2 DEF TryUnHook
  <2> QED BY <1>2, <2>1 DEF Follows
<1> QED BY <1>1, <1>2

\* Hooking the class of the new focus saves its own method.
LEMMA Hooked ==
    ASSUME NEW h \in Hooks, NEW f \in Vessels, Follows(h, NULL)
    PROVE  TryHook(h, f, TRUE) \in Hooks /\ Follows(TryHook(h, f, TRUE), f)
<1> DEFINE c == ClassOf[f]
<1>1. c \in Classes /\ f # NULL
  BY HookingAssumption
<1>2. \A b \in Classes : h.entry[b] = b
  BY DEF Follows
<1>3. CASE c \in Compatible
  <2>1. TryHook(h, f, TRUE) = [entry |-> [h.entry EXCEPT ![c] = HOOK], saved |-> h.entry[c]]
    BY <1>3 DEF TryHook, Hook
  <2>2. h.entry[c] = c
    BY <1>1, <1>2
  <2> DEFINE e == [h.entry EXCEPT ![c] = HOOK]
  <2>3. /\ e \in [Classes -> Methods] /\ e[c] = HOOK
        /\ \A b \in Classes \ {c} : e[b] = b
    BY <1>1, <1>2 DEF Hooks, Methods
  <2>4. TryHook(h, f, TRUE) = [entry |-> e, saved |-> c] /\ c \in Methods
    BY <1>1, <2>1, <2>2 DEF Methods
  <2> DEFINE t == TryHook(h, f, TRUE)
  <2>5. t \in Hooks /\ t.entry = e /\ t.saved = c
    <3>1. t = [entry |-> e, saved |-> c]
      BY <2>4
    <3> HIDE DEF e, t
    <3> QED BY <2>3, <2>4, <3>1, HooksRecord
  <2> HIDE DEF e, t
  <2>6. Follows(t, f)
    BY <1>1, <1>3, <2>3, <2>5 DEF Follows
  <2> QED BY <2>5, <2>6 DEF t
<1>4. CASE c \notin Compatible
  <2>1. TryHook(h, f, TRUE) = h
    BY <1>4 DEF TryHook
  <2> QED BY <1>2, <1>4, <2>1 DEF Follows
<1> QED BY <1>3, <1>4

\* FocusChanged makes the hook follow the focus.
LEMMA FocusFollowed ==
    ASSUME ProtectResults = {TRUE}, hooks \in Hooks,
           NEW new \in Vessels, NEW old \in Vessels \union {NULL},
           Follows(hooks, old), FocusChanged(new, old)
    PROVE  hooks' \in Hooks /\ Follows(hooks', new)
<1> DEFINE h == TryUnHook(hooks, old, TRUE)
<1>1. h \in Hooks /\ Follows(h, NULL)
  BY UnHooked
<1>2. hooks' = TryHook(h, new, TRUE)
  BY DEF FocusChanged
<1> HIDE DEF h
<1> QED BY <1>1, <1>2, Hooked

\* Unloading classes that no vessel needs leaves the hook of the focus alone;
\* without vessels it takes the hook out.
LEMMA UnloadedFollows ==
    ASSUME hooks \in Hooks, NEW left \in SUBSET Vessels,
           NEW f \in Vessels, NEW g, Follows(hooks, f),
           (g = f /\ f \in left) \/ (g = NULL /\ left = {})
    PROVE  Unloaded(left) \in Hooks /\ Follows(Unloaded(left), g)
<1> DEFINE e == [c \in Classes |-> IF \E v \in left : ClassOf[v] = c
                                   THEN hooks.entry[c] ELSE c]
<1>1. Unloaded(left) = [entry |-> e, saved |-> hooks.saved]
  BY DEF Unloaded, Hooks
<1>2. e \in [Classes -> Methods] /\ hooks.saved \in Methods
  BY DEF Hooks, Methods
<1>3. \A c \in Classes : e[c] = hooks.entry[c] \/ (e[c] = c /\ \A v \in left : ClassOf[v] # c)
  OBVIOUS
<1>4. f # NULL
  BY HookingAssumption
<1>5. CASE g = f /\ f \in left
  BY <1>1, <1>2, <1>3, <1>4, <1>5 DEF Follows, Hooks
<1>6. CASE g = NULL /\ left = {}
  BY <1>1, <1>2, <1>6 DEF Follows, Hooks
<1> QED BY <1>5, <1>6

LEMMA InitHook == Init => HookInv
BY HookingAssumption DEF Init, HookInv, Hooks, Methods, OnlyFocusHooked, OwnHUDIsDrawn, NoHUD, HUD

\* OnlyFocusHooked is Follows of the focus.
LEMMA FollowsFocus == OnlyFocusHooked <=> Follows(hooks, focus)
BY DEF OnlyFocusHooked, Follows

LEMMA FollowsFocusNext == OnlyFocusHooked' <=> Follows(hooks', focus')
BY DEF OnlyFocusHooked, Follows

LEMMA StartHook ==
    ASSUME ProtectResults = {TRUE}, HookInv, SimulationStart PROVE HookInv'
<1>1. focus = NULL /\ hooks \in Hooks /\ Follows(hooks, NULL)
  BY FollowsFocus DEF HookInv, SimulationStart
<1>2. focus' \in vessels' /\ vessels' \subseteq Vessels /\ FocusChanged(focus', NULL)
  BY DEF SimulationStart
<1>3. focus' \in Vessels /\ focus' # NULL
  BY <1>2, HookingAssumption
<1>4. hooks' \in Hooks /\ Follows(hooks', focus')
  BY <1>1, <1>2, <1>3, FocusFollowed
<1>5. hud'.own = NULL
  BY DEF SimulationStart, NoHUD, HUD
<1> QED BY <1>2, <1>3, <1>4, <1>5, FollowsFocusNext DEF HookInv, OwnHUDIsDrawn

LEMMA SwitchHook ==
    ASSUME ProtectResults = {TRUE}, HookInv, SwitchFocus PROVE HookInv'
<1>1. focus # NULL /\ focus \in Vessels /\ hooks \in Hooks /\ Follows(hooks, focus)
  BY FollowsFocus DEF HookInv, SwitchFocus
<1>2. focus' \in vessels /\ vessels' = vessels /\ FocusChanged(focus', focus)
  BY DEF SwitchFocus
<1>3. focus' \in Vessels /\ focus' # NULL
  BY <1>2, HookingAssumption DEF HookInv
<1>4. hooks' \in Hooks /\ Follows(hooks', focus')
  BY <1>1, <1>2, <1>3, FocusFollowed
<1>5. hud'.own = NULL
  BY DEF SwitchFocus, NoHUD, HUD
<1> QED BY <1>2, <1>3, <1>4, <1>5, FollowsFocusNext DEF HookInv, OwnHUDIsDrawn

LEMMA DeleteHook == ASSUME HookInv, DeleteVessel PROVE HookInv'
<1>1. focus \in Vessels /\ hooks \in Hooks /\ Follows(hooks, focus)
  BY FollowsFocus DEF HookInv, DeleteVessel
<1>2. focus \in vessels' /\ vessels' \in SUBSET Vessels /\ hooks' = Unloaded(vessels')
  BY DEF HookInv, DeleteVessel
<1>3. hooks' \in Hooks /\ Follows(hooks', focus)
  BY <1>1, <1>2, UnloadedFollows
<1>4. focus' = focus /\ hud' = hud
  BY DEF DeleteVessel
<1> QED BY <1>2, <1>3, <1>4, FollowsFocusNext DEF HookInv, OwnHUDIsDrawn

LEMMA EndHook == ASSUME HookInv, SimulationEnd PROVE HookInv'
<1>1. focus \in Vessels /\ hooks \in Hooks /\ Follows(hooks, focus)
  BY FollowsFocus DEF HookInv, SimulationEnd
<1>2. focus' = NULL /\ vessels' = {} /\ hooks' = Unloaded({}) /\ hud' = NoHUD
  BY DEF SimulationEnd
<1>3. hooks' \in Hooks /\ Follows(hooks', NULL)
  BY <1>1, <1>2, UnloadedFollows
<1> QED BY <1>2, <1>3, FollowsFocusNext DEF HookInv, OwnHUDIsDrawn, NoHUD, HUD

\* A frame: the vessel's own method is called, and the hook is back afterwards.
LEMMA DrawHook ==
    ASSUME ProtectResults = {TRUE}, HookInv, DrawHUD PROVE HookInv'
<1>1. focus \in Vessels /\ focus # NULL /\ hooks \in Hooks /\ Follows(hooks, focus)
  BY FollowsFocus DEF HookInv, DrawHUD
<1> DEFINE c == ClassOf[focus]
<1>2. c \in Classes /\ c # HOOK /\ c # NULL
  BY <1>1, HookingAssumption
<1>3. UNCHANGED <<vessels, focus>>
  BY DEF DrawHUD, simulator
<1>4. CASE /\ hooks.entry[c] = HOOK
           /\ \E willing \in SUBSET Drawers : DrawHooked(c, willing)
  <2>1. c \in Compatible /\ hooks.saved = c
    BY <1>1, <1>2, <1>4 DEF Follows
  <2>2. TryUnHook(hooks, focus, TRUE) = UnHook(hooks, c, TRUE)
    BY <1>1, <2>1 DEF TryUnHook
  <2> DEFINE h == UnHook(hooks, c, TRUE)
  <2>3. h \in Hooks /\ Follows(h, NULL)
    BY <1>1, <2>2, UnHooked
  <2>4. h.entry[c] = c
    BY <1>2, <2>3 DEF Follows
  <2>5. PICK willing \in SUBSET Drawers : DrawHooked(c, willing)
    BY <1>4
  <2>6. hooks' = Hook(h, c, TRUE) /\ hud' = HUD(c, Overlays(willing))
    BY <1>2, <2>4, <2>5 DEF DrawHooked
  <2>7. hooks' = TryHook(h, focus, TRUE)
    BY <2>1, <2>6 DEF TryHook
  <2> HIDE DEF h
  <2>8. hooks' \in Hooks /\ Follows(hooks', focus)
    BY <1>1, <2>3, <2>7, Hooked
  <2>9. hud'.own = c
    BY <2>6 DEF HUD
  <2> QED BY <1>1, <1>3, <2>8, <2>9, FollowsFocusNext DEF HookInv, OwnHUDIsDrawn
<1>5. CASE /\ hooks.entry[c] # HOOK
           /\ hud' = HUD(hooks.entry[c], {})
           /\ UNCHANGED hooks
  <2>1. hooks.entry[c] = c
    BY <1>1, <1>2, <1>5 DEF Follows
  <2>2. hud'.own = c
    BY <1>5, <2>1 DEF HUD
  <2> QED BY <1>1, <1>3, <1>5, <2>2, FollowsFocusNext DEF HookInv, OwnHUDIsDrawn
<1> QED BY <1>4, <1>5 DEF DrawHUD

\* The other steps leave the focus and the tables alone.
LEMMA OtherHook ==
    ASSUME HookInv,
           \/ CreateVessel \/ OnMFDConstruction \/ OnMFDDestruction \/ Configure
           \/ UNCHANGED vars
    PROVE  HookInv'
<1>1. UNCHANGED <<focus, hooks>> /\ (UNCHANGED hud \/ hud' = NoHUD)
  BY DEF CreateVessel, OnMFDConstruction, OnMFDDestruction, Configure, vars, simulator, drawing
<1>2. vessels \subseteq vessels' /\ vessels' \subseteq Vessels
  BY DEF HookInv, CreateVessel, OnMFDConstruction, OnMFDDestruction, Configure, vars, simulator, drawing
<1> QED BY <1>1, <1>2, FollowsFocus, FollowsFocusNext DEF HookInv, OwnHUDIsDrawn, NoHUD, HUD

LEMMA HookInvariance ==
    ASSUME ProtectResults = {TRUE} PROVE Spec => []HookInv
<1>1. HookInv /\ [Next]_vars => HookInv'
  BY StartHook, SwitchHook, DeleteHook, EndHook, DrawHook, OtherHook DEF Next
<1> QED BY <1>1, InitHook, PTL DEF Spec

\* As long as VirtualProtect grants every write, the hook follows the focus and
\* the slot holds what it replaced, whatever vessels come and go.
THEOREM HookFollowsFocus ==
    ASSUME ProtectResults = {TRUE} PROVE Spec => []OnlyFocusHooked
BY HookInvariance, PTL DEF HookInv

\* ... so every frame comes to an end and shows the vessel's own HUD.
THEOREM FramesShowOwnHUD ==
    ASSUME ProtectResults = {TRUE} PROVE Spec => []OwnHUDIsDrawn
BY HookInvariance, PTL DEF HookInv

----------------------------------------------------------------------------
(* The registered drawers.                                                 *)

DrawersInv ==
    /\ constructed \subseteq Drawers
    /\ vecHUDrawers \in Seq(Drawers)
    /\ DrawersAreAlive

LEMMA DrawersInvariance == Spec => []DrawersInv
<1>1. Init => DrawersInv
  BY EmptySequence DEF Init, DrawersInv, DrawersAreAlive
<1>2. DrawersInv /\ OnMFDConstruction => DrawersInv'
  <2> SUFFICES ASSUME DrawersInv, OnMFDConstruction PROVE DrawersInv'
    OBVIOUS
  <2>1. PICK d \in Drawers \ constructed :
           constructed' = constructed \union {d} /\ vecHUDrawers' = Append(vecHUDrawers, d)
    BY DEF OnMFDConstruction
  <2>2. d \notin Range(vecHUDrawers)
    BY <2>1 DEF DrawersInv, DrawersAreAlive
  <2> QED BY <2>1, <2>2, AppendNew DEF DrawersInv, DrawersAreAlive
<1>3. DrawersInv /\ OnMFDDestruction => DrawersInv'
  <2> SUFFICES ASSUME DrawersInv, OnMFDDestruction PROVE DrawersInv'
    OBVIOUS
  <2>1. PICK d \in constructed :
           constructed' = constructed \ {d} /\ vecHUDrawers' = RemoveFirst(vecHUDrawers, d)
    BY DEF OnMFDDestruction, Unregister
  <2>2. d \in Range(vecHUDrawers)
    BY <2>1 DEF DrawersInv, DrawersAreAlive
  <2> QED BY <2>1, <2>2, RemoveFirstProperties DEF DrawersInv, DrawersAreAlive
<1>4. DrawersInv /\ UNCHANGED drawing => DrawersInv'
  BY DEF drawing, DrawersInv, DrawersAreAlive
<1>5. [Next]_vars => OnMFDConstruction \/ OnMFDDestruction \/ UNCHANGED drawing
  BY DEF Next, vars, SimulationStart, SimulationEnd, SwitchFocus, CreateVessel,
         DeleteVessel, Configure, DrawHUD
<1>6. DrawersInv /\ [Next]_vars => DrawersInv'
  BY <1>2, <1>3, <1>4, <1>5
<1> QED BY <1>1, <1>6, PTL DEF Spec

\* A drawer draws once a frame from its construction to its destruction, and
\* the list never leads to one that is gone.
THEOREM DrawersRegistered == Spec => []DrawersAreAlive
BY DrawersInvariance, PTL DEF DrawersInv

----------------------------------------------------------------------------
(* The black list, and the types.                                          *)

\* A finite set of numbers can be listed in order: the place of each is the
\* number of those that are not above it.
LEMMA SortedList ==
    ASSUME NEW S \in SUBSET Nat, IsFiniteSet(S)
    PROVE  \E q \in [1 .. Cardinality(S) -> S] : \A i, j \in DOMAIN q : i < j => q[i] < q[j]
<1> DEFINE n == Cardinality(S)
           UpTo(x) == {y \in S : y <= x}
           rank == [x \in S |-> Cardinality(UpTo(x))]
           q == [i \in 1 .. n |-> CHOOSE x \in S : rank[x] = i]
<1>1. n \in Nat /\ IsFiniteSet(1 .. n) /\ Cardinality(1 .. n) = n
  BY FS_CardinalityType, FS_Interval
<1>2. ASSUME NEW x \in S PROVE rank[x] \in 1 .. n /\ IsFiniteSet(UpTo(x))
  <2>1. UpTo(x) \in SUBSET S /\ x \in UpTo(x)
    OBVIOUS
  <2> HIDE DEF UpTo
  <2>2. IsFiniteSet(UpTo(x)) /\ Cardinality(UpTo(x)) <= n
    BY <2>1, FS_Subset
  <2>3. Cardinality(UpTo(x)) \in Nat /\ Cardinality(UpTo(x)) # 0
    BY <2>1, <2>2, FS_CardinalityType, FS_EmptySet
  <2> QED BY <1>1, <2>2, <2>3
<1>3. ASSUME NEW x \in S, NEW y \in S, x < y PROVE rank[x] < rank[y]
  <2>1. UpTo(x) \in SUBSET UpTo(y) /\ UpTo(x) # UpTo(y)
    <3>1. x \in Nat /\ y \in Nat /\ ~(y <= x) /\ \A z \in Nat : z <= x => z <= y
      BY <1>3
    <3>2. y \notin UpTo(x) /\ y \in UpTo(y)
      BY <3>1
    <3>3. \A z \in UpTo(x) : z \in UpTo(y)
      BY <3>1
    <3> QED BY <3>2, <3>3
  <2> HIDE DEF UpTo
  <2>2. Cardinality(UpTo(x)) <= Cardinality(UpTo(y)) /\ Cardinality(UpTo(x)) # Cardinality(UpTo(y))
    BY <1>2, <2>1, FS_Subset
  <2> QED BY <1>1, <1>2, <2>2
<1> HIDE DEF rank, n
<1>4. rank \in Injection(S, 1 .. n)
  <2>1. rank \in [S -> 1 .. n]
    BY <1>2 DEF rank
  <2>2. \A x, y \in S : rank[x] = rank[y] => x = y
    <3> SUFFICES ASSUME NEW x \in S, NEW y \in S, x # y PROVE rank[x] # rank[y]
      OBVIOUS
    <3>1. x < y \/ y < x
      OBVIOUS
    <3>2. rank[x] \in 1 .. n /\ rank[y] \in 1 .. n
      BY <2>1
    <3> QED BY <1>1, <1>3, <3>1, <3>2
  <2> QED BY <2>1, <2>2 DEF Injection, IsInjective
<1>5. \A i \in 1 .. n : \E x \in S : rank[x] = i
  <2>1. rank \in Surjection(S, 1 .. n)
    BY <1>1, <1>4, FS_Injection DEF n
  <2> QED BY <2>1 DEF Surjection
<1>6. \A i \in 1 .. n : q[i] \in S /\ rank[q[i]] = i
  BY <1>5
<1> HIDE DEF q
<1>7. ASSUME NEW i \in 1 .. n, NEW j \in 1 .. n, i < j PROVE q[i] < q[j]
  <2>1. /\ q[i] \in S /\ q[j] \in S /\ rank[q[i]] = i /\ rank[q[j]] = j
        /\ i # j /\ ~(j < i)
    BY <1>1, <1>6, <1>7
  <2>2. q[i] # q[j] /\ ~(q[j] < q[i])
    BY <1>3, <2>1
  <2>3. \A x, y \in Nat : x < y \/ x = y \/ y < x
    OBVIOUS
  <2> QED BY <2>1, <2>2, <2>3
<1>8. q \in [1 .. n -> S]
  BY <1>6 DEF q
<1> QED BY <1>7, <1>8 DEF n

\* The list of modules names each registered module once.
LEMMA DrawersListed ==
    ASSUME vecHUDrawers \in Seq(Drawers)
    PROVE  /\ Cardinality(Registered) \in Nat
           /\ (Registered # {} => Cardinality(Registered) > 0)
           /\ GetDrawersList \in [1 .. Cardinality(Registered) -> Registered]
           /\ IsInjective(GetDrawersList)
           /\ Registered \subseteq Nat
<1> DEFINE n == Cardinality(Registered)
<1>1. DOMAIN vecHUDrawers = 1 .. Len(vecHUDrawers) /\ Len(vecHUDrawers) \in Nat
      /\ \A i \in 1 .. Len(vecHUDrawers) : vecHUDrawers[i] \in Drawers
  BY LenProperties, ElementOfSeq
<1>2. Registered \subseteq Nat
  BY <1>1, HookingAssumption DEF Registered, Range
<1>3. IsFiniteSet(Registered)
  <2> DEFINE f == [i \in 1 .. Len(vecHUDrawers) |-> NameOf[vecHUDrawers[i]]]
             T == {NameOf[d] : d \in Range(vecHUDrawers)}
  <2>1. f \in Surjection(1 .. Len(vecHUDrawers), T)
    BY <1>1 DEF Range, Surjection
  <2>2. IsFiniteSet(1 .. Len(vecHUDrawers))
    BY <1>1, FS_Interval
  <2> HIDE DEF f
  <2>3. IsFiniteSet(T)
    BY <2>1, <2>2, FS_Surjection
  <2> QED BY <2>3, FS_RemoveElement DEF Registered
<1>4. n \in Nat /\ (Registered # {} => n > 0)
  BY <1>3, FS_CardinalityType, FS_EmptySet
<1>5. /\ GetDrawersList \in [1 .. n -> Registered]
      /\ \A i, j \in DOMAIN GetDrawersList : i < j => GetDrawersList[i] < GetDrawersList[j]
  BY <1>2, <1>3, SortedList DEF GetDrawersList
<1>6. IsInjective(GetDrawersList)
  <2> HIDE DEF n
  <2> SUFFICES ASSUME NEW i \in 1 .. n, NEW j \in 1 .. n, GetDrawersList[i] = GetDrawersList[j]
               PROVE  i = j
    BY <1>5 DEF IsInjective
  <2>1. GetDrawersList[i] \in Nat
    BY <1>2, <1>5
  <2>2. ~(i < j) /\ ~(j < i)
    BY <1>5, <2>1
  <2> QED BY <1>4, <2>2
<1> QED BY <1>2, <1>4, <1>5, <1>6

NamesInv ==
    /\ moduleBlackList \in Seq(Nat) /\ OneSwitchPerModule
    /\ iSelected \in Nat

\* Switching a module appends a name only if it is not there.
LEMMA UpdateKeepsNames ==
    ASSUME NamesInv, NEW name \in Nat, UpdateDrawer(name)
    PROVE  moduleBlackList' \in Seq(Nat) /\ IsInjective(moduleBlackList')
<1>1. moduleBlackList \in Seq(Nat) /\ IsInjective(moduleBlackList)
  BY DEF NamesInv, OneSwitchPerModule
<1>2. BlackListed(name) <=> name \in Range(moduleBlackList)
  BY DEF BlackListed, Range
<1>3. CASE BlackListed(name)
  <2>1. moduleBlackList' = RemoveFirst(moduleBlackList, name)
    BY <1>3 DEF UpdateDrawer
  <2> QED BY <1>1, <1>2, <1>3, <2>1, RemoveFirstProperties
<1>4. CASE ~BlackListed(name)
  <2>1. moduleBlackList' = Append(moduleBlackList, name)
    BY <1>4 DEF UpdateDrawer
  <2> QED BY <1>1, <1>2, <1>4, <2>1, AppendNew
<1> QED BY <1>3, <1>4

LEMMA ConfigureKeepsNames ==
    ASSUME DrawersInv, NamesInv, Configure
    PROVE  NamesInv'
<1> DEFINE n == Cardinality(Registered)
<1>1. /\ n \in Nat /\ (Registered # {} => n > 0)
      /\ GetDrawersList \in [1 .. n -> Registered] /\ IsInjective(GetDrawersList)
      /\ Registered \subseteq Nat
  BY DrawersListed DEF DrawersInv
<1>2. GetDrawersList \in Seq(Nat)
  <2> HIDE DEF n
  <2>1. GetDrawersList \in [1 .. n -> Nat]
    BY <1>1
  <2> QED BY <1>1, <2>1
<1>3. moduleBlackList \in Seq(Nat) /\ IsInjective(moduleBlackList) /\ iSelected \in Nat
  BY DEF NamesInv, OneSwitchPerModule
<1>4. CASE SelectPrev
  <2>1. iSelected' = (IF iSelected = 0 THEN n - 1 ELSE iSelected - 1) /\ n > 0
        /\ UNCHANGED moduleBlackList
    BY <1>1, <1>4 DEF SelectPrev
  <2>2. iSelected' \in Nat
    <3> HIDE DEF n
    <3> QED BY <1>1, <1>3, <2>1
  <2> QED BY <1>3, <2>1, <2>2 DEF NamesInv, OneSwitchPerModule
<1>5. CASE SelectNext
  <2>1. iSelected' = (iSelected + 1) % n /\ n > 0 /\ UNCHANGED moduleBlackList
    BY <1>1, <1>5 DEF SelectNext
  <2>2. iSelected' \in Nat
    <3> HIDE DEF n
    <3> QED BY <1>1, <1>3, <2>1
  <2> QED BY <1>3, <2>1, <2>2 DEF NamesInv, OneSwitchPerModule
<1>6. CASE ModItem
  <2>1. iSelected < n /\ UpdateDrawer(GetDrawersList[iSelected + 1]) /\ UNCHANGED iSelected
    BY <1>6 DEF ModItem
  <2>2. iSelected + 1 \in 1 .. n
    <3> HIDE DEF n
    <3> QED BY <1>1, <1>3, <2>1
  <2>3. GetDrawersList[iSelected + 1] \in Nat
    BY <1>1, <2>2
  <2> QED BY <1>3, <2>1, <2>3, UpdateKeepsNames DEF NamesInv, OneSwitchPerModule
<1>7. CASE EnableAll
  BY <1>3, <1>7, EmptySequence DEF EnableAll, NamesInv, OneSwitchPerModule
<1>8. CASE DisableAll
  BY <1>1, <1>2, <1>3, <1>8 DEF DisableAll, NamesInv, OneSwitchPerModule
<1>9. CASE ReopenMFD
  BY <1>3, <1>9 DEF ReopenMFD, NamesInv, OneSwitchPerModule
<1> QED BY <1>4, <1>5, <1>6, <1>7, <1>8, <1>9 DEF Configure

LEMMA NamesInvariance == Spec => []NamesInv
<1>1. Init => NamesInv
  BY EmptySequence DEF Init, NamesInv, OneSwitchPerModule
<1>2. NamesInv /\ UNCHANGED <<moduleBlackList, iSelected>> => NamesInv'
  BY DEF NamesInv, OneSwitchPerModule
<1>3. [Next]_vars => Configure \/ UNCHANGED <<moduleBlackList, iSelected>>
  BY DEF Next, vars, SimulationStart, SimulationEnd, SwitchFocus, CreateVessel,
         DeleteVessel, OnMFDConstruction, OnMFDDestruction, DrawHUD
<1>4. DrawersInv /\ NamesInv /\ [Next]_vars => NamesInv'
  BY <1>2, <1>3, ConfigureKeepsNames
<1> QED BY <1>1, <1>4, DrawersInvariance, PTL DEF Spec

\* However modules are switched, one by one or all at once, and drawers come and
\* go, a name is on the black list once: erasing it enables the module.
THEOREM NamesOnce == Spec => []OneSwitchPerModule
BY NamesInvariance, PTL DEF NamesInv

HookTypes ==
    /\ vessels \subseteq Vessels
    /\ focus \in vessels \union {NULL}
    /\ hooks \in Hooks
    /\ hud \in [own : Methods \union {NULL}, overlays : SUBSET Drawers]

\* The tables keep their type whether VirtualProtect lets them be written or not.
LEMMA TablesTyped ==
    ASSUME NEW h \in Hooks, NEW c \in Classes, NEW ok
    PROVE  Hook(h, c, ok) \in Hooks /\ UnHook(h, c, ok) \in Hooks
BY DEF Hooks, Methods, Hook, UnHook

LEMMA TriesTyped ==
    ASSUME NEW h \in Hooks, NEW f \in Vessels \union {NULL}, NEW ok
    PROVE  TryUnHook(h, f, ok) \in Hooks /\ (f # NULL => TryHook(h, f, ok) \in Hooks)
<1>1. f # NULL => ClassOf[f] \in Classes
  BY HookingAssumption
<1> QED BY <1>1, TablesTyped DEF TryUnHook, TryHook

LEMMA FocusChangedTyped ==
    ASSUME hooks \in Hooks, NEW new \in Vessels, NEW old \in Vessels \union {NULL},
           FocusChanged(new, old)
    PROVE  hooks' \in Hooks
<1>1. PICK ok1, ok2 \in ProtectResults : hooks' = TryHook(TryUnHook(hooks, old, ok1), new, ok2)
  BY DEF FocusChanged
<1>2. new # NULL
  BY HookingAssumption
<1> QED BY <1>1, <1>2, TriesTyped

LEMMA UnloadedTyped ==
    ASSUME hooks \in Hooks, NEW left
    PROVE  Unloaded(left) \in Hooks
BY DEF Hooks, Methods, Unloaded

LEMMA PicturesTyped ==
    /\ NoHUD \in [own : Methods \union {NULL}, overlays : SUBSET Drawers]
    /\ HungHUD \in [own : Methods \union {NULL}, overlays : SUBSET Drawers]
    /\ \A m \in Methods, o \in SUBSET Drawers :
          HUD(m, o) \in [own : Methods \union {NULL}, overlays : SUBSET Drawers]
BY DEF NoHUD, HungHUD, HUD, Methods

LEMMA DrawTyped ==
    ASSUME DrawersInv, HookTypes, DrawHUD
    PROVE  HookTypes'
<1> DEFINE c == ClassOf[focus]
<1>1. c \in Classes
  BY HookingAssumption DEF DrawHUD, HookTypes
<1>2. UNCHANGED <<vessels, focus>>
  BY DEF DrawHUD, simulator
<1>3. CASE \E willing \in SUBSET Drawers : DrawHooked(c, willing)
  <2>1. PICK willing \in SUBSET Drawers, ok1 \in ProtectResults, ok2 \in ProtectResults :
          LET unhooked == UnHook(hooks, c, ok1)
              own == unhooked.entry[c]
          IN  IF own = HOOK THEN hud' = HungHUD /\ hooks' = unhooked
              ELSE hooks' = Hook(unhooked, c, ok2) /\ hud' = HUD(own, Overlays(willing))
    BY <1>3 DEF DrawHooked
  <2> DEFINE unhooked == UnHook(hooks, c, ok1)
  <2>2. unhooked \in Hooks
    BY <1>1, TablesTyped DEF HookTypes
  <2> HIDE DEF unhooked
  <2>3. unhooked.entry[c] \in Methods /\ Hook(unhooked, c, ok2) \in Hooks
    BY <1>1, <2>2, TablesTyped DEF Hooks
  <2>4. Overlays(willing) \in SUBSET Drawers
    BY DEF Overlays
  <2> QED BY <1>2, <2>1, <2>2, <2>3, <2>4, PicturesTyped DEF unhooked, HookTypes
<1>4. CASE hud' = HUD(hooks.entry[c], {}) /\ UNCHANGED hooks
  <2>1. hooks.entry[c] \in Methods /\ {} \in SUBSET Drawers
    BY <1>1 DEF HookTypes, Hooks
  <2> QED BY <1>2, <1>4, <2>1, PicturesTyped DEF HookTypes
<1> QED BY <1>3, <1>4 DEF DrawHUD

LEMMA SimulatorTyped ==
    ASSUME HookTypes,
           SimulationStart \/ SimulationEnd \/ SwitchFocus \/ CreateVessel \/ DeleteVessel
    PROVE  HookTypes'
<1>1. CASE SimulationStart
  <2>1. vessels' \subseteq Vessels /\ focus' \in vessels' /\ FocusChanged(focus', NULL) /\ hud' = NoHUD
    BY <1>1 DEF SimulationStart
  <2>2. hooks' \in Hooks
    BY <2>1, FocusChangedTyped DEF HookTypes
  <2> QED BY <2>1, <2>2, PicturesTyped DEF HookTypes
<1>2. CASE SwitchFocus
  <2>1. /\ UNCHANGED vessels /\ focus' \in vessels /\ FocusChanged(focus', focus) /\ hud' = NoHUD
        /\ vessels \subseteq Vessels /\ focus \in Vessels \union {NULL}
    BY <1>2 DEF SwitchFocus, HookTypes
  <2>2. hooks' \in Hooks
    BY <2>1, FocusChangedTyped DEF HookTypes
  <2> QED BY <2>1, <2>2, PicturesTyped DEF HookTypes
<1>3. CASE SimulationEnd
  BY <1>3, UnloadedTyped, PicturesTyped DEF SimulationEnd, HookTypes
<1>4. CASE CreateVessel
  BY <1>4 DEF CreateVessel, HookTypes
<1>5. CASE DeleteVessel
  BY <1>5, UnloadedTyped DEF DeleteVessel, HookTypes
<1> QED BY <1>1, <1>2, <1>3, <1>4, <1>5

LEMMA TypesInvariance == Spec => []HookTypes
<1>1. Init => HookTypes
  BY PicturesTyped DEF Init, HookTypes, Hooks, Methods
<1>2. DrawersInv /\ HookTypes /\ [Next]_vars => HookTypes'
  <2> SUFFICES ASSUME DrawersInv, HookTypes, [Next]_vars PROVE HookTypes'
    OBVIOUS
  <2>1. CASE OnMFDConstruction \/ OnMFDDestruction \/ Configure
    BY <2>1, PicturesTyped
       DEF OnMFDConstruction, OnMFDDestruction, Configure, simulator, HookTypes
  <2>2. CASE UNCHANGED vars
    BY <2>2 DEF vars, simulator, HookTypes
  <2> QED BY <2>1, <2>2, SimulatorTyped, DrawTyped DEF Next
<1> QED BY <1>1, <1>2, DrawersInvariance, PTL DEF Spec

\* Every variable stays in its type, whatever VirtualProtect returns.
THEOREM TypeCorrect == Spec => []TypeOK
<1>1. DrawersInv /\ NamesInv /\ HookTypes => TypeOK
  BY DEF DrawersInv, NamesInv, HookTypes, Hooks, TypeOK
<1> QED BY <1>1, DrawersInvariance, NamesInvariance, TypesInvariance, PTL
=============================================================================
