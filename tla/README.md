# A verification project for enjomitchsorbit

The repository holds a family of C++ add-ons for the Orbiter space flight simulator, the
libraries they share, and some unrelated tools.  This directory models, in TLA+, the parts of
it that keep state over time: what the add-ons do when the simulator's callbacks, the pilot's
buttons and the other add-ons' messages arrive in any order.  TLC checks small instances, and
TLAPS proves the most important properties for every value of the constants.

## 1. The system

Orbiter is single-threaded towards its add-ons.  It loads each add-on as a module and calls it
back: `clbkSimulationStart` and `clbkSimulationEnd` around a simulation, `clbkPreStep` and
`clbkPostStep` on every time step, `clbkDeleteVessel` before a vessel disappears,
`clbkFocusChanged` when the pilot moves to another vessel.  Each add-on offers *MFDs*: small
displays with buttons.  The pilot opens and closes MFDs, presses their buttons, and answers
input boxes that were opened earlier.  Nothing runs in parallel (except in EnjoLib's two
threading helpers), yet everything interleaves: any callback can come between two buttons.

| Part | State it keeps | Operations | Why it is hard |
|---|---|---|---|
| BurnTimeCalcMFD (`BurnTimeCalcMFD/src`) | one `MFDDataBurnTime` per vessel: mode, IsArmed, IsEngaged, IsCircular, dv, IBurn, ECutoff, EReference, IManual, Sel_eng, otherMFDsel, inputmode | `Update` on time steps and redraws; 15 buttons; the input box; burns fetched from other MFDs | flags changed in nine places; the engine to be cut is read at the cutoff; the buttons drive the vessel in focus, the time steps the data's own |
| libMFD, several vessels (`libMFD/multipleVesselsMFD`) | a registry of data objects, one per vessel, and the objects of deleted vessels | associate a new MFD, delete a vessel, update before and after a step, start and end of a simulation | MFDs keep pointers into the registry; vessels disappear while their MFD is open; addresses are reused |
| libMFD, buttons (`libMFD/MFDButtonPage.hpp`) | pages of buttons, the current page | register, switch page, consume a button or a key | a key is looked up on all pages, a button on the current one |
| libMFD, sounds (`libMFD/MFDSound++`) | a play-once flag per sample | play, play once, reset | several conditions share one flag |
| libMFD, rotation autopilot (`libMFD/Orbiter/AutopilotRotation.cpp`) | enabled flag, target, thruster state | set target, update, enable, main engine cutoff | must release the thrusters when it is disabled |
| ModuleMessagingExt, ModuleMessaging | a map per type from names (vessel, module, variable) to values; pointers to structures of other modules | put, delete, get, by value and by reference | values and pointers stay when their sender is gone; a structure's version is read from the structure itself; the vessel that is left out is the one in focus |
| HUDDrawer (`HUDDrawer/VesselHooking`) | hooked vessel, the saved slot of its virtual table, the drawers and which are enabled | hook and unhook on focus changes, MFD construction and destruction, draw | one saved slot for all vessel classes; a hook saved as the original is an infinite recursion |
| TransX (`TransX/src`) | per ship a plan of stages linked to each other and the stages to be deleted; a view per ship and MFD; a queue of computations threaded through plans and stages; in each stage a list of variables that all its views share, with one iterator | forward, back, inherit, optimise; the background task and one queued action on alternate time steps; save and restore | plans change under the MFDs that show them and under the pass that computes them; stages leave the plan long before they are deleted; variables are members of plans that are replaced at any time |
| LaunchMFD (`launchmfd`) | per vessel a copy of the flight (landed, launched, half of the final velocity), target and azimuth lock, autopilot mode, the autopilots' memory from step to step | guide in one of three modes, redraw the MFD or the HUD, buttons, target, save and read | the copy is renewed only when someone looks; a mode ends in the middle of the step that was to steer; the memory must not outlive its engagement |
| EnjoLib (`lib`) | `ConcurrentQueue`, `LoopThreaded`, and stateless mathematics | push, try_pop, wait_and_pop; run a loop on several threads | the only concurrency in the repository |
| BaseSyncMFD, Glideslope, EnergyMFD, CamShake, STS- and Soyuz-GuidanceMFD, TopoMapMFD, AbsoluteKillrot, KOST_Orbiter | mostly functions of the simulator's state | display | continuous mathematics; no protocol of their own |
| orbitrader, orbitradermfd, orbaster, da-solver, velOptimum, azimuth, libwx, libWin, dlib, others | tools, a web shop, vendored code | | outside the add-ons' core, or not this project's code |

## 2. The plan

In the order in which the modules are written; "T" marks theorems.  At most twelve runs are kept,
so a claim that has made its point gives way to a run of a new component.

1. **BurnTime** (done): the autoburn, with its claims and liveness.  T (done): types, flags,
   engines, no burn past its cutoff.
2. **MultipleVessels** (done): the registry of data objects, the MFDs that point into it, and the
   simulator that creates and deletes vessels.  T (done): all six invariants.
3. **VesselHooking** (done): the virtual tables, hooks, focus changes, drawers.  T (done): the hook
   follows the focus, frames end, the drawers are alive, one switch per module, types.
4. **FIFOQueue**, **ConcurrentQueue** (done): a queue between threads refines an atomic FIFO.
   T (done): the lock, no undefined pop, no lost wakeup, the refinement.
5. **TransXStages**, **MFDFunction** (done): plans, views, the background task; the queue of
   actions.  T (done, of the plans and views): types, StagesOnce, LinksMatch, ViewsFollow.
6. **LaunchMFD** (done): the data, the buttons and the three autopilots.  T (done): types and every
   safety property.
7. **VariableList**, **TransXVariables** (done): sequences with places in them; the doubly linked lists
   of `doublelink.cpp` that implement them.  T (done): the pointers' refinement, no destroyed variable
   is shown, views are independent.
8. **Mailbox**, **ModuleMessagingExt** (done): who can read what; the typed maps and pointers.
   T (done): types, the refinement.

What the plan has left: LaunchMFD's staging, which needs its pitch programs; saving a TransX plan while flying.  `MFDButtonPage`, `Sound`, `AutopilotRotation` and `LoopThreaded` are
left out for good: an index, a flag per sound, a flag with a control law, and threads that share nothing.

## 3. Modules and code

Names of variables, operators and actions are those of the code where TLA+ allows it.  An operator
commented as a "Slip" is a plausible mistake in the definition that follows it; no specification
uses it.  It is there to show that the properties would notice.  `PROJECT.json` lists for each
definition the lines it stands for.

### BurnTime (BurnTimeCalcMFD)

`data` is the `MFDDataBurnTime` object of one vessel; `thrust` is what the MFD has done to the
thruster groups of every vessel; `focus` is the vessel the buttons act on, which is not always the
one the data belongs to.  `PreStep` and `Redraw` are both `Update` (the former after time has
passed): count down, recompute the burn, then ignite or cut off, in the order of
`MFDDataBurnTime::Update`.  Each button and each answer to an input box is an action.  Instants are
relative to the simulation time.  Doubles are small integers or NaN, and a comparison with NaN is
false, as in C++.

Abstractions: what the orbit or a target gives is chosen freely; the velocity that is left of a
burn is a function of the time left; remaining fuel, units, RCS, the sounds and the attitude
autopilot are left out.

### MultipleVessels (libMFD)

The registry of `PluginMultipleVessels` is two sequences of objects at addresses that are used
again.  Actions are the simulator's callbacks and the MFDs' constructors and destructors.  `born`
and `shows` are history: they tell vessels apart that had the same address, which the code cannot.

Assumed of the simulator: `clbkDeleteVessel` comes before the vessel is destroyed, and the MFDs of
one simulation are gone before the next starts.

### VesselHooking (HUDDrawer)

`hooks.entry[c]` is the slot of `clbkDrawHUD` in the virtual table of class c, `hooks.saved` the one
slot where the original is kept.  A method is named by the class that implements it, so "the wrong
class's method" and "the hook saved as the original" are visible values.  `hud` is what the last
frame drew (the drawers as a set: nothing depends on their order); a frame that calls the hook from the
hook never ends, and is `HungHUD`.  The switches that the MFD shows are the names of a `std::set`, in
increasing order.

Assumed: the simulator moves the focus away before it deletes a vessel, and unloads the classes at
the end of a simulation.  The run takes `ProtectResults = {TRUE}`: `VirtualProtect` succeeds.  The
module has the other case: a refused Hook and a granted UnHook write another class's method into the
table (VesselHooking.cpp:174 and 198), which is why the theorems assume it away.

### FIFOQueue and ConcurrentQueue (EnjoLib)

`ConcurrentQueue` executes `push`, `try_pop` and `wait_and_pop` one statement at a time, by any
number of threads; condition variables may wake a thread for no reason.  `FIFOQueue` is the abstract
specification: one atomic append or removal.  `ImplementsFIFO` is the refinement.

### TransXStages (TransX)

`baselist[s]` and `todeletelist[s]` are the two lists of ship s, `previousfunc` and `nextfunc` the
links between stages, `view[s][p]` the index the MFD at p shows of the plan of s (0 is the page of
the ship's own settings).  `PostStep` alternates between `BackgroundAction`, which looks at one ship
at a time, and `DoNextAction`, which runs one computation.  The other actions are the opening,
closing and redrawing of an MFD and its buttons.  `Replan` is what the handlers that change a plan
share: cut the plan after its k-th stage, put the rest aside, append new stages.

A null pointer that is followed or a place outside of a list that is read is a `fault`, and the
program ends there.

Abstractions: where ships are and what they aim for is chosen freely; so is the order of the queue,
which `MFDFunction` models; the view's two indices are one, because `togglefunctionswitch` is never
called; variables and kinds of plan are left out.  Not modelled: saving while flying (restored plans
are initial states), the deletion of a vessel, the closing of the whole viewport.

### MFDFunction (TransX)

The queue of actions as the record of its pointers, with every method of `mfdfunction.cpp`, and the
handlers reduced to what they do to the queue.  Plans live on; a stage is created, put aside
(`delist`) and deleted (`delist` once more, in the destructor).

### LaunchMFD (LaunchMFD)

`vessel` is the vessel in the simulator: on the ground or not, in the orbit it is to reach or not, its
engine, the axes it is turned about and the surfaces that are deflected.  `data` is its
`MFDDataLaunchMFD`, `m_pidAP` what the autopilots note from one step to the next.  `PreStep` is `Guide`
of the mode that is engaged: decide by the copy whether the vessel has been launched, renew the copy,
end the mode or steer.  `Redraw` and `RedrawDirectAscent` are the pages of the MFD and the HUD;
the buttons, the input box of the target, and `Reload` (WriteStatus and ReadStatus) are actions.
`TakeOff`, `Land`, `OrbitChanges`, `Throttle` and `TargetVanishes` are the simulator and the pilot's
own controls.

Abstractions: angles, velocities and times are chosen freely among the cases the code tells apart (in
orbit or not, half of the velocity or not, the sign of a difference or its change, high enough or not).
An update meets a target on any of its `Sides`, or not at all.  Not modelled: the numbers of the
guidance, pitch programs and with them the detection of staging, display, sounds, compass.

### StageVariables, VariableList and TransXVariables (TransX)

`VariableList` says what the lists promise, with sequences and places in them.  `TransXVariables` has the
code's pointers: the ends of a list, the links of the elements, the iterator.  An element that is
uncoupled keeps its own links; a new element at its place begins with none.  `UpdatePlan` destroys a
plan's variables and adds those of the next, perhaps at the same addresses (`Cells`).
`SearchFrom` is the loop of the two buttons, `Shown` what `getcurrent` returns, `currvariable` the
pointers the views keep when another view has taken the iterator.  `ListsArePointedTo` is the
refinement.  `StageVariables` has what both modules share.

Two loops of the code, the walk along a list and the search of the buttons, end by what they meet.  In the
model they are recursive functions of as many steps as there are places (`Elements`, `Search`), which is
enough for every list that is in order.  That the lists are always in order, so that the code's loops end
where the model's do, is part of what is checked and proved.

Not modelled: the variables' values and their scenario lines, the input boxes, and the iterator that
`loadallvariables` leaks (the list tells it, nobody uses it).

### MessageNames, Mailbox and ModuleMessagingExt (ModuleMessagingExt)

`Mailbox` is the abstract specification: under each name, for each kind, the value that was put last and
not deleted; for each name the structure that was put last; and what readers are given of it, which
depends on what is in its memory when they ask.  `ModuleMessagingExt` has the library's seven maps as one
function of the kind, keyed by folded names; `memory` is what a pointer points to, alive or not.  Reads
change nothing and are operators (`ModMsgGet`, `ModMsgGetByRef`).  `StoreIsMailbox` is the refinement:
what the library answers to every reader, at any time, is what the mailbox holds.

The senders and the simulator are the environment. A sender calls with a structure that is alive and may
destroy it at any time, deleted from the store or not: the headers ask for memory that outlives the MFD
(ModuleMessagingExtPut.hpp:89), such as the vessel class, and nowhere that a structure be deleted from the
store before it goes. Its memory is then as it was (a compiler may drop the last writes of a destructor),
used for something else (`Freed`), or, later, another structure. So the mailbox does not promise that what
a reader is given is alive, and no property says so: the library cannot know (section 6). Of freed memory
only what the library reads is modelled: that it can be unmapped, or match the version and size and be no
structure, makes the reader's case worse. No name contains the separator of an ID. What a reader does with
a pointer after it has got it is its own affair.

## 4. What is checked

| Run | Instance | States | Shows |
|---|---|---|---|
| `burntime` | 2 engines (one without thruster), 2 vessels, 2 sources, velocities and times up to 1 | 332 K | flags exclusive, "engaged" means lit, only named buttons abandon an engine, no burn outlives its cutoff |
| `burntime_live` | 1 engine, 1 vessel, boxes TIME and TARGET | 17 K | once the pilot rests, a burn is cut off and an armed one ignited |
| `vessels` | 3 births at 2 addresses, 3 objects, 2 MFDs | 8 K | ownership, no dangling pointer, MFDs show their own vessel |
| `hud` | 4 vessels of 3 classes, 4 drawers of 3 modules | 39 K | hook follows focus, frames end, drawers alive |
| `queue` | 4 threads, 2 values, 3 elements | 131 K | lock, order, wakeups, refinement, nobody sleeps on |
| `transx` | 2 ships, 1 MFD, room for 4 stages | 463 K | stages deleted once, links right, views follow |
| `transx_live` | 2 ships, 1 MFD, room for 2 stages | 22 K | plans come back |
| `launch` | the standard autopilot, a target met on either side, both speeds | 25 K | flags of this flight, lock kept, the autopilot ends in orbit |
| `ascents` | all three autopilots, a vessel or a body as target | 451 K | types; nothing left on the controls or in the memory; ended means engine off |
| `variables` | 4 variables in 2 views, a third view of the plan, plans of up to 2 variables at 2 addresses, 2 ships | 39 K | the pointers implement the lists, no destroyed variable is shown, views are independent |
| `messaging` | 2 structures of 3 definitions, 2 values, 2 names, one in two spellings | 4 K | the store implements the mailbox, also when structures are destroyed under it |
| `claim_OneOutstanding` | 2 plans, 3 stages | | a claim of the code that does not hold (section 6) |

Why the bounds are enough.  *burntime*: every comparison in the code is with zero, with half of the
burn or with the other flag; one unit of time and of velocity on either side of each is reached, two
units of burn for one of velocity make the half a proper one, and a second vessel is all that focus
and ownership can differ by.  *vessels*: an address is used twice by three vessels at two addresses,
with an MFD left over from each; three objects allow one invalid, one valid and one to come.  *hud*:
two compatible classes can clobber the one slot, a third is skipped, and two vessels of one class
have the same table.  Two drawers share a module, and one module has the empty name.  *queue*: two
sleepers, a producer and a thief.  *transx*: four stages allow a plan of three and a new one, or one
put aside in the middle of a change; MFDs act on each other only over the plan, so that one that is
closed and opened for the other ship meets every plan.  *launch*, *ascents*: every flag of the data takes
both values; the lock needs two sides and the cutoff one mode, the memory needs all modes and one side,
and the three parts of the state do not refer to more than one vessel.  *variables*: plans of none, one
and two reach every case of an uncoupled element (alone, first, last); two addresses let a new
variable take the place of either of two old ones; a view of two variables apart from each other, one of
two neighbours of which one can be hidden, and one that is empty while there is no plan.  *messaging*: one
name in two spellings and one different one, two definitions that differ in the type only and one of
another version, and memory that is left, used otherwise, or taken by the next structure.  `Interchangeable` permutes the structures,
which no other constant mentions.

Named bounds: MaxDV, MaxTime, MaxPast (BurnTime), MaxBirths (MultipleVessels), MaxLength
(ConcurrentQueue), Stages, MaxRestored and MemoryLeft (TransXStages: memory does not run out while a
ship's plan waits for its stage), MaxNew (MFDFunction), Cells, PlanSizes and Ships (TransXVariables),
Structs (ModuleMessagingExt).

Fairness.  `burntime_live`: Orbiter never stops making time steps (`WF` of PreStep); nothing is
assumed of the pilot, who rests from some moment on by hypothesis.  `queue`: a thread that is inside of
an operation goes on (`WF` of its own steps); no thread has to call anything, the lock need not be
fair, spurious wakeups are never needed.  `transx_live`: Orbiter calls `opcPostStep` after every time
step (`WF` of PostStep) as long as the program lives.  `launch`: Orbiter never stops making time steps (`WF`
of PreStep); that the MFD or the HUD is ever drawn is not assumed, so `EndsInOrbit` speaks of a vessel
whose copy says that it has been launched (section 6).

The `transx` runs do not check for deadlock: after a fault the program is gone.

## 5. What is proved

TLAPS checks every theorem for all values of the constants that satisfy the named assumptions.

* **BurnTimeProofs.**  The inductive invariant is the conjunction of the three properties,
  `TypeOK /\ ArmedXorEngaged /\ EngagedMeansLit`.  One lemma per block of `Update` says what the block
  leaves alone: the parts before the last touch neither the flags nor the engines.  `NoOverburn` follows
  from what the last block does with an `ECutoff` below zero, in every mode but the target's.
  `OnlyTheseAbandon` is an action property that rests on the same lemmas.
* **MultipleVesselsProofs.**  The inductive invariant is the six properties and `Numbered`: no vessel
  that lives and no allocated object has a number above `births`, and no allocated object has the
  number 0.  So the number of a new vessel is fresh, and an object left over from an earlier vessel
  at its address is never taken for its own.
* **VesselHookingProofs.**  The inductive invariant `HookInv` is the types of the focus, the vessels
  and the hooks, `OnlyFocusHooked`, `OwnHUDIsDrawn`, and that nothing is drawn without a focus.  It is
  preserved under `ProtectResults = {TRUE}`, an assumption of the theorems; that frames end follows.
  `NamesOnce` needs no such assumption: the button that disables everything appends the registered
  modules that are not yet disabled, and a lemma (`SortedList`) shows that the sorted list of a finite set of
  numbers exists, so that it has each of them once.
* **ConcurrentQueueProofs.**  The inductive invariant `QInv` is the types, the lock discipline, that
  the front exists where it is copied, and `ValuesInPlace`: a thread that is to store has something to
  store, and one that is to remove the front has copied it.  In the refinement the abstract removal
  takes effect when the front is copied: while a thread is about to remove it, the abstract queue is
  the tail of the concrete one.  `NoLostWakeup` counts: it needs the cardinalities of sets of threads.
* **LaunchProofs.**  The inductive invariant is `TypeOK /\ SilentWhenOff /\ MemoryIsOwn /\
  HalfIsOfThisFlight`.  One lemma for each part of a time step (the update, letting go, steering, the two
  ascents) says what it leaves alone, then one for each kind of step.  The lock and the cutoff are
  action properties from the same invariant; `LockKept` is what every step but the pilot's button does.
* **TransXVariablesProofs.**  The inductive invariant `PInv` is about the pointers.  `Linked(l, q, E)` says
  that the ends, the links both ways and the iterator of the list `l` are those of the sequence `q` of
  distinct elements; the stage's list is linked as its own variables followed by its plan's, the ship
  list as some sequence, and the view of the last button has noted the iterator's place.  One lemma for each
  operation of `doublelink` says which sequence the pointers have afterwards, also for an element that
  is destroyed, that takes the place of an old one, or that is in the list already; the lemmas on series of
  operations (a plan destroyed backwards, made, and copied) follow from these.  `ElementsLinked`
  says that the walk along the list gives its sequence, `SearchRing` that the search goes round and
  finds what the list promises.  `ListsArePointedTo`, `ShownIsAlive` and `OwnCurrent` rest on these.  `PInv` is
  stronger than what the properties say: what they promise of the sequence depends on the backward links,
  on `last`, and on new elements having no links, of which the sequence shows nothing.  The memory is
  finite (`VariablesAssumption`), which bounds the loops.  The induction over the length of the series is
  over sets of numbers (`InductionOverSets`), as the library's induction theorems cannot be instantiated.
* **MessagingProofs.**  The inductive invariant is the types, with pointers to places of structures, alive or
  not.  The refinement rests on what one read gives after one put or one delete, and on `GivenIsAnswered`:
  the checks of version, size and type amount to one comparison of what is in memory with the reader's
  definition, so that what readers are given follows from the pointers and the memory alone.
* **TransXStagesProofs.**  The inductive invariant `Inv` is `TypeOK`, `StagesOnce`, `LinksMatch` and
  `OpenAndListed`: only an MFD that is open takes buttons, and the background task is at a ship of the list.
  Neither of the two middle ones is inductive alone: a stage that is put aside unlinks its neighbours, and
  these are the neighbours in the plan only if it is in no other list.  Almost every handler is `Replan`, so
  that three lemmas carry the proof, of what it does to the lists, to their having no repetition and to the
  links; `DropFirst` (a plan loses its first stage, and every MFD that shows it moves) and
  `CheckDelete` (the stages put aside are destroyed one by one) have their own.  `ShownStageStays` is an action
  property: one lemma for each handler says that an MFD which shows a stage that stays still shows it.
  The finite set of ships in `StagesAssumption` is there because the list of ships of the initial states is
  bounded by its size; a simulation has finitely many vessels.

Only model-checked: all liveness (`CutoffHappens`, `IgnitionHappens`, `SleepersAreServed`, `PlansComeBack`,
`EndsInOrbit`), which is out of the prover's reach; and the action queue, whose claim is false.
Every invariant and every action property without fairness that a passing run checks is a theorem.

## 6. Where the code and its words disagree

One claim has a run of its own, which TLC refutes with a trace of the code's steps.

* `claim_OneOutstanding`: "Only one action outstanding allowed per instance - use this to keep control
  of queues!" (mfdfunction.h:34).  `delist` leaves the links of the object it takes out.  The destructor
  of a stage delists it a second time and writes to its former neighbours: a plan that waits is cut
  out of the queue with its flag down and is never computed again.  In the same model a deleted
  stage can come to be linked from the queue.  With `delist` resetting both links TLC finds neither.

Also met, without a run of their own.  In the models, unless said otherwise:

* BurnTimeCalcMFD: the cutoff goes to the engine selected at that moment, not to the one that burns
  (BurnTimeMFD.cpp:413, BurnTimeCalcMFD.txt:94).  Extra fuel typed with a unit prefix also becomes the time of
  the burn (a missing else, InputBox.cpp:105).  SHIFT_A on a running burn arms the rest of it
  (BurnTimeCalcMFD.txt:92 says it aborts).  Fetching a burn drops the running one before the offer is tested
  (Comms.cpp:65, BurnTimeCalcMFD.txt:67 says a bad offer is ignored).  An armed burn can be changed by the
  input boxes (InputBox.cpp:74 and 85, BurnTimeCalcMFD.txt:79).  IsCircular outlives the burn it was set
  for (BurnTimeMFD.cpp:365).
* libMFD: nobody asks `MFDData::IsValid` (MFDData.hpp:72).
* HUDDrawer: the button that disables all modules enables a disabled module that has no drawer
  (VesselHooking.cpp:266, MFDButtonPageHUDDrawer.cpp:42).
* TransX, stages: a ship leaves the only stage of its plan just when a pass over the plan begins.  The plan
  begins anew ("Keeps system current", transxstate.cpp:182), which sets `currcalcfunction` to -1 between its
  test and its use at line 164: `baselist[-1]`.  A ship that inherits from a plan without stages follows a
  null pointer (transxstate.cpp:347, mfdvartypes.cpp:98).
* TransX, variables: a button pressed in one view goes on from where the last other view was; a variable
  that is hidden goes on being shown; a view without variables shows one of another view and keeps it;
  after its plan was replaced, the view whose turn it was shows nothing until a button is pressed.  Not in
  the model: an input box keeps the address of a variable that may be gone (mfdvartypes.cpp:377).
* LaunchMFD: engaged on the ground with the MFD closed and the HUD not drawn, the autopilot never guides,
  because `Guide` decides by a copy that it renews only afterwards (AutopilotBase.cpp:63; changelog.txt:103
  and LaunchMFD-doc.txt:161 say that it works).  Whether the synchronised burn is due is computed by the
  direct ascent page only, and nothing but a reload resets that it has begun (`pegDAS`).  An autopilot that
  is switched off leaves the elevator's trim if pitch guidance is off, and the rudder and elevator
  always (MFDDataLaunchMFD.cpp:307).  `launched` is not initialised; the azimuth is locked at
  the second update after lift-off; the autopilot is not saved.
* ModuleMessagingExt: a structure that is destroyed while the store points to it, such as one in the vessel
  class in which senders are told to keep it (ModuleMessagingExtPut.hpp:91), is given to readers until its
  memory changes, and then perhaps another one in its place; ModuleMessagingExt.hpp:92 says that a reader
  that is told "true" can be reasonably sure that everything is safe. A delete without a vessel's name after
  a change of focus removes another vessel's entry and returns true (ModuleMessagingExtPut.hpp:151; in the
  model, a sender may delete under any name). Values survive their vessel and are inherited by a new one of
  its name. Not in the model: names that contain the separator can collide.

## 7. Not modelled

`PROJECT.json` lists every component with the reason.  In short: continuous mathematics and display
(BaseSyncMFD, Glideslope, EnergyMFD, the guidance MFDs, CamShake, KOST, most of EnjoLib, TransX's orbits),
other programs (orbitrader, da-solver, velOptimum, azimuth), vendored code (dlib, by far the largest
part of the repository), and state of one flag or index (sounds, button pages, the rotation autopilot).
Of the modelled components: a write to a virtual table that is refused half-way, which the `hud` run
leaves out; the deletion of a vessel TransX has a plan for, of which TransX is not told; and everything that
section 3 names as left out.
