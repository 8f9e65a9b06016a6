--------------------------- MODULE MultipleVessels ---------------------------
(***************************************************************************)
(* libMFD's support for several vessels: PluginMultipleVessels keeps one   *)
(* MFDData object per vessel, so that an add-on goes on working while its  *)
(* MFD is closed.  A new MFD asks for the object of its vessel             *)
(* (AssociateMFDData) and keeps a pointer to it; a vessel that is deleted  *)
(* has its object put aside, because an MFD may still point to it          *)
(* (DeleteVessel); the end of the simulation frees all of them.            *)
(*                                                                         *)
(* The simulator is the environment: it starts and ends simulations,       *)
(* creates and deletes vessels, opens, redraws and closes MFDs.  VESSEL    *)
(* and MFDData objects live at addresses that are used again once they are *)
(* free.  `vessel' and `born' tell apart the vessels that have had the     *)
(* same address; the code cannot.                                          *)
(***************************************************************************)
EXTENDS Naturals, SequencesExt

CONSTANTS
    Addresses,  \* where the simulator can put a vessel
    Objects,    \* where an MFDData object can be allocated
    Screens,    \* MFDs that can be open at the same time
    MaxBirths,  \* vessels created in one simulation (a bound)
    NULL        \* no object

ASSUME RegistryAssumption ==
    /\ MaxBirths \in Nat \ {0}
    /\ NULL \notin Objects

Births == 0 .. MaxBirths

VARIABLES
    running,           \* a simulation is running
    births,            \* number of vessels created in this simulation
    vessel,            \* vessel[a]: which of them lives at a, 0 if none
    m_vMFDData,        \* the objects of the vessels
    m_vMFDDataInvalid, \* the objects of deleted vessels
    allocated,         \* addresses at which an MFDData object exists
    m_vessel,          \* MFDData's pointer to its vessel
    m_isValid,         \* MFDData's flag
    born,              \* the vessel the object was made for
    burning,           \* objects whose burn is running
    m_data,            \* m_data[s]: the pointer of the MFD open at s, or NULL
    shows              \* shows[s]: the vessel the MFD open at s belongs to

simulator == <<running, births, vessel>>
registry  == <<m_vMFDData, m_vMFDDataInvalid, allocated, m_vessel, m_isValid, born>>
mfds      == <<m_data, shows>>
vars      == <<simulator, registry, burning, mfds>>

\* Everything in its type.
TypeOK ==
    /\ running \in BOOLEAN
    /\ births \in Births
    /\ vessel \in [Addresses -> Births]
    /\ m_vMFDData \in Seq(Objects)
    /\ m_vMFDDataInvalid \in Seq(Objects)
    /\ allocated \subseteq Objects
    /\ m_vessel \in [Objects -> Addresses]
    /\ m_isValid \in [Objects -> BOOLEAN]
    /\ born \in [Objects -> Births]
    /\ burning \subseteq Objects
    /\ m_data \in [Screens -> Objects \union {NULL}]
    /\ shows \in [Screens -> Births]

Listed == Range(m_vMFDData)
Invalid == Range(m_vMFDDataInvalid)

Open == {s \in Screens : m_data[s] # NULL}

----------------------------------------------------------------------------
(* The simulator's own steps.                                              *)

\* clbkSimulationStart, by when the MFDs of the last simulation are gone.
\* Init only reads configuration files.
SimulationStart ==
    /\ ~running /\ Open = {}
    /\ running' = TRUE
    /\ UNCHANGED <<births, vessel, registry, burning, mfds>>

CreateVessel ==
    /\ running /\ births < MaxBirths
    /\ \E a \in Addresses :
         /\ vessel[a] = 0
         /\ vessel' = [vessel EXCEPT ![a] = births + 1]
    /\ births' = births + 1
    /\ UNCHANGED <<running, registry, burning, mfds>>

CloseMFD ==
    /\ \E s \in Open :
         /\ m_data' = [m_data EXCEPT ![s] = NULL]
         /\ shows' = [shows EXCEPT ![s] = 0]
    /\ UNCHANGED <<simulator, registry, burning>>

----------------------------------------------------------------------------
(* The plugin.                                                             *)

\* Position i of m_vMFDData is the first one whose object points to a.
FoundAt(i, a) ==
    /\ m_vessel[m_vMFDData[i]] = a
    /\ \A j \in 1 .. i - 1 : m_vessel[m_vMFDData[j]] # a

\* new MFDData(a), for a vessel that exists.
ConstructNewMFDData(d, a) ==
    /\ allocated' = allocated \union {d}
    /\ m_vessel' = [m_vessel EXCEPT ![d] = a]
    /\ m_isValid' = [m_isValid EXCEPT ![d] = TRUE]
    /\ born' = [born EXCEPT ![d] = vessel[a]]

\* Slip: the vector is not searched.
AlwaysConstruct(a, d) ==
    /\ d \notin allocated
    /\ ConstructNewMFDData(d, a)
    /\ m_vMFDData' = Append(m_vMFDData, d)
    /\ UNCHANGED m_vMFDDataInvalid

\* Slip: the first object is taken for a match.
AssociateFirst(a, d) ==
    \/ m_vMFDData # <<>> /\ d = Head(m_vMFDData) /\ UNCHANGED registry
    \/ m_vMFDData = <<>> /\ AlwaysConstruct(a, d)

\* AssociateMFDData(a) returns object d.
AssociateMFDData(a, d) ==
    \/ /\ \E i \in DOMAIN m_vMFDData : FoundAt(i, a) /\ d = m_vMFDData[i]
       /\ UNCHANGED registry
    \/ /\ \A i \in DOMAIN m_vMFDData : m_vessel[m_vMFDData[i]] # a
       /\ d \notin allocated
       /\ ConstructNewMFDData(d, a)
       /\ m_vMFDData' = Append(m_vMFDData, d)
       /\ UNCHANGED m_vMFDDataInvalid

\* The constructor of an MFD of the vessel at a.
OpenMFD ==
    /\ running
    /\ \E s \in Screens \ Open, a \in Addresses, d \in Objects :
         /\ vessel[a] # 0
         /\ AssociateMFDData(a, d)
         /\ m_data' = [m_data EXCEPT ![s] = d]
         /\ shows' = [shows EXCEPT ![s] = vessel[a]]
    /\ UNCHANGED <<simulator, burning>>

\* Slip: the object is freed at once.
DeleteFrees(a) ==
    \/ \E i \in DOMAIN m_vMFDData :
         /\ FoundAt(i, a)
         /\ allocated' = allocated \ {m_vMFDData[i]}
         /\ m_vMFDData' = RemoveAt(m_vMFDData, i)
         /\ UNCHANGED <<m_vMFDDataInvalid, m_vessel, m_isValid, born>>
    \/ /\ \A i \in DOMAIN m_vMFDData : m_vessel[m_vMFDData[i]] # a
       /\ UNCHANGED registry

\* Slip: the object stays in the first vector as well.
DeleteKeepsListed(a) ==
    \/ \E i \in DOMAIN m_vMFDData :
         /\ FoundAt(i, a)
         /\ m_isValid' = [m_isValid EXCEPT ![m_vMFDData[i]] = FALSE]
         /\ m_vMFDDataInvalid' = Append(m_vMFDDataInvalid, m_vMFDData[i])
         /\ UNCHANGED <<m_vMFDData, allocated, m_vessel, born>>
    \/ /\ \A i \in DOMAIN m_vMFDData : m_vessel[m_vMFDData[i]] # a
       /\ UNCHANGED registry

\* Slip: the object is not invalidated.
DeleteKeepsValid(a) ==
    \/ \E i \in DOMAIN m_vMFDData :
         /\ FoundAt(i, a)
         /\ m_vMFDDataInvalid' = Append(m_vMFDDataInvalid, m_vMFDData[i])
         /\ m_vMFDData' = RemoveAt(m_vMFDData, i)
         /\ UNCHANGED <<m_isValid, allocated, m_vessel, born>>
    \/ /\ \A i \in DOMAIN m_vMFDData : m_vessel[m_vMFDData[i]] # a
       /\ UNCHANGED registry

\* Slip: the place in the vector is stored for the object.
DeleteStoresPlace(a) ==
    \/ \E i \in DOMAIN m_vMFDData :
         /\ FoundAt(i, a)
         /\ m_isValid' = [m_isValid EXCEPT ![m_vMFDData[i]] = FALSE]
         /\ m_vMFDDataInvalid' = Append(m_vMFDDataInvalid, i - 1)
         /\ m_vMFDData' = RemoveAt(m_vMFDData, i)
         /\ UNCHANGED <<allocated, m_vessel, born>>
    \/ /\ \A i \in DOMAIN m_vMFDData : m_vessel[m_vMFDData[i]] # a
       /\ UNCHANGED registry

\* DeleteVessel: the object of the vessel at a is put aside.  The vessel still
\* has its handle while the list is scanned.
DeleteVessel(a) ==
    \/ \E i \in DOMAIN m_vMFDData :
         /\ FoundAt(i, a)
         /\ m_isValid' = [m_isValid EXCEPT ![m_vMFDData[i]] = FALSE]
         /\ m_vMFDDataInvalid' = Append(m_vMFDDataInvalid, m_vMFDData[i])
         /\ m_vMFDData' = RemoveAt(m_vMFDData, i)
         /\ UNCHANGED <<allocated, m_vessel, born>>
    \/ /\ \A i \in DOMAIN m_vMFDData : m_vessel[m_vMFDData[i]] # a
       /\ UNCHANGED registry

\* clbkDeleteVessel; then the simulator destroys the vessel.
VesselDeleted ==
    /\ running
    /\ \E a \in Addresses :
         /\ vessel[a] # 0
         /\ DeleteVessel(a)
         /\ vessel' = [vessel EXCEPT ![a] = 0]
    /\ UNCHANGED <<running, births, burning, mfds>>

\* UpdatePreStep calls the client for every object listed; the client may find
\* a burn finished, or (an armed one) ignite it.
PreStep ==
    /\ running
    /\ \E changed \in SUBSET Listed :
         burning' = (burning \ changed) \union (changed \ burning)
    /\ UNCHANGED <<simulator, registry, mfds>>

\* A button of an open MFD, or its redrawing, does the same to its object.
Operate ==
    /\ running
    /\ \E s \in Open : burning' = IF m_data[s] \in burning
                                  THEN burning \ {m_data[s]}
                                  ELSE burning \union {m_data[s]}
    /\ UNCHANGED <<simulator, registry, mfds>>

\* CleanVectors deletes what both vectors point to.  What is left in the memory
\* is forgotten.
CleanVectors ==
    /\ allocated' = allocated \ (Listed \union Invalid)
    /\ m_vMFDData' = <<>>
    /\ m_vMFDDataInvalid' = <<>>
    /\ \E a \in Addresses : m_vessel' = [d \in Objects |-> a]
    /\ m_isValid' = [d \in Objects |-> FALSE]
    /\ born' = [d \in Objects |-> 0]
    /\ burning' = {}

\* clbkSimulationEnd: Cleanup; the vessels are gone with the simulation.
SimulationEnd ==
    /\ running
    /\ running' = FALSE
    /\ births' = 0
    /\ vessel' = [a \in Addresses |-> 0]
    /\ CleanVectors
    /\ UNCHANGED mfds

----------------------------------------------------------------------------
Init ==
    /\ running = FALSE
    /\ births = 0
    /\ vessel = [a \in Addresses |-> 0]
    /\ m_vMFDData = <<>> /\ m_vMFDDataInvalid = <<>>
    /\ allocated = {}
    /\ \E a \in Addresses : m_vessel = [d \in Objects |-> a]
    /\ m_isValid = [d \in Objects |-> FALSE]
    /\ born = [d \in Objects |-> 0]
    /\ burning = {}
    /\ m_data = [s \in Screens |-> NULL]
    /\ shows = [s \in Screens |-> 0]

Next ==
    \/ SimulationStart \/ SimulationEnd \/ CreateVessel \/ VesselDeleted
    \/ OpenMFD \/ CloseMFD \/ PreStep \/ Operate

Spec == Init /\ [][Next]_vars

----------------------------------------------------------------------------
(* Properties.                                                             *)

\* Every object is pointed to exactly once, by one of the two vectors:
\* CleanVectors deletes each object once and forgets none.
EachOnce ==
    /\ IsInjective(m_vMFDData) /\ IsInjective(m_vMFDDataInvalid)
    /\ Listed \intersect Invalid = {}
    /\ allocated = Listed \union Invalid

\* The objects that time steps update, and whose vessel DeleteVessel asks for
\* its handle, belong to the vessel that lives at the address they hold; no
\* vessel has two of them.
ListedAreAlive ==
    /\ \A d \in Listed : m_isValid[d] /\ born[d] # 0
                         /\ vessel[m_vessel[d]] = born[d]
    /\ \A d, e \in Listed : m_vessel[d] = m_vessel[e] => d = e

\* An object was put aside for good reason: its vessel is gone, whoever lives
\* at the address now.  So a burn of a living vessel is never forgotten.
InvalidAreDead ==
    \A d \in Invalid : ~m_isValid[d] /\ vessel[m_vessel[d]] # born[d]

\* While a simulation is running no open MFD holds a dangling pointer: neither
\* the deletion of its vessel nor anything else frees its object.
NoDanglingMFD == running => \A s \in Open : m_data[s] \in allocated

\* An MFD shows the object of its own vessel, not of one that has had the same
\* address: all MFDs of a living vessel share one object.
MFDsAgree ==
    running => \A s \in Open : born[m_data[s]] = shows[s]
=============================================================================
