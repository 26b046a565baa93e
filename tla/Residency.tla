----------------------------- MODULE Residency -----------------------------
(***************************************************************************)
(* The local model manager: which model is resident, and how many          *)
(* generations run at once.  Every HTTP request is served by a thread of   *)
(* its own, so load, unload and generate interleave wherever residency.py  *)
(* is not holding _lock.  can_accept and status only read.                 *)
(***************************************************************************)
EXTENDS Naturals, FiniteSets

CONSTANTS
  Caller,             \* request threads of the manager's HTTP service
  Model,              \* model ids of the backend's inventory
  DefaultModel,       \* loaded at startup
  MaxActiveSequences  \* generations the GPU is given at once

ASSUME ResidencyConstants ==
  /\ IsFiniteSet(Caller)
  /\ DefaultModel \in Model
  /\ MaxActiveSequences \in Nat \ {0}

VARIABLES
  resident,         \* models the backend holds (backend._loaded)
  loadedModel,      \* _loaded_model, or NoModel
  loading,          \* _loading
  activeSequences,  \* _active_sequences
  waiting,          \* _waiting
  freeSlots,        \* the value of the _slots semaphore
  request           \* per thread: the job and model it serves, and where it is

residencyVars == <<resident, loadedModel, loading, activeSequences, waiting,
                   freeSlots, request>>
modelVars == <<resident, loadedModel, loading>>
slotVars == <<activeSequences, waiting, freeSlots>>

NoModel == "no model"

Threads(steps) == {c \in Caller : request[c].at \in steps}
At(c, step) == request[c].at = step
Go(c, step) == request' = [request EXCEPT ![c].at = step]

\* Where a thread goes once its model is resident: a load ends there.
Loaded(c) == IF request[c].job = "load" THEN "idle" ELSE "enter"

\* The constructor loads the default model before any request is served.
ResidencyInit ==
  /\ resident = {DefaultModel} /\ loadedModel = DefaultModel /\ loading = FALSE
  /\ activeSequences = 0 /\ waiting = 0 /\ freeSlots = MaxActiveSequences
  /\ request = [c \in Caller |-> [job |-> "load", model |-> DefaultModel, at |-> "idle"]]

-----------------------------------------------------------------------------
\* POST /load of a model of the inventory (any other is refused).
Load(c, m) ==
  /\ At(c, "idle")
  /\ request' = [request EXCEPT ![c] = [job |-> "load", model |-> m, at |-> "check"]]
  /\ UNCHANGED <<modelVars, slotVars>>

\* POST /generate: an unlocked look at the model of record, then load.
Generate(c, m) ==
  /\ At(c, "idle")
  /\ request' = [request EXCEPT ![c] =
       [job |-> "generate", model |-> m,
        at |-> IF loadedModel = m THEN "enter" ELSE "check"]]
  /\ UNCHANGED <<modelVars, slotVars>>

\* load's check, under the lock.
CheckResident(c) ==
  /\ At(c, "check")
  /\ \/ loadedModel = request[c].model /\ Go(c, Loaded(c)) /\ UNCHANGED loading
     \/ loadedModel # request[c].model /\ Go(c, "load") /\ loading' = TRUE
  /\ UNCHANGED <<resident, loadedModel, slotVars>>

\* What the backend holds after a load and after an unload.
Holding(m) == resident \cup {m}
NotHolding(m) == resident \ {m}

\* backend.load runs without the lock.
BackendLoad(c) ==
  /\ At(c, "load")
  /\ resident' = Holding(request[c].model)
  /\ Go(c, "commit")
  /\ UNCHANGED <<loadedModel, loading, slotVars>>

\* The swap, under the lock: the model of record, whichever it is by now, is
\* unloaded and the new one recorded.
CommitLoad(c) ==
  /\ At(c, "commit")
  /\ resident' = NotHolding(loadedModel)
  /\ loadedModel' = request[c].model
  /\ loading' = FALSE
  /\ Go(c, Loaded(c))
  /\ UNCHANGED slotVars

\* POST /unload: refused unless the model is the one of record.
Unload(m) ==
  /\ loadedModel = m
  /\ resident' = NotHolding(m)
  /\ loadedModel' = NoModel
  /\ UNCHANGED <<loading, slotVars, request>>

-----------------------------------------------------------------------------
\* generate counts itself as waiting, takes a slot of the semaphore, and
\* counts itself as active: three steps, the middle one outside the lock.
EnterQueue(c) ==
  /\ At(c, "enter")
  /\ waiting' = waiting + 1
  /\ Go(c, "waiting")
  /\ UNCHANGED <<modelVars, activeSequences, freeSlots>>

\* Slip: the semaphore is not consulted.
SlotIgnored == TRUE

SlotFree == freeSlots > 0

AcquireSlot(c) ==
  /\ At(c, "waiting") /\ SlotFree
  /\ freeSlots' = freeSlots - 1
  /\ Go(c, "admitted")
  /\ UNCHANGED <<modelVars, activeSequences, waiting>>

StartGenerating(c) ==
  /\ At(c, "admitted")
  /\ waiting' = IF waiting > 0 THEN waiting - 1 ELSE 0
  /\ activeSequences' = activeSequences + 1
  /\ Go(c, "generating")
  /\ UNCHANGED <<modelVars, freeSlots>>

\* The backend answers or raises; the finally clause runs either way.
StopGenerating(c) ==
  /\ At(c, "generating")
  /\ activeSequences' = IF activeSequences > 0 THEN activeSequences - 1 ELSE 0
  /\ Go(c, "leaving")
  /\ UNCHANGED <<modelVars, waiting, freeSlots>>

ReleaseSlot(c) ==
  /\ At(c, "leaving")
  /\ freeSlots' = freeSlots + 1
  /\ Go(c, "idle")
  /\ UNCHANGED <<modelVars, activeSequences, waiting>>

ResidencyNext ==
  \/ \E m \in Model : Unload(m)
  \/ \E c \in Caller :
       \/ \E m \in Model : Load(c, m) \/ Generate(c, m)
       \/ CheckResident(c) \/ BackendLoad(c) \/ CommitLoad(c)
       \/ EnterQueue(c) \/ AcquireSlot(c) \/ StartGenerating(c)
       \/ StopGenerating(c) \/ ReleaseSlot(c)

ResidencySpec == ResidencyInit /\ [][ResidencyNext]_residencyVars

-----------------------------------------------------------------------------
\* Admission is real: never more generations than slots reach the backend, no
\* slot is lost or minted along the way (the semaphore plus the threads that
\* hold one always add up), and the two counters /status and can_accept report
\* are exactly the threads in the backend and in the queue.
SlotsRespected ==
  /\ Cardinality(Threads({"generating"})) <= MaxActiveSequences
  /\ freeSlots + Cardinality(Threads({"admitted", "generating", "leaving"}))
       = MaxActiveSequences
  /\ activeSequences = Cardinality(Threads({"generating"}))
  /\ waiting = Cardinality(Threads({"waiting", "admitted"}))
=============================================================================
