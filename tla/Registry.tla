------------------------------ MODULE Registry ------------------------------
(***************************************************************************)
(* The server's table of scenes, its active-scene pointer and its event    *)
(* channel, changed by any number of concurrent callers of the server      *)
(* handle (lumencast-server/src/server.rs).                                *)
(*                                                                         *)
(* Table, pointer and channel have a lock each and no operation holds two  *)
(* of them, so every operation is several actions.  An operation that      *)
(* fails its check returns an error and changes nothing.                   *)
(*                                                                         *)
(* A scene outlives its entry in the table (handlers and adapters hold     *)
(* clones of it), and an id can be registered again after clear_scenes:    *)
(* scenes are numbered in the order of their creation.                     *)
(***************************************************************************)
EXTENDS Integers, Sequences

CONSTANTS
    Ids,        \* scene ids
    NoId,       \* None
    Callers,    \* tasks that hold a ServerHandle
    Offered,    \* the operations they use
    MaxScenes,  \* bound on the scenes created
    MaxCalls    \* bound on the calls of the operations but new_scene

Operations == {"new_scene", "set_active_scene", "clear_scenes", "reject"}

ASSUME RegistryAssumption ==
    /\ NoId \notin Ids
    /\ Offered \subseteq Operations
    /\ MaxScenes \in Nat
    /\ MaxCalls \in Nat

VARIABLES
    scenes,    \* ServerInner.scenes: id -> scene, 0 where there is none
    active,    \* ServerInner.active
    events,    \* ServerInner.events: every SceneSwap ever sent
    rejected,  \* the scenes whose rejection is set
    step,      \* where each caller is in its operation
    arg,       \* the scene id it was called with
    made,      \* number of scenes created
    calls      \* calls of the bounded operations so far

registryVars == <<scenes, active, events, rejected, step, arg, made, calls>>

CallerSteps ==
    {"idle", "creating", "inserted", "activating", "announcing", "clearing"}

RegistryInit ==
    /\ scenes = [id \in Ids |-> 0]
    /\ active = NoId
    /\ events = <<>>
    /\ rejected = {}
    /\ step = [k \in Callers |-> "idle"]
    /\ arg = [k \in Callers |-> NoId]
    /\ made = 0
    /\ calls = 0

Begin(k, operation, next, id) ==
    /\ operation \in Offered
    /\ step[k] = "idle"
    /\ step' = [step EXCEPT ![k] = next]
    /\ arg' = [arg EXCEPT ![k] = id]

Move(k, from, to) ==
    /\ step[k] = from
    /\ step' = [step EXCEPT ![k] = to]
    /\ arg' = [arg EXCEPT ![k] = IF to = "idle" THEN NoId ELSE @]

(***************************************************************************)
(* new_scene_with_version and register_bundle: the id must be free, the    *)
(* new scene replaces whatever is in the table by then, and becomes active *)
(* if no scene is.                                                         *)
(***************************************************************************)
CheckFree(k, id) ==
    /\ Begin(k, "new_scene", "creating", id)
    /\ scenes[id] = 0
    /\ UNCHANGED <<scenes, active, events, rejected, made, calls>>

Insert(k) ==
    /\ Move(k, "creating", "inserted")
    /\ made < MaxScenes
    /\ made' = made + 1
    /\ scenes' = [scenes EXCEPT ![arg[k]] = made + 1]
    /\ UNCHANGED <<active, events, rejected, calls>>

ActivateFirst(k) ==
    /\ Move(k, "inserted", "idle")
    /\ active' = IF active = NoId THEN arg[k] ELSE active
    /\ UNCHANGED <<scenes, events, rejected, made, calls>>

(***************************************************************************)
(* set_active_scene: check, write the pointer, tell the subscribers.       *)
(***************************************************************************)
CheckKnown(k, id) ==
    /\ Begin(k, "set_active_scene", "activating", id)
    /\ calls < MaxCalls
    /\ calls' = calls + 1
    /\ scenes[id] # 0
    /\ UNCHANGED <<scenes, active, events, rejected, made>>

WriteActive(k) ==
    /\ Move(k, "activating", "announcing")
    /\ active' = arg[k]
    /\ UNCHANGED <<scenes, events, rejected, made, calls>>

Announce(k) ==
    /\ Move(k, "announcing", "idle")
    /\ events' = Append(events, arg[k])
    /\ UNCHANGED <<scenes, active, rejected, made, calls>>

(***************************************************************************)
(* clear_scenes: the table, then the pointer; nothing is sent.             *)
(***************************************************************************)
ClearTable(k) ==
    /\ Begin(k, "clear_scenes", "clearing", NoId)
    /\ calls < MaxCalls
    /\ calls' = calls + 1
    /\ scenes' = [id \in Ids |-> 0]
    /\ UNCHANGED <<active, events, rejected, made>>

\* mutant: the pointer is left
ClearActiveNot(k) ==
    /\ Move(k, "clearing", "idle")
    /\ UNCHANGED <<scenes, active, events, rejected, made, calls>>

ClearActive(k) ==
    /\ Move(k, "clearing", "idle")
    /\ active' = NoId
    /\ UNCHANGED <<scenes, events, rejected, made, calls>>

(***************************************************************************)
(* Scene::reject, through a handle to any scene that was ever created.     *)
(***************************************************************************)
Reject(k) ==
    /\ "reject" \in Offered
    /\ step[k] = "idle"
    /\ calls < MaxCalls
    /\ calls' = calls + 1
    /\ \E o \in (1 .. made) \ rejected : rejected' = rejected \cup {o}
    /\ UNCHANGED <<scenes, active, events, step, arg, made>>

(***************************************************************************)
(* The steps of an operation that has passed its check.                    *)
(***************************************************************************)
Finish(k) ==
    \/ Insert(k)
    \/ ActivateFirst(k)
    \/ WriteActive(k)
    \/ Announce(k)
    \/ ClearActive(k)

RegistryNext ==
    \E k \in Callers :
        \/ \E id \in Ids : CheckFree(k, id) \/ CheckKnown(k, id)
        \/ ClearTable(k)
        \/ Reject(k)
        \/ Finish(k)

RegistrySpec == RegistryInit /\ [][RegistryNext]_registryVars

-----------------------------------------------------------------------------
RegistryTypeOK ==
    /\ scenes \in [Ids -> 0 .. made]
    /\ active \in Ids \cup {NoId}
    /\ events \in Seq(Ids)
    /\ rejected \subseteq 1 .. made
    /\ step \in [Callers -> CallerSteps]
    /\ arg \in [Callers -> Ids \cup {NoId}]
    /\ made \in 0 .. MaxScenes
    /\ calls \in 0 .. MaxCalls

Settled == \A k \in Callers : step[k] = "idle"

(***************************************************************************)
(* Between calls of a single caller the active scene is registered, and    *)
(* there is one as soon as there is any scene: a subscriber that names no  *)
(* scene is refused only when there is nothing to show.                    *)
(***************************************************************************)
ActiveIsRegistered ==
    Settled =>
        /\ active # NoId => scenes[active] # 0
        /\ active = NoId => \A id \in Ids : scenes[id] = 0
=============================================================================
