--------------------------- MODULE ContainerPool ----------------------------
(***************************************************************************)
(* Which containers exist on the host, as the web app's handlers and its   *)
(* start-up goroutine change it: POST /containers (handleAdd, Launch),     *)
(* POST /containers/{name}/delete (handleRemove, Uninstall, Remove), the   *)
(* EnsureImage/WarmPool goroutine of server.New, and a restart of the app. *)
(* A handler is a process of its own; LXD is the state they share.  LXD    *)
(* goes on creating an instance after the lxc client that asked is gone.   *)
(***************************************************************************)
EXTENDS Integers, FiniteSets

CONSTANTS Names,      \* container names other than the warm-up container's
          Warmup,     \* "vsat-warmup": hidden from List, not counted
          Adders,     \* goroutines that serve POST /containers
          Removers,   \* goroutines that serve POST /containers/{name}/delete
          Max,        \* Client.Max, the cap
          MaxRestarts, \* bound: how often the app restarts
          MaxKilled    \* bound: creations that outlive their client

ASSUME PoolAssumption ==
  /\ Warmup \notin Names
  /\ IsFiniteSet(Names)
  /\ IsFiniteSet(Adders)
  /\ Adders # {}
  /\ Max \in Nat \ {0}
  /\ MaxRestarts \in Nat /\ MaxKilled \in Nat

(* ValidateName only looks at the prefix and the alphabet: it accepts the  *)
(* warm-up container's name like any other.                                *)
AllNames == Names \cup {Warmup}

VARIABLES instances, \* LXD: "absent", "stopped" (created) or "running"
          launch,    \* per adder: where handleAdd is, and for which name
          remove,    \* per remover: where handleRemove is, and for which name
          warm,      \* where the start-up goroutine is
          late,      \* names LXD still creates for a client that is gone
          killed,    \* requests whose creation outlived their client (history)
          restarts   \* restarts so far (bounded)

vars == <<instances, launch, remove, warm, late, killed, restarts>>

AddIdle    == [pc |-> "idle", name |-> Warmup]
RemoveIdle == [pc |-> "idle", name |-> Warmup]

WarmStates ==
  {"ensure", "create", "start", "cache", "delete", "ready", "failed"}

(* What Client.List returns: every instance, running or not, except the    *)
(* warm-up container, which parseContainers skips.                         *)
List == {n \in Names : instances[n] # "absent"}

(* imageReady is stored only when EnsureImage and WarmPool both succeed.   *)
ImageReady == warm = "ready"

Init ==
  /\ instances = [n \in AllNames |-> "absent"]
  /\ launch = [a \in Adders |-> AddIdle]
  /\ remove = [q \in Removers |-> RemoveIdle]
  /\ warm = "ensure"
  /\ late = {} /\ killed = 0
  /\ restarts = 0

(* The requests that passed the cap test and have not created yet, and the *)
(* warm-up container when its creation is under way.                       *)
Creating == {a \in Adders : launch[a].pc = "create"}
WarmCreating == IF warm = "create" THEN {Warmup} ELSE {}

-----------------------------------------------------------------------------
(* POST /containers.                                                       *)

(* Mutant: the cap test refuses only a list that is already too long.      *)
BelowCapOffByOne(listed) == Cardinality(listed) <= Max

(* The cap test of Launch, which refuses when len(existing) >= c.Max.      *)
BelowCap(listed) == Cardinality(listed) < Max

(* Launch lists the containers, refuses a name that is listed and refuses  *)
(* when the list is full.  Both tests look at the list as it was when      *)
(* `lxc list` answered; `lxc launch` comes later.  A refused request       *)
(* changes nothing.                                                        *)
LaunchCheck(a, n) ==
  /\ launch[a].pc = "idle"
  /\ n \notin List
  /\ BelowCap(List)
  /\ launch' = [launch EXCEPT ![a] = [pc |-> "create", name |-> n]]
  /\ UNCHANGED <<instances, remove, warm, late, killed, restarts>>

(* `lxc launch` first creates the instance.  LXD refuses a taken name.     *)
LaunchCreate(a) ==
  LET n == launch[a].name IN
  /\ launch[a].pc = "create"
  /\ instances[n] = "absent"
  /\ instances' = [instances EXCEPT ![n] = "stopped"]
  /\ launch' = [launch EXCEPT ![a].pc = "start"]
  /\ UNCHANGED <<remove, warm, late, killed, restarts>>

(* ... and then starts it.  The handler answers 200 and leaves PostLaunch  *)
(* to a goroutine (module PostLaunch).                                     *)
LaunchStart(a) ==
  LET n == launch[a].name IN
  /\ launch[a].pc = "start"
  /\ instances[n] = "stopped"
  /\ instances' = [instances EXCEPT ![n] = "running"]
  /\ launch' = [launch EXCEPT ![a] = AddIdle]
  /\ UNCHANGED <<remove, warm, late, killed, restarts>>

(* `lxc launch` fails, or the browser goes away and r.Context() kills the  *)
(* lxc client.  Nothing undoes what LXD has done so far.                   *)
LaunchAbort(a) ==
  /\ launch[a].pc # "idle"
  /\ launch' = [launch EXCEPT ![a] = AddIdle]
  /\ UNCHANGED <<instances, remove, warm, late, killed, restarts>>

(* ... nor does LXD drop the creation it was asked for.                    *)
LaunchOrphaned(a) ==
  /\ launch[a].pc = "create"
  /\ killed < MaxKilled
  /\ launch' = [launch EXCEPT ![a] = AddIdle]
  /\ late' = late \cup {launch[a].name}
  /\ killed' = killed + 1
  /\ UNCHANGED <<instances, remove, warm, restarts>>

(* LXD ends such a creation.  The name may be taken by then; an instance   *)
(* that is created stays stopped, for nobody is there to start it.         *)
LateCreate(n) ==
  /\ n \in late
  /\ late' = late \ {n}
  /\ instances' = [instances EXCEPT ![n] = IF @ = "absent" THEN "stopped" ELSE @]
  /\ UNCHANGED <<launch, remove, warm, killed, restarts>>

-----------------------------------------------------------------------------
(* POST /containers/{name}/delete.                                         *)

(* handleRemove first runs Uninstall, an `lxc exec` inside the container,  *)
(* which needs the container to be running.  When it fails the handler     *)
(* renders the error and changes nothing.                                  *)
RemoveUninstall(q, n) ==
  /\ remove[q].pc = "idle"
  /\ instances[n] = "running"
  /\ remove' = [remove EXCEPT ![q] = [pc |-> "delete", name |-> n]]
  /\ UNCHANGED <<instances, launch, warm, late, killed, restarts>>

(* Mutant: a deleted container keeps its entry.                            *)
RemoveMarks(q) ==
  /\ remove[q].pc = "delete"
  /\ instances' = [instances EXCEPT ![remove[q].name] = "deleted"]
  /\ remove' = [remove EXCEPT ![q] = RemoveIdle]
  /\ UNCHANGED <<launch, warm, late, killed, restarts>>

(* `lxc delete --force`; the tenant clean-up before it is in Lifecycle.    *)
RemoveDelete(q) ==
  LET n == remove[q].name IN
  /\ remove[q].pc = "delete"
  /\ instances[n] # "absent"
  /\ instances' = [instances EXCEPT ![n] = "absent"]
  /\ remove' = [remove EXCEPT ![q] = RemoveIdle]
  /\ UNCHANGED <<launch, warm, late, killed, restarts>>

(* The tenant call or `lxc delete` fails, or the request is cancelled.     *)
RemoveAbort(q) ==
  /\ remove[q].pc = "delete"
  /\ remove' = [remove EXCEPT ![q] = RemoveIdle]
  /\ UNCHANGED <<instances, launch, warm, late, killed, restarts>>

-----------------------------------------------------------------------------
(* The goroutine server.New starts: EnsureImage, then WarmPool.            *)

WarmEnsure ==
  /\ warm = "ensure"
  /\ warm' = "create"
  /\ UNCHANGED <<instances, launch, remove, late, killed, restarts>>

WarmCreate ==
  /\ warm = "create"
  /\ instances[Warmup] = "absent"
  /\ instances' = [instances EXCEPT ![Warmup] = "stopped"]
  /\ warm' = "start"
  /\ UNCHANGED <<launch, remove, late, killed, restarts>>

WarmStart ==
  /\ warm = "start"
  /\ instances[Warmup] = "stopped"
  /\ instances' = [instances EXCEPT ![Warmup] = "running"]
  /\ warm' = "cache"
  /\ UNCHANGED <<launch, remove, late, killed, restarts>>

(* cacheK9s is best effort: whatever happens, WarmPool goes on.            *)
WarmCache ==
  /\ warm = "cache"
  /\ warm' = "delete"
  /\ UNCHANGED <<instances, launch, remove, late, killed, restarts>>

WarmDelete ==
  /\ warm = "delete"
  /\ instances[Warmup] # "absent"
  /\ instances' = [instances EXCEPT ![Warmup] = "absent"]
  /\ warm' = "ready"
  /\ UNCHANGED <<launch, remove, late, killed, restarts>>

(* Mutant: the goroutine tries again for as long as a command fails.       *)
WarmRetries ==
  /\ warm \in {"ensure", "create", "start", "delete"}
  /\ warm' = "create"
  /\ UNCHANGED <<instances, launch, remove, late, killed, restarts>>

(* Any lxc command but cacheK9s's ends the goroutine when it fails, for    *)
(* its own reasons or because the name is taken or gone.                   *)
WarmFail ==
  /\ warm \in {"ensure", "create", "start", "delete"}
  /\ warm' = "failed"
  /\ \E W \in SUBSET WarmCreating : late' = late \cup W
  /\ UNCHANGED <<instances, launch, remove, killed, restarts>>

-----------------------------------------------------------------------------
(* The app ends and systemd starts it again: every handler and goroutine   *)
(* is gone, LXD keeps its instances and may go on with the creations it    *)
(* was asked for, and server.New warms the pool anew.                      *)
Restart ==
  /\ restarts < MaxRestarts
  /\ restarts' = restarts + 1
  /\ \E A \in SUBSET Creating, W \in SUBSET WarmCreating :
       /\ killed + Cardinality(A) <= MaxKilled
       /\ killed' = killed + Cardinality(A)
       /\ late' = late \cup {launch[a].name : a \in A} \cup W
  /\ launch' = [a \in Adders |-> AddIdle]
  /\ remove' = [q \in Removers |-> RemoveIdle]
  /\ warm' = "ensure"
  /\ UNCHANGED instances

AddStep(a) ==
  \/ \E n \in AllNames : LaunchCheck(a, n)
  \/ LaunchCreate(a)
  \/ LaunchStart(a)
  \/ LaunchAbort(a)
  \/ LaunchOrphaned(a)

RemoveStep(q) ==
  \/ \E n \in AllNames : RemoveUninstall(q, n)
  \/ RemoveDelete(q)
  \/ RemoveAbort(q)

WarmStep ==
  WarmEnsure \/ WarmCreate \/ WarmStart \/ WarmCache \/ WarmDelete \/ WarmFail

Next ==
  \/ \E a \in Adders : AddStep(a)
  \/ \E q \in Removers : RemoveStep(q)
  \/ WarmStep
  \/ \E n \in late : LateCreate(n)
  \/ Restart

Spec == Init /\ [][Next]_vars

(* The goroutine is never blocked on another one: each of its commands     *)
(* returns.                                                                *)
FairSpec == Spec /\ WF_vars(WarmStep)

(* An operator who asks again and again to delete a container, on a host   *)
(* where commands do not fail forever, and where adders finish.            *)
PersistentSpec ==
  /\ Spec
  /\ \A a \in Adders : WF_vars(AddStep(a))
  /\ \A q \in Removers : SF_vars(RemoveDelete(q))
  /\ \A n \in Names : SF_vars(\E q \in Removers : RemoveUninstall(q, n))

-----------------------------------------------------------------------------
(* Properties.                                                             *)

TypeOK ==
  /\ instances \in [AllNames -> {"absent", "stopped", "running"}]
  /\ launch \in [Adders -> [pc : {"idle", "create", "start"}, name : AllNames]]
  /\ remove \in [Removers -> [pc : {"idle", "delete"}, name : AllNames]]
  /\ warm \in WarmStates
  /\ late \in SUBSET AllNames
  /\ killed \in 0..MaxKilled /\ restarts \in 0..MaxRestarts

(* The list may grow past Max, because the test and the launch are not one *)
(* step and because LXD may create for a client that is gone: every        *)
(* request in flight, and every request that was cut off during its        *)
(* creation, adds at most one container to it.                             *)
CapOverrun == Max - 1 + Cardinality(Adders) + killed
CapBound == Cardinality(List) <= CapOverrun

(* The strengthening that is inductive: a creation to come has its place   *)
(* in the bound before its container exists.                               *)
LateListed == late \ {Warmup}
PlacesTaken ==
  /\ Cardinality(List) + Cardinality(Creating) + Cardinality(LateListed) <= CapOverrun
  /\ Cardinality(LateListed) <= killed

(* config.go calls the limit "the hard cap on simultaneous VSAT            *)
(* containers".                                                             *)
HardCap == Cardinality(List) <= Max

(* Once the app has stopped restarting, the start-up goroutine ends: it    *)
(* never waits for a user's request, whatever they do to its container.    *)
WarmSettles == <>[](warm \in {"ready", "failed"})

(* README: an operator can "force-delete" a container.  So one that exists *)
(* is gone some day if the operator keeps asking.                          *)
Removable == \A n \in Names : instances[n] # "absent" ~> instances[n] = "absent"
=============================================================================
