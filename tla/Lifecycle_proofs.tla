-------------------------- MODULE Lifecycle_proofs --------------------------
(***************************************************************************)
(* Proofs about Lifecycle, for every set of containers, pairing codes and  *)
(* foreign instances, every number of handlers and restarts, and whatever  *)
(* incidents happen: typing, that a removal never deletes the edge         *)
(* instance of another container of ours, that an instance comes once;     *)
(* and, for each container until it meets an incident, that the metadata   *)
(* in the file leads to its edge instance and that the container is not    *)
(* deleted before it, which together is the ledger of EdgeLedger.          *)
(***************************************************************************)
EXTENDS Lifecycle, TLAPS

(* A handler that is under way has a container, an install that has paired *)
(* has its code, and a removal that deletes an instance has its target.    *)
Underway ==
  /\ \A i \in Installers :
       /\ install[i].pc # "idle" => install[i].name \in Names
       /\ install[i].pc \in {"exec", "poll", "rename", "save"}
            => install[i].code \in Codes
  /\ \A r \in Removers :
       /\ remove[r].pc # "idle" => remove[r].name \in Names
       /\ remove[r].pc = "edge" => remove[r].target \in Instances
       /\ remove[r].pc \in {"read", "find"} => remove[r].target = None

Typed == TypeOK /\ Underway

(* Incidents are counted up to the bound, and remembered by container.     *)
LEMMA MeetsTyped ==
  ASSUME TypeOK, NEW n \in Names, NEW kinds, Meets(n, kinds)
  PROVE  mishaps' \in 0..MaxMishaps /\ spoiled' \in SUBSET Names
BY LifecycleAssumption DEF Meets, TypeOK

(* What saveContainerMetadata writes, in memory and in the file, is again  *)
(* metadata for every container.                                           *)
LEMMA SaveMetaTyped ==
  ASSUME TypeOK, NEW n \in Names, NEW tenant \in BOOLEAN,
         NEW code \in Codes \cup {None}, NEW id \in Codes \cup {None},
         NEW kinds, SaveMeta(n, tenant, code, id, kinds)
  PROVE  /\ mem' \in [Names -> Metas] /\ disk' \in [Names -> Metas]
         /\ mishaps' \in 0..MaxMishaps /\ spoiled' \in SUBSET Names
<1>1. Meta(code, id) \in Metas
  BY DEF Meta, Metas
<1>2. mem' \in [Names -> Metas]
  BY <1>1 DEF SaveMeta, TypeOK
<1>3. disk' = mem' \/ disk' = disk
  BY DEF SaveMeta, Save
<1>4. PICK met : Meets(n, met)
  BY DEF SaveMeta, Save
<1>5. QED
  BY <1>2, <1>3, <1>4, MeetsTyped DEF TypeOK

(* What InstallBegin does, with its incidents and whether it knows the     *)
(* tenant.                                                                 *)
Begins(i, n, tenant, kinds) ==
  /\ "overlap" \in kinds <=> Busy(n)
  /\ "again" \in kinds <=> Hosted(n) # {}
  /\ "unknown" \in kinds <=> tenant = FALSE
  /\ SaveMeta(n, tenant, None, None, kinds)
  /\ install' = [install EXCEPT ![i] =
       [InstallIdle EXCEPT !.pc = "list", !.name = n, !.tenant = tenant]]

LEMMA BegunStep ==
  ASSUME NEW i \in Installers, NEW n \in Names, InstallBegin(i, n)
  PROVE  \E tenant \in BOOLEAN, kinds \in SUBSET AllIncidents : Begins(i, n, tenant, kinds)
<1>1. PICK kinds \in SUBSET {"overlap", "again", "unknown"} :
        /\ "overlap" \in kinds <=> Busy(n)
        /\ "again" \in kinds <=> Hosted(n) # {}
        /\ SaveMeta(n, "unknown" \notin kinds, None, None, kinds)
        /\ install' = [install EXCEPT ![i] =
             [InstallIdle EXCEPT !.pc = "list", !.name = n, !.tenant = "unknown" \notin kinds]]
  BY DEF InstallBegin
<1>2. kinds \in SUBSET AllIncidents
  BY DEF AllIncidents
<1>3. PICK tenant \in BOOLEAN : tenant = ("unknown" \notin kinds)
  OBVIOUS
<1>4. Begins(i, n, tenant, kinds)
  BY <1>1, <1>3, Zenon DEF Begins
<1>5. QED
  BY <1>2, <1>4

(* A deleted instance is still one of the tenant's.                        *)
LEMMA DeletedTyped ==
  ASSUME TypeOK, NEW c, edge' = [edge EXCEPT ![c] = Deleted]
  PROVE  edge' \in [Instances -> Edges]
<1>1. Deleted \in Edges
  BY DEF Deleted, NoEdge, Edges
<1>2. QED
  BY <1>1 DEF TypeOK

(* What PurgeList keeps is a set of the tenant's instances.                *)
LEMMA PurgeListed ==
  ASSUME NEW i \in Installers, PurgeList(i)
  PROVE  \E stale \in SUBSET Instances :
           install' = [install EXCEPT ![i] =
                        [install[i] EXCEPT !.pc = "purge", !.stale = stale]]
<1>1. PICK others \in SUBSET (Foreign \cap Registered) :
        install' = [install EXCEPT ![i] =
          [@ EXCEPT !.pc = "purge",
                    !.stale = {c \in Codes : edge[c].status = "offline"} \cup others]]
  BY DEF PurgeList
<1>2. {c \in Codes : edge[c].status = "offline"} \cup others \in SUBSET Instances
  BY DEF Instances
<1>3. QED
  BY <1>1, <1>2

(* Every step of an install keeps the types.                               *)
LEMMA InstallTyped ==
  ASSUME Typed, NEW i \in Installers, InstallStep(i)
  PROVE  Typed'
<1> USE LifecycleAssumption DEF Typed, TypeOK
<1>1. ASSUME NEW n \in Names, InstallBegin(i, n) PROVE Typed'
  <2>1. PICK tenant \in BOOLEAN, kinds \in SUBSET AllIncidents : Begins(i, n, tenant, kinds)
    BY <1>1, BegunStep
  <2>2. /\ mem' \in [Names -> Metas] /\ disk' \in [Names -> Metas]
        /\ mishaps' \in 0..MaxMishaps /\ spoiled' \in SUBSET Names
    BY <2>1, SaveMetaTyped DEF Begins
  <2>3. install' \in [Installers -> Installs]
    BY <2>1 DEF Begins, InstallIdle, Installs
  <2>4. Underway'
    BY <1>1, <2>1 DEF Begins, InstallBegin, InstallIdle, Underway
  <2>5. QED
    BY <1>1, <2>2, <2>3, <2>4 DEF InstallBegin
<1>2. CASE PurgeList(i)
  <2>1. PICK stale \in SUBSET Instances :
          install' = [install EXCEPT ![i] =
                       [install[i] EXCEPT !.pc = "purge", !.stale = stale]]
    BY <1>2, PurgeListed
  <2>2. install' \in [Installers -> Installs]
    BY ZenonT(60), <2>1 DEF Installs
  <2>3. Underway'
    BY <1>2, <2>1 DEF PurgeList, Underway
  <2>4. QED
    BY <1>2, <2>2, <2>3 DEF PurgeList
<1>3. CASE PurgeDelete(i)
  <2>1. PICK c \in Instances :
          /\ edge' = [edge EXCEPT ![c] = Deleted]
          /\ install' = [install EXCEPT ![i].stale = @ \ {c}]
    BY <1>3 DEF PurgeDelete, Registered
  <2>2. install' \in [Installers -> Installs]
    BY <2>1 DEF Installs
  <2>3. edge' \in [Instances -> Edges]
    BY <2>1, DeletedTyped
  <2>4. Underway'
    BY <1>3, <2>1 DEF PurgeDelete, Underway
  <2>5. QED
    BY <1>3, <2>2, <2>3, <2>4 DEF PurgeDelete
<1>4. CASE Pair(i)
  <2>1. PICK c \in NewCodes :
          /\ install' = [install EXCEPT ![i] = [@ EXCEPT !.pc = "exec", !.code = c]]
          /\ SaveMeta(install[i].name, install[i].tenant, c, None, {})
    BY <1>4 DEF Pair
  <2>2. c \in Codes
    BY DEF NewCodes
  <2>3. /\ mem' \in [Names -> Metas] /\ disk' \in [Names -> Metas]
        /\ mishaps' \in 0..MaxMishaps /\ spoiled' \in SUBSET Names
    <3>1. install[i].name \in Names /\ install[i].tenant \in BOOLEAN
      BY <1>4 DEF Pair, Underway, Installs
    <3>2. QED
      BY <2>1, <2>2, <3>1, SaveMetaTyped
  <2>4. install' = [install EXCEPT ![i] =
                     [install[i] EXCEPT !.pc = "exec", !.code = c]]
    BY <2>1
  <2>5. install' \in [Installers -> Installs]
    BY ZenonT(60), <2>2, <2>4 DEF Installs
  <2>6. Underway'
    <3>1. install[i].name \in Names /\ remove' = remove
      BY <1>4 DEF Pair, Underway
    <3>2. QED
      BY <2>2, <2>4, <3>1 DEF Underway
  <2>7. QED
    BY <1>4, <2>3, <2>5, <2>6 DEF Pair
<1>5. CASE RunInstaller(i)
  <2>1. install[i].code \in Codes /\ install[i].name \in Names
    BY <1>5 DEF RunInstaller, Underway
  <2>2. edge' \in [Instances -> Edges]
    BY <1>5, <2>1 DEF RunInstaller, Edges, Instances
  <2>3. agent' \in [Names -> {"absent", "bare"} \cup Codes]
    BY <1>5, <2>1 DEF RunInstaller
  <2>4. install' \in [Installers -> Installs] /\ Underway'
    <3>1. CASE InstallGo(i, "poll")
      BY <1>5, <2>1, <3>1 DEF RunInstaller, InstallGo, Installs, Underway
    <3>2. CASE install' = [install EXCEPT ![i] = InstallIdle]
      BY <1>5, <3>2 DEF RunInstaller, InstallIdle, Installs, Underway
    <3>3. QED
      BY <1>5, <3>1, <3>2 DEF RunInstaller
  <2>5. QED
    BY <1>5, <2>2, <2>3, <2>4 DEF RunInstaller
<1>6. CASE PollActive(i)
  <2>1. install' \in [Installers -> Installs]
    BY <1>6 DEF PollActive, InstallGo, Installs
  <2>2. Underway'
    BY <1>6 DEF PollActive, InstallGo, Underway
  <2>3. QED
    BY <1>6, <2>1, <2>2 DEF PollActive
<1>7. CASE Rename(i)
  <2>1. install' \in [Installers -> Installs] /\ Underway'
    <3>1. CASE InstallGo(i, "save")
      BY <1>7, <3>1 DEF Rename, InstallGo, Installs, Underway
    <3>2. CASE install' = [install EXCEPT ![i] = InstallIdle]
      BY <1>7, <3>2 DEF Rename, InstallIdle, Installs, Underway
    <3>3. QED
      BY <1>7, <3>1, <3>2 DEF Rename
  <2>2. edge' \in [Instances -> Edges]
    <3>1. install[i].name \in Names \cup {Gone}
      BY DEF Installs
    <3>2. QED
      BY ZenonT(60), <1>7, <3>1 DEF Rename, Edges
  <2>3. QED
    BY <1>7, <2>1, <2>2 DEF Rename
<1>8. CASE SaveResult(i)
  <2>1. /\ install[i].name \in Names /\ install[i].code \in Codes
        /\ install[i].tenant \in BOOLEAN
    BY <1>8 DEF SaveResult, Underway, Installs
  <2>2. /\ mem' \in [Names -> Metas] /\ disk' \in [Names -> Metas]
        /\ mishaps' \in 0..MaxMishaps /\ spoiled' \in SUBSET Names
    BY <1>8, <2>1, SaveMetaTyped DEF SaveResult
  <2>3. install' \in [Installers -> Installs]
    BY <1>8 DEF SaveResult, InstallIdle, Installs
  <2>4. Underway'
    BY <1>8 DEF SaveResult, InstallIdle, Underway
  <2>5. QED
    BY <1>8, <2>2, <2>3, <2>4 DEF SaveResult
<1>9. CASE InstallFails(i)
  <2>1. install' \in [Installers -> Installs]
    BY <1>9 DEF InstallFails, InstallIdle, Installs
  <2>2. Underway'
    BY <1>9 DEF InstallFails, InstallIdle, Underway
  <2>3. QED
    BY <1>9, <2>1, <2>2 DEF InstallFails
<1>10. QED
  BY <1>1, <1>2, <1>3, <1>4, <1>5, <1>6, <1>7, <1>8, <1>9 DEF InstallStep

(* Every step of a removal keeps the types.                                *)
LEMMA RemoveTyped ==
  ASSUME Typed, NEW r \in Removers, RemoveStep(r)
  PROVE  Typed'
<1> USE LifecycleAssumption DEF Typed, TypeOK
<1>g. ASSUME NEW pc \in {"read", "lxd", "meta"}, NEW n \in Names, RemoveGo(r, pc, n),
             UNCHANGED install
      PROVE  remove' \in [Removers -> Removes] /\ Underway'
  <2>1. remove' \in [Removers -> Removes]
    BY <1>g DEF RemoveGo, RemoveIdle, NoMeta, Metas, Removes
  <2>2. Underway'
    BY <1>g DEF RemoveGo, RemoveIdle, Underway
  <2>3. QED
    BY <2>1, <2>2
<1>i. ASSUME remove' = [remove EXCEPT ![r] = RemoveIdle], UNCHANGED install
      PROVE  remove' \in [Removers -> Removes] /\ Underway'
  <2>1. remove' \in [Removers -> Removes]
    BY <1>i DEF RemoveIdle, NoMeta, Metas, Removes
  <2>2. Underway'
    BY <1>i DEF RemoveIdle, Underway
  <2>3. QED
    BY <2>1, <2>2
<1>1. ASSUME NEW n \in Names, Uninstall(r, n) PROVE Typed'
  <2>1. mishaps' \in 0..MaxMishaps /\ spoiled' \in SUBSET Names
    BY <1>1, MeetsTyped DEF Uninstall
  <2>2. CASE RemoveGo(r, "read", n)
    BY <1>1, <1>g, <2>1, <2>2 DEF Uninstall
  <2>3. CASE UNCHANGED remove
    BY <1>1, <2>1, <2>3 DEF Uninstall, Underway
  <2>4. QED
    BY <1>1, <2>2, <2>3 DEF Uninstall
<1>2. CASE ReadMeta(r)
  <2>1. remove[r].name \in Names
    BY <1>2 DEF ReadMeta, Underway
  <2>2. remove' \in [Removers -> Removes]
    BY ZenonT(60), <1>2, <2>1 DEF ReadMeta, Removes
  <2>3. Underway'
    BY <1>2, <2>1 DEF ReadMeta, Underway
  <2>4. QED
    BY <1>2, <2>2, <2>3 DEF ReadMeta
<1>3. CASE FindEdge(r)
  <2>1. remove[r].meta \in Metas /\ remove[r].name \in Names
    BY <1>3 DEF FindEdge, Removes, Underway
  <2>2. Candidates(remove[r].meta, remove[r].name) \in SUBSET Instances
    BY <2>1 DEF Candidates, Registered, Metas, Instances
  <2>3. CASE RemoveGo(r, "lxd", remove[r].name) /\ UNCHANGED spoiled
    BY <1>3, <1>g, <2>1, <2>3 DEF FindEdge
  <2>4. ASSUME NEW c \in Instances,
               remove' = [remove EXCEPT ![r] = [@ EXCEPT !.pc = "edge", !.target = c]]
        PROVE  remove' \in [Removers -> Removes] /\ Underway'
    <3>1. remove' = [remove EXCEPT ![r] = [remove[r] EXCEPT !.pc = "edge", !.target = c]]
      BY <2>4
    <3>2. remove' \in [Removers -> Removes]
      BY ZenonT(60), <3>1 DEF Removes
    <3>3. install' = install
      BY <1>3 DEF FindEdge
    <3>4. Underway'
      BY <2>1, <3>1, <3>3 DEF Underway
    <3>5. QED
      BY <3>2, <3>4
  <2>5. CASE \E c \in Candidates(remove[r].meta, remove[r].name) :
               /\ remove' = [remove EXCEPT ![r] = [@ EXCEPT !.pc = "edge", !.target = c]]
               /\ spoiled' = IF Namesake(c, remove[r].name) /\ Hosted(remove[r].name) # {}
                             THEN spoiled \cup {remove[r].name} ELSE spoiled
    <3>1. spoiled' \in SUBSET Names
      BY <2>1, <2>5
    <3>2. QED
      BY <1>3, <2>2, <2>4, <2>5, <3>1 DEF FindEdge
  <2>6. QED
    BY <1>3, <2>3, <2>5 DEF FindEdge
<1>4. CASE DeleteEdge(r)
  <2>1. remove[r].name \in Names /\ remove[r].target \in Instances
    BY <1>4 DEF DeleteEdge, Underway
  <2>2. edge' \in [Instances -> Edges]
    BY <1>4, <2>1, DeletedTyped DEF DeleteEdge
  <2>3. QED
    BY <1>4, <1>g, <2>1, <2>2 DEF DeleteEdge
<1>5. CASE DeleteContainer(r)
  <2>1. remove[r].name \in Names
    BY <1>5 DEF DeleteContainer, Underway
  <2>2. edge' \in [Instances -> Edges]
    BY <1>5 DEF DeleteContainer, Edges
  <2>3. agent' \in [Names -> {"absent", "bare"} \cup Codes]
    BY <1>5 DEF DeleteContainer
  <2>4. remove' \in [Removers -> Removes] /\ Underway'
    BY <1>5, <1>g, <1>i, <2>1 DEF DeleteContainer
  <2>5. QED
    BY <1>5, <2>2, <2>3, <2>4 DEF DeleteContainer
<1>6. CASE Forget(r)
  <2>1. NoMeta \in Metas /\ remove[r].name \in Names
    BY <1>6 DEF NoMeta, Metas, Forget, Underway
  <2>2. mem' \in [Names -> Metas] /\ disk' \in [Names -> Metas]
    BY ZenonT(60), <1>6, <2>1 DEF Forget, Save
  <2>3. PICK kinds : Meets(remove[r].name, kinds)
    BY <1>6 DEF Forget, Save
  <2>4. mishaps' \in 0..MaxMishaps /\ spoiled' \in SUBSET Names
    BY <2>1, <2>3, MeetsTyped
  <2>5. QED
    BY <1>6, <1>i, <2>2, <2>4 DEF Forget
<1>7. CASE RemoveFails(r)
  BY <1>7, <1>i DEF RemoveFails
<1>8. QED
  BY <1>1, <1>2, <1>3, <1>4, <1>5, <1>6, <1>7 DEF RemoveStep

(* So does every step of the tenant, the host and a restart.               *)
LEMMA TypedStep == Typed /\ [Next]_vars => Typed'
<1> SUFFICES ASSUME Typed, [Next]_vars PROVE Typed'
  OBVIOUS
<1> USE LifecycleAssumption DEF Typed, TypeOK
<1>1. ASSUME NEW n \in Names, Launch(n) PROVE Typed'
  BY <1>1 DEF Launch, Underway
<1>2. ASSUME NEW c \in Codes, EdgeUp(c) \/ EdgeDown(c) PROVE Typed'
  <2>1. PICK s \in {"offline", "active"} : edge' = [edge EXCEPT ![c].status = s]
    BY <1>2 DEF EdgeUp, EdgeDown
  <2>2. edge' \in [Instances -> Edges]
    BY <2>1 DEF Edges
  <2>3. QED
    BY <1>2, <2>2 DEF EdgeUp, EdgeDown, Underway
<1>f. ASSUME NEW f \in Foreign, ForeignJoins(f) PROVE Typed'
  <2>1. edge' \in [Instances -> Edges]
    BY <1>f DEF ForeignJoins, Edges, Instances
  <2>2. QED
    BY <1>f, <2>1 DEF ForeignJoins, Underway
<1>3. ASSUME Restart \/ Setup PROVE Typed'
  <2>1. NoMeta \in Metas
    BY DEF NoMeta, Metas
  <2>2. CASE Restart
    <3>1. install' \in [Installers -> Installs] /\ remove' \in [Removers -> Removes]
      BY <2>1, <2>2 DEF Restart, InstallIdle, RemoveIdle, Installs, Removes
    <3>2. Underway'
      BY <2>2 DEF Restart, InstallIdle, RemoveIdle, Underway
    <3>3. mem' \in [Names -> Metas] /\ configured' \in BOOLEAN
      <4>1. CASE mem' = disk /\ configured' = TRUE
        BY <4>1
      <4>2. CASE mem' = [n \in Names |-> NoMeta] /\ configured' = FALSE
        BY <2>1, <4>2
      <4>3. QED
        BY <2>2, <4>1, <4>2 DEF Restart
    <3>4. QED
      BY <2>2, <3>1, <3>2, <3>3 DEF Restart
  <2>3. CASE Setup
    BY <2>1, <2>3 DEF Setup, Underway
  <2>4. QED
    BY <1>3, <2>2, <2>3
<1>4. CASE UNCHANGED vars
  BY <1>4 DEF vars, Underway
<1>5. QED
  BY <1>1, <1>2, <1>f, <1>3, <1>4, InstallTyped, RemoveTyped DEF Next

(* The types hold before the first request.                                *)
LEMMA TypedInit == Init => Typed
BY LifecycleAssumption DEF Init, Typed, TypeOK, Underway, NoEdge, NoMeta, Metas,
   Edges, InstallIdle, Installs, RemoveIdle, Removes

(* Every variable keeps its type.                                          *)
THEOREM Typing == Spec => []TypeOK
BY TypedInit, TypedStep, PTL DEF Spec, Typed

-----------------------------------------------------------------------------
(* The argument: every pairing code belongs to one container, the one it   *)
(* was created for, and whatever a handler, the metadata or the tenant     *)
(* remembers about a code it remembers for that container.                 *)

Owners == [Codes -> Names \cup {Gone}]

Keeps(m, n, o) == m.code # None => o[m.code] = n

MetaOwned(o) == \A n \in Names : Keeps(mem[n], n, o) /\ Keeps(disk[n], n, o)

InstallOwned(o) ==
  \A i \in Installers : install[i].code # None => o[install[i].code] = install[i].name

RemoveOwned(o) ==
  \A r \in Removers :
    /\ Keeps(remove[r].meta, remove[r].name, o)
    /\ remove[r].target \in Codes => o[remove[r].target] = remove[r].name

EdgeOwned(o) ==
  \A c \in Codes : edge[c].host \in {o[c], Gone} /\ edge[c].name \in {o[c], Gone}

OwnedBy(o) == MetaOwned(o) /\ InstallOwned(o) /\ RemoveOwned(o) /\ EdgeOwned(o)

(* An identifier is saved only beside its pairing code, and a code only in *)
(* metadata that is there; a removal's target is its metadata's code or an *)
(* instance that has been registered, and a foreign one has the container's*)
(* name; and an instance that has not been registered has neither          *)
(* container nor name.  So a new code is nowhere.                          *)
Proper(m) == m.id \in {None, m.code} /\ (m.code # None => m.known = TRUE)

TargetSeen(r) ==
  /\ \/ remove[r].target \in {None, remove[r].meta.code}
     \/ edge[remove[r].target].status # "none"
  /\ remove[r].target \in Foreign /\ edge[remove[r].target].status # "deleted"
       => edge[remove[r].target].name = remove[r].name

Consistent ==
  /\ \A n \in Names : Proper(mem[n]) /\ Proper(disk[n])
  /\ \A r \in Removers : Proper(remove[r].meta) /\ TargetSeen(r)
  /\ \A c \in Instances :
       edge[c].status = "none" => edge[c].host = Gone /\ edge[c].name = Gone

Inv == Typed /\ Consistent /\ \E o \in Owners : OwnedBy(o)

(* What SaveMeta and Forget may leave for a container.                     *)
LEMMA Saved ==
  ASSUME TypeOK, NEW n \in Names, NEW tenant, NEW code, NEW id, NEW kinds,
         SaveMeta(n, tenant, code, id, kinds)
  PROVE  \A k \in Names : /\ \/ mem'[k] = mem[k]
                             \/ k = n /\ mem'[k] = Meta(code, id)
                          /\ disk'[k] = disk[k] \/ disk'[k] = mem'[k]
<1>1. CASE tenant
  BY <1>1 DEF SaveMeta, Save, TypeOK
<1>2. CASE ~tenant
  BY <1>2 DEF SaveMeta, Save, TypeOK
<1>3. QED
  BY <1>1, <1>2

(* What Forget may leave for a container.                                  *)
LEMMA Forgotten ==
  ASSUME TypeOK, NEW r \in Removers, Forget(r)
  PROVE  \A k \in Names : /\ mem'[k] = mem[k] \/ mem'[k] = NoMeta
                          /\ disk'[k] = disk[k] \/ disk'[k] = mem'[k]
BY DEF Forget, Save, TypeOK

(* A save keeps what is saved for n consistent and owned, if its code is.  *)
LEMMA SavedOwned ==
  ASSUME TypeOK, Consistent, NEW o \in Owners, MetaOwned(o),
         NEW n \in Names, NEW tenant, NEW code, NEW id, NEW kinds,
         SaveMeta(n, tenant, code, id, kinds),
         id \in {None, code}, code # None => o[code] = n
  PROVE  MetaOwned(o)' /\ \A k \in Names : Proper(mem'[k]) /\ Proper(disk'[k])
<1>1. Meta(code, id).code = code /\ Meta(code, id).id = id /\ Meta(code, id).known = TRUE
  BY DEF Meta
<1>2. Proper(Meta(code, id)) /\ Keeps(Meta(code, id), n, o)
  BY <1>1 DEF Proper, Keeps
<1>3. ASSUME NEW k \in Names
      PROVE  /\ Proper(mem'[k]) /\ Keeps(mem'[k], k, o)
             /\ Proper(disk'[k]) /\ Keeps(disk'[k], k, o)
  <2>1. Proper(mem'[k]) /\ Keeps(mem'[k], k, o)
    BY <1>2, Saved DEF Consistent, MetaOwned
  <2>2. QED
    BY <2>1, Saved DEF Consistent, MetaOwned
<1>4. QED
  BY <1>3 DEF MetaOwned

(* A step of an install keeps every owner, but for the code it creates,    *)
(* whose owner is its container.                                           *)
LEMMA PairOwned ==
  ASSUME Typed, Consistent, NEW o \in Owners, OwnedBy(o),
         NEW i \in Installers, Pair(i)
  PROVE  Consistent' /\ \E p \in Owners : OwnedBy(p)'
<1> USE LifecycleAssumption DEF Typed
<1> DEFINE n == install[i].name
<1>1. PICK c \in NewCodes :
        /\ install' = [install EXCEPT ![i] = [@ EXCEPT !.pc = "exec", !.code = c]]
        /\ SaveMeta(n, install[i].tenant, c, None, {})
  BY DEF Pair
<1>2. c \in Codes /\ c # None /\ n \in Names /\ edge' = edge /\ remove' = remove
  BY DEF Pair, NewCodes, Underway
<1>3. /\ edge[c].host = Gone /\ edge[c].name = Gone
      /\ \A j \in Installers : install[j].code # c
      /\ \A r \in Removers : remove[r].meta.code # c /\ remove[r].target # c
      /\ \A k \in Names : mem[k].code # c /\ disk[k].code # c
  <2>1. edge[c].status = "none"
    BY DEF NewCodes
  <2>2. \A r \in Removers : remove[r].target # c
    BY <1>2, <2>1 DEF NewCodes, Consistent, TargetSeen
  <2>3. QED
    BY <1>2, <2>1, <2>2 DEF NewCodes, Consistent, Instances
<1>4. PICK p \in Owners : p[c] = n /\ \A d \in Codes : d # c => p[d] = o[d]
  <2>1. [o EXCEPT ![c] = n] \in Owners
    BY <1>2 DEF Owners
  <2>2. QED
    BY <1>2, <2>1 DEF Owners
<1>5. MetaOwned(p)
  <2>1. ASSUME NEW k \in Names, NEW m \in Metas, m.code # c, Keeps(m, k, o)
        PROVE  Keeps(m, k, p)
    BY <1>4, <2>1 DEF Keeps, Metas
  <2>2. QED
    BY <1>3, <2>1 DEF MetaOwned, OwnedBy, TypeOK
<1>6. MetaOwned(p)' /\ \A k \in Names : Proper(mem'[k]) /\ Proper(disk'[k])
  BY <1>1, <1>2, <1>4, <1>5, SavedOwned
<1>7. install' = [install EXCEPT ![i] = [install[i] EXCEPT !.pc = "exec", !.code = c]]
  BY <1>1
<1>8. InstallOwned(p)'
  <2>1. install'[i].code = c /\ install'[i].name = n
    BY <1>7 DEF TypeOK, Installs
  <2>2. ASSUME NEW j \in Installers, j # i, install'[j].code # None
        PROVE  p[install'[j].code] = install'[j].name
    <3>1. install'[j] = install[j] /\ install[j].code \in Codes
      BY <1>7, <2>2 DEF TypeOK, Installs
    <3>2. QED
      BY <1>3, <1>4, <2>2, <3>1 DEF OwnedBy, InstallOwned
  <2>3. QED
    BY <1>4, <2>1, <2>2 DEF InstallOwned
<1>9. RemoveOwned(p)'
  <2>1. ASSUME NEW r \in Removers
        PROVE  /\ Keeps(remove[r].meta, remove[r].name, p)
               /\ remove[r].target \in Codes => p[remove[r].target] = remove[r].name
    <3>1. remove[r].meta.code \in Codes \cup {None}
      BY DEF TypeOK, Removes, Metas
    <3>2. QED
      BY <1>3, <1>4, <3>1 DEF OwnedBy, RemoveOwned, Keeps
  <2>2. QED
    BY <1>2, <2>1 DEF RemoveOwned
<1>10. EdgeOwned(p)'
  BY <1>2, <1>3, <1>4 DEF OwnedBy, EdgeOwned
<1>11. Consistent'
  BY <1>2, <1>6 DEF Consistent, TargetSeen
<1>12. QED
  BY <1>4, <1>6, <1>8, <1>9, <1>10, <1>11 DEF OwnedBy

(* Deleting an instance takes its container and its name from it.          *)
LEMMA DeletedOwned ==
  ASSUME TypeOK, Consistent, NEW o \in Owners, EdgeOwned(o), NEW c \in Instances,
         edge' = [edge EXCEPT ![c] = Deleted], UNCHANGED <<mem, disk>>,
         \A r \in Removers :
           \/ remove'[r] = remove[r]
           \/ remove'[r].target = None /\ remove'[r].meta = NoMeta
  PROVE  EdgeOwned(o)' /\ Consistent'
<1>1. edge'[c] = Deleted /\ \A d \in Instances : d # c => edge'[d] = edge[d]
  BY DEF TypeOK
<1>2. Deleted.status = "deleted" /\ Deleted.host = Gone /\ Deleted.name = Gone
  BY DEF Deleted, NoEdge
<1>3. EdgeOwned(o)'
  BY <1>1, <1>2 DEF EdgeOwned, Instances
<1>4. ASSUME NEW r \in Removers PROVE Proper(remove'[r].meta) /\ TargetSeen(r)'
  <2>1. CASE remove'[r] = remove[r]
    <3>1. remove[r].target \in Instances \cup {None} /\ Proper(remove[r].meta) /\ TargetSeen(r)
      BY DEF TypeOK, Removes, Consistent
    <3>2. QED
      BY <1>1, <1>2, <2>1, <3>1 DEF TargetSeen, Instances
  <2>2. CASE remove'[r].target = None /\ remove'[r].meta = NoMeta
    BY <2>2, LifecycleAssumption DEF TargetSeen, Proper, NoMeta
  <2>3. QED
    BY <2>1, <2>2
<1>5. QED
  BY <1>1, <1>2, <1>3, <1>4 DEF Consistent

(* A step that leaves identities, containers and names of the instances    *)
(* alone, but for one of ours that gets a container or a name.             *)
LEMMA NamedConsistent ==
  ASSUME TypeOK, Consistent, NEW c \in Codes, NEW e, e.status # "none",
         edge' = [edge EXCEPT ![c] = e], UNCHANGED <<mem, disk, remove>>
  PROVE  Consistent'
<1>1. edge'[c] = e /\ \A d \in Instances : d # c => edge'[d] = edge[d]
  BY DEF TypeOK, Instances
<1>2. ASSUME NEW r \in Removers PROVE TargetSeen(r)'
  <2>1. remove[r].target \in Instances \cup {None} /\ TargetSeen(r) /\ remove' = remove
    BY DEF TypeOK, Removes, Consistent
  <2>2. c \notin Foreign
    BY LifecycleAssumption
  <2>3. QED
    BY <1>1, <2>1, <2>2 DEF TargetSeen, Instances
<1>3. QED
  BY <1>1, <1>2 DEF Consistent

(* No step of an install lets an identifier travel to another container.   *)
LEMMA InstallStepOwned ==
  ASSUME Typed, Consistent, NEW o \in Owners, OwnedBy(o),
         NEW i \in Installers, InstallStep(i)
  PROVE  Consistent' /\ \E p \in Owners : OwnedBy(p)'
<1> USE LifecycleAssumption DEF Typed, OwnedBy
<1>1. ASSUME NEW n \in Names, InstallBegin(i, n) PROVE Consistent' /\ OwnedBy(o)'
  <2>1. PICK tenant \in BOOLEAN, kinds \in SUBSET AllIncidents : Begins(i, n, tenant, kinds)
    BY <1>1, BegunStep
  <2>2. MetaOwned(o)' /\ \A k \in Names : Proper(mem'[k]) /\ Proper(disk'[k])
    BY <2>1, SavedOwned DEF Begins
  <2>3. edge' = edge /\ remove' = remove
    BY <1>1 DEF InstallBegin
  <2>4. install'[i].code = None /\ \A j \in Installers : j # i => install'[j] = install[j]
    BY <2>1 DEF Begins, InstallIdle, TypeOK
  <2>5. InstallOwned(o)'
    BY <2>4 DEF InstallOwned
  <2>6. QED
    BY <2>2, <2>3, <2>5 DEF Consistent, TargetSeen, RemoveOwned, EdgeOwned
<1>2. ASSUME \/ PurgeList(i) \/ PollActive(i) \/ InstallFails(i)
      PROVE  Consistent' /\ OwnedBy(o)'
  <2>1. UNCHANGED <<edge, mem, disk, remove>>
    BY <1>2 DEF PurgeList, PollActive, InstallFails
  <2>2. InstallOwned(o)'
    <3>1. CASE PurgeList(i)
      <4>1. PICK stale : install' = [install EXCEPT ![i] =
                           [install[i] EXCEPT !.pc = "purge", !.stale = stale]]
        BY <3>1, PurgeListed
      <4>2. QED
        BY <4>1 DEF InstallOwned, TypeOK, Installs
    <3>2. CASE PollActive(i)
      BY <3>2 DEF PollActive, InstallGo, InstallOwned, TypeOK, Installs
    <3>3. CASE InstallFails(i)
      BY <3>3 DEF InstallFails, InstallIdle, InstallOwned, TypeOK
    <3>4. QED
      BY <1>2, <3>1, <3>2, <3>3
  <2>3. QED
    BY <2>1, <2>2 DEF Consistent, TargetSeen, MetaOwned, RemoveOwned, EdgeOwned
<1>3. CASE PurgeDelete(i)
  <2>1. PICK c \in Instances :
          /\ edge' = [edge EXCEPT ![c] = Deleted]
          /\ install' = [install EXCEPT ![i].stale = @ \ {c}]
    BY <1>3 DEF PurgeDelete, Registered
  <2>2. UNCHANGED <<mem, disk, remove>>
    BY <1>3 DEF PurgeDelete
  <2>3. InstallOwned(o)'
    BY <2>1 DEF InstallOwned, TypeOK, Installs
  <2>4. EdgeOwned(o)' /\ Consistent'
    BY <2>1, <2>2, DeletedOwned DEF PurgeDelete
  <2>5. QED
    BY <2>2, <2>3, <2>4 DEF MetaOwned, RemoveOwned
<1>4. CASE RunInstaller(i)
  <2> DEFINE c == install[i].code
  <2>1. c \in Codes /\ c # None /\ install[i].name = o[c]
    BY <1>4 DEF RunInstaller, Underway, InstallOwned
  <2>2. edge' = [edge EXCEPT ![c] =
                   [status |-> "offline", host |-> install[i].name, name |-> Gone]]
    BY <1>4 DEF RunInstaller
  <2>3. UNCHANGED <<mem, disk, remove>>
    BY <1>4 DEF RunInstaller
  <2>4. InstallOwned(o)'
    <3>1. CASE InstallGo(i, "poll")
      BY <3>1 DEF InstallGo, InstallOwned, TypeOK, Installs
    <3>2. CASE install' = [install EXCEPT ![i] = InstallIdle]
      BY <3>2 DEF InstallIdle, InstallOwned, TypeOK
    <3>3. QED
      BY <1>4, <3>1, <3>2 DEF RunInstaller
  <2>5. EdgeOwned(o)'
    BY <2>1, <2>2 DEF EdgeOwned, TypeOK, Instances
  <2>6. Consistent'
    <3>1. [status |-> "offline", host |-> install[i].name, name |-> Gone].status # "none"
      OBVIOUS
    <3>2. QED
      BY <2>1, <2>2, <2>3, <3>1, NamedConsistent
  <2>7. QED
    BY <2>3, <2>4, <2>5, <2>6 DEF MetaOwned, RemoveOwned
<1>5. CASE Rename(i)
  <2> DEFINE c == install[i].code
  <2>1. c \in Codes /\ c # None /\ install[i].name = o[c]
    BY <1>5 DEF Rename, Underway, InstallOwned
  <2>2. edge' = [edge EXCEPT ![c].name = install[i].name] /\ edge[c].status # "none"
    BY <1>5 DEF Rename, Registered
  <2>3. UNCHANGED <<mem, disk, remove>>
    BY <1>5 DEF Rename
  <2>4. InstallOwned(o)'
    <3>1. CASE InstallGo(i, "save")
      BY <3>1 DEF InstallGo, InstallOwned, TypeOK, Installs
    <3>2. CASE install' = [install EXCEPT ![i] = InstallIdle]
      BY <3>2 DEF InstallIdle, InstallOwned, TypeOK
    <3>3. QED
      BY <1>5, <3>1, <3>2 DEF Rename
  <2>5. EdgeOwned(o)'
    BY <2>1, <2>2 DEF EdgeOwned, TypeOK, Edges, Instances
  <2>6. Consistent'
    <3>1. edge' = [edge EXCEPT ![c] = [edge[c] EXCEPT !.name = install[i].name]]
      BY <2>2
    <3>2. [edge[c] EXCEPT !.name = install[i].name].status # "none"
      BY <2>1, <2>2 DEF TypeOK, Edges, Instances
    <3>3. QED
      BY <2>1, <2>3, <3>1, <3>2, NamedConsistent
  <2>7. QED
    BY <2>3, <2>4, <2>5, <2>6 DEF MetaOwned, RemoveOwned
<1>6. CASE SaveResult(i)
  <2> DEFINE c == install[i].code
  <2>1. c \in Codes /\ c # None /\ install[i].name = o[c] /\ install[i].name \in Names
    BY <1>6 DEF SaveResult, Underway, InstallOwned
  <2>2. SaveMeta(install[i].name, install[i].tenant, c, c, {})
    BY <1>6 DEF SaveResult
  <2>3. MetaOwned(o)' /\ \A k \in Names : Proper(mem'[k]) /\ Proper(disk'[k])
    BY <2>1, <2>2, SavedOwned
  <2>4. edge' = edge /\ remove' = remove
    BY <1>6 DEF SaveResult
  <2>5. install' = [install EXCEPT ![i] = InstallIdle]
    BY <1>6 DEF SaveResult
  <2>6. InstallOwned(o)'
    BY <2>5 DEF InstallIdle, InstallOwned, TypeOK
  <2>7. QED
    BY <2>3, <2>4, <2>6 DEF Consistent, TargetSeen, RemoveOwned, EdgeOwned
<1>7. QED
  BY <1>1, <1>2, <1>3, <1>4, <1>5, <1>6, PairOwned DEF InstallStep

(* What handleRemove finds is its metadata's code, or bears its name.      *)
LEMMA CandidatesMatch ==
  ASSUME NEW m \in Metas, NEW n \in Names, Proper(m), NEW c, c \in Candidates(m, n)
  PROVE  /\ c \in Instances
         /\ \/ c \in Codes /\ c = m.code
            \/ c \in Registered /\ edge[c].name = n
<1>1. m.id \in {None, m.code} /\ m.code \in Codes \cup {None} /\ Codes \subseteq Instances
  BY DEF Proper, Metas, Instances
<1>2. CASE m.id # None
  <2>1. Candidates(m, n) \in SUBSET {m.id}
    BY <1>2, Zenon DEF Candidates
  <2>2. QED
    BY <1>1, <1>2, <2>1
<1>3. CASE m.id = None
  <2>1. Candidates(m, n) \in SUBSET {d \in Registered : Matches(d, m, n)}
    BY <1>3, Zenon DEF Candidates
  <2>2. c \in Registered /\ Matches(c, m, n)
    BY <2>1
  <2>3. QED
    BY <1>1, <2>2, LifecycleAssumption DEF Matches, Registered
<1>4. QED
  BY <1>2, <1>3

(* A step of a removal keeps every owner: it takes up only what belongs to *)
(* its container.                                                          *)
LEMMA RemoveStepOwned ==
  ASSUME Typed, Consistent, NEW o \in Owners, OwnedBy(o),
         NEW r \in Removers, RemoveStep(r)
  PROVE  Consistent' /\ OwnedBy(o)'
<1> USE LifecycleAssumption DEF Typed, OwnedBy
<1>1. NoMeta.code = None /\ NoMeta.id = None
  BY DEF NoMeta
<1>2. RemoveIdle.meta = NoMeta /\ RemoveIdle.target = None
  BY DEF RemoveIdle
<1>g. ASSUME NEW pc, NEW n,
             \/ RemoveGo(r, pc, n)
             \/ remove' = [remove EXCEPT ![r] = RemoveIdle]
      PROVE  /\ RemoveOwned(o)'
             /\ remove'[r].target = None /\ remove'[r].meta = NoMeta
             /\ \A q \in Removers : q # r => remove'[q] = remove[q]
  <2>1. /\ remove'[r].target = None /\ remove'[r].meta = NoMeta
        /\ \A q \in Removers : q # r => remove'[q] = remove[q]
    <3>1. [RemoveIdle EXCEPT !.pc = pc, !.name = n].target = None
      BY DEF RemoveIdle
    <3>2. [RemoveIdle EXCEPT !.pc = pc, !.name = n].meta = NoMeta
      BY DEF RemoveIdle
    <3>3. QED
      BY <1>2, <1>g, <3>1, <3>2 DEF RemoveGo, TypeOK
  <2>2. QED
    BY <1>1, <2>1 DEF RemoveOwned, Keeps
<1>c. ASSUME edge' = edge, remove'[r].target = None, remove'[r].meta = NoMeta,
             \A q \in Removers : q # r => remove'[q] = remove[q],
             \A k \in Names : Proper(mem'[k]) /\ Proper(disk'[k])
      PROVE  Consistent'
  <2>1. \A q \in Removers : Proper(remove'[q].meta) /\ TargetSeen(q)'
    BY <1>1, <1>c DEF Consistent, Proper, TargetSeen
  <2>2. QED
    BY <1>c, <2>1 DEF Consistent
<1>3. ASSUME NEW n \in Names, Uninstall(r, n) PROVE Consistent' /\ OwnedBy(o)'
  <2>1. UNCHANGED <<edge, mem, disk, install>>
    BY <1>3 DEF Uninstall
  <2>2. CASE UNCHANGED remove
    BY <2>1, <2>2 DEF Consistent, TargetSeen, MetaOwned, InstallOwned, RemoveOwned, EdgeOwned
  <2>3. CASE RemoveGo(r, "read", n)
    <3>1. RemoveOwned(o)' /\ Consistent'
      BY <1>c, <1>g, <2>1, <2>3 DEF Consistent
    <3>2. QED
      BY <2>1, <3>1 DEF MetaOwned, InstallOwned, EdgeOwned
  <2>4. QED
    BY <1>3, <2>2, <2>3 DEF Uninstall
<1>4. CASE ReadMeta(r)
  <2> DEFINE n == remove[r].name
  <2>1. n \in Names
    BY <1>4 DEF ReadMeta, Underway
  <2>2. UNCHANGED <<edge, mem, disk, install>>
    BY <1>4 DEF ReadMeta
  <2>3. remove' = [remove EXCEPT ![r] = [remove[r] EXCEPT !.pc = "find", !.meta = mem[n]]]
    BY <1>4 DEF ReadMeta
  <2>4. /\ remove'[r].meta = mem[n] /\ remove'[r].name = n
        /\ remove'[r].target = remove[r].target
        /\ \A q \in Removers : q # r => remove'[q] = remove[q]
    BY <2>3 DEF TypeOK, Removes
  <2>5. RemoveOwned(o)'
    BY <2>1, <2>4 DEF RemoveOwned, MetaOwned
  <2>6. remove[r].target = None
    BY <1>4 DEF ReadMeta, Underway
  <2>7. \A q \in Removers : Proper(remove'[q].meta) /\ TargetSeen(q)'
    BY <2>1, <2>2, <2>4, <2>6 DEF Consistent, TargetSeen
  <2>8. Consistent'
    BY <2>2, <2>7 DEF Consistent
  <2>9. QED
    BY <2>2, <2>5, <2>8 DEF MetaOwned, InstallOwned, EdgeOwned
<1>5. CASE FindEdge(r)
  <2> DEFINE n == remove[r].name
             m == remove[r].meta
  <2>1. UNCHANGED <<edge, mem, disk, install>>
    BY <1>5 DEF FindEdge
  <2>2. CASE RemoveGo(r, "lxd", n)
    <3>1. RemoveOwned(o)' /\ Consistent'
      BY <1>c, <1>g, <2>1, <2>2 DEF Consistent
    <3>2. QED
      BY <2>1, <3>1 DEF MetaOwned, InstallOwned, EdgeOwned
  <2>3. ASSUME NEW c \in Candidates(m, n),
               remove' = [remove EXCEPT ![r] = [@ EXCEPT !.pc = "edge", !.target = c]]
        PROVE  Consistent' /\ OwnedBy(o)'
    <3>1. n \in Names /\ n # Gone
      BY <1>5 DEF FindEdge, Underway
    <3>2. /\ c \in Instances
          /\ \/ c \in Codes /\ c = m.code
             \/ c \in Registered /\ edge[c].name = n
      <4>1. Proper(m) /\ m \in Metas
        BY DEF TypeOK, Removes, Consistent
      <4>2. QED
        BY <3>1, <4>1, CandidatesMatch
    <3>3. /\ c \in Codes => o[c] = n
          /\ c = m.code \/ edge[c].status # "none"
          /\ c \in Foreign => edge[c].name = n
      BY <3>1, <3>2 DEF RemoveOwned, Keeps, EdgeOwned, Registered
    <3>4. remove' = [remove EXCEPT ![r] = [remove[r] EXCEPT !.pc = "edge", !.target = c]]
      BY <2>3
    <3>5. /\ remove'[r].meta = m /\ remove'[r].name = n /\ remove'[r].target = c
          /\ \A q \in Removers : q # r => remove'[q] = remove[q]
      BY <3>4 DEF TypeOK, Removes
    <3>6. RemoveOwned(o)'
      BY <3>3, <3>5 DEF RemoveOwned
    <3>7. \A q \in Removers : Proper(remove'[q].meta) /\ TargetSeen(q)'
      BY <2>1, <3>3, <3>5 DEF Consistent, TargetSeen
    <3>8. Consistent'
      BY <2>1, <3>7 DEF Consistent
    <3>9. QED
      BY <2>1, <3>6, <3>8 DEF MetaOwned, InstallOwned, EdgeOwned
  <2>4. QED
    BY <1>5, <2>2, <2>3 DEF FindEdge
<1>6. CASE DeleteEdge(r)
  <2>1. /\ remove[r].target \in Instances /\ UNCHANGED <<mem, disk, install>>
        /\ edge' = [edge EXCEPT ![remove[r].target] = Deleted]
        /\ RemoveGo(r, "lxd", remove[r].name)
    BY <1>6 DEF DeleteEdge, Registered
  <2>2. EdgeOwned(o)' /\ Consistent'
    <3>1. \A q \in Removers :
            \/ remove'[q] = remove[q]
            \/ remove'[q].target = None /\ remove'[q].meta = NoMeta
      BY <1>g, <2>1
    <3>2. QED
      BY <2>1, <3>1, DeletedOwned
  <2>3. QED
    BY <1>g, <2>1, <2>2 DEF MetaOwned, InstallOwned
<1>7. CASE DeleteContainer(r)
  <2>1. /\ RemoveOwned(o)' /\ remove'[r].target = None /\ remove'[r].meta = NoMeta
        /\ \A q \in Removers : q # r => remove'[q] = remove[q]
        /\ UNCHANGED <<mem, disk, install>>
    BY <1>7, <1>g DEF DeleteContainer
  <2>2. \A c \in Instances : /\ edge'[c].host \in {edge[c].host, Gone}
                             /\ edge'[c].name = edge[c].name
                             /\ edge'[c].status = edge[c].status
    BY <1>7 DEF DeleteContainer, TypeOK, Edges
  <2>3. EdgeOwned(o)'
    BY <2>2 DEF EdgeOwned, Instances
  <2>4. \A q \in Removers : Proper(remove'[q].meta) /\ TargetSeen(q)'
    <3>1. \A q \in Removers : remove[q].target \in Instances \cup {None}
      BY DEF TypeOK, Removes
    <3>2. QED
      BY <1>1, <2>1, <2>2, <3>1 DEF Consistent, Proper, TargetSeen
  <2>5. Consistent'
    BY <2>1, <2>2, <2>4 DEF Consistent
  <2>6. QED
    BY <2>1, <2>3, <2>5 DEF MetaOwned, InstallOwned
<1>8. ASSUME Forget(r) \/ RemoveFails(r) PROVE Consistent' /\ OwnedBy(o)'
  <2>1. UNCHANGED <<edge, install>> /\ remove' = [remove EXCEPT ![r] = RemoveIdle]
    BY <1>8 DEF Forget, RemoveFails
  <2>2. \A k \in Names : /\ mem'[k] = mem[k] \/ mem'[k] = NoMeta
                         /\ disk'[k] = disk[k] \/ disk'[k] = mem'[k]
    BY <1>8, Forgotten DEF RemoveFails
  <2>3. MetaOwned(o)' /\ \A k \in Names : Proper(mem'[k]) /\ Proper(disk'[k])
    BY <1>1, <2>2 DEF MetaOwned, Keeps, Consistent, Proper
  <2>4. RemoveOwned(o)' /\ Consistent'
    BY <1>c, <1>g, <2>1, <2>3
  <2>5. QED
    BY <2>1, <2>3, <2>4 DEF InstallOwned, EdgeOwned
<1>9. QED
  BY <1>3, <1>4, <1>5, <1>6, <1>7, <1>8 DEF RemoveStep

(* Every step keeps the invariant.                                         *)
LEMMA InvStep == Inv /\ [Next]_vars => Inv'
<1> SUFFICES ASSUME Inv, [Next]_vars PROVE Inv'
  OBVIOUS
<1> USE LifecycleAssumption
<1>1. PICK o \in Owners : OwnedBy(o)
  BY DEF Inv
<1>2. Typed'
  BY TypedStep DEF Inv
<1>3. ASSUME NEW n \in Names, Launch(n) PROVE Consistent' /\ OwnedBy(o)'
  BY <1>1, <1>3 DEF Launch, Inv, Consistent, TargetSeen, OwnedBy, MetaOwned, InstallOwned,
     RemoveOwned, EdgeOwned
<1>4. ASSUME NEW c \in Codes, EdgeUp(c) \/ EdgeDown(c) PROVE Consistent' /\ OwnedBy(o)'
  <2>1. UNCHANGED <<mem, disk, install, remove>>
    BY <1>4 DEF EdgeUp, EdgeDown
  <2>2. \A d \in Instances : /\ edge'[d].host = edge[d].host
                             /\ edge'[d].name = edge[d].name
                             /\ edge'[d].status = "none" <=> edge[d].status = "none"
                             /\ edge'[d].status = "deleted" <=> edge[d].status = "deleted"
    BY <1>4 DEF EdgeUp, EdgeDown, Inv, Typed, TypeOK, Edges, Instances
  <2>3. \A q \in Removers : TargetSeen(q)'
    <3>1. \A q \in Removers : remove[q].target \in Instances \cup {None} /\ TargetSeen(q)
      BY DEF Inv, Typed, TypeOK, Removes, Consistent
    <3>2. QED
      BY <2>1, <2>2, <3>1 DEF TargetSeen, Instances
  <2>4. QED
    BY <1>1, <2>1, <2>2, <2>3 DEF Inv, Consistent, OwnedBy, MetaOwned, InstallOwned,
       RemoveOwned, EdgeOwned, Instances
<1>f. ASSUME NEW f \in Foreign, ForeignJoins(f) PROVE Consistent' /\ OwnedBy(o)'
  <2>1. UNCHANGED <<mem, disk, install, remove>> /\ edge[f].status = "none"
    BY <1>f DEF ForeignJoins
  <2>2. PICK name \in Names : edge' = [edge EXCEPT ![f] =
          [status |-> "offline", host |-> Elsewhere, name |-> name]]
    BY <1>f DEF ForeignJoins
  <2>3. edge'[f].status = "offline" /\ \A d \in Instances : d # f => edge'[d] = edge[d]
    BY <2>2 DEF Inv, Typed, TypeOK, Instances
  <2>4. f \notin Codes
    OBVIOUS
  <2>5. ASSUME NEW q \in Removers PROVE TargetSeen(q)'
    <3>1. /\ remove[q].target \in Instances \cup {None} /\ TargetSeen(q)
          /\ remove[q].meta.code \in Codes \cup {None}
      BY DEF Inv, Typed, TypeOK, Removes, Metas, Consistent
    <3>2. remove[q].target # f
      BY <2>1, <2>4, <3>1 DEF TargetSeen
    <3>3. QED
      BY <2>1, <2>3, <3>1, <3>2 DEF TargetSeen, Instances
  <2>6. QED
    BY <1>1, <2>1, <2>3, <2>4, <2>5 DEF Inv, Consistent, OwnedBy, MetaOwned,
       InstallOwned, RemoveOwned, EdgeOwned, Instances
<1>5. ASSUME Restart PROVE Consistent' /\ OwnedBy(o)'
  <2>1. /\ disk' = disk /\ edge' = edge
        /\ mem' = disk \/ mem' = [n \in Names |-> NoMeta]
        /\ \A i \in Installers : install'[i].code = None
        /\ \A q \in Removers : remove'[q].target = None /\ remove'[q].meta = NoMeta
    BY <1>5 DEF Restart, InstallIdle, RemoveIdle
  <2>2. NoMeta.code = None /\ NoMeta.id = None
    BY DEF NoMeta
  <2>3. \A n \in Names : /\ Proper(mem'[n]) /\ Proper(disk'[n])
                         /\ Keeps(mem'[n], n, o) /\ Keeps(disk'[n], n, o)
    BY <1>1, <2>1, <2>2 DEF Inv, Consistent, Proper, Keeps, OwnedBy, MetaOwned
  <2>4. \A q \in Removers : TargetSeen(q)' /\ Proper(remove'[q].meta)
    BY <2>1, <2>2 DEF TargetSeen, Proper
  <2>5. Consistent'
    BY <2>1, <2>3, <2>4 DEF Inv, Consistent
  <2>6. QED
    BY <1>1, <2>1, <2>2, <2>3, <2>5 DEF Keeps, OwnedBy, MetaOwned, InstallOwned,
       RemoveOwned, EdgeOwned
<1>s. ASSUME Setup PROVE Consistent' /\ OwnedBy(o)'
  <2>1. /\ UNCHANGED <<edge, install, remove>>
        /\ \A n \in Names : mem'[n] = NoMeta /\ disk'[n] = NoMeta
    BY <1>s DEF Setup
  <2>2. NoMeta.code = None /\ NoMeta.id = None
    BY DEF NoMeta
  <2>3. QED
    BY <1>1, <2>1, <2>2 DEF Inv, Consistent, TargetSeen, Proper, Keeps, OwnedBy, MetaOwned,
       InstallOwned, RemoveOwned, EdgeOwned
<1>6. ASSUME UNCHANGED vars PROVE Consistent' /\ OwnedBy(o)'
  BY <1>1, <1>6 DEF vars, Inv, Consistent, TargetSeen, OwnedBy, MetaOwned, InstallOwned,
     RemoveOwned, EdgeOwned
<1>7. Consistent' /\ \E p \in Owners : OwnedBy(p)'
  BY <1>1, <1>3, <1>4, <1>f, <1>5, <1>s, <1>6, InstallStepOwned, RemoveStepOwned DEF Next, Inv
<1>8. QED
  BY <1>2, <1>7 DEF Inv

(* Before the first request nobody holds a pairing code.                   *)
LEMMA InvInit == Init => Inv
<1> SUFFICES ASSUME Init PROVE Inv
  OBVIOUS
<1> USE LifecycleAssumption DEF Init, NoEdge, NoMeta, InstallIdle, RemoveIdle
<1>1. [c \in Codes |-> Gone] \in Owners
  BY DEF Owners
<1>2. OwnedBy([c \in Codes |-> Gone])
  BY DEF OwnedBy, MetaOwned, InstallOwned, RemoveOwned, EdgeOwned, Keeps, Instances
<1>3. Consistent
  BY DEF Consistent, Proper, TargetSeen
<1>4. QED
  BY <1>1, <1>2, <1>3, TypedInit DEF Inv

(* Only DeleteEdge takes a removal past its call to the tenant, and the     *)
(* instance was registered then.                                           *)
LEMMA DeletesRegistered ==
  ASSUME Typed, [Next]_vars, NEW r \in Removers,
         remove[r].pc = "edge", remove'[r].pc = "lxd"
  PROVE  remove[r].target \in Registered
<1> USE DEF Typed, TypeOK
<1>1. remove' # remove
  OBVIOUS
<1>2. ASSUME NEW q \in Removers, RemoveStep(q) PROVE remove[r].target \in Registered
  <2>1. CASE q # r
    <3>1. remove'[r] = remove[r]
      BY <1>2, <2>1 DEF RemoveStep, Uninstall, ReadMeta, FindEdge, DeleteEdge,
         DeleteContainer, Forget, RemoveFails, RemoveGo
    <3>2. QED
      BY <3>1
  <2>2. CASE q = r
    <3>1. DeleteEdge(r) \/ RemoveFails(r)
      BY <1>2, <2>2 DEF RemoveStep, Uninstall, ReadMeta, FindEdge, DeleteContainer, Forget
    <3>2. ~RemoveFails(r)
      BY DEF RemoveFails, RemoveIdle
    <3>3. QED
      BY <3>1, <3>2 DEF DeleteEdge
  <2>3. QED
    BY <2>1, <2>2
<1>3. ~Restart
  BY DEF Restart, RemoveIdle
<1>4. ASSUME \/ \E n \in Names : Launch(n)
             \/ \E i \in Installers : InstallStep(i)
             \/ \E c \in Codes : EdgeUp(c) \/ EdgeDown(c)
             \/ \E f \in Foreign : ForeignJoins(f)
             \/ Setup \/ UNCHANGED vars
      PROVE  remove' = remove
  BY <1>4 DEF Launch, EdgeUp, EdgeDown, ForeignJoins, Setup, vars, InstallStep, InstallBegin,
     PurgeList, PurgeDelete, Pair, RunInstaller, PollActive, Rename, SaveResult, InstallFails
<1>5. QED
  BY <1>1, <1>2, <1>3, <1>4 DEF Next

(* A removal never deletes the edge instance of another container of ours, *)
(* however requests overlap, names are reused, saves fail and crashes      *)
(* leave old metadata behind; and no foreign one but by the removed name.  *)
THEOREM RemovalIsLocal == Spec => RemovalSparesOthers
<1>1. ASSUME Inv, [Next]_vars, NEW r \in Removers, NEW c \in Instances,
             remove[r].pc = "edge", remove'[r].pc = "lxd", remove[r].target = c
      PROVE  \/ edge[c].host \in {remove[r].name, Gone}
             \/ c \in Foreign /\ edge[c].name = remove[r].name
  <2>1. CASE c \in Codes
    BY <1>1, <2>1, LifecycleAssumption DEF Inv, OwnedBy, RemoveOwned, EdgeOwned
  <2>2. CASE c \in Foreign
    <3>1. edge[c].status # "deleted"
      BY <1>1, DeletesRegistered DEF Inv, Registered
    <3>2. TargetSeen(r)
      BY <1>1 DEF Inv, Consistent
    <3>3. QED
      BY <1>1, <2>2, <3>1, <3>2 DEF TargetSeen
  <2>3. QED
    BY <2>1, <2>2 DEF Instances
<1>2. Inv /\ [Next]_vars =>
        [\A r \in Removers, c \in Instances :
           remove[r].pc = "edge" /\ remove'[r].pc = "lxd" /\ remove[r].target = c
           => \/ edge[c].host \in {remove[r].name, Gone}
              \/ c \in Foreign /\ edge[c].name = remove[r].name]_vars
  BY <1>1
<1>3. QED
  BY <1>2, InvInit, InvStep, PTL DEF Spec, RemovalSparesOthers

-----------------------------------------------------------------------------
(* A container that meets no incident has one request at a time, so what a *)
(* request has seen of its container still holds.                          *)

Installing(i, n) == install[i].pc # "idle" /\ install[i].name = n
Removing(r, n) == remove[r].pc # "idle" /\ remove[r].name = n

Known(m) == m.known = TRUE
Remembers(m, c) == Known(m) /\ m.code = c
Told(x) == x.tenant = TRUE

Alone(n) ==
  /\ \A i, j \in Installers : Installing(i, n) /\ Installing(j, n) => i = j
  /\ \A r, q \in Removers : Removing(r, n) /\ Removing(q, n) => r = q
  /\ \A i \in Installers, r \in Removers : ~(Installing(i, n) /\ Removing(r, n))

(* Until its agent pairs an install's container has no instance; from when *)
(* the code is created the file has it.                                    *)
InstallSees(i, n) ==
  /\ Told(install[i])
  /\ install[i].pc \in {"list", "purge", "exec"} => Hosted(n) = {}
  /\ install[i].pc \in {"exec", "poll", "rename", "save"} =>
       Remembers(disk[n], install[i].code)

(* What a removal found is its container's, and there is no other.         *)
RemoveSees(r, n) ==
  /\ remove[r].pc = "find" => remove[r].meta = disk[n]
  /\ remove[r].pc = "edge" => Hosted(n) \subseteq {remove[r].target}
  /\ remove[r].pc \in {"lxd", "meta"} => Hosted(n) = {}

(* Every instance of the container is the one its metadata has the code of.*)
Sound(n) ==
  /\ configured = TRUE => mem[n] = disk[n]
  /\ \A c \in Hosted(n) : Remembers(disk[n], c)
  /\ Alone(n)
  /\ \A i \in Installers : Installing(i, n) => InstallSees(i, n)
  /\ \A r \in Removers : Removing(r, n) => RemoveSees(r, n)

(* Whatever happened: nothing runs before the app is set up, and a         *)
(* container that does not exist has no instance.                          *)
Ground ==
  /\ configured # TRUE => /\ \A i \in Installers : install[i].pc = "idle"
                          /\ \A r \in Removers : remove[r].pc = "idle"
  /\ \A n \in Names : agent[n] = "absent" => Hosted(n) = {}

Tidy == Ground /\ \A n \in Names \ spoiled : Sound(n)

(* A container that a step does not concern stays sound.                   *)
LEMMA OtherSound ==
  ASSUME NEW k \in Names, Sound(k),
         disk'[k] = disk[k], configured' = TRUE => mem'[k] = disk'[k],
         Hosted(k)' \subseteq Hosted(k),
         \A i \in Installers : Installing(i, k)' => Installing(i, k) /\ install'[i] = install[i],
         \A r \in Removers : Removing(r, k)' => Removing(r, k) /\ remove'[r] = remove[r]
  PROVE  Sound(k)'
<1>1. \A c \in Hosted(k)' : Remembers(disk'[k], c)
  BY DEF Sound
<1>2. Alone(k)'
  BY DEF Sound, Alone
<1>3. ASSUME NEW i \in Installers, Installing(i, k)' PROVE InstallSees(i, k)'
  <2>1. InstallSees(i, k) /\ install'[i] = install[i]
    BY <1>3 DEF Sound
  <2>2. QED
    BY <2>1 DEF InstallSees
<1>4. ASSUME NEW r \in Removers, Removing(r, k)' PROVE RemoveSees(r, k)'
  <2>1. RemoveSees(r, k) /\ remove'[r] = remove[r]
    BY <1>4 DEF Sound
  <2>2. QED
    BY <2>1 DEF RemoveSees
<1>5. QED
  BY <1>1, <1>2, <1>3, <1>4 DEF Sound

(* A container of which one installer is the only handler.                 *)
LEMMA InstallSound ==
  ASSUME NEW i \in Installers, NEW n \in Names,
         configured' = TRUE => mem'[n] = disk'[n],
         \A c \in Hosted(n)' : Remembers(disk'[n], c),
         \A j \in Installers : Installing(j, n)' => j = i,
         \A r \in Removers : ~Removing(r, n)',
         Installing(i, n)' => InstallSees(i, n)'
  PROVE  Sound(n)'
BY DEF Sound, Alone

(* A container of which one remover is the only handler.                   *)
LEMMA RemoveSound ==
  ASSUME NEW r \in Removers, NEW n \in Names,
         configured' = TRUE => mem'[n] = disk'[n],
         \A c \in Hosted(n)' : Remembers(disk'[n], c),
         \A q \in Removers : Removing(q, n)' => q = r,
         \A i \in Installers : ~Installing(i, n)',
         Removing(r, n)' => RemoveSees(r, n)'
  PROVE  Sound(n)'
BY DEF Sound, Alone

(* What a save does: it concerns the container's metadata alone, and when  *)
(* it comes without an incident the file has what memory has.              *)
LEMMA SavedClean ==
  ASSUME Typed, NEW n \in Names, NEW tenant \in BOOLEAN, NEW code, NEW id,
         NEW kinds, SaveMeta(n, tenant, code, id, kinds)
  PROVE  /\ spoiled \subseteq spoiled' /\ spoiled' \subseteq spoiled \cup {n}
         /\ \A k \in Names : k # n => mem'[k] = mem[k] /\ disk'[k] \in {disk[k], mem'[k]}
         /\ n \notin spoiled' => kinds = {}
         /\ n \notin spoiled' /\ tenant = TRUE =>
              disk' = mem' /\ mem'[n] = Meta(code, id)
<1>1. PICK met : Meets(n, met) /\ kinds \subseteq met
  BY DEF SaveMeta, Save
<1>2. /\ spoiled \subseteq spoiled' /\ spoiled' \subseteq spoiled \cup {n}
      /\ n \notin spoiled' => kinds = {}
  BY <1>1 DEF Meets
<1>3. \A k \in Names : k # n => mem'[k] = mem[k] /\ disk'[k] \in {disk[k], mem'[k]}
  BY Saved DEF Typed
<1>4. ASSUME n \notin spoiled', tenant = TRUE
      PROVE  disk' = mem' /\ mem'[n] = Meta(code, id)
  <2>1. mem' = [mem EXCEPT ![n] = Meta(code, id)] /\ Save(n, kinds)
    BY <1>4 DEF SaveMeta
  <2>2. ~Meets(n, kinds \cup {"unsaved"})
    BY <1>4 DEF Meets
  <2>3. QED
    BY <2>1, <2>2 DEF Save, Typed, TypeOK
<1>5. QED
  BY <1>2, <1>3, <1>4

(* Metadata with a pairing code remembers it.                              *)
LEMMA MetaRemembers == ASSUME NEW c, NEW id PROVE Remembers(Meta(c, id), c)
BY DEF Remembers, Known, Meta

(* A step of an install leaves the other containers sound.                 *)
LEMMA InstallElse ==
  ASSUME Tidy, NEW i \in Installers, NEW n, NEW k \in Names \ spoiled, k # n,
         configured = TRUE, UNCHANGED <<configured, remove>>,
         \A j \in Installers : j # i => install'[j] = install[j],
         install'[i].pc = "idle" \/ install'[i].name = n,
         mem'[k] = mem[k], disk'[k] \in {disk[k], mem'[k]}, Hosted(k)' \subseteq Hosted(k)
  PROVE  Sound(k)'
<1>1. Sound(k)
  BY DEF Tidy
<1>2. disk'[k] = disk[k] /\ mem'[k] = disk'[k]
  BY <1>1 DEF Sound
<1>3. \A j \in Installers : Installing(j, k)' => Installing(j, k) /\ install'[j] = install[j]
  BY DEF Installing
<1>4. \A r \in Removers : Removing(r, k)' => Removing(r, k) /\ remove'[r] = remove[r]
  BY DEF Removing
<1>5. QED
  BY <1>1, <1>2, <1>3, <1>4, OtherSound

(* So does a step of a removal.                                            *)
LEMMA RemoveElse ==
  ASSUME Tidy, NEW r \in Removers, NEW n, NEW k \in Names \ spoiled, k # n,
         configured = TRUE, UNCHANGED <<configured, install>>,
         \A q \in Removers : q # r => remove'[q] = remove[q],
         remove'[r] = remove[r] \/ remove'[r].pc = "idle" \/ remove'[r].name = n,
         mem'[k] = mem[k], disk'[k] \in {disk[k], mem'[k]}, Hosted(k)' \subseteq Hosted(k)
  PROVE  Sound(k)'
<1>1. Sound(k)
  BY DEF Tidy
<1>2. disk'[k] = disk[k] /\ mem'[k] = disk'[k]
  BY <1>1 DEF Sound
<1>3. \A j \in Installers : Installing(j, k)' => Installing(j, k) /\ install'[j] = install[j]
  BY DEF Installing
<1>4. \A q \in Removers : Removing(q, k)' => Removing(q, k) /\ remove'[q] = remove[q]
  BY DEF Removing
<1>5. QED
  BY <1>1, <1>2, <1>3, <1>4, OtherSound

(* What is known while an install works on a container that met nothing.   *)
LEMMA InstallKnows ==
  ASSUME Typed, Tidy, NEW i \in Installers, install[i].pc # "idle",
         NEW n, n = install[i].name
  PROVE  /\ n \in Names /\ configured = TRUE
         /\ n \notin spoiled =>
              /\ Sound(n) /\ InstallSees(i, n) /\ mem[n] = disk[n]
              /\ \A j \in Installers : j # i => ~Installing(j, n)
              /\ \A r \in Removers : ~Removing(r, n)
<1>1. n \in Names /\ configured = TRUE
  BY DEF Typed, Underway, Tidy, Ground
<1>2. Installing(i, n)
  BY DEF Installing
<1>3. QED
  BY <1>1, <1>2 DEF Tidy, Sound, Alone

(* A step of an install that saves nothing and registers nothing.          *)
LEMMA QuietInstall ==
  ASSUME Typed, Tidy, NEW i \in Installers, install[i].pc # "idle",
         UNCHANGED <<agent, mem, disk, configured, remove, spoiled>>,
         \A m \in Names : Hosted(m)' \subseteq Hosted(m),
         \A j \in Installers : j # i => install'[j] = install[j],
         \/ install'[i].pc = "idle"
         \/ /\ install'[i].name = install[i].name /\ install'[i].tenant = install[i].tenant
            /\ install'[i].code = install[i].code
            /\ install'[i].pc \in {"list", "purge", "exec"}
                 => install[i].pc \in {"list", "purge", "exec"}
            /\ install'[i].pc \in {"exec", "poll", "rename", "save"}
                 => install[i].pc \in {"exec", "poll", "rename", "save"}
  PROVE  Tidy'
<1>1. PICK n : n = install[i].name
  OBVIOUS
<1>2. /\ n \in Names /\ configured = TRUE
      /\ n \notin spoiled =>
           /\ Sound(n) /\ InstallSees(i, n) /\ mem[n] = disk[n]
           /\ \A j \in Installers : j # i => ~Installing(j, n)
           /\ \A r \in Removers : ~Removing(r, n)
  BY <1>1, InstallKnows
<1>3. ASSUME NEW k \in Names \ spoiled, k # n PROVE Sound(k)'
  BY <1>1, <1>2, <1>3, InstallElse
<1>4. ASSUME n \notin spoiled PROVE Sound(n)'
  <2>1. InstallSees(i, n) /\ Sound(n)
    BY <1>2, <1>4
  <2>2. Installing(i, n)' => InstallSees(i, n)'
    BY <1>1, <1>2, <2>1 DEF Installing, InstallSees, Told
  <2>3. \A j \in Installers : Installing(j, n)' => j = i
    BY <1>2, <1>4 DEF Installing
  <2>4. \A r \in Removers : ~Removing(r, n)'
    BY <1>2, <1>4 DEF Removing
  <2>5. \A c \in Hosted(n)' : Remembers(disk'[n], c)
    BY <1>2, <2>1 DEF Sound
  <2>6. QED
    BY <1>2, <1>4, <2>2, <2>3, <2>4, <2>5, InstallSound
<1>5. Ground'
  BY <1>2 DEF Tidy, Ground
<1>6. QED
  BY <1>3, <1>4, <1>5 DEF Tidy

(* An install begins.                                                      *)
LEMMA BeginTidy ==
  ASSUME Typed, Tidy, NEW i \in Installers, NEW n \in Names, InstallBegin(i, n)
  PROVE  Tidy'
<1>1. PICK tenant \in BOOLEAN, kinds \in SUBSET AllIncidents : Begins(i, n, tenant, kinds)
  BY BegunStep
<1>2. UNCHANGED <<agent, edge, configured, remove>> /\ configured = TRUE
  BY DEF InstallBegin, Typed, TypeOK
<1>3. SaveMeta(n, tenant, None, None, kinds)
  BY <1>1 DEF Begins
<1>4. /\ spoiled \subseteq spoiled' /\ spoiled' \subseteq spoiled \cup {n}
      /\ \A k \in Names : k # n => mem'[k] = mem[k] /\ disk'[k] \in {disk[k], mem'[k]}
      /\ n \notin spoiled' => kinds = {}
      /\ n \notin spoiled' /\ tenant = TRUE =>
           disk' = mem' /\ mem'[n] = Meta(None, None)
  BY <1>3, SavedClean
<1>5. /\ install'[i].pc = "list" /\ install'[i].name = n /\ install'[i].tenant = tenant
      /\ \A j \in Installers : j # i => install'[j] = install[j]
  BY <1>1 DEF Begins, InstallIdle, Typed, TypeOK
<1>6. \A m \in Names : Hosted(m)' = Hosted(m)
  BY <1>2 DEF Hosted, Registered
<1>7. ASSUME NEW k \in Names \ spoiled', k # n PROVE Sound(k)'
  BY <1>2, <1>4, <1>5, <1>6, <1>7, InstallElse
<1>8. ASSUME n \notin spoiled' PROVE Sound(n)'
  <2>1. ~Busy(n) /\ Hosted(n) = {} /\ tenant = TRUE
    BY <1>1, <1>4, <1>8 DEF Begins
  <2>2. disk' = mem'
    BY <1>4, <1>8, <2>1
  <2>3. /\ \A j \in Installers : Installing(j, n)' => j = i
        /\ \A r \in Removers : ~Removing(r, n)'
    BY <1>2, <1>5, <2>1 DEF Busy, Installing, Removing
  <2>4. Hosted(n)' = {}
    BY <1>6, <2>1
  <2>5. InstallSees(i, n)'
    BY <1>5, <2>1, <2>4 DEF InstallSees, Told
  <2>6. QED
    BY <2>2, <2>3, <2>4, <2>5, InstallSound
<1>9. Ground'
  BY <1>2, <1>6 DEF Tidy, Ground
<1>10. QED
  BY <1>7, <1>8, <1>9 DEF Tidy

(* Whether an install knows the tenant's details.                          *)
TenantOf(x, t) == x.tenant = t

(* A save in the course of an install, of the code it has or gets.         *)
LEMMA SavingTidy ==
  ASSUME Typed, Tidy, NEW i \in Installers, NEW n \in Names, Installing(i, n), NEW c, NEW id,
         NEW tenant \in BOOLEAN, TenantOf(install[i], tenant),
         SaveMeta(n, tenant, c, id, {}),
         UNCHANGED <<agent, edge, configured, remove>>,
         \A j \in Installers : j # i => install'[j] = install[j],
         \/ install'[i].pc = "idle"
         \/ /\ install'[i].pc = "exec" /\ install'[i].name = n /\ install'[i].code = c
            /\ TenantOf(install'[i], tenant),
         \/ install[i].pc \in {"list", "purge", "exec"}
         \/ install[i].pc = "save" /\ c = install[i].code /\ install'[i].pc = "idle"
  PROVE  Tidy'
<1>1. /\ configured = TRUE
      /\ n \notin spoiled =>
           /\ Sound(n) /\ InstallSees(i, n) /\ mem[n] = disk[n]
           /\ \A j \in Installers : j # i => ~Installing(j, n)
           /\ \A r \in Removers : ~Removing(r, n)
  BY InstallKnows DEF Installing
<1>2. PICK kinds : kinds = {}
  OBVIOUS
<1>3. /\ spoiled \subseteq spoiled' /\ spoiled' \subseteq spoiled \cup {n}
      /\ \A k \in Names : k # n => mem'[k] = mem[k] /\ disk'[k] \in {disk[k], mem'[k]}
      /\ n \notin spoiled' => kinds = {}
      /\ n \notin spoiled' /\ tenant = TRUE =>
           disk' = mem' /\ mem'[n] = Meta(c, id)
  <2>1. SaveMeta(n, tenant, c, id, kinds)
    BY <1>2
  <2>2. QED
    BY <2>1, SavedClean
<1>4. \A m \in Names : Hosted(m)' = Hosted(m)
  BY DEF Hosted, Registered
<1>5. ASSUME NEW k \in Names \ spoiled', k # n PROVE Sound(k)'
  <2>1. k \in Names \ spoiled /\ mem'[k] = mem[k] /\ disk'[k] \in {disk[k], mem'[k]}
    BY <1>3, <1>5
  <2>2. install'[i].pc = "idle" \/ install'[i].name = n
    OBVIOUS
  <2>3. QED
    BY <1>1, <1>4, <1>5, <2>1, <2>2, InstallElse
<1>6. ASSUME n \notin spoiled' PROVE Sound(n)'
  <2>1. /\ InstallSees(i, n) /\ Sound(n)
        /\ \A j \in Installers : j # i => ~Installing(j, n)
        /\ \A r \in Removers : ~Removing(r, n)
    BY <1>1, <1>3, <1>6
  <2>2. tenant = TRUE
    BY <2>1 DEF InstallSees, Told, TenantOf
  <2>3. disk' = mem' /\ Remembers(disk'[n], c)
    BY <1>3, <1>6, <2>2, MetaRemembers
  <2>4. \A d \in Hosted(n)' : Remembers(disk'[n], d)
    <3>1. CASE install[i].pc \in {"list", "purge", "exec"}
      <4>1. Hosted(n) = {}
        BY <2>1, <3>1 DEF InstallSees
      <4>2. QED
        BY <1>4, <4>1
    <3>2. CASE install[i].pc = "save" /\ c = install[i].code
      <4>1. /\ Remembers(disk[n], c)
            /\ \A d \in Hosted(n) : Remembers(disk[n], d)
        BY <2>1, <3>2 DEF InstallSees, Sound
      <4>2. \A d \in Hosted(n) : d = c
        BY <4>1 DEF Remembers
      <4>3. QED
        BY <1>4, <2>3, <4>2
    <3>3. QED
      BY <3>1, <3>2
  <2>5. /\ \A j \in Installers : Installing(j, n)' => j = i
        /\ \A r \in Removers : ~Removing(r, n)'
    BY <2>1 DEF Installing, Removing
  <2>6. Installing(i, n)' => InstallSees(i, n)'
    <3>1. CASE install'[i].pc = "idle"
      BY <3>1 DEF Installing
    <3>2. CASE /\ install'[i].pc = "exec" /\ install'[i].name = n
               /\ install'[i].code = c /\ TenantOf(install'[i], tenant)
      <4>1. Hosted(n)' = {}
        BY <1>4, <2>1, <3>2 DEF InstallSees
      <4>2. QED
        BY <2>2, <2>3, <3>2, <4>1 DEF InstallSees, Told, TenantOf
    <3>3. QED
      BY <3>1, <3>2
  <2>7. QED
    BY <1>1, <2>3, <2>4, <2>5, <2>6, InstallSound
<1>7. Ground'
  BY <1>1, <1>4 DEF Tidy, Ground
<1>8. QED
  BY <1>3, <1>5, <1>6, <1>7 DEF Tidy

(* The agent pairs: its instance is the container's only one.              *)
LEMMA RunTidy ==
  ASSUME Typed, Tidy, NEW i \in Installers, RunInstaller(i)
  PROVE  Tidy'
<1>n. PICK n, c : n = install[i].name /\ c = install[i].code
  OBVIOUS
<1>1. /\ install[i].pc = "exec" /\ c \in Codes
      /\ edge' = [edge EXCEPT ![c] = [status |-> "offline", host |-> n, name |-> Gone]]
      /\ agent' = [agent EXCEPT ![n] = c]
      /\ InstallGo(i, "poll") \/ install' = [install EXCEPT ![i] = InstallIdle]
      /\ UNCHANGED <<mem, disk, configured, remove, spoiled>>
  BY <1>n DEF RunInstaller, Typed, Underway
<1>2. /\ n \in Names /\ configured = TRUE
      /\ n \notin spoiled =>
           /\ Sound(n) /\ InstallSees(i, n) /\ mem[n] = disk[n]
           /\ \A j \in Installers : j # i => ~Installing(j, n)
           /\ \A r \in Removers : ~Removing(r, n)
  BY <1>n, <1>1, InstallKnows
<1>3. /\ \A j \in Installers : j # i => install'[j] = install[j]
      /\ \/ install'[i].pc = "idle"
         \/ /\ install'[i].pc = "poll" /\ install'[i].name = n /\ install'[i].code = c
            /\ install'[i].tenant = install[i].tenant
  BY <1>n, <1>1 DEF InstallGo, InstallIdle, Typed, TypeOK, Installs
<1>4. /\ \A m \in Names : m # n => Hosted(m)' \subseteq Hosted(m)
      /\ Hosted(n)' \subseteq Hosted(n) \cup {c}
  <2>1. /\ edge'[c] = [status |-> "offline", host |-> n, name |-> Gone]
        /\ \A d \in Instances : d # c => edge'[d] = edge[d]
    BY <1>1 DEF Typed, TypeOK, Instances
  <2>2. edge'[c].host = n
    BY <2>1
  <2>3. QED
    BY <2>1, <2>2 DEF Hosted, Registered
<1>5. ASSUME NEW k \in Names \ spoiled, k # n PROVE Sound(k)'
  BY <1>1, <1>2, <1>3, <1>4, <1>5, InstallElse
<1>6. ASSUME n \notin spoiled PROVE Sound(n)'
  <2>1. InstallSees(i, n) /\ Hosted(n) = {} /\ Remembers(disk[n], c)
    BY <1>n, <1>1, <1>2, <1>6 DEF InstallSees
  <2>2. \A d \in Hosted(n)' : Remembers(disk'[n], d)
    BY <1>1, <1>4, <2>1
  <2>3. /\ \A j \in Installers : Installing(j, n)' => j = i
        /\ \A r \in Removers : ~Removing(r, n)'
    BY <1>1, <1>2, <1>3, <1>6 DEF Installing, Removing
  <2>4. Installing(i, n)' => InstallSees(i, n)'
    BY <1>1, <1>3, <2>1 DEF Installing, InstallSees, Told
  <2>5. QED
    BY <1>1, <1>2, <1>6, <2>2, <2>3, <2>4, InstallSound
<1>7. Ground'
  <2>1. c # "absent"
    BY <1>1, LifecycleAssumption
  <2>2. /\ agent'[n] # "absent" /\ \A m \in Names : m # n => agent'[m] = agent[m]
    BY <1>1, <1>2, <2>1 DEF Typed, TypeOK
  <2>3. QED
    BY <1>1, <1>2, <1>4, <2>2 DEF Tidy, Ground
<1>8. QED
  BY <1>1, <1>5, <1>6, <1>7 DEF Tidy

(* Every step of an install keeps Tidy.                                    *)
LEMMA InstallStepTidy ==
  ASSUME Typed, Tidy, NEW i \in Installers, InstallStep(i)
  PROVE  Tidy'
<1>1. CASE PurgeList(i)
  <2>1. PICK stale : install' = [install EXCEPT ![i] =
                       [install[i] EXCEPT !.pc = "purge", !.stale = stale]]
    BY <1>1, PurgeListed
  <2>2. /\ \A j \in Installers : j # i => install'[j] = install[j]
        /\ install'[i].name = install[i].name /\ install'[i].tenant = install[i].tenant
        /\ install'[i].code = install[i].code /\ install'[i].pc = "purge"
    BY <2>1 DEF Typed, TypeOK, Installs
  <2>3. /\ install[i].pc = "list" /\ UNCHANGED <<agent, mem, disk, configured, remove, spoiled>>
        /\ \A m \in Names : Hosted(m)' = Hosted(m)
    BY <1>1 DEF PurgeList, Hosted, Registered
  <2>4. QED
    BY <2>2, <2>3, QuietInstall
<1>2. CASE PurgeDelete(i)
  <2>1. PICK c \in Instances :
          /\ edge' = [edge EXCEPT ![c] = Deleted]
          /\ install' = [install EXCEPT ![i].stale = @ \ {c}]
    BY <1>2 DEF PurgeDelete, Registered
  <2>2. /\ \A j \in Installers : j # i => install'[j] = install[j]
        /\ install'[i].name = install[i].name /\ install'[i].tenant = install[i].tenant
        /\ install'[i].code = install[i].code /\ install'[i].pc = install[i].pc
    BY <2>1 DEF Typed, TypeOK, Installs
  <2>3. /\ install[i].pc = "purge" /\ UNCHANGED <<agent, mem, disk, configured, remove, spoiled>>
    BY <1>2 DEF PurgeDelete
  <2>4. \A m \in Names : Hosted(m)' \subseteq Hosted(m)
    BY <2>1 DEF Hosted, Registered, Deleted, NoEdge, Typed, TypeOK
  <2>5. QED
    BY <2>2, <2>3, <2>4, QuietInstall
<1>3. CASE Pair(i)
  <2>1. PICK c \in NewCodes :
          /\ install' = [install EXCEPT ![i] = [@ EXCEPT !.pc = "exec", !.code = c]]
          /\ SaveMeta(install[i].name, install[i].tenant, c, None, {})
    BY <1>3 DEF Pair
  <2>2. install' = [install EXCEPT ![i] = [install[i] EXCEPT !.pc = "exec", !.code = c]]
    BY <2>1
  <2>3. /\ \A j \in Installers : j # i => install'[j] = install[j]
        /\ install'[i].pc = "exec" /\ install'[i].name = install[i].name
        /\ install'[i].code = c /\ install'[i].tenant = install[i].tenant
    BY <2>2 DEF Typed, TypeOK, Installs
  <2>4. install[i].pc = "purge" /\ UNCHANGED <<agent, edge, configured, remove>>
    BY <1>3 DEF Pair
  <2>5. PICK n, tenant : n = install[i].name /\ tenant = install[i].tenant
    OBVIOUS
  <2>6. n \in Names /\ tenant \in BOOLEAN
    BY <2>4, <2>5, InstallKnows DEF Typed, TypeOK, Installs
  <2>7. SaveMeta(n, tenant, c, None, {})
    BY <2>1, <2>5
  <2>8. QED
    BY <2>3, <2>4, <2>5, <2>6, <2>7, SavingTidy DEF TenantOf, Installing
<1>4. CASE PollActive(i)
  <2>1. /\ \A j \in Installers : j # i => install'[j] = install[j]
        /\ install'[i].name = install[i].name /\ install'[i].tenant = install[i].tenant
        /\ install'[i].code = install[i].code /\ install'[i].pc = "rename"
        /\ install[i].pc = "poll"
    BY <1>4 DEF PollActive, InstallGo, Typed, TypeOK, Installs
  <2>2. /\ UNCHANGED <<agent, mem, disk, configured, remove, spoiled>>
        /\ \A m \in Names : Hosted(m)' = Hosted(m)
    BY <1>4 DEF PollActive, Hosted, Registered
  <2>3. QED
    BY <2>1, <2>2, QuietInstall
<1>5. CASE Rename(i)
  <2>1. /\ \A j \in Installers : j # i => install'[j] = install[j]
        /\ \/ install'[i].pc = "idle"
           \/ /\ install'[i].name = install[i].name /\ install'[i].tenant = install[i].tenant
              /\ install'[i].code = install[i].code /\ install'[i].pc = "save"
    <3>1. CASE InstallGo(i, "save")
      BY <3>1 DEF InstallGo, Typed, TypeOK, Installs
    <3>2. CASE install' = [install EXCEPT ![i] = InstallIdle]
      BY <3>2 DEF InstallIdle, Typed, TypeOK
    <3>3. QED
      BY <1>5, <3>1, <3>2 DEF Rename
  <2>2. install[i].pc = "rename" /\ UNCHANGED <<agent, mem, disk, configured, remove, spoiled>>
    BY <1>5 DEF Rename
  <2>3. \A m \in Names : Hosted(m)' = Hosted(m)
    BY <1>5 DEF Rename, Hosted, Registered, Typed, TypeOK, Edges
  <2>4. QED
    BY <2>1, <2>2, <2>3, QuietInstall
<1>6. CASE SaveResult(i)
  <2>1. /\ install[i].pc = "save" /\ UNCHANGED <<agent, edge, configured, remove>>
        /\ SaveMeta(install[i].name, install[i].tenant, install[i].code, install[i].code, {})
        /\ install' = [install EXCEPT ![i] = InstallIdle]
    BY <1>6 DEF SaveResult
  <2>2. install'[i].pc = "idle" /\ \A j \in Installers : j # i => install'[j] = install[j]
    BY <2>1 DEF InstallIdle, Typed, TypeOK
  <2>3. PICK n, tenant, c :
          n = install[i].name /\ tenant = install[i].tenant /\ c = install[i].code
    OBVIOUS
  <2>4. n \in Names /\ tenant \in BOOLEAN
    BY <2>1, <2>3, InstallKnows DEF Typed, TypeOK, Installs
  <2>5. SaveMeta(n, tenant, c, c, {})
    BY <2>1, <2>3
  <2>6. QED
    BY <2>1, <2>2, <2>3, <2>4, <2>5, SavingTidy DEF TenantOf, Installing
<1>7. CASE InstallFails(i)
  <2>1. install[i].pc # "idle" /\ UNCHANGED <<agent, edge, mem, disk, configured, remove, spoiled>>
    BY <1>7 DEF InstallFails
  <2>2. install'[i].pc = "idle" /\ \A j \in Installers : j # i => install'[j] = install[j]
    BY <1>7 DEF InstallFails, InstallIdle, Typed, TypeOK
  <2>3. \A m \in Names : Hosted(m)' = Hosted(m)
    BY <2>1 DEF Hosted, Registered
  <2>4. QED
    BY <2>1, <2>2, <2>3, QuietInstall
<1>8. QED
  BY <1>1, <1>2, <1>3, <1>4, <1>5, <1>6, <1>7, BeginTidy, RunTidy DEF InstallStep

(* What is known while a removal works on a container that met nothing.    *)
LEMMA RemoveKnows ==
  ASSUME Typed, Tidy, NEW r \in Removers, NEW n, Removing(r, n)
  PROVE  /\ n \in Names /\ configured = TRUE
         /\ n \notin spoiled =>
              /\ Sound(n) /\ RemoveSees(r, n) /\ mem[n] = disk[n]
              /\ \A q \in Removers : q # r => ~Removing(q, n)
              /\ \A i \in Installers : ~Installing(i, n)
<1>1. n \in Names /\ configured = TRUE
  BY DEF Typed, Underway, Tidy, Ground, Removing
<1>2. QED
  BY <1>1 DEF Tidy, Sound, Alone

(* A step of a removal that saves nothing, and after which it sees the     *)
(* container as it is.                                                     *)
LEMMA QuietRemove ==
  ASSUME Typed, Tidy, NEW r \in Removers, NEW n, Removing(r, n),
         UNCHANGED <<mem, disk, configured, install>>, spoiled \subseteq spoiled',
         \A m \in Names : Hosted(m)' \subseteq Hosted(m),
         \A m \in Names : agent'[m] = "absent" => agent[m] = "absent" \/ Hosted(m)' = {},
         \A q \in Removers : q # r => remove'[q] = remove[q],
         remove'[r].pc = "idle" \/ remove'[r].name = n,
         n \notin spoiled' /\ remove'[r].pc # "idle" => RemoveSees(r, n)'
  PROVE  Tidy'
<1>1. /\ n \in Names /\ configured = TRUE
      /\ n \notin spoiled =>
           /\ Sound(n) /\ RemoveSees(r, n) /\ mem[n] = disk[n]
           /\ \A q \in Removers : q # r => ~Removing(q, n)
           /\ \A i \in Installers : ~Installing(i, n)
  BY RemoveKnows
<1>2. ASSUME NEW k \in Names \ spoiled', k # n PROVE Sound(k)'
  BY <1>1, <1>2, RemoveElse
<1>3. ASSUME n \notin spoiled' PROVE Sound(n)'
  <2>1. n \notin spoiled /\ Sound(n)
    BY <1>1, <1>3
  <2>2. /\ \A q \in Removers : Removing(q, n)' => q = r
        /\ \A i \in Installers : ~Installing(i, n)'
    BY <1>1, <2>1 DEF Installing, Removing
  <2>3. \A c \in Hosted(n)' : Remembers(disk'[n], c)
    BY <1>1, <2>1 DEF Sound
  <2>4. Removing(r, n)' => RemoveSees(r, n)'
    BY <1>3 DEF Removing
  <2>5. QED
    BY <1>1, <2>1, <2>2, <2>3, <2>4, RemoveSound
<1>4. Ground'
  BY <1>1 DEF Tidy, Ground
<1>5. QED
  BY <1>2, <1>3, <1>4 DEF Tidy

(* The removal's next stage, or its end.                                   *)
LEMMA RemoveGoes ==
  ASSUME Typed, NEW r \in Removers, NEW pc, NEW n, RemoveGo(r, pc, n)
  PROVE  /\ \A q \in Removers : q # r => remove'[q] = remove[q]
         /\ remove'[r].pc = pc /\ remove'[r].name = n
<1>1. remove' = [remove EXCEPT ![r] = [RemoveIdle EXCEPT !.pc = pc, !.name = n]]
  BY DEF RemoveGo
<1>2. /\ [RemoveIdle EXCEPT !.pc = pc, !.name = n].pc = pc
      /\ [RemoveIdle EXCEPT !.pc = pc, !.name = n].name = n
  BY DEF RemoveIdle
<1>3. QED
  BY <1>1, <1>2, Zenon DEF Typed, TypeOK

LEMMA RemoveEnds ==
  ASSUME Typed, NEW r \in Removers, remove' = [remove EXCEPT ![r] = RemoveIdle]
  PROVE  remove'[r].pc = "idle" /\ \A q \in Removers : q # r => remove'[q] = remove[q]
BY DEF RemoveIdle, Typed, TypeOK

(* A removal begins.                                                       *)
LEMMA UninstallTidy ==
  ASSUME Typed, Tidy, NEW r \in Removers, NEW n \in Names, Uninstall(r, n)
  PROVE  Tidy'
<1>1. /\ UNCHANGED <<edge, mem, disk, configured, install>> /\ configured = TRUE
      /\ remove[r].pc = "idle"
      /\ RemoveGo(r, "read", n) \/ UNCHANGED remove
      /\ Meets(n, IF Busy(n) THEN {"overlap"} ELSE {})
      /\ agent[n] # "absent" /\ agent' = [agent EXCEPT ![n] = "bare"]
  BY DEF Uninstall, Typed, TypeOK
<1>2. /\ spoiled \subseteq spoiled' /\ spoiled' \subseteq spoiled \cup {n}
      /\ n \notin spoiled' => ~Busy(n)
  BY <1>1 DEF Meets
<1>3. /\ \A q \in Removers : q # r => remove'[q] = remove[q]
      /\ \/ remove'[r] = remove[r]
         \/ remove'[r].pc = "read" /\ remove'[r].name = n
  BY <1>1, Zenon DEF RemoveGo, RemoveIdle, Typed, TypeOK
<1>4. \A m \in Names : Hosted(m)' = Hosted(m)
  BY <1>1 DEF Hosted, Registered
<1>5. ASSUME NEW k \in Names \ spoiled', k # n PROVE Sound(k)'
  BY <1>1, <1>2, <1>3, <1>4, <1>5, RemoveElse
<1>6. ASSUME n \notin spoiled' PROVE Sound(n)'
  <2>1. ~Busy(n) /\ Sound(n)
    BY <1>2, <1>6 DEF Tidy
  <2>2. /\ \A q \in Removers : Removing(q, n)' => q = r
        /\ \A i \in Installers : ~Installing(i, n)'
    BY <1>1, <1>3, <2>1 DEF Busy, Installing, Removing
  <2>3. Removing(r, n)' => RemoveSees(r, n)'
    BY <1>1, <1>3 DEF Removing, RemoveSees
  <2>4. \A c \in Hosted(n)' : Remembers(disk'[n], c)
    BY <1>1, <1>4, <2>1 DEF Sound
  <2>5. QED
    BY <1>1, <2>1, <2>2, <2>3, <2>4, RemoveSound DEF Sound
<1>7. Ground'
  <2>1. \A m \in Names : agent'[m] = "absent" => agent[m] = "absent"
    BY <1>1 DEF Typed, TypeOK
  <2>2. QED
    BY <1>1, <1>4, <2>1 DEF Tidy, Ground
<1>8. QED
  BY <1>2, <1>5, <1>6, <1>7 DEF Tidy

(* What a removal finds with the metadata of a container that met nothing: *)
(* the container's instance, if it has one.                                *)
LEMMA FindsAll ==
  ASSUME NEW n \in Names, NEW m, m.id \in {None, m.code}, \A d \in Hosted(n) : Remembers(m, d),
         Candidates(m, n) = {}
  PROVE  Hosted(n) = {}
<1> SUFFICES ASSUME NEW d \in Hosted(n) PROVE FALSE
  OBVIOUS
<1>1. Known(m) /\ m.code = d
  BY DEF Remembers
<1>2. d \in Registered /\ d # None
  BY LifecycleAssumption DEF Hosted, Registered, Instances
<1>3. m.id = None
  BY <1>1, Zenon DEF Candidates, Known
<1>4. {c \in Registered : Matches(c, m, n)} = {}
  BY <1>1, <1>3, Zenon DEF Candidates, Known
<1>5. Matches(d, m, n)
  BY <1>1, <1>2 DEF Matches
<1>6. QED
  BY <1>2, <1>4, <1>5

LEMMA FindsIt ==
  ASSUME NEW n \in Names, NEW m, m.id \in {None, m.code}, \A d \in Hosted(n) : Remembers(m, d),
         NEW c \in Candidates(m, n), ~(Namesake(c, n) /\ Hosted(n) # {})
  PROVE  Hosted(n) \subseteq {c}
<1> SUFFICES ASSUME NEW d \in Hosted(n) PROVE d = c
  OBVIOUS
<1>1. Known(m) /\ m.code = d /\ ~Namesake(c, n)
  BY DEF Remembers
<1>2. CASE m.id # None
  <2>1. c = m.id
    BY <1>1, <1>2, Zenon DEF Candidates, Known
  <2>2. QED
    BY <1>1, <1>2, <2>1
<1>3. CASE m.id = None
  <2>1. c \in {e \in Registered : Matches(e, m, n)}
    BY <1>1, <1>3, Zenon DEF Candidates, Known
  <2>2. c \in Registered /\ Matches(c, m, n)
    BY <2>1
  <2>3. c = m.code \/ edge[c].host = n
    BY <1>1, <2>2 DEF Matches, Namesake
  <2>4. edge[c].host = n => Remembers(m, c)
    BY <2>2 DEF Hosted
  <2>5. QED
    BY <1>1, <2>3, <2>4 DEF Remembers
<1>4. QED
  BY <1>2, <1>3

(* Every step of a removal keeps Tidy.                                     *)
LEMMA RemoveStepTidy ==
  ASSUME Typed, Consistent, Tidy, NEW r \in Removers, RemoveStep(r)
  PROVE  Tidy'
<1>1. PICK n : n = remove[r].name
  OBVIOUS
<1>2. CASE ReadMeta(r)
  <2>1. /\ Removing(r, n) /\ UNCHANGED <<agent, edge, mem, disk, configured, install, spoiled>>
        /\ remove' = [remove EXCEPT ![r] = [remove[r] EXCEPT !.pc = "find", !.meta = mem[n]]]
    BY <1>1, <1>2 DEF ReadMeta, Removing
  <2>2. /\ remove'[r].pc = "find" /\ remove'[r].name = n /\ remove'[r].meta = mem[n]
        /\ \A q \in Removers : q # r => remove'[q] = remove[q]
    BY <1>1, <2>1 DEF Typed, TypeOK, Removes
  <2>3. \A m \in Names : Hosted(m)' = Hosted(m)
    BY <2>1 DEF Hosted, Registered
  <2>4. n \notin spoiled => mem[n] = disk[n]
    BY <2>1, RemoveKnows
  <2>5. n \notin spoiled' => RemoveSees(r, n)'
    BY <2>1, <2>2, <2>4 DEF RemoveSees
  <2>6. QED
    BY <2>1, <2>2, <2>3, <2>5, QuietRemove
<1>3. CASE FindEdge(r)
  <2>1. /\ Removing(r, n) /\ remove[r].pc = "find"
        /\ UNCHANGED <<agent, edge, mem, disk, configured, install>>
    BY <1>1, <1>3 DEF FindEdge, Removing
  <2>2. \A m \in Names : Hosted(m)' = Hosted(m)
    BY <2>1 DEF Hosted, Registered
  <2>3. PICK m : m = remove[r].meta
    OBVIOUS
  <2>4. /\ n \in Names /\ m.id \in {None, m.code}
        /\ n \notin spoiled => \A d \in Hosted(n) : Remembers(m, d)
    <3>1. n \in Names /\ (n \notin spoiled => Sound(n) /\ RemoveSees(r, n))
      BY <2>1, RemoveKnows
    <3>2. n \notin spoiled => m = disk[n]
      BY <2>1, <2>3, <3>1 DEF RemoveSees
    <3>3. QED
      BY <2>3, <3>1, <3>2 DEF Consistent, Proper, Sound
  <2>5. CASE Candidates(m, n) = {} /\ RemoveGo(r, "lxd", n) /\ UNCHANGED spoiled
    <3>1. /\ \A q \in Removers : q # r => remove'[q] = remove[q]
          /\ remove'[r].pc = "lxd" /\ remove'[r].name = n
      BY <2>5, RemoveGoes
    <3>2. n \notin spoiled => Hosted(n) = {}
      BY <2>4, <2>5, FindsAll
    <3>3. n \notin spoiled' /\ remove'[r].pc # "idle" => RemoveSees(r, n)'
      BY <2>2, <2>4, <2>5, <3>1, <3>2 DEF RemoveSees
    <3>4. QED
      BY <2>1, <2>2, <2>5, <3>1, <3>3, QuietRemove
  <2>6. ASSUME NEW c \in Candidates(m, n),
               remove' = [remove EXCEPT ![r] = [remove[r] EXCEPT !.pc = "edge", !.target = c]],
               spoiled' = IF Namesake(c, n) /\ Hosted(n) # {} THEN spoiled \cup {n} ELSE spoiled
        PROVE  Tidy'
    <3>1. /\ remove'[r].pc = "edge" /\ remove'[r].name = n /\ remove'[r].target = c
          /\ \A q \in Removers : q # r => remove'[q] = remove[q]
      BY <1>1, <2>6 DEF Typed, TypeOK, Removes
    <3>2. spoiled \subseteq spoiled' /\ (n \notin spoiled' => ~(Namesake(c, n) /\ Hosted(n) # {}))
      BY <2>6
    <3>3. n \notin spoiled' => Hosted(n) \subseteq {c}
      BY <2>4, <3>2, FindsIt
    <3>4. n \notin spoiled' => RemoveSees(r, n)'
      BY <2>2, <2>4, <3>1, <3>3 DEF RemoveSees
    <3>5. QED
      BY <2>1, <2>2, <3>1, <3>2, <3>4, QuietRemove
  <2>7. QED
    BY <1>1, <1>3, <2>3, <2>5, <2>6 DEF FindEdge
<1>4. CASE DeleteEdge(r)
  <2>1. PICK c \in Instances :
          /\ c = remove[r].target /\ edge' = [edge EXCEPT ![c] = Deleted]
    BY <1>4 DEF DeleteEdge, Registered
  <2>2. /\ Removing(r, n) /\ remove[r].pc = "edge" /\ RemoveGo(r, "lxd", n)
        /\ UNCHANGED <<agent, mem, disk, configured, install, spoiled>>
    BY <1>1, <1>4 DEF DeleteEdge, Removing
  <2>3. /\ \A q \in Removers : q # r => remove'[q] = remove[q]
        /\ remove'[r].pc = "lxd" /\ remove'[r].name = n
    BY <2>2, RemoveGoes
  <2>4. \A m \in Names : Hosted(m)' \subseteq Hosted(m) \ {c}
    BY <2>1 DEF Hosted, Registered, Deleted, NoEdge, Typed, TypeOK
  <2>5. n \in Names /\ (n \notin spoiled => Hosted(n) \subseteq {c})
    BY <2>1, <2>2, RemoveKnows DEF RemoveSees
  <2>6. n \notin spoiled' /\ remove'[r].pc # "idle" => RemoveSees(r, n)'
    BY <2>2, <2>3, <2>4, <2>5 DEF RemoveSees
  <2>7. QED
    BY <2>2, <2>3, <2>4, <2>6, QuietRemove
<1>5. CASE DeleteContainer(r)
  <2>1. /\ Removing(r, n) /\ UNCHANGED <<mem, disk, configured, install, spoiled>>
        /\ RemoveGo(r, "meta", n) \/ remove' = [remove EXCEPT ![r] = RemoveIdle]
        /\ agent' = [agent EXCEPT ![n] = "absent"]
        /\ edge' = [c \in Instances |-> IF edge[c].host = n
                                        THEN [edge[c] EXCEPT !.host = Gone] ELSE edge[c]]
    BY <1>1, <1>5 DEF DeleteContainer, Removing
  <2>2. /\ \A q \in Removers : q # r => remove'[q] = remove[q]
        /\ remove'[r].pc = "idle" \/ (remove'[r].pc = "meta" /\ remove'[r].name = n)
    <3>1. CASE RemoveGo(r, "meta", n)
      BY <3>1, RemoveGoes
    <3>2. CASE remove' = [remove EXCEPT ![r] = RemoveIdle]
      BY <3>2, RemoveEnds
    <3>3. QED
      BY <2>1, <3>1, <3>2
  <2>3. n \in Names /\ n # Gone
    BY <2>1, RemoveKnows, LifecycleAssumption
  <2>4. \A c \in Instances : IF edge[c].host = n THEN edge'[c].host = Gone ELSE edge'[c] = edge[c]
    BY <2>1 DEF Typed, TypeOK, Edges
  <2>5. Hosted(n)' = {} /\ \A m \in Names : Hosted(m)' \subseteq Hosted(m)
    BY <2>3, <2>4, LifecycleAssumption DEF Hosted, Registered
  <2>6. \A m \in Names : agent'[m] = "absent" => agent[m] = "absent" \/ Hosted(m)' = {}
    BY <2>1, <2>5 DEF Typed, TypeOK
  <2>7. n \notin spoiled' /\ remove'[r].pc # "idle" => RemoveSees(r, n)'
    BY <2>2, <2>5 DEF RemoveSees
  <2>8. QED
    BY <2>1, <2>2, <2>5, <2>6, <2>7, QuietRemove
<1>6. CASE Forget(r)
  <2>1. /\ Removing(r, n) /\ remove[r].pc = "meta"
        /\ UNCHANGED <<agent, edge, configured, install>>
        /\ mem' = [mem EXCEPT ![n] = NoMeta] /\ Save(n, {})
        /\ remove' = [remove EXCEPT ![r] = RemoveIdle]
    BY <1>1, <1>6 DEF Forget, Removing
  <2>2. /\ remove'[r].pc = "idle" /\ \A q \in Removers : q # r => remove'[q] = remove[q]
    BY <2>1, RemoveEnds
  <2>3. /\ n \in Names /\ configured = TRUE
        /\ n \notin spoiled =>
             /\ Sound(n) /\ RemoveSees(r, n)
             /\ \A q \in Removers : q # r => ~Removing(q, n)
             /\ \A i \in Installers : ~Installing(i, n)
    BY <2>1, RemoveKnows
  <2>4. \A m \in Names : Hosted(m)' = Hosted(m)
    BY <2>1 DEF Hosted, Registered
  <2>5. /\ spoiled \subseteq spoiled' /\ spoiled' \subseteq spoiled \cup {n}
        /\ n \notin spoiled' => disk' = mem'
        /\ disk' = mem' \/ disk' = disk
    BY <2>1 DEF Save, Meets
  <2>6. \A k \in Names : k # n => mem'[k] = mem[k] /\ disk'[k] \in {disk[k], mem'[k]}
    BY <2>1, <2>5 DEF Typed, TypeOK
  <2>7. ASSUME NEW k \in Names \ spoiled', k # n PROVE Sound(k)'
    BY <2>1, <2>2, <2>3, <2>4, <2>5, <2>6, <2>7, RemoveElse
  <2>8. ASSUME n \notin spoiled' PROVE Sound(n)'
    <3>1. Hosted(n)' = {}
      BY <2>1, <2>3, <2>4, <2>5, <2>8 DEF RemoveSees
    <3>2. /\ \A q \in Removers : ~Removing(q, n)'
          /\ \A i \in Installers : ~Installing(i, n)'
      BY <2>1, <2>2, <2>3, <2>5, <2>8 DEF Installing, Removing
    <3>3. QED
      BY <2>3, <2>5, <2>8, <3>1, <3>2, RemoveSound
  <2>9. Ground'
    BY <2>1, <2>3, <2>4 DEF Tidy, Ground
  <2>10. QED
    BY <2>7, <2>8, <2>9 DEF Tidy
<1>7. CASE RemoveFails(r)
  <2>1. /\ Removing(r, n) /\ UNCHANGED <<agent, edge, mem, disk, configured, install, spoiled>>
        /\ remove' = [remove EXCEPT ![r] = RemoveIdle]
    BY <1>1, <1>7 DEF RemoveFails, Removing
  <2>2. remove'[r].pc = "idle" /\ \A q \in Removers : q # r => remove'[q] = remove[q]
    BY <2>1, RemoveEnds
  <2>3. \A m \in Names : Hosted(m)' = Hosted(m)
    BY <2>1 DEF Hosted, Registered
  <2>4. QED
    BY <2>1, <2>2, <2>3, QuietRemove
<1>8. QED
  BY <1>2, <1>3, <1>4, <1>5, <1>6, <1>7, UninstallTidy DEF RemoveStep

(* A step that changes nothing of what the handlers see.                   *)
LEMMA SameTidy ==
  ASSUME Tidy, UNCHANGED <<mem, disk, configured, install, remove>>,
         spoiled \subseteq spoiled', \A m \in Names : Hosted(m)' = Hosted(m),
         \A m \in Names : agent'[m] = "absent" => agent[m] = "absent"
  PROVE  Tidy'
<1>1. ASSUME NEW k \in Names \ spoiled' PROVE Sound(k)'
  <2>1. Sound(k) /\ (configured' = TRUE => mem'[k] = disk'[k])
    BY <1>1 DEF Tidy, Sound
  <2>2. /\ \A i \in Installers : Installing(i, k)' => Installing(i, k)
        /\ \A r \in Removers : Removing(r, k)' => Removing(r, k)
    BY DEF Installing, Removing
  <2>3. QED
    BY <2>1, <2>2, OtherSound
<1>2. Ground'
  BY DEF Tidy, Ground
<1>3. QED
  BY <1>1, <1>2 DEF Tidy

(* A container appears: a history it has is not its own.                   *)
LEMMA LaunchTidy ==
  ASSUME Typed, Tidy, NEW n \in Names, Launch(n)
  PROVE  Tidy'
<1>1. /\ configured = TRUE /\ UNCHANGED <<edge, mem, disk, configured, install, remove>>
      /\ agent[n] = "absent" /\ agent' = [agent EXCEPT ![n] = "bare"]
  BY DEF Launch, Typed, TypeOK
<1>2. \A m \in Names : Hosted(m)' = Hosted(m)
  BY <1>1 DEF Hosted, Registered
<1>3. /\ \A i \in Installers, m \in Names : Installing(i, m)' <=> Installing(i, m)
      /\ \A r \in Removers, m \in Names : Removing(r, m)' <=> Removing(r, m)
  BY <1>1 DEF Installing, Removing
<1>4. ASSUME NEW k \in Names \ spoiled', k # n PROVE Sound(k)'
  <2>1. Sound(k)
    BY <1>4 DEF Launch, Tidy
  <2>2. configured' = TRUE => mem'[k] = disk'[k]
    BY <1>1, <2>1 DEF Sound
  <2>3. QED
    BY <1>1, <1>2, <1>3, <2>1, <2>2, OtherSound
<1>5. ASSUME n \notin spoiled' PROVE Sound(n)'
  <2>1. ~Busy(n) /\ mem[n] = disk[n]
    BY <1>5 DEF Launch
  <2>2. /\ \A i \in Installers : ~Installing(i, n)'
        /\ \A r \in Removers : ~Removing(r, n)'
    BY <1>3, <2>1 DEF Busy, Installing, Removing
  <2>3. Hosted(n)' = {}
    BY <1>1, <1>2 DEF Tidy, Ground
  <2>4. QED
    BY <1>1, <2>1, <2>2, <2>3 DEF Sound, Alone
<1>6. Ground'
  BY <1>1, <1>2 DEF Tidy, Ground, Typed, TypeOK
<1>7. QED
  BY <1>4, <1>5, <1>6 DEF Tidy

(* The app restarts, with what the file holds or with nothing.             *)
LEMMA RestartTidy ==
  ASSUME Typed, Tidy, Restart
  PROVE  Tidy'
<1>1. /\ UNCHANGED <<agent, edge, disk, spoiled>>
      /\ \A i \in Installers : install'[i].pc = "idle"
      /\ \A r \in Removers : remove'[r].pc = "idle"
      /\ configured' = TRUE => mem' = disk
  BY DEF Restart, InstallIdle, RemoveIdle
<1>2. \A m \in Names : Hosted(m)' = Hosted(m)
  BY <1>1 DEF Hosted, Registered
<1>3. ASSUME NEW k \in Names \ spoiled' PROVE Sound(k)'
  <2>1. \A c \in Hosted(k) : Remembers(disk[k], c)
    BY <1>1, <1>3 DEF Tidy, Sound
  <2>2. /\ \A i \in Installers : ~Installing(i, k)'
        /\ \A r \in Removers : ~Removing(r, k)'
    BY <1>1 DEF Installing, Removing
  <2>3. QED
    BY <1>1, <1>2, <2>1, <2>2 DEF Sound, Alone
<1>4. Ground'
  BY <1>1, <1>2 DEF Tidy, Ground
<1>5. QED
  BY <1>3, <1>4 DEF Tidy

(* The app is set up once more, over a file that could not be read.        *)
LEMMA SetupTidy ==
  ASSUME Typed, Tidy, Setup
  PROVE  Tidy'
<1>1. /\ UNCHANGED <<agent, edge, install, remove>>
      /\ \A m \in Names : mem'[m] = NoMeta /\ disk'[m] = NoMeta
      /\ spoiled' = spoiled \cup {m \in Names : disk[m].known}
      /\ configured # TRUE
  BY DEF Setup, Typed, TypeOK
<1>2. \A m \in Names : Hosted(m)' = Hosted(m)
  BY <1>1 DEF Hosted, Registered
<1>3. ASSUME NEW k \in Names \ spoiled' PROVE Sound(k)'
  <2>1. k \notin spoiled /\ ~Known(disk[k])
    BY <1>1, <1>3 DEF Known
  <2>2. Hosted(k) = {}
    BY <2>1 DEF Tidy, Sound, Remembers
  <2>3. /\ \A i \in Installers : ~Installing(i, k)'
        /\ \A r \in Removers : ~Removing(r, k)'
    BY <1>1 DEF Tidy, Ground, Installing, Removing
  <2>4. QED
    BY <1>1, <1>2, <2>2, <2>3 DEF Sound, Alone
<1>4. Ground'
  BY <1>1, <1>2 DEF Tidy, Ground
<1>5. QED
  BY <1>3, <1>4 DEF Tidy

(* The tenant's own steps move no instance to a container.                 *)
LEMMA TenantHosts ==
  ASSUME Typed, \/ \E c \in Codes : EdgeUp(c) \/ EdgeDown(c)
                \/ \E f \in Foreign : ForeignJoins(f)
  PROVE  \A m \in Names : Hosted(m)' = Hosted(m)
<1>1. ASSUME NEW c \in Codes, EdgeUp(c) \/ EdgeDown(c) PROVE \A m \in Names : Hosted(m)' = Hosted(m)
  <2>1. \A d \in Instances : /\ edge'[d].host = edge[d].host
                             /\ d \in Registered' <=> d \in Registered
    BY <1>1 DEF EdgeUp, EdgeDown, Registered, Typed, TypeOK, Edges, Instances
  <2>2. QED
    BY <2>1 DEF Hosted, Registered
<1>2. ASSUME NEW f \in Foreign, ForeignJoins(f) PROVE \A m \in Names : Hosted(m)' = Hosted(m)
  <2>1. PICK name : edge' = [edge EXCEPT ![f] =
          [status |-> "offline", host |-> Elsewhere, name |-> name]]
    BY <1>2 DEF ForeignJoins
  <2>2. edge'[f].host = Elsewhere /\ \A d \in Instances : d # f => edge'[d] = edge[d]
    BY <2>1 DEF Typed, TypeOK, Instances
  <2>3. edge[f].status = "none" /\ \A m \in Names : m # Elsewhere
    BY <1>2, LifecycleAssumption DEF ForeignJoins
  <2>4. QED
    BY <2>2, <2>3 DEF Hosted, Registered
<1>3. QED
  BY <1>1, <1>2

LEMMA TidyStep == Inv /\ Tidy /\ [Next]_vars => Tidy'
<1> SUFFICES ASSUME Inv, Tidy, [Next]_vars PROVE Tidy'
  OBVIOUS
<1>1. Typed /\ Consistent
  BY DEF Inv
<1>2. ASSUME \/ \E c \in Codes : EdgeUp(c) \/ EdgeDown(c)
             \/ \E f \in Foreign : ForeignJoins(f)
      PROVE  Tidy'
  <2>1. \A m \in Names : Hosted(m)' = Hosted(m)
    BY <1>1, <1>2, TenantHosts
  <2>2. UNCHANGED <<agent, mem, disk, configured, install, remove, spoiled>>
    BY <1>2 DEF EdgeUp, EdgeDown, ForeignJoins
  <2>3. QED
    BY <2>1, <2>2, SameTidy
<1>3. CASE UNCHANGED vars
  <2>1. UNCHANGED <<agent, edge, mem, disk, configured, install, remove, spoiled>>
    BY <1>3 DEF vars
  <2>2. \A m \in Names : Hosted(m)' = Hosted(m)
    BY <2>1 DEF Hosted, Registered
  <2>3. QED
    BY <2>1, <2>2, SameTidy
<1>4. QED
  BY <1>1, <1>2, <1>3, LaunchTidy, InstallStepTidy, RemoveStepTidy, RestartTidy, SetupTidy
     DEF Next

LEMMA TidyInit == Init => Tidy
<1> SUFFICES ASSUME Init PROVE Tidy
  OBVIOUS
<1>1. /\ mem = disk /\ \A m \in Names : Hosted(m) = {}
      /\ \A i \in Installers : install[i].pc = "idle"
      /\ \A r \in Removers : remove[r].pc = "idle"
      /\ configured = TRUE
  BY DEF Init, InstallIdle, RemoveIdle, Hosted, Registered, NoEdge
<1>2. QED
  BY <1>1 DEF Tidy, Ground, Sound, Alone, Installing, Removing

(* At every moment of an install, whichever calls fail and whenever the    *)
(* app restarts, the metadata in the file leads to every edge instance     *)
(* that a container which met no incident has registered.                  *)
THEOREM AlwaysCleanable == Spec => []Cleanable
<1>1. Inv /\ Tidy => Cleanable
  <2> SUFFICES ASSUME Inv, Tidy, NEW n \in Names \ spoiled, NEW c \in Hosted(n)
               PROVE  LeadsTo(disk[n], c, n)
    BY DEF Cleanable
  <2>1. Remembers(disk[n], c) /\ Proper(disk[n])
    BY DEF Tidy, Sound, Inv, Consistent
  <2>2. c # None
    BY LifecycleAssumption DEF Hosted, Registered, Instances
  <2>3. disk[n].known /\ disk[n].code = c /\ disk[n].id \in {None, c}
    BY <2>1, Zenon DEF Remembers, Known, Proper
  <2>4. QED
    BY <2>2, <2>3 DEF LeadsTo, Matches
<1>2. QED
  BY <1>1, InvInit, InvStep, TidyInit, TidyStep, PTL DEF Spec

(* A container that met no incident is deleted only when no edge instance  *)
(* of it is registered, however often its removal failed or was tried.     *)
THEOREM NothingOrphaned == Spec => NoOrphanMade
<1>1. ASSUME Inv, Tidy, [Next]_vars, NEW n \in Names \ spoiled,
             agent[n] # "absent", agent'[n] = "absent"
      PROVE  Hosted(n) = {}
  <2>1. ASSUME NEW r \in Removers, DeleteContainer(r) PROVE Hosted(n) = {}
    <3>1. remove[r].name = n /\ remove[r].pc = "lxd"
      BY <1>1, <2>1 DEF DeleteContainer, Inv, Typed, TypeOK
    <3>2. QED
      BY <1>1, <3>1 DEF Tidy, Sound, Removing, RemoveSees
  <2>2. ASSUME NEW r \in Removers, RemoveStep(r), ~DeleteContainer(r) PROVE FALSE
    BY <1>1, <2>2 DEF RemoveStep, Uninstall, ReadMeta, FindEdge, DeleteEdge, Forget,
       RemoveFails, Inv, Typed, TypeOK
  <2>3. ASSUME NEW i \in Installers, RunInstaller(i) PROVE FALSE
    <3>1. install[i].code \in Codes /\ install[i].code # "absent"
      BY <1>1, <2>3, LifecycleAssumption DEF RunInstaller, Inv, Typed, Underway
    <3>2. agent' = [agent EXCEPT ![install[i].name] = install[i].code]
      BY <2>3 DEF RunInstaller
    <3>3. QED
      BY <1>1, <3>1, <3>2 DEF Inv, Typed, TypeOK
  <2>4. ASSUME NEW m \in Names, Launch(m) PROVE FALSE
    BY <1>1, <2>4 DEF Launch, Inv, Typed, TypeOK
  <2>5. ASSUME \/ \E i \in Installers : InstallStep(i) /\ ~RunInstaller(i)
               \/ \E c \in Codes : EdgeUp(c) \/ EdgeDown(c)
               \/ \E f \in Foreign : ForeignJoins(f)
               \/ Restart \/ Setup \/ UNCHANGED vars
        PROVE  agent' = agent
    BY <2>5 DEF InstallStep, InstallBegin, PurgeList, PurgeDelete, Pair, PollActive, Rename,
       SaveResult, InstallFails, EdgeUp, EdgeDown, ForeignJoins, Restart, Setup, vars
  <2>6. QED
    BY <1>1, <2>1, <2>2, <2>3, <2>4, <2>5 DEF Next
<1>2. Inv /\ Tidy /\ [Next]_vars =>
        [\A n \in Names \ spoiled :
           agent[n] # "absent" /\ agent'[n] = "absent" => Hosted(n) = {}]_vars
  BY <1>1
<1>3. QED
  BY <1>2, InvInit, InvStep, TidyInit, TidyStep, PTL DEF Spec, NoOrphanMade

-----------------------------------------------------------------------------
(* Whatever operators do, an edge instance comes once: a code that is      *)
(* about to pair has not, and no two installs have the same one.           *)
Fresh ==
  /\ \A i \in Installers :
       install[i].pc = "exec" => edge[install[i].code].status = "none"
  /\ \A i, j \in Installers :
       install[i].code = install[j].code /\ install[i].code # None => i = j

Lasts(c) ==
  edge[c].status # "none" =>
    /\ edge'[c].status # "none"
    /\ edge[c].status = "deleted" => edge'[c].status = "deleted"
    /\ edge'[c].host \in {edge[c].host, Gone}

LEMMA FreshInit == Init => Fresh
BY DEF Init, Fresh, InstallIdle

(* A step that pairs nothing.                                              *)
LEMMA FreshFrame ==
  ASSUME Typed, Fresh, NEW i \in Installers,
         \A k \in Installers : k # i => install'[k] = install[k],
         install'[i].code \in {install[i].code, None},
         install'[i].pc # "exec",
         \A c \in Codes : edge[c].status = "none" => edge'[c].status = "none"
  PROVE  Fresh'
<1>1. ASSUME NEW k \in Installers, install'[k].pc = "exec"
      PROVE  edge'[install'[k].code].status = "none"
  BY <1>1 DEF Fresh, Typed, Underway
<1>2. QED
  BY <1>1 DEF Fresh

LEMMA FreshInstall ==
  ASSUME Typed, Fresh, NEW i \in Installers, InstallStep(i)
  PROVE  Fresh' /\ \A c \in Codes : Lasts(c)
<1> USE LifecycleAssumption
<1>1. CASE \/ \E n \in Names : InstallBegin(i, n)
           \/ PurgeList(i) \/ PollActive(i) \/ SaveResult(i) \/ InstallFails(i)
  <2>1. edge' = edge /\ \A k \in Installers : k # i => install'[k] = install[k]
    BY <1>1 DEF InstallBegin, PurgeList, PollActive, SaveResult, InstallFails, InstallGo,
       Typed, TypeOK
  <2>2. install'[i].code \in {install[i].code, None} /\ install'[i].pc # "exec"
    <3>1. CASE PurgeList(i)
      <4>1. PICK stale : install' = [install EXCEPT ![i] =
                                       [install[i] EXCEPT !.pc = "purge", !.stale = stale]]
        BY <3>1, PurgeListed
      <4>2. QED
        BY <4>1 DEF Typed, TypeOK, Installs
    <3>2. ASSUME NEW n \in Names, InstallBegin(i, n)
          PROVE  install'[i].code = None /\ install'[i].pc # "exec"
      <4>1. PICK tenant \in BOOLEAN, kinds \in SUBSET AllIncidents : Begins(i, n, tenant, kinds)
        BY <3>2, BegunStep
      <4>2. QED
        BY <4>1 DEF Begins, InstallIdle, Typed, TypeOK
    <3>3. CASE PollActive(i) \/ SaveResult(i) \/ InstallFails(i)
      BY <3>3 DEF PollActive, SaveResult, InstallFails, InstallGo, InstallIdle,
         Typed, TypeOK, Installs
    <3>4. QED
      BY <1>1, <3>1, <3>2, <3>3
  <2>3. QED
    BY <2>1, <2>2, FreshFrame DEF Lasts
<1>2. CASE PurgeDelete(i)
  <2>1. PICK c \in Registered :
          /\ edge' = [edge EXCEPT ![c] = Deleted]
          /\ install' = [install EXCEPT ![i].stale = @ \ {c}]
    BY <1>2 DEF PurgeDelete
  <2>2. /\ \A k \in Installers : k # i => install'[k] = install[k]
        /\ install'[i].code = install[i].code /\ install'[i].pc # "exec"
    BY <1>2, <2>1 DEF PurgeDelete, Typed, TypeOK, Installs
  <2>3. \A d \in Codes : /\ edge[d].status = "none" => edge'[d].status = "none"
                         /\ Lasts(d)
    BY <2>1 DEF Registered, Lasts, Deleted, NoEdge, Typed, TypeOK, Edges, Instances
  <2>4. QED
    BY <2>2, <2>3, FreshFrame
<1>3. CASE Pair(i)
  <2>1. PICK c \in NewCodes :
          install' = [install EXCEPT ![i] = [@ EXCEPT !.pc = "exec", !.code = c]]
    BY <1>3 DEF Pair
  <2>2. install' = [install EXCEPT ![i] = [install[i] EXCEPT !.pc = "exec", !.code = c]]
    BY <2>1
  <2>3. /\ \A k \in Installers : k # i => install'[k] = install[k]
        /\ install'[i].code = c /\ edge' = edge
    BY <1>3, <2>2 DEF Pair, Typed, TypeOK, Installs
  <2>4. edge[c].status = "none" /\ \A k \in Installers : install[k].code # c
    BY DEF NewCodes
  <2>5. QED
    BY <2>3, <2>4 DEF Fresh, Lasts
<1>4. CASE RunInstaller(i)
  <2>c. PICK c : c = install[i].code
    OBVIOUS
  <2> USE <2>c
  <2>1. /\ c \in Codes /\ c # None /\ edge[c].status = "none"
        /\ edge' = [edge EXCEPT ![c] = [status |-> "offline", host |-> install[i].name,
                                        name |-> Gone]]
    BY <1>4 DEF RunInstaller, Fresh, Typed, Underway
  <2>2. /\ \A k \in Installers : k # i => install'[k] = install[k]
        /\ install'[i].pc # "exec" /\ install'[i].code \in {c, None}
    BY <1>4 DEF RunInstaller, InstallGo, InstallIdle, Typed, TypeOK, Installs
  <2>3. \A d \in Codes : d # c => edge'[d] = edge[d]
    BY <2>1 DEF Typed, TypeOK, Instances
  <2>4. ASSUME NEW k \in Installers, install'[k].pc = "exec"
        PROVE  edge'[install'[k].code].status = "none"
    <3>1. k # i /\ install'[k] = install[k] /\ install[k].code \in Codes
      BY <2>2, <2>4 DEF Typed, Underway
    <3>2. install[k].code # c
      BY <2>1, <3>1 DEF Fresh
    <3>3. QED
      BY <2>3, <2>4, <3>1, <3>2 DEF Fresh
  <2>5. Fresh'
    BY <2>2, <2>4 DEF Fresh
  <2>6. QED
    BY <2>1, <2>3, <2>5 DEF Lasts
<1>5. CASE Rename(i)
  <2>1. \A d \in Codes : /\ edge'[d].status = edge[d].status
                         /\ edge'[d].host = edge[d].host
    BY <1>5 DEF Rename, Typed, TypeOK, Edges, Instances
  <2>2. /\ \A k \in Installers : k # i => install'[k] = install[k]
        /\ install'[i].code \in {install[i].code, None} /\ install'[i].pc # "exec"
    BY <1>5 DEF Rename, InstallGo, InstallIdle, Typed, TypeOK, Installs
  <2>3. QED
    BY <2>1, <2>2, FreshFrame DEF Lasts
<1>6. QED
  BY <1>1, <1>2, <1>3, <1>4, <1>5 DEF InstallStep

LEMMA FreshStep ==
  ASSUME Typed, Fresh, [Next]_vars
  PROVE  Fresh' /\ \A c \in Codes : Lasts(c)
<1>1. ASSUME UNCHANGED install,
             \A c \in Codes : /\ edge[c].status = "none" => edge'[c].status = "none"
                             /\ Lasts(c)
      PROVE  Fresh' /\ \A c \in Codes : Lasts(c)
  BY <1>1 DEF Fresh, Typed, Underway
<1>2. ASSUME NEW r \in Removers, RemoveStep(r)
      PROVE  Fresh' /\ \A c \in Codes : Lasts(c)
  <2>1. install' = install
    BY <1>2 DEF RemoveStep, Uninstall, ReadMeta, FindEdge, DeleteEdge, DeleteContainer,
       Forget, RemoveFails
  <2>2. CASE DeleteEdge(r)
    <3>1. \A c \in Codes : /\ edge[c].status = "none" => edge'[c].status = "none"
                          /\ Lasts(c)
      BY <2>2 DEF DeleteEdge, Registered, Lasts, Deleted, NoEdge, Typed, TypeOK, Edges, Instances
    <3>2. QED
      BY <1>1, <2>1, <3>1
  <2>3. CASE DeleteContainer(r)
    <3>1. \A c \in Codes : edge'[c].status = edge[c].status /\ edge'[c].host \in {edge[c].host, Gone}
      BY <2>3 DEF DeleteContainer, Typed, TypeOK, Edges, Instances
    <3>2. QED
      BY <1>1, <2>1, <3>1 DEF Lasts
  <2>4. CASE edge' = edge
    BY <1>1, <2>1, <2>4 DEF Lasts
  <2>5. QED
    BY <1>2, <2>2, <2>3, <2>4 DEF RemoveStep, Uninstall, ReadMeta, FindEdge, Forget,
       RemoveFails
<1>3. ASSUME NEW c \in Codes, EdgeUp(c) \/ EdgeDown(c)
      PROVE  Fresh' /\ \A d \in Codes : Lasts(d)
  <2>1. install' = install
    BY <1>3 DEF EdgeUp, EdgeDown
  <2>2. \A d \in Codes : /\ edge[d].status = "none" => edge'[d].status = "none"
                        /\ Lasts(d)
    BY <1>3 DEF EdgeUp, EdgeDown, Lasts, Deleted, NoEdge, Typed, TypeOK, Edges, Instances
  <2>3. QED
    BY <1>1, <2>1, <2>2
<1>4. CASE Restart
  BY <1>4 DEF Restart, InstallIdle, Fresh, Lasts
<1>5. CASE (\E n \in Names : Launch(n)) \/ Setup \/ UNCHANGED vars
  BY <1>1, <1>5 DEF Launch, Setup, vars, Lasts
<1>6. ASSUME NEW f \in Foreign, ForeignJoins(f)
      PROVE  Fresh' /\ \A d \in Codes : Lasts(d)
  <2>1. install' = install /\ \A d \in Codes : d # f
    BY <1>6, LifecycleAssumption DEF ForeignJoins
  <2>2. \A d \in Codes : edge'[d] = edge[d]
    BY <1>6, <2>1 DEF ForeignJoins, Typed, TypeOK, Instances
  <2>3. QED
    BY <1>1, <2>1, <2>2 DEF Lasts
<1>7. QED
  BY <1>2, <1>3, <1>4, <1>5, <1>6, FreshInstall DEF Next

(* A pairing code registers one edge instance, in one container, once:     *)
(* nothing moves it to another container, and once deleted it stays so.    *)
THEOREM InstancesComeOnce == Spec => [][\A c \in Codes : Lasts(c)]_vars
<1>1. Typed /\ Fresh /\ [Next]_vars => (Typed /\ Fresh)' /\ \A c \in Codes : Lasts(c)
  BY TypedStep, FreshStep
<1>2. QED
  BY <1>1, TypedInit, FreshInit, PTL DEF Spec

-----------------------------------------------------------------------------
(* The refinement of EdgeLedger: what the tenant, the host and the file    *)
(* show of the containers that met no incident.                            *)
Seat(c) == IF c \in Registered /\ edge[c].host \notin spoiled THEN edge[c].host ELSE Gone

Containers == {n \in Names \ spoiled : agent[n] # "absent"}
Book == [n \in Names |-> IF n \in spoiled THEN None ELSE disk[n].code]
Placed == [c \in Codes |-> Seat(c)]
Paired == {c \in Codes : edge[c].status # "none"}

(* The steps of EdgeLedger in these terms.                                 *)
LEMMA LedgerSteps ==
  /\ \A n \in Names :
       /\ /\ n \notin Containers /\ Containers' = Containers \cup {n}
          /\ \A c \in Codes : Placed[c] # n
          /\ \E c \in {None} \cup Codes : Book' = [Book EXCEPT ![n] = c]
          /\ UNCHANGED <<Placed, Paired>>
          => Ledger!Create(n)
       /\ /\ \A c \in Codes : Placed[c] # n
          /\ \E c \in {None} \cup (Codes \ Paired) : Book' = [Book EXCEPT ![n] = c]
          /\ UNCHANGED <<Containers, Placed, Paired>>
          => Ledger!Write(n)
       /\ /\ n \in Containers /\ \A c \in Codes : Placed[c] # n
          /\ Book[n] \in Codes \ Paired
          /\ Placed' = [Placed EXCEPT ![Book[n]] = n]
          /\ Paired' = Paired \cup {Book[n]}
          /\ UNCHANGED <<Containers, Book>>
          => Ledger!Register(n)
       /\ /\ n \in Containers /\ \A c \in Codes : Placed[c] # n
          /\ Containers' = Containers \ {n}
          /\ UNCHANGED <<Book, Placed, Paired>>
          => Ledger!Destroy(n)
  /\ \A c \in Codes :
       /\ /\ Placed[c] # Gone /\ Placed' = [Placed EXCEPT ![c] = Gone]
          /\ UNCHANGED <<Containers, Book, Paired>>
          => Ledger!Deregister(c)
       /\ /\ c \notin Paired /\ Paired' = Paired \cup {c}
          /\ UNCHANGED <<Containers, Book, Placed>>
          => Ledger!Stray(c)
  /\ \A S \in SUBSET Names :
       /\ Containers' = Containers \ S
       /\ Book' = [n \in Names |-> IF n \in S THEN None ELSE Book[n]]
       /\ Placed' = [c \in Codes |-> IF Placed[c] \in S THEN Gone ELSE Placed[c]]
       /\ UNCHANGED Paired
       => Ledger!Abandon(S)
BY DEF Containers, Book, Placed, Seat, Paired, Ledger!Create, Ledger!Write, Ledger!Register,
   Ledger!Destroy, Ledger!Deregister, Ledger!Stray, Ledger!Abandon, Ledger!Empty

(* What the ledger sees of an instance stays, or its container meets an    *)
(* incident.                                                               *)
SameSeat(c) ==
  /\ edge'[c].status = "none" <=> edge[c].status = "none"
  /\ Seat(c)' = IF Seat(c) \in spoiled' THEN Gone ELSE Seat(c)

SameEdge(c) ==
  /\ edge'[c].status = "none" <=> edge[c].status = "none"
  /\ c \in Registered' <=> c \in Registered
  /\ c \in Registered => edge'[c].host = edge[c].host

LEMMA SameSeats ==
  ASSUME spoiled \subseteq spoiled', spoiled' \subseteq Names, \A c \in Codes : SameEdge(c)
  PROVE  \A c \in Codes : SameSeat(c)
BY LifecycleAssumption DEF SameSeat, SameEdge, Seat

(* A step that changes nothing of the containers that meet no incident.    *)
LEMMA QuietLedger ==
  ASSUME spoiled \subseteq spoiled', spoiled' \subseteq Names,
         \A n \in Names \ spoiled' : /\ agent'[n] = "absent" <=> agent[n] = "absent"
                                     /\ disk'[n].code = disk[n].code,
         \A c \in Codes : SameSeat(c)
  PROVE  Ledger!Next
<1>s. PICK S \in SUBSET Names : S = spoiled' \ spoiled
  OBVIOUS
<1>1. Containers' = Containers \ S
  BY <1>s DEF Containers
<1>2. Book' = [n \in Names |-> IF n \in S THEN None ELSE Book[n]]
  BY <1>s DEF Book
<1>3. Placed' = [c \in Codes |-> IF Placed[c] \in S THEN Gone ELSE Placed[c]]
  <2>1. \A c \in Codes : Seat(c) \notin spoiled
    BY LifecycleAssumption DEF Seat
  <2>2. \A c \in Codes : Seat(c)' = IF Seat(c) \in S THEN Gone ELSE Seat(c)
    BY <1>s, <2>1 DEF SameSeat
  <2>3. QED
    BY <2>2 DEF Placed
<1>4. Paired' = Paired
  BY DEF Paired, SameSeat
<1>5. Ledger!Abandon(S)
  BY <1>1, <1>2, <1>3, <1>4, LedgerSteps
<1>6. QED
  BY <1>5 DEF Ledger!Next

LEMMA EmptyHost ==
  ASSUME NEW n \in Names, Hosted(n) = {}
  PROVE  \A c \in Codes : Placed[c] # n
BY LifecycleAssumption DEF Hosted, Placed, Seat

(* An instance is deleted.                                                 *)
LEMMA DeletedStep ==
  ASSUME Typed, NEW c \in Registered, edge' = [edge EXCEPT ![c] = Deleted],
         UNCHANGED <<agent, disk, spoiled>>
  PROVE  Ledger!Next
<1>1. /\ edge[c].status # "none" /\ edge'[c].status = "deleted" /\ edge'[c].host = Gone
      /\ \A d \in Instances : d # c => edge'[d] = edge[d]
  BY DEF Typed, TypeOK, Registered, Deleted, NoEdge
<1>2. /\ c \notin Registered' /\ \A d \in Codes : d # c => (d \in Registered' <=> d \in Registered)
  BY <1>1 DEF Registered, Instances
<1>3. Seat(c)' = Gone /\ \A d \in Codes : d # c => Seat(d)' = Seat(d)
  BY <1>1, <1>2 DEF Seat, Instances
<1>4. CASE c \in Codes /\ Seat(c) # Gone
  <2>1. Placed' = [Placed EXCEPT ![c] = Gone]
    BY <1>3 DEF Placed
  <2>2. Placed[c] # Gone
    BY <1>4 DEF Placed
  <2>3. UNCHANGED <<Containers, Book, Paired>>
    BY <1>1 DEF Containers, Book, Paired, Instances
  <2>4. QED
    BY <1>4, <2>1, <2>2, <2>3, LedgerSteps DEF Ledger!Next
<1>5. CASE c \notin Codes \/ Seat(c) = Gone
  <2>1. \A d \in Codes : Seat(d)' = Seat(d)
    BY <1>3, <1>5
  <2>2. \A d \in Codes : Seat(d) \notin spoiled
    BY LifecycleAssumption DEF Seat, Typed, TypeOK
  <2>3. \A d \in Codes : SameSeat(d)
    BY <1>1, <2>1, <2>2 DEF SameSeat, Instances
  <2>4. QED
    BY <2>3, QuietLedger DEF Typed, TypeOK
<1>6. QED
  BY <1>4, <1>5

(* The entry of a container without an instance is written.                *)
LEMMA WrittenStep ==
  ASSUME NEW n \in Names \ spoiled, NEW c \in {None} \cup (Codes \ Paired),
         Hosted(n) = {}, disk'[n].code = c,
         \A m \in Names \ spoiled : m # n => disk'[m].code = disk[m].code,
         UNCHANGED <<agent, edge, spoiled>>
  PROVE  Ledger!Next
<1>1. Book' = [Book EXCEPT ![n] = c]
  BY DEF Book
<1>2. UNCHANGED <<Containers, Placed, Paired>>
  BY DEF Containers, Placed, Seat, Paired, Registered
<1>3. Ledger!Write(n)
  BY <1>1, <1>2, EmptyHost, LedgerSteps
<1>4. QED
  BY <1>3 DEF Ledger!Next

(* Nothing but the containers and the file changes.                        *)
LEMMA StillSeats ==
  ASSUME Typed, edge' = edge, spoiled \subseteq spoiled', spoiled' \subseteq Names
  PROVE  \A c \in Codes : SameSeat(c)
BY SameSeats DEF SameEdge, Registered

(* What a save for one container leaves of the others.                     *)
LEMMA OthersKept ==
  ASSUME Tidy, NEW n \in Names, configured = TRUE, spoiled \subseteq spoiled',
         \A k \in Names : k # n => mem'[k] = mem[k] /\ disk'[k] \in {disk[k], mem'[k]}
  PROVE  \A k \in Names \ spoiled' : k # n => disk'[k] = disk[k]
BY DEF Tidy, Sound

(* A step of an install.                                                   *)
LEMMA InstallStepLedger ==
  ASSUME Inv, Tidy, Fresh, Typed', NEW i \in Installers, InstallStep(i)
  PROVE  Ledger!Next
<1>t. Typed /\ Consistent /\ spoiled' \subseteq Names
  BY DEF Inv, Typed, TypeOK
<1>n. PICK n, c, tenant :
        n = install[i].name /\ c = install[i].code /\ tenant = install[i].tenant
  OBVIOUS
<1>1. ASSUME NEW k \in Names, InstallBegin(i, k) PROVE Ledger!Next
  <2>1. PICK known \in BOOLEAN, kinds \in SUBSET AllIncidents : Begins(i, k, known, kinds)
    BY <1>1, BegunStep
  <2>2. /\ spoiled \subseteq spoiled' /\ spoiled' \subseteq spoiled \cup {k}
        /\ \A m \in Names : m # k => mem'[m] = mem[m] /\ disk'[m] \in {disk[m], mem'[m]}
        /\ k \notin spoiled' => kinds = {}
        /\ k \notin spoiled' /\ known = TRUE =>
             disk' = mem' /\ mem'[k] = Meta(None, None)
    <3>1. SaveMeta(k, known, None, None, kinds)
      BY <2>1 DEF Begins
    <3>2. QED
      BY <1>t, <3>1, SavedClean
  <2>3. UNCHANGED <<agent, edge>> /\ configured = TRUE
    BY <1>1, <1>t DEF InstallBegin, Typed, TypeOK
  <2>4. \A m \in Names \ spoiled' : m # k => disk'[m] = disk[m]
    BY <2>2, <2>3, OthersKept
  <2>5. CASE k \in spoiled'
    BY <1>t, <2>2, <2>3, <2>4, <2>5, StillSeats, QuietLedger
  <2>6. CASE k \notin spoiled'
    <3>1. known = TRUE /\ Hosted(k) = {} /\ spoiled' = spoiled
      BY <2>1, <2>2, <2>6 DEF Begins
    <3>2. disk'[k].code = None
      BY <2>2, <2>6, <3>1 DEF Meta
    <3>3. QED
      BY <2>3, <2>4, <2>6, <3>1, <3>2, WrittenStep
  <2>7. QED
    BY <2>5, <2>6
<1>2. CASE PurgeList(i) \/ PollActive(i) \/ InstallFails(i)
  <2>1. UNCHANGED <<agent, edge, disk, spoiled>>
    BY <1>2 DEF PurgeList, PollActive, InstallFails
  <2>2. QED
    BY <1>t, <2>1, StillSeats, QuietLedger
<1>3. CASE PurgeDelete(i)
  <2>1. PICK d \in Registered : edge' = [edge EXCEPT ![d] = Deleted]
    BY <1>3 DEF PurgeDelete
  <2>2. UNCHANGED <<agent, disk, spoiled>>
    BY <1>3 DEF PurgeDelete
  <2>3. QED
    BY <1>t, <2>1, <2>2, DeletedStep
<1>4. ASSUME install[i].pc \in {"purge", "save"}, NEW d, NEW id,
             SaveMeta(n, tenant, d, id, {}), UNCHANGED <<agent, edge>>,
             \/ install[i].pc = "purge" /\ d \in Codes \ Paired
             \/ install[i].pc = "save" /\ d = c
      PROVE  Ledger!Next
  <2>1. /\ n \in Names /\ configured = TRUE /\ tenant \in BOOLEAN
        /\ n \notin spoiled => InstallSees(i, n)
    BY <1>n, <1>t, <1>4, InstallKnows DEF Typed, TypeOK, Installs
  <2>2. PICK kinds : kinds = {}
    OBVIOUS
  <2>3. /\ spoiled \subseteq spoiled' /\ spoiled' \subseteq spoiled \cup {n}
        /\ \A m \in Names : m # n => mem'[m] = mem[m] /\ disk'[m] \in {disk[m], mem'[m]}
        /\ n \notin spoiled' => kinds = {}
        /\ n \notin spoiled' /\ tenant = TRUE => disk' = mem' /\ mem'[n] = Meta(d, id)
    <3>1. SaveMeta(n, tenant, d, id, kinds)
      BY <1>4, <2>2
    <3>2. QED
      BY <1>t, <2>1, <3>1, SavedClean
  <2>4. \A m \in Names \ spoiled' : m # n => disk'[m] = disk[m]
    BY <2>1, <2>3, OthersKept
  <2>5. CASE n \in spoiled'
    BY <1>t, <1>4, <2>3, <2>4, <2>5, StillSeats, QuietLedger
  <2>6. CASE n \notin spoiled'
    <3>1. tenant = TRUE /\ InstallSees(i, n) /\ spoiled' = spoiled
      BY <1>n, <2>1, <2>3, <2>6 DEF InstallSees, Told
    <3>2. disk'[n].code = d
      BY <2>3, <2>6, <3>1 DEF Meta
    <3>3. CASE install[i].pc = "purge" /\ d \in Codes \ Paired
      BY <1>4, <2>1, <2>4, <2>6, <3>1, <3>2, <3>3, WrittenStep DEF InstallSees
    <3>4. CASE install[i].pc = "save" /\ d = c
      <4>1. disk[n].code = d
        BY <1>n, <3>1, <3>4 DEF InstallSees, Remembers
      <4>2. \A m \in Names \ spoiled' : disk'[m].code = disk[m].code
        BY <2>4, <3>2, <4>1
      <4>3. QED
        BY <1>t, <1>4, <2>3, <4>2, StillSeats, QuietLedger
    <3>5. QED
      BY <1>4, <3>3, <3>4
  <2>7. QED
    BY <2>5, <2>6
<1>5. CASE Pair(i)
  <2>1. PICK d \in NewCodes : SaveMeta(install[i].name, install[i].tenant, d, None, {})
    BY <1>5 DEF Pair
  <2>2. SaveMeta(n, tenant, d, None, {})
    BY <1>n, <2>1
  <2>3. d \in Codes \ Paired
    BY DEF NewCodes, Paired
  <2>4. install[i].pc = "purge" /\ UNCHANGED <<agent, edge>>
    BY <1>5 DEF Pair
  <2>5. QED
    BY <1>4, <2>2, <2>3, <2>4
<1>6. CASE SaveResult(i)
  <2>1. /\ SaveMeta(n, tenant, c, c, {})
        /\ install[i].pc = "save" /\ UNCHANGED <<agent, edge>>
    BY <1>6, <1>n DEF SaveResult
  <2>2. QED
    BY <1>4, <2>1
<1>7. CASE RunInstaller(i)
  <2>1. /\ install[i].pc = "exec" /\ agent[n] # "absent" /\ c \in Codes /\ n \in Names
        /\ edge' = [edge EXCEPT ![c] = [status |-> "offline", host |-> n, name |-> Gone]]
        /\ agent' = [agent EXCEPT ![n] = c] /\ UNCHANGED <<disk, spoiled>>
    BY <1>7, <1>n, <1>t DEF RunInstaller, Typed, Underway
  <2>2. edge[c].status = "none" /\ c \notin Registered /\ c # "absent"
    BY <1>n, <2>1, LifecycleAssumption DEF Fresh, Registered
  <2>3. /\ c \notin Paired /\ Paired' = Paired \cup {c}
        /\ c \in Registered' /\ edge'[c].host = n
        /\ \A d \in Codes : d # c => /\ edge'[d] = edge[d]
                                   /\ d \in Registered' <=> d \in Registered
    <3>1. /\ edge'[c] = [status |-> "offline", host |-> n, name |-> Gone]
          /\ \A d \in Codes : d # c => edge'[d] = edge[d]
      BY <1>t, <2>1 DEF Typed, TypeOK, Instances
    <3>2. edge'[c].status = "offline" /\ edge'[c].host = n
      BY <3>1
    <3>3. QED
      BY <2>1, <2>2, <3>1, <3>2 DEF Registered, Instances, Paired
  <2>4. UNCHANGED <<Containers, Book>>
    <3>1. \A m \in Names : agent'[m] = "absent" <=> agent[m] = "absent"
      BY <1>t, <2>1, <2>2 DEF Typed, TypeOK
    <3>2. QED
      BY <2>1, <3>1 DEF Containers, Book
  <2>5. \A d \in Codes : Seat(d)' = IF d = c /\ n \notin spoiled THEN n ELSE Seat(d)
    BY <2>1, <2>2, <2>3 DEF Seat
  <2>6. CASE n \in spoiled
    <3>1. Placed' = Placed
      BY <2>5, <2>6 DEF Placed
    <3>2. QED
      BY <2>1, <2>3, <2>4, <3>1, LedgerSteps DEF Ledger!Next
  <2>7. CASE n \notin spoiled
    <3>1. Hosted(n) = {} /\ Book[n] = c /\ n \in Containers
      <4>1. InstallSees(i, n)
        BY <1>n, <1>t, <2>1, <2>7, InstallKnows
      <4>2. QED
        BY <1>n, <2>1, <2>7, <4>1 DEF InstallSees, Remembers, Book, Containers
    <3>2. Placed' = [Placed EXCEPT ![c] = n]
      BY <2>1, <2>5, <2>7 DEF Placed
    <3>3. Ledger!Register(n)
      BY <2>1, <2>3, <2>4, <3>1, <3>2, EmptyHost, LedgerSteps
    <3>4. QED
      BY <2>1, <3>3 DEF Ledger!Next
  <2>8. QED
    BY <2>6, <2>7
<1>8. CASE Rename(i)
  <2>1. UNCHANGED <<agent, disk, spoiled>>
    BY <1>8 DEF Rename
  <2>2. \A d \in Codes : SameEdge(d)
    BY <1>8, <1>t DEF Rename, SameEdge, Registered, Typed, TypeOK, Edges, Instances
  <2>3. QED
    BY <1>t, <2>1, <2>2, SameSeats, QuietLedger
<1>9. QED
  BY <1>1, <1>2, <1>3, <1>5, <1>6, <1>7, <1>8 DEF InstallStep

(* A step of a removal.                                                    *)
LEMMA RemoveStepLedger ==
  ASSUME Inv, Tidy, Typed', NEW r \in Removers, RemoveStep(r)
  PROVE  Ledger!Next
<1>t. Typed /\ Consistent /\ spoiled' \subseteq Names
  BY DEF Inv, Typed, TypeOK
<1>n. PICK n : n = remove[r].name
  OBVIOUS
<1>1. ASSUME NEW k \in Names, Uninstall(r, k) PROVE Ledger!Next
  <2>1. /\ agent[k] # "absent" /\ agent' = [agent EXCEPT ![k] = "bare"]
        /\ UNCHANGED <<edge, disk>> /\ spoiled \subseteq spoiled'
    BY <1>1 DEF Uninstall, Meets
  <2>2. \A m \in Names : agent'[m] = "absent" <=> agent[m] = "absent"
    BY <1>t, <2>1 DEF Typed, TypeOK
  <2>3. QED
    BY <1>t, <2>1, <2>2, StillSeats, QuietLedger
<1>2. CASE ReadMeta(r) \/ FindEdge(r) \/ RemoveFails(r)
  <2>1. UNCHANGED <<agent, edge, disk>> /\ spoiled \subseteq spoiled'
    BY <1>2 DEF ReadMeta, FindEdge, RemoveFails
  <2>2. QED
    BY <1>t, <2>1, StillSeats, QuietLedger
<1>3. CASE DeleteEdge(r)
  <2>1. PICK c \in Registered : edge' = [edge EXCEPT ![c] = Deleted]
    BY <1>3 DEF DeleteEdge
  <2>2. UNCHANGED <<agent, disk, spoiled>>
    BY <1>3 DEF DeleteEdge
  <2>3. QED
    BY <1>t, <2>1, <2>2, DeletedStep
<1>4. CASE DeleteContainer(r)
  <2>1. /\ Removing(r, n) /\ remove[r].pc = "lxd" /\ agent[n] # "absent"
        /\ UNCHANGED <<disk, spoiled>> /\ agent' = [agent EXCEPT ![n] = "absent"]
        /\ edge' = [c \in Instances |-> IF edge[c].host = n
                                        THEN [edge[c] EXCEPT !.host = Gone] ELSE edge[c]]
    BY <1>4, <1>n DEF DeleteContainer, Removing
  <2>2. n \in Names /\ (n \notin spoiled => RemoveSees(r, n))
    BY <1>t, <2>1, RemoveKnows
  <2>3. \A c \in Codes : /\ edge'[c].status = edge[c].status
                         /\ edge'[c].host = IF edge[c].host = n THEN Gone ELSE edge[c].host
                         /\ c \in Registered' <=> c \in Registered
    BY <1>t, <2>1 DEF Typed, TypeOK, Edges, Registered, Instances
  <2>4. CASE n \in spoiled
    <3>1. Gone \notin spoiled
      BY <1>t, <2>1, LifecycleAssumption
    <3>2. \A c \in Codes : SameSeat(c)
      BY <2>1, <2>3, <2>4, <3>1 DEF SameSeat, Seat
    <3>3. \A m \in Names \ spoiled' : agent'[m] = agent[m]
      BY <1>t, <2>1, <2>4 DEF Typed, TypeOK
    <3>4. QED
      BY <1>t, <2>1, <3>2, <3>3, QuietLedger
  <2>5. CASE n \notin spoiled
    <3>1. Hosted(n) = {}
      BY <2>1, <2>2, <2>5 DEF RemoveSees
    <3>2. n \in Containers /\ Containers' = Containers \ {n}
      BY <1>t, <2>1, <2>2, <2>5 DEF Containers, Typed, TypeOK
    <3>3. UNCHANGED <<Book, Placed, Paired>>
      <4>1. \A c \in Codes : c \in Registered => edge[c].host # n
        BY <3>1 DEF Hosted
      <4>2. \A c \in Codes : Seat(c)' = Seat(c)
        BY <2>1, <2>3, <4>1 DEF Seat
      <4>3. QED
        BY <2>1, <2>3, <4>2 DEF Book, Placed, Paired
    <3>4. Ledger!Destroy(n)
      BY <2>2, <3>1, <3>2, <3>3, EmptyHost, LedgerSteps
    <3>5. QED
      BY <2>2, <3>4 DEF Ledger!Next
  <2>6. QED
    BY <2>4, <2>5
<1>5. CASE Forget(r)
  <2>1. /\ Removing(r, n) /\ remove[r].pc = "meta" /\ UNCHANGED <<agent, edge>>
        /\ mem' = [mem EXCEPT ![n] = NoMeta] /\ Save(n, {})
    BY <1>5, <1>n DEF Forget, Removing
  <2>2. n \in Names /\ configured = TRUE /\ (n \notin spoiled => RemoveSees(r, n))
    BY <1>t, <2>1, RemoveKnows
  <2>3. /\ spoiled \subseteq spoiled' /\ spoiled' \subseteq spoiled \cup {n}
        /\ n \notin spoiled' => disk' = mem'
        /\ disk' = mem' \/ disk' = disk
    BY <2>1 DEF Save, Meets
  <2>4. \A k \in Names : k # n => mem'[k] = mem[k] /\ disk'[k] \in {disk[k], mem'[k]}
    BY <1>t, <2>1, <2>3 DEF Typed, TypeOK
  <2>5. \A m \in Names \ spoiled' : m # n => disk'[m] = disk[m]
    BY <2>2, <2>3, <2>4, OthersKept
  <2>6. CASE n \in spoiled'
    BY <1>t, <2>1, <2>3, <2>5, <2>6, StillSeats, QuietLedger
  <2>7. CASE n \notin spoiled'
    <3>1. spoiled' = spoiled /\ Hosted(n) = {}
      BY <2>1, <2>2, <2>3, <2>7 DEF RemoveSees
    <3>2. disk'[n].code = None
      BY <1>t, <2>1, <2>2, <2>3, <2>7 DEF NoMeta, Typed, TypeOK
    <3>3. QED
      BY <2>1, <2>2, <2>5, <2>7, <3>1, <3>2, WrittenStep
  <2>8. QED
    BY <2>6, <2>7
<1>6. QED
  BY <1>1, <1>2, <1>3, <1>4, <1>5 DEF RemoveStep

(* The handlers, whatever call they stop at and whatever the operator, the *)
(* tenant and the disk do, change the containers that met no incident,     *)
(* their instances and the file only by steps of a ledger.                 *)
THEOREM KeepsALedger == Spec => ImplementsLedger
<1>1. Init => Ledger!Init
  <2>1. Init => /\ Containers = {} /\ Book = [n \in Names |-> None]
                /\ Placed = [c \in Codes |-> Gone] /\ Paired = {}
    BY DEF Init, NoMeta, NoEdge, Containers, Book, Placed, Seat, Paired, Registered, Instances
  <2>2. QED
    BY <2>1 DEF Ledger!Init, Containers, Book, Placed, Seat, Paired
<1>2. ASSUME Inv, Tidy, Fresh, Typed', [Next]_vars
      PROVE  [Ledger!Next]_Ledger!vars
  <2>t. Typed /\ Consistent /\ spoiled \subseteq Names /\ spoiled' \subseteq Names
    BY <1>2 DEF Inv, Typed, TypeOK
  <2>1. ASSUME NEW n \in Names, Launch(n) PROVE Ledger!Next
    <3>1. /\ agent[n] = "absent" /\ agent' = [agent EXCEPT ![n] = "bare"]
          /\ UNCHANGED <<edge, disk>> /\ Hosted(n) = {} /\ n # Gone
      BY <1>2, <2>1, LifecycleAssumption DEF Launch, Tidy, Ground
    <3>2. CASE n \in spoiled'
      <4>1. /\ spoiled \subseteq spoiled'
            /\ \A m \in Names \ spoiled' : agent'[m] = agent[m]
        BY <2>1, <2>t, <3>1, <3>2 DEF Launch, Typed, TypeOK
      <4>2. QED
        BY <2>t, <3>1, <4>1, StillSeats, QuietLedger
    <3>3. CASE n \notin spoiled'
      <4>1. spoiled' = spoiled \ {n}
        BY <2>1, <3>3 DEF Launch
      <4>2. n \notin Containers /\ Containers' = Containers \cup {n}
        BY <2>t, <3>1, <4>1 DEF Containers, Typed, TypeOK
      <4>3. UNCHANGED <<Placed, Paired>>
        <5>1. \A c \in Codes : c \in Registered => edge[c].host # n
          BY <3>1 DEF Hosted
        <5>2. \A c \in Codes : Seat(c)' = Seat(c)
          BY <3>1, <4>1, <5>1 DEF Seat, Registered
        <5>3. QED
          BY <3>1, <5>2 DEF Placed, Paired
      <4>4. /\ Book' = [Book EXCEPT ![n] = disk[n].code]
            /\ disk[n].code \in {None} \cup Codes
        BY <2>t, <3>1, <4>1 DEF Book, Typed, TypeOK, Metas
      <4>5. Ledger!Create(n)
        BY <3>1, <4>2, <4>3, <4>4, EmptyHost, LedgerSteps
      <4>6. QED
        BY <4>5 DEF Ledger!Next
    <3>4. QED
      BY <3>2, <3>3
  <2>2. ASSUME NEW c \in Codes, EdgeUp(c) \/ EdgeDown(c) PROVE Ledger!Next
    <3>1. UNCHANGED <<agent, disk, spoiled>>
      BY <2>2 DEF EdgeUp, EdgeDown
    <3>2. \A d \in Codes : SameEdge(d)
      BY <2>t, <2>2 DEF EdgeUp, EdgeDown, SameEdge, Registered, Typed, TypeOK, Edges, Instances
    <3>3. QED
      BY <2>t, <3>1, <3>2, SameSeats, QuietLedger
  <2>3. ASSUME NEW f \in Foreign, ForeignJoins(f) PROVE Ledger!Next
    <3>1. UNCHANGED <<agent, disk, spoiled>>
      BY <2>3 DEF ForeignJoins
    <3>2. \A d \in Codes : edge'[d] = edge[d]
      BY <2>t, <2>3, LifecycleAssumption DEF ForeignJoins, Typed, TypeOK, Instances
    <3>3. \A d \in Codes : SameEdge(d)
      BY <3>2 DEF SameEdge, Registered, Instances
    <3>4. QED
      BY <2>t, <3>1, <3>3, SameSeats, QuietLedger
  <2>4. CASE Restart \/ UNCHANGED vars
    <3>1. UNCHANGED <<agent, edge, disk, spoiled>>
      BY <2>4 DEF Restart, vars
    <3>2. QED
      BY <2>t, <3>1, StillSeats, QuietLedger
  <2>5. CASE Setup
    <3>1. /\ UNCHANGED <<agent, edge>> /\ spoiled \subseteq spoiled'
          /\ \A m \in Names : disk'[m] = NoMeta
          /\ \A m \in Names \ spoiled' : ~Known(disk[m])
      BY <2>5, <2>t DEF Setup, Known, Typed, TypeOK
    <3>2. \A m \in Names \ spoiled' : disk'[m].code = disk[m].code
      BY <2>t, <3>1 DEF Consistent, Proper, Known, NoMeta
    <3>3. QED
      BY <2>t, <3>1, <3>2, StillSeats, QuietLedger
  <2>6. QED
    BY <1>2, <2>1, <2>2, <2>3, <2>4, <2>5, InstallStepLedger, RemoveStepLedger DEF Next
<1>3. Inv /\ Tidy /\ Fresh /\ [Next]_vars
        => (Inv /\ Tidy /\ Fresh)' /\ [Ledger!Next]_Ledger!vars
  BY <1>2, InvStep, TidyStep, FreshStep DEF Inv
<1>4. QED
  BY <1>1, <1>3, InvInit, TidyInit, FreshInit, PTL DEF Spec, ImplementsLedger, Ledger!Spec

(* What follows from EdgeLedger alone holds of the app: an instance has    *)
(* its container and its entry.                                            *)
LEMMA TraceableStep ==
  ASSUME Ledger!Traceable, [Ledger!Next]_Ledger!vars
  PROVE  Ledger!Traceable'
<1> DEFINE Traced(c) == Placed[c] # Gone => Placed[c] \in Containers /\ Book[Placed[c]] = c
<1>1. \A c \in Codes : Traced(c)
  BY DEF Ledger!Traceable, Placed, Seat, Containers, Book
<1>2. \A n \in Containers : n \in Names /\ n # Gone
  BY LifecycleAssumption DEF Containers
<1>3. \A c \in Codes : Traced(c)'
  <2>1. ASSUME NEW n \in Names, Ledger!Create(n) PROVE \A c \in Codes : Traced(c)'
    <3>1. /\ \A c \in Codes : Placed[c] # n
          /\ Containers' = Containers \cup {n} /\ Placed' = Placed
          /\ \E c : Book' = [Book EXCEPT ![n] = c]
      BY <2>1 DEF Ledger!Create, Ledger!Empty, Containers, Book, Placed, Seat
    <3>2. \A m \in Names : m # n => Book'[m] = Book[m]
      BY <3>1 DEF Book
    <3>3. QED
      BY <1>1, <1>2, <3>1, <3>2
  <2>2. ASSUME NEW n \in Names, Ledger!Write(n) PROVE \A c \in Codes : Traced(c)'
    <3>1. /\ \A c \in Codes : Placed[c] # n
          /\ Containers' = Containers /\ Placed' = Placed
          /\ \E c : Book' = [Book EXCEPT ![n] = c]
      BY <2>2 DEF Ledger!Write, Ledger!Empty, Containers, Book, Placed, Seat
    <3>2. \A m \in Names : m # n => Book'[m] = Book[m]
      BY <3>1 DEF Book
    <3>3. QED
      BY <1>1, <1>2, <3>1, <3>2
  <2>3. ASSUME NEW n \in Names, Ledger!Register(n) PROVE \A c \in Codes : Traced(c)'
    <3>1. /\ n \in Containers /\ Book[n] \in Codes
          /\ Containers' = Containers /\ Book' = Book
          /\ Placed' = [Placed EXCEPT ![Book[n]] = n]
      BY <2>3 DEF Ledger!Register, Containers, Book, Placed, Seat
    <3>2. \A c \in Codes : Placed'[c] = IF c = Book[n] THEN n ELSE Placed[c]
      BY <3>1 DEF Placed
    <3>3. QED
      BY <1>1, <3>1, <3>2
  <2>4. ASSUME NEW d \in Codes, Ledger!Deregister(d) PROVE \A c \in Codes : Traced(c)'
    <3>1. Containers' = Containers /\ Book' = Book /\ Placed' = [Placed EXCEPT ![d] = Gone]
      BY <2>4 DEF Ledger!Deregister, Containers, Book, Placed, Seat
    <3>2. \A c \in Codes : Placed'[c] = IF c = d THEN Gone ELSE Placed[c]
      BY <3>1 DEF Placed
    <3>3. QED
      BY <1>1, <3>1, <3>2
  <2>5. ASSUME NEW n \in Names, Ledger!Destroy(n) PROVE \A c \in Codes : Traced(c)'
    <3>1. /\ \A c \in Codes : Placed[c] # n
          /\ Containers' = Containers \ {n} /\ Book' = Book /\ Placed' = Placed
      BY <2>5 DEF Ledger!Destroy, Ledger!Empty, Containers, Book, Placed, Seat
    <3>2. QED
      BY <1>1, <3>1
  <2>6. ASSUME NEW S \in SUBSET Names, Ledger!Abandon(S) PROVE \A c \in Codes : Traced(c)'
    <3>1. /\ Containers' = Containers \ S
          /\ Book' = [n \in Names |-> IF n \in S THEN None ELSE Book[n]]
          /\ Placed' = [c \in Codes |-> IF Placed[c] \in S THEN Gone ELSE Placed[c]]
      BY <2>6 DEF Ledger!Abandon, Containers, Book, Placed, Seat
    <3>2. QED
      BY <1>1, <1>2, <3>1
  <2>7. ASSUME (\E c \in Codes : Ledger!Stray(c)) \/ UNCHANGED Ledger!vars
        PROVE  \A c \in Codes : Traced(c)'
    <3>1. Containers' = Containers /\ Book' = Book /\ Placed' = Placed
      BY <2>7 DEF Ledger!Stray, Ledger!vars, Containers, Book, Placed, Seat
    <3>2. QED
      BY <1>1, <3>1
  <2>8. QED
    BY <2>1, <2>2, <2>3, <2>4, <2>5, <2>6, <2>7 DEF Ledger!Next
<1>4. QED
  BY <1>3 DEF Ledger!Traceable, Placed, Seat, Containers, Book

(* Wherever an edge instance runs in a container that met no incident, the *)
(* container exists and the file names the instance; so it has no two.     *)
THEOREM EveryInstanceTraceable ==
  Spec => [](/\ Ledger!Traceable
             /\ \A n \in Names \ spoiled : \A c, d \in Hosted(n) \cap Codes : c = d)
<1>1. Init => Ledger!Traceable
  BY DEF Init, NoEdge, Registered, Instances, Ledger!Traceable
<1>2. Ledger!Traceable =>
        \A n \in Names \ spoiled : \A c, d \in Hosted(n) \cap Codes : c = d
  <2> SUFFICES ASSUME Ledger!Traceable, NEW n \in Names \ spoiled, NEW c \in Hosted(n) \cap Codes
               PROVE  disk[n].code = c
    OBVIOUS
  <2>1. c \in Codes /\ c \in Registered /\ edge[c].host = n /\ n # Gone
    BY LifecycleAssumption DEF Hosted, Registered
  <2>2. QED
    BY <2>1 DEF Ledger!Traceable
<1>3. Ledger!Traceable /\ [Ledger!Next]_Ledger!vars => Ledger!Traceable'
  BY TraceableStep
<1>4. Spec => ImplementsLedger
  BY KeepsALedger
<1>5. QED
  BY <1>1, <1>2, <1>3, <1>4, PTL DEF Spec, ImplementsLedger, Ledger!Spec
=============================================================================
