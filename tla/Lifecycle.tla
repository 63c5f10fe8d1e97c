----------------------------- MODULE Lifecycle ------------------------------
(***************************************************************************)
(* A VSatellite's life in three places that no transaction spans: the      *)
(* container, the tenant's edge instances and the app's metadata.  The     *)
(* handlers handleInstall (InstallCCM and InstallNGTS, which take the same *)
(* steps) and handleRemove move it through them one call at a time; a      *)
(* failure, a cancelled request or a restart of the app may come between   *)
(* any two calls.  A pairing code pairs once, so an edge instance is named *)
(* by its code.                                                            *)
(***************************************************************************)
EXTENDS Integers, FiniteSets

CONSTANTS Names,       \* container names
          Codes,       \* pairing codes, hence this app's edge instances
          Foreign,     \* edge instances of the tenant that are not this app's
          Installers,  \* goroutines that serve POST .../install
          Removers,    \* goroutines that serve POST .../delete
          Gone,        \* not a name: the container of an edge no longer exists
          Elsewhere,   \* not a name: where foreign instances run
          None,        \* not a code
          MaxMishaps,  \* bound: restarts, incidents and foreign namesakes
          Incidents    \* bound: the incidents that may happen, see below

(* What an operator, the tenant or the host's disk may do to a container:  *)
(* a request for it while another one works on it, a second install, no    *)
(* account details, a save or a load that fails.                           *)
AllIncidents == {"overlap", "again", "unknown", "unsaved", "unread"}

ASSUME LifecycleAssumption ==
  /\ Gone \notin Names /\ Elsewhere \notin Names \cup {Gone}
  /\ None \notin Codes \cup Foreign /\ Codes \cap Foreign = {}
  /\ {"absent", "bare"} \cap Codes = {}
  /\ MaxMishaps \in Nat
  /\ Incidents \subseteq AllIncidents

VARIABLES agent,      \* per name: "absent", "bare", or the code its agent paired with
          edge,       \* the tenant's edge instances, ours and foreign ones
          mem,        \* s.cfg.ContainerMetadata
          disk,       \* the same in config.enc
          configured, \* s.cfg is not nil
          install,    \* per installer: where handleInstall is
          remove,     \* per remover: where handleRemove is
          mishaps,    \* restarts, incidents and namesakes so far (bounded)
          spoiled     \* history: names whose container met an incident

vars == <<agent, edge, mem, disk, configured, install, remove, mishaps, spoiled>>

(* A container's metadata; what the properties need of it is whether it is *)
(* there (then it holds the tenant's URL and key) and the two identifiers. *)
NoMeta == [known |-> FALSE, code |-> None, id |-> None]
Meta(code, id) == [known |-> TRUE, code |-> code, id |-> id]
Metas == [known : BOOLEAN, code : Codes \cup {None}, id : Codes \cup {None}]

(* An edge instance: "none" before its code pairs, then "offline" or       *)
(* "active" until it is "deleted".  host is the container it runs in, name *)
(* the one renameEdgeInstance, or somebody else, gave it.                  *)
Instances == Codes \cup Foreign
NoEdge == [status |-> "none", host |-> Gone, name |-> Gone]
Deleted == [NoEdge EXCEPT !.status = "deleted"]
Registered == {c \in Instances : edge[c].status \in {"offline", "active"}}
Hosted(n) == {c \in Registered : edge[c].host = n}

InstallIdle == [pc |-> "idle", name |-> Gone, tenant |-> FALSE,
                code |-> None, stale |-> {}]
RemoveIdle == [pc |-> "idle", name |-> Gone, meta |-> NoMeta, target |-> None]

Init ==
  /\ agent = [n \in Names |-> "absent"]
  /\ edge = [c \in Instances |-> NoEdge]
  /\ mem = [n \in Names |-> NoMeta]
  /\ disk = mem /\ configured = TRUE
  /\ install = [i \in Installers |-> InstallIdle]
  /\ remove = [r \in Removers |-> RemoveIdle]
  /\ mishaps = 0 /\ spoiled = {}

(* Container n meets incidents of these kinds, perhaps none.               *)
Meets(n, kinds) ==
  /\ kinds \subseteq Incidents
  /\ \/ kinds = {} /\ UNCHANGED <<mishaps, spoiled>>
     \/ /\ kinds # {} /\ mishaps < MaxMishaps
        /\ mishaps' = mishaps + 1 /\ spoiled' = spoiled \cup {n}

(* store.Save, under s.mu: the file is replaced by what memory holds, or,  *)
(* when that fails, stays as it is and the error is only logged.           *)
Save(n, kinds) ==
  \/ disk' = mem' /\ Meets(n, kinds)
  \/ UNCHANGED disk /\ Meets(n, kinds \cup {"unsaved"})

(* saveContainerMetadata drops metadata without any tenant detail.         *)
SaveMeta(n, tenant, code, id, kinds) ==
  IF tenant
  THEN /\ mem' = [mem EXCEPT ![n] = Meta(code, id)]
       /\ Save(n, kinds)
  ELSE UNCHANGED <<mem, disk>> /\ Meets(n, kinds)

(* Some request works on the container.                                    *)
Busy(n) ==
  \/ \E i \in Installers : install[i].pc # "idle" /\ install[i].name = n
  \/ \E r \in Removers : remove[r].pc # "idle" /\ remove[r].name = n

-----------------------------------------------------------------------------
(* The container appears (module ContainerPool), without a history of its  *)
(* own unless a request for the name is still at work or unsaved.          *)
Launch(n) ==
  /\ configured /\ agent[n] = "absent"
  /\ agent' = [agent EXCEPT ![n] = "bare"]
  /\ spoiled' = IF Busy(n) \/ mem[n] # disk[n] THEN spoiled \cup {n} ELSE spoiled \ {n}
  /\ UNCHANGED <<edge, mem, disk, configured, install, remove, mishaps>>

-----------------------------------------------------------------------------
(* POST /containers/{name}/install.  Nothing checks that the container     *)
(* exists or that no other request works on it.                            *)

InstallGo(i, pc) == install' = [install EXCEPT ![i].pc = pc]

(* probeRegions (or fetchNGTSEnvironment), fetchTenantMetadata, whose      *)
(* error is ignored, and the first OnTenantMetadata.                       *)
InstallBegin(i, n) ==
  /\ configured /\ install[i].pc = "idle"
  /\ \E kinds \in SUBSET {"overlap", "again", "unknown"} :
       /\ "overlap" \in kinds <=> Busy(n)
       /\ "again" \in kinds <=> Hosted(n) # {}
       /\ SaveMeta(n, "unknown" \notin kinds, None, None, kinds)
       /\ install' = [install EXCEPT ![i] =
            [InstallIdle EXCEPT !.pc = "list", !.name = n, !.tenant = "unknown" \notin kinds]]
  /\ UNCHANGED <<agent, edge, configured, remove>>

(* deleteStaleEdgeInstances lists the environment's edge instances and     *)
(* keeps those that are not active and have no services: all of ours that  *)
(* are offline, and any of the others...                                   *)
PurgeList(i) ==
  /\ install[i].pc = "list"
  /\ \E others \in SUBSET (Foreign \cap Registered) :
       install' = [install EXCEPT ![i] =
         [@ EXCEPT !.pc = "purge",
                   !.stale = {c \in Codes : edge[c].status = "offline"} \cup others]]
  /\ UNCHANGED <<agent, edge, mem, disk, configured, remove, mishaps, spoiled>>

(* ... and deletes them one by one, by identifier, whatever they have      *)
(* become since.                                                           *)
PurgeDelete(i) ==
  /\ install[i].pc = "purge"
  /\ \E c \in install[i].stale \cap Registered :
       /\ edge' = [edge EXCEPT ![c] = Deleted]
       /\ install' = [install EXCEPT ![i].stale = @ \ {c}]
  /\ UNCHANGED <<agent, mem, disk, configured, remove, mishaps, spoiled>>

(* A new pairing code: one that never paired and that nothing remembers.   *)
NewCodes ==
  {c \in Codes :
     /\ edge[c].status = "none"
     /\ \A i \in Installers : install[i].code # c
     /\ \A r \in Removers : remove[r].meta.code # c
     /\ \A n \in Names : mem[n].code # c /\ disk[n].code # c}

(* Mutant: the pairing code is not saved before it is used.                *)
PairUnsaved(i) ==
  /\ install[i].pc = "purge" /\ install[i].stale = {}
  /\ \E c \in NewCodes :
       install' = [install EXCEPT ![i] = [@ EXCEPT !.pc = "exec", !.code = c]]
  /\ UNCHANGED <<agent, edge, mem, disk, configured, remove, mishaps, spoiled>>

(* createPairingCode and the second OnTenantMetadata.                      *)
Pair(i) ==
  /\ install[i].pc = "purge" /\ install[i].stale = {}
  /\ \E c \in NewCodes :
       /\ install' = [install EXCEPT ![i] = [@ EXCEPT !.pc = "exec", !.code = c]]
       /\ SaveMeta(install[i].name, install[i].tenant, c, None, {})
  /\ UNCHANGED <<agent, edge, configured, remove>>

(* ensureVSatctl and installVSatellite in the container: the agent pairs,  *)
(* which registers its edge instance.  The command may fail after that.    *)
RunInstaller(i) ==
  LET c == install[i].code
      n == install[i].name IN
  /\ install[i].pc = "exec"
  /\ agent[n] # "absent"
  /\ edge' = [edge EXCEPT ![c] = [status |-> "offline", host |-> n, name |-> Gone]]
  /\ agent' = [agent EXCEPT ![n] = c]
  /\ \/ InstallGo(i, "poll")
     \/ install' = [install EXCEPT ![i] = InstallIdle]
  /\ UNCHANGED <<mem, disk, configured, remove, mishaps, spoiled>>

(* pollActive sees the instance active.                                    *)
PollActive(i) ==
  /\ install[i].pc = "poll"
  /\ edge[install[i].code].status = "active"
  /\ InstallGo(i, "rename")
  /\ UNCHANGED <<agent, edge, mem, disk, configured, remove, mishaps, spoiled>>

(* renameEdgeInstance finds it by its pairing code.  The call may fail     *)
(* after the tenant has renamed it.                                        *)
Rename(i) ==
  LET c == install[i].code IN
  /\ install[i].pc = "rename"
  /\ c \in Registered
  /\ edge' = [edge EXCEPT ![c].name = install[i].name]
  /\ \/ InstallGo(i, "save")
     \/ install' = [install EXCEPT ![i] = InstallIdle]
  /\ UNCHANGED <<agent, mem, disk, configured, remove, mishaps, spoiled>>

(* Mutant: the result's name is saved for its identifier.                  *)
SaveResultName(i) ==
  LET c == install[i].code IN
  /\ install[i].pc = "save"
  /\ SaveMeta(install[i].name, install[i].tenant, c, edge[c].name, {})
  /\ install' = [install EXCEPT ![i] = InstallIdle]
  /\ UNCHANGED <<agent, edge, configured, remove>>

(* The handler saves the result, with the edge instance's identifier.      *)
SaveResult(i) ==
  LET c == install[i].code IN
  /\ install[i].pc = "save"
  /\ SaveMeta(install[i].name, install[i].tenant, c, c, {})
  /\ install' = [install EXCEPT ![i] = InstallIdle]
  /\ UNCHANGED <<agent, edge, configured, remove>>

(* A call fails (the container or the instance is gone, the tenant does    *)
(* not answer), polling times out, or the browser goes away.               *)
InstallFails(i) ==
  /\ install[i].pc \in {"list", "purge", "exec", "poll", "rename"}
  /\ install' = [install EXCEPT ![i] = InstallIdle]
  /\ UNCHANGED <<agent, edge, mem, disk, configured, remove, mishaps, spoiled>>

-----------------------------------------------------------------------------
(* POST /containers/{name}/delete.                                         *)

RemoveGo(r, pc, n) == remove' = [remove EXCEPT ![r] = [RemoveIdle EXCEPT !.pc = pc, !.name = n]]

(* Uninstall runs in the container, and finds an agent there or not.  The  *)
(* command may fail after it has removed the agent.                        *)
Uninstall(r, n) ==
  /\ configured /\ remove[r].pc = "idle"
  /\ agent[n] # "absent"
  /\ Meets(n, IF Busy(n) THEN {"overlap"} ELSE {})
  /\ agent' = [agent EXCEPT ![n] = "bare"]
  /\ RemoveGo(r, "read", n) \/ UNCHANGED remove
  /\ UNCHANGED <<edge, mem, disk, configured, install>>

(* deleteTenantEdgeInstance copies the metadata under the lock and uses it *)
(* after.                                                                  *)
ReadMeta(r) ==
  /\ remove[r].pc = "read"
  /\ remove' = [remove EXCEPT ![r] =
       [@ EXCEPT !.pc = "find", !.meta = mem[remove[r].name]]]
  /\ UNCHANGED <<agent, edge, mem, disk, configured, install, mishaps, spoiled>>

(* Mutant: a missing pairing code matches every instance. *)
MatchesEmptyCode(c, m, n) == m.code \in {None, c} \/ edge[c].name = n

(* DeleteEdgeInstance's match on a listed instance.                        *)
Matches(c, m, n) == (m.code # None /\ c = m.code) \/ edge[c].name = n

(* DeleteEdgeInstance takes the saved identifier, or else lists the whole  *)
(* tenant and takes the first instance that matches, whoever it is of.     *)
Candidates(m, n) ==
  IF ~m.known THEN {}
  ELSE IF m.id # None THEN {m.id}
  ELSE {c \in Registered : Matches(c, m, n)}

Namesake(c, n) == edge[c].name = n /\ edge[c].host # n

(* A namesake taken for the container's own instance is an incident.       *)
FindEdge(r) ==
  LET n == remove[r].name
      found == Candidates(remove[r].meta, n) IN
  /\ remove[r].pc = "find"
  /\ \/ /\ found = {}
        /\ RemoveGo(r, "lxd", n) /\ UNCHANGED spoiled
     \/ \E c \in found :
          /\ remove' = [remove EXCEPT ![r] = [@ EXCEPT !.pc = "edge", !.target = c]]
          /\ spoiled' = IF Namesake(c, n) /\ Hosted(n) # {}
                        THEN spoiled \cup {n} ELSE spoiled
  /\ UNCHANGED <<agent, edge, mem, disk, configured, install, mishaps>>

(* Mutant: an error of the tenant's is only logged.                        *)
DeleteEdgeLoose(r) ==
  LET c == remove[r].target IN
  /\ remove[r].pc = "edge"
  /\ edge' \in {edge, [edge EXCEPT ![c] = Deleted]}
  /\ RemoveGo(r, "lxd", remove[r].name)
  /\ UNCHANGED <<agent, mem, disk, configured, install, mishaps, spoiled>>

(* DELETE v1/edgeinstances/{id}.  For an instance that is gone already the *)
(* answer is an error (RemoveFails).                                       *)
DeleteEdge(r) ==
  LET c == remove[r].target IN
  /\ remove[r].pc = "edge"
  /\ c \in Registered
  /\ edge' = [edge EXCEPT ![c] = Deleted]
  /\ RemoveGo(r, "lxd", remove[r].name)
  /\ UNCHANGED <<agent, mem, disk, configured, install, mishaps, spoiled>>

(* `lxc delete --force`.  It may be reported as failed, or die with the    *)
(* browser's request, after LXD has deleted the container: handleRemove    *)
(* then returns and the metadata stays.                                    *)
DeleteContainer(r) ==
  LET n == remove[r].name IN
  /\ remove[r].pc = "lxd"
  /\ agent[n] # "absent"
  /\ agent' = [agent EXCEPT ![n] = "absent"]
  /\ edge' = [c \in Instances |-> IF edge[c].host = n
                                  THEN [edge[c] EXCEPT !.host = Gone] ELSE edge[c]]
  /\ \/ RemoveGo(r, "meta", n)
     \/ remove' = [remove EXCEPT ![r] = RemoveIdle]
  /\ UNCHANGED <<mem, disk, configured, install, mishaps, spoiled>>

(* removeContainerMetadata. *)
Forget(r) ==
  /\ remove[r].pc = "meta"
  /\ mem' = [mem EXCEPT ![remove[r].name] = NoMeta]
  /\ Save(remove[r].name, {})
  /\ remove' = [remove EXCEPT ![r] = RemoveIdle]
  /\ UNCHANGED <<agent, edge, configured, install>>

(* A call fails, or the browser goes away: the handler shows the error.    *)
RemoveFails(r) ==
  /\ remove[r].pc \in {"read", "find", "edge", "lxd"}
  /\ remove' = [remove EXCEPT ![r] = RemoveIdle]
  /\ UNCHANGED <<agent, edge, mem, disk, configured, install, mishaps, spoiled>>

-----------------------------------------------------------------------------
(* The tenant: an instance of ours whose agent runs comes up, and any may  *)
(* drop; what runs elsewhere comes once, under a name that ours may have.  *)
EdgeUp(c) ==
  /\ edge[c].status = "offline"
  /\ \E n \in Names : agent[n] = c
  /\ edge' = [edge EXCEPT ![c].status = "active"]
  /\ UNCHANGED <<agent, mem, disk, configured, install, remove, mishaps, spoiled>>

EdgeDown(c) ==
  /\ edge[c].status = "active"
  /\ edge' = [edge EXCEPT ![c].status = "offline"]
  /\ UNCHANGED <<agent, mem, disk, configured, install, remove, mishaps, spoiled>>

ForeignJoins(f) ==
  /\ edge[f].status = "none"
  /\ mishaps < MaxMishaps /\ mishaps' = mishaps + 1
  /\ \E name \in Names :
       edge' = [edge EXCEPT ![f] = [status |-> "offline", host |-> Elsewhere, name |-> name]]
  /\ UNCHANGED <<agent, mem, disk, configured, install, remove, spoiled>>

-----------------------------------------------------------------------------
(* The app ends and starts again.  New loads what config.enc holds; when   *)
(* Load fails it ignores the error and goes on as if never set up...       *)
Restart ==
  /\ mishaps < MaxMishaps
  /\ mishaps' = mishaps + 1
  /\ install' = [i \in Installers |-> InstallIdle]
  /\ remove' = [r \in Removers |-> RemoveIdle]
  /\ \/ mem' = disk /\ configured' = TRUE
     \/ /\ "unread" \in Incidents
        /\ mem' = [n \in Names |-> NoMeta] /\ configured' = FALSE
  /\ UNCHANGED <<agent, edge, disk, spoiled>>

(* ... so that /setup, the only page left, saves a configuration that has  *)
(* no metadata over the one that could not be read.                        *)
Setup ==
  /\ ~configured /\ configured' = TRUE
  /\ mem' = [n \in Names |-> NoMeta] /\ disk' = mem'
  /\ spoiled' = spoiled \cup {n \in Names : disk[n].known}
  /\ UNCHANGED <<agent, edge, install, remove, mishaps>>

InstallStep(i) ==
  \/ \E n \in Names : InstallBegin(i, n)
  \/ PurgeList(i) \/ PurgeDelete(i)
  \/ Pair(i) \/ RunInstaller(i) \/ PollActive(i) \/ Rename(i) \/ SaveResult(i)
  \/ InstallFails(i)

RemoveStep(r) ==
  \/ \E n \in Names : Uninstall(r, n)
  \/ ReadMeta(r) \/ FindEdge(r) \/ DeleteEdge(r) \/ DeleteContainer(r) \/ Forget(r)
  \/ RemoveFails(r)

Next ==
  \/ \E n \in Names : Launch(n)
  \/ \E i \in Installers : InstallStep(i)
  \/ \E r \in Removers : RemoveStep(r)
  \/ \E c \in Codes : EdgeUp(c) \/ EdgeDown(c)
  \/ \E f \in Foreign : ForeignJoins(f)
  \/ Restart \/ Setup

Spec == Init /\ [][Next]_vars

(* Handlers go on, an operator asks again and again for a container to be  *)
(* removed, and the tenant and LXD do not fail forever.                    *)
PersistentSpec ==
  /\ Spec
  /\ \A i \in Installers :
       WF_vars(InstallStep(i) /\ \A n \in Names : ~InstallBegin(i, n))
  /\ \A r \in Removers :
       /\ WF_vars(RemoveStep(r) /\ \A n \in Names : ~Uninstall(r, n))
       /\ SF_vars(ReadMeta(r)) /\ SF_vars(FindEdge(r))
       /\ SF_vars(DeleteEdge(r)) /\ SF_vars(DeleteContainer(r))
  /\ \A n \in Names : SF_vars(\E r \in Removers : Uninstall(r, n))

-----------------------------------------------------------------------------
(* Properties.                                                             *)

Edges == [status : {"none", "offline", "active", "deleted"},
          host : Names \cup {Gone, Elsewhere}, name : Names \cup {Gone}]

Installs == [pc : {"idle", "list", "purge", "exec", "poll", "rename", "save"},
             name : Names \cup {Gone}, tenant : BOOLEAN,
             code : Codes \cup {None}, stale : SUBSET Instances]

Removes == [pc : {"idle", "read", "find", "edge", "lxd", "meta"},
            name : Names \cup {Gone}, meta : Metas, target : Instances \cup {None}]

(* Every variable keeps its type; what is saved for an identifier is one.  *)
TypeOK ==
  /\ agent \in [Names -> {"absent", "bare"} \cup Codes]
  /\ edge \in [Instances -> Edges]
  /\ mem \in [Names -> Metas] /\ disk \in [Names -> Metas]
  /\ configured \in BOOLEAN
  /\ install \in [Installers -> Installs]
  /\ remove \in [Removers -> Removes]
  /\ mishaps \in 0..MaxMishaps
  /\ spoiled \in SUBSET Names

(* The metadata of n leads handleRemove to edge instance c.                *)
LeadsTo(m, c, n) == m.known /\ IF m.id # None THEN m.id = c ELSE Matches(c, m, n)

(* config.go keeps the API key "only so remove can clean up the tenant":   *)
(* at every moment of an install, whichever calls fail and whenever the    *)
(* app restarts, the metadata on disk leads to every edge instance that a  *)
(* container has registered, unless the container met an incident.         *)
Cleanable ==
  \A n \in Names \ spoiled : \A c \in Hosted(n) : LeadsTo(disk[n], c, n)

(* A container that met no incident is deleted only when no edge instance  *)
(* of it is registered any more, however often its removal was tried.      *)
NoOrphanMade ==
  [][\A n \in Names \ spoiled :
       agent[n] # "absent" /\ agent'[n] = "absent" => Hosted(n) = {}]_vars

(* "Fully remove a container": deletes its tenant Edge Instance, then the  *)
(* container.  So no registered edge instance outlives its container.      *)
NoOrphans == \A c \in Registered : edge[c].host # Gone

(* A removal never deletes the edge instance of another container of ours, *)
(* whoever overlaps with it, however names are reused and whatever a       *)
(* crash leaves behind; a foreign one, only if it has the removed name.    *)
RemovalSparesOthers ==
  [][\A r \in Removers, c \in Instances :
       remove[r].pc = "edge" /\ remove'[r].pc = "lxd" /\ remove[r].target = c
       => \/ edge[c].host \in {remove[r].name, Gone}
          \/ c \in Foreign /\ edge[c].name = remove[r].name]_vars

(* README: an operator can "force-delete" a container.  So one that exists *)
(* is gone some day if the operator keeps asking.                          *)
Removable == \A n \in Names : agent[n] # "absent" ~> agent[n] = "absent"

(* All of it together: seen from the tenant, the containers that met no    *)
(* incident, their edge instances and the file that says which belongs to  *)
(* which change by whole steps of a ledger, however a handler gets through *)
(* its calls.                                                              *)
Ledger == INSTANCE EdgeLedger WITH
  Nothing <- None,
  Nowhere <- Gone,
  containers <- {n \in Names \ spoiled : agent[n] # "absent"},
  ledger <- [n \in Names |-> IF n \in spoiled THEN None ELSE disk[n].code],
  placed <- [c \in Codes |-> IF c \in Registered /\ edge[c].host \notin spoiled
                             THEN edge[c].host ELSE Gone],
  paired <- {c \in Codes : edge[c].status # "none"}
ImplementsLedger == Ledger!Spec
=============================================================================
