---------------------------- MODULE ConfigStore -----------------------------
(***************************************************************************)
(* The app's configuration: s.cfg in memory, config.enc and config.key on  *)
(* disk.  The first-run setup creates it (handleSetupSubmit, which saves   *)
(* without holding s.mu), every metadata change rewrites it while holding  *)
(* s.mu (saveContainerMetadata, removeContainerMetadata), and a restart    *)
(* reads it back (Store.Load).  Each file is replaced by a rename, but the *)
(* two files are not replaced together, and finding the key and creating   *)
(* it are two steps.                                                       *)
(***************************************************************************)
EXTENDS Integers

CONSTANTS Setups,      \* POST /setup requests, each made once
          Savers,      \* goroutines that change a container's metadata
          None,        \* no file, no configuration
          SetupInTurn, \* bound: no two setup requests overlap
          MaxRev,      \* bound: how often the metadata changes
          MaxRestarts  \* bound: how often the app restarts

ASSUME ConfigAssumption ==
  /\ None \notin Setups \cup Savers
  /\ None \notin [owner : Setups, rev : Nat]
  /\ None \notin [key : Setups \cup Savers, cfg : [owner : Setups, rev : Nat]]
  /\ Setups \cap Savers = {}
  /\ SetupInTurn \in BOOLEAN
  /\ MaxRev \in Nat /\ MaxRestarts \in Nat

VARIABLES key,     \* config.key: who generated it
          file,    \* config.enc: the key it is encrypted with, the contents
          mem,     \* s.cfg
          lock,    \* who holds s.mu for writing over a Save
          writer,  \* per request: where it is, and the key it goes by
          restarts \* restarts of the app so far (bounded)

vars == <<key, file, mem, lock, writer, restarts>>

Writers == Setups \cup Savers

(* A configuration: the setup request whose password hash and session      *)
(* secret it holds, and how often its metadata has changed.                *)
Configs == [owner : Setups, rev : 0..MaxRev]

(* Mutant: a new configuration has no metadata field. *)
NewConfigBare(s) == [owner |-> s]

NewConfig(s) == [owner |-> s, rev |-> 0]

Ready == [pc |-> "ready", key |-> None]
Saving == {"key", "makekey", "write"}

Init ==
  /\ key = None /\ file = None /\ mem = None /\ lock = None
  /\ writer = [w \in Writers |-> Ready]
  /\ restarts = 0

(* Store.Load: there is a blob, and the key that is there decrypts it.     *)
Loadable == file # None /\ key # None /\ file.key = key

GoTo(w, pc) == writer' = [writer EXCEPT ![w].pc = pc]

-----------------------------------------------------------------------------
(* Store.Save, step by step, for whoever calls it.                         *)

(* Mutant: every save generates a key. *)
KeyAlwaysMissing == TRUE

(* loadOrCreateKey, first half: is there a key?                            *)
KeyMissing == key = None

FindKey(w) ==
  /\ writer[w].pc = "key"
  /\ IF KeyMissing
     THEN GoTo(w, "makekey")
     ELSE writer' = [writer EXCEPT ![w] = [pc |-> "write", key |-> key]]
  /\ UNCHANGED <<key, file, mem, lock, restarts>>

(* Second half: generate one and rename it into place.                     *)
MakeKey(w) ==
  /\ writer[w].pc = "makekey"
  /\ key' = w
  /\ writer' = [writer EXCEPT ![w] = [pc |-> "write", key |-> w]]
  /\ UNCHANGED <<file, mem, lock, restarts>>

(* Mutant: what is written is the configuration before the change.         *)
WriteFileBefore(w) ==
  /\ writer[w].pc = "write"
  /\ file' = [key |-> writer[w].key,
              cfg |-> IF w \in Setups THEN NewConfig(w) ELSE [mem EXCEPT !.rev = @ - 1]]
  /\ GoTo(w, "saved")
  /\ UNCHANGED <<key, mem, lock, restarts>>

(* encrypt with the key found or made, and rename the blob into place.     *)
WriteFile(w) ==
  /\ writer[w].pc = "write"
  /\ file' = [key |-> writer[w].key,
              cfg |-> IF w \in Setups THEN NewConfig(w) ELSE mem]
  /\ GoTo(w, "saved")
  /\ UNCHANGED <<key, mem, lock, restarts>>

(* Any step of Save may fail, and then changes nothing.                    *)
SaveFails(w) ==
  /\ writer[w].pc \in Saving
  /\ GoTo(w, "failed")
  /\ UNCHANGED <<key, file, mem, lock, restarts>>

-----------------------------------------------------------------------------
(* POST /setup.                                                            *)

InSetup(s) == writer[s].pc \notin {"ready", "done"}

(* withConfigGate lets the request through while nothing is configured;    *)
(* handleSetupSubmit does not ask again.                                   *)
SetupGate(s) ==
  /\ writer[s].pc = "ready"
  /\ mem = None
  /\ SetupInTurn => \A t \in Setups : ~InSetup(t)
  /\ GoTo(s, "key")
  /\ UNCHANGED <<key, file, mem, lock, restarts>>

(* applyConfig, which waits for s.mu, then the session cookie.             *)
Apply(s) ==
  /\ writer[s].pc = "saved"
  /\ lock = None
  /\ mem' = NewConfig(s)
  /\ GoTo(s, "done")
  /\ UNCHANGED <<key, file, lock, restarts>>

(* Mutant: the configuration is used although it could not be saved.       *)
ApplyAnyway(s) ==
  /\ writer[s].pc = "failed"
  /\ lock = None
  /\ mem' = NewConfig(s)
  /\ GoTo(s, "done")
  /\ UNCHANGED <<key, file, lock, restarts>>

(* The save failed: the form comes back with the error.                    *)
SetupError(s) ==
  /\ writer[s].pc = "failed"
  /\ GoTo(s, "done")
  /\ UNCHANGED <<key, file, mem, lock, restarts>>

-----------------------------------------------------------------------------
(* saveContainerMetadata and removeContainerMetadata.                      *)

(* Take s.mu and change the metadata of the configuration in memory.       *)
ChangeMeta(w) ==
  /\ writer[w].pc = "ready"
  /\ lock = None /\ mem # None
  /\ mem.rev < MaxRev
  /\ mem' = [mem EXCEPT !.rev = @ + 1]
  /\ lock' = w
  /\ GoTo(w, "key")
  /\ UNCHANGED <<key, file, restarts>>

(* Saved or not, the handler goes on; an error is only logged.             *)
Unlock(w) ==
  /\ writer[w].pc \in {"saved", "failed"}
  /\ lock' = None
  /\ writer' = [writer EXCEPT ![w] = Ready]
  /\ UNCHANGED <<key, file, mem, restarts>>

-----------------------------------------------------------------------------
(* The app ends and starts again.  New ignores an error of Load, whatever  *)
(* it is: no files, files that do not decrypt, or files that are as they   *)
(* should be and could not be read.  The app is then as if it had never    *)
(* been set up.                                                            *)
Restart ==
  /\ restarts < MaxRestarts
  /\ restarts' = restarts + 1
  /\ mem' \in {IF Loadable THEN file.cfg ELSE None, None}
  /\ lock' = None
  /\ writer' = [w \in Writers |->
       IF w \in Setups /\ writer[w].pc # "ready"
       THEN [pc |-> "done", key |-> None] ELSE Ready]
  /\ UNCHANGED <<key, file>>

SaveStep(w) == FindKey(w) \/ MakeKey(w) \/ WriteFile(w) \/ SaveFails(w)

SetupStep(s) == SetupGate(s) \/ Apply(s) \/ SetupError(s)

MetaStep(w) == ChangeMeta(w) \/ Unlock(w)

Next ==
  \/ \E w \in Writers : SaveStep(w)
  \/ \E s \in Setups : SetupStep(s)
  \/ \E w \in Savers : MetaStep(w)
  \/ Restart

Spec == Init /\ [][Next]_vars

-----------------------------------------------------------------------------
(* Properties.                                                             *)

TypeOK ==
  /\ key \in Writers \cup {None}
  /\ file \in [key : Writers, cfg : Configs] \cup {None}
  /\ mem \in Configs \cup {None}
  /\ lock \in Savers \cup {None}
  /\ writer \in [Writers -> [pc : {"ready", "saved", "failed", "done"} \cup Saving,
                             key : Writers \cup {None}]]
  /\ restarts \in 0..MaxRestarts

(* What an operator set up is safe: with no setup under way, the files     *)
(* decrypt to the password and session secret in use, at every step of a   *)
(* metadata change and after any failed save or crash.                     *)
Reloads ==
  mem # None /\ (\A s \in Setups : ~InSetup(s))
    => Loadable /\ file.cfg.owner = mem.owner

(* Once the files decrypt they always do, whatever is being written.       *)
StaysLoadable == [][Loadable => Loadable']_vars

(* architecture.md: "once configured, /setup -> /".  So a running app's    *)
(* password and session secret are never replaced by another setup.        *)
SetupOnce == [][mem # None /\ mem' # None => mem'.owner = mem.owner]_vars

(* All of it together: seen from outside, two files, a key and a lock are  *)
(* one configuration in use and one that a restart goes back to, unless it *)
(* cannot read it; and only the newest changes of metadata are ever lost.  *)
Durable == INSTANCE DurableConfig WITH
  Owners <- Setups,
  Nothing <- None,
  used <- mem,
  saved <- IF Loadable THEN file.cfg ELSE None
ImplementsDurable == Durable!Spec
=============================================================================
