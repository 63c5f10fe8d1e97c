------------------------- MODULE ConfigStore_proofs -------------------------
(***************************************************************************)
(* Proofs about ConfigStore, for every number of setup requests, savers,   *)
(* changes and restarts, those that cannot read the files included: typing *)
(* and, when setup requests come in turn, that the files always decrypt to *)
(* the configuration in use and that the store is the durable              *)
(* configuration DurableConfig describes.  Without that assumption the     *)
(* last two are false: config_setup_once shows how an overlap begins.      *)
(***************************************************************************)
EXTENDS ConfigStore, TLAPS

(* What holds of setups that overlap, too: whoever saves a metadata change *)
(* holds s.mu and has a configuration to save, and who writes has a key.   *)
OneSaver ==
  \A w \in Savers : writer[w].pc \in Saving \cup {"saved", "failed"} => lock = w
SaverHasConfig == lock # None => mem # None
WriterHasKey == \A w \in Writers : writer[w].pc = "write" => writer[w].key # None
Typed == TypeOK /\ OneSaver /\ SaverHasConfig /\ WriterHasKey

(* Every step of a setup, a change, a save or a restart keeps the types.   *)
LEMMA TypedStep == Typed /\ [Next]_vars => Typed'
<1> USE ConfigAssumption DEF Writers, Configs, Ready, Saving, NewConfig
<1> SUFFICES ASSUME Typed, [Next]_vars PROVE Typed'
  OBVIOUS
<1> USE DEF Typed, TypeOK, OneSaver, SaverHasConfig, WriterHasKey
<1>1. ASSUME NEW w \in Writers, SaveStep(w) PROVE Typed'
  <2>1. CASE FindKey(w)
    BY <2>1 DEF FindKey, GoTo, KeyMissing
  <2>2. CASE MakeKey(w)
    BY <2>2 DEF MakeKey
  <2>3. CASE WriteFile(w)
    <3>1. writer[w].key \in Writers
      BY <2>3 DEF WriteFile
    <3>2. w \notin Setups => mem \in Configs
      BY <2>3 DEF WriteFile
    <3>3. file' \in [key : Writers, cfg : Configs]
      BY <2>3, <3>1, <3>2 DEF WriteFile
    <3>4. QED
      BY <2>3, <3>3 DEF WriteFile, GoTo
  <2>4. CASE SaveFails(w)
    BY <2>4 DEF SaveFails, GoTo
  <2>5. QED
    BY <1>1, <2>1, <2>2, <2>3, <2>4 DEF SaveStep
<1>2. ASSUME NEW s \in Setups, SetupStep(s) PROVE Typed'
  BY <1>2 DEF SetupStep, SetupGate, Apply, SetupError, GoTo
<1>3. ASSUME NEW w \in Savers, MetaStep(w) PROVE Typed'
  <2>1. CASE ChangeMeta(w)
    <3>1. mem' \in Configs /\ mem' # None
      BY <2>1 DEF ChangeMeta
    <3>2. QED
      BY <2>1, <3>1 DEF ChangeMeta, GoTo
  <2>2. CASE Unlock(w)
    BY <2>2 DEF Unlock
  <2>3. QED
    BY <1>3, <2>1, <2>2 DEF MetaStep
<1>4. CASE Restart
  BY <1>4 DEF Restart, Loadable
<1>5. CASE UNCHANGED vars
  BY <1>5 DEF vars
<1>6. QED
  BY <1>1, <1>2, <1>3, <1>4, <1>5 DEF Next

(* Every variable keeps its type.                                          *)
THEOREM Typing == Spec => []TypeOK
<1>1. Init => Typed
  BY ConfigAssumption DEF Init, Typed, TypeOK, OneSaver, SaverHasConfig, WriterHasKey,
     Writers, Configs, Ready, Saving
<1>2. QED
  BY <1>1, TypedStep, PTL DEF Spec, Typed

-----------------------------------------------------------------------------
(* What makes Reloads inductive when setup requests come in turn.          *)

(* At most one setup is under way, and only while nothing is configured,   *)
(* so that it never meets a metadata change.                               *)
OneSetup ==
  /\ \A s, t \in Setups : InSetup(s) /\ InSetup(t) => s = t
  /\ \A s \in Setups : InSetup(s) => mem = None

(* Whoever is about to create a key knows that there is none; whoever is   *)
(* about to write the blob holds the key of the key file.                  *)
KeyKnown ==
  \A w \in Writers :
    /\ writer[w].pc = "makekey" => key = None
    /\ writer[w].pc = "write" => writer[w].key = key

(* The files agree with the configuration in memory, or with the one a     *)
(* setup has just saved.                                                   *)
FilesAgree ==
  /\ mem # None => Loadable /\ file.cfg.owner = mem.owner
  /\ \A s \in Setups :
       writer[s].pc = "saved" => Loadable /\ file.cfg = NewConfig(s)

InTurnInv == Typed /\ OneSetup /\ KeyKnown /\ FilesAgree

(* No two requests are saving at the same time.                            *)
LEMMA OneWriter ==
  ASSUME Typed, OneSetup, NEW v \in Writers, NEW w \in Writers,
         writer[v].pc \in Saving, writer[w].pc \in Saving
  PROVE  v = w
<1> USE ConfigAssumption DEF Typed, OneSetup, OneSaver, SaverHasConfig, TypeOK
<1>1. ASSUME NEW u \in Savers, writer[u].pc \in Saving PROVE lock = u /\ mem # None
  BY <1>1 DEF Saving
<1>2. ASSUME NEW u \in Setups, writer[u].pc \in Saving PROVE InSetup(u)
  BY <1>2 DEF Saving, InSetup
<1>3. QED
  BY <1>1, <1>2 DEF Writers

(* One lemma for the steps of Store.Save, one for the rest.                *)
LEMMA SaveStepAgrees ==
  ASSUME InTurnInv, NEW w \in Writers, SaveStep(w)
  PROVE  /\ (OneSetup /\ KeyKnown /\ FilesAgree)'
         /\ Loadable => Loadable'
<1> USE ConfigAssumption DEF InTurnInv, Typed, TypeOK
<1>1. CASE FindKey(w)
  <2>1. FilesAgree'
    BY <1>1 DEF FindKey, GoTo, KeyMissing, FilesAgree, Loadable, Writers
  <2>2. KeyKnown'
    BY <1>1 DEF FindKey, GoTo, KeyMissing, KeyKnown
  <2>3. OneSetup'
    BY <1>1 DEF FindKey, GoTo, OneSetup, InSetup, Writers
  <2>4. QED
    BY <1>1, <2>1, <2>2, <2>3 DEF FindKey, Loadable
<1>2. CASE MakeKey(w)
  <2>1. key = None /\ ~Loadable
    BY <1>2 DEF MakeKey, KeyKnown, Loadable
  <2>2. FilesAgree'
    BY <1>2, <2>1 DEF MakeKey, FilesAgree, Writers
  <2>3. KeyKnown'
    BY <1>2, <2>1, OneWriter DEF MakeKey, KeyKnown, Saving, Writers
  <2>4. OneSetup'
    BY <1>2 DEF MakeKey, OneSetup, InSetup, Writers
  <2>5. QED
    BY <2>1, <2>2, <2>3, <2>4
<1>3. CASE WriteFile(w)
  <2>1. writer[w].key = key /\ key \in Writers
    BY <1>3 DEF WriteFile, KeyKnown, WriterHasKey
  <2>2. file' = [key |-> key, cfg |-> IF w \in Setups THEN NewConfig(w) ELSE mem]
    BY <1>3, <2>1 DEF WriteFile
  <2>3. (IF w \in Setups THEN NewConfig(w) ELSE mem) \in [owner : Setups, rev : Nat]
    <3>1. w \notin Setups => mem \in Configs
      BY <1>3 DEF WriteFile, OneSaver, SaverHasConfig, Writers
    <3>2. QED
      BY <3>1 DEF NewConfig, Configs
  <2>4. Loadable'
    <3>1. file' # None
      BY <2>1, <2>2, <2>3 DEF Writers
    <3>2. key' # None /\ file'.key = key'
      BY <1>3, <2>1, <2>2 DEF WriteFile, Writers
    <3>3. QED
      BY <3>1, <3>2 DEF Loadable
  <2>5. FilesAgree'
    <3>1. CASE w \in Setups
      <4>1. mem' = None /\ file'.cfg = NewConfig(w)
        BY <1>3, <2>2, <3>1 DEF WriteFile, OneSetup, InSetup
      <4>2. ASSUME NEW s \in Setups, writer'[s].pc = "saved" PROVE s = w
        BY <1>3, <3>1, <4>2 DEF WriteFile, GoTo, OneSetup, InSetup, Writers
      <4>3. QED
        BY <2>4, <4>1, <4>2 DEF FilesAgree, NewConfig
    <3>2. CASE w \in Savers
      <4>1. mem' = mem /\ mem # None /\ file'.cfg = mem
        BY <1>3, <2>2, <3>2 DEF WriteFile, OneSaver, SaverHasConfig
      <4>2. \A s \in Setups : writer'[s].pc # "saved"
        BY <1>3, <3>2, <4>1 DEF WriteFile, GoTo, OneSetup, InSetup, Writers
      <4>3. QED
        BY <2>4, <4>1, <4>2 DEF FilesAgree
    <3>3. QED
      BY <3>1, <3>2 DEF Writers
  <2>6. KeyKnown'
    BY <1>3 DEF WriteFile, GoTo, KeyKnown
  <2>7. OneSetup'
    BY <1>3 DEF WriteFile, GoTo, OneSetup, InSetup, Writers
  <2>8. QED
    BY <2>4, <2>5, <2>6, <2>7
<1>4. CASE SaveFails(w)
  <2>1. FilesAgree'
    BY <1>4 DEF SaveFails, GoTo, FilesAgree, Loadable, Writers
  <2>2. KeyKnown'
    BY <1>4 DEF SaveFails, GoTo, KeyKnown
  <2>3. OneSetup'
    BY <1>4 DEF SaveFails, GoTo, OneSetup, InSetup, Saving, Writers
  <2>4. QED
    BY <1>4, <2>1, <2>2, <2>3 DEF SaveFails, Loadable
<1>5. QED
  BY <1>1, <1>2, <1>3, <1>4 DEF SaveStep

(* A step that is not part of a save keeps files and memory together.      *)
LEMMA OtherStepAgrees ==
  ASSUME InTurnInv, SetupInTurn,
         \/ \E s \in Setups : SetupStep(s)
         \/ \E w \in Savers : MetaStep(w)
         \/ Restart
         \/ UNCHANGED vars
  PROVE  /\ (OneSetup /\ KeyKnown /\ FilesAgree)'
         /\ Loadable => Loadable'
<1> USE ConfigAssumption DEF InTurnInv, Typed, TypeOK, OneSetup, KeyKnown, FilesAgree,
        InSetup, Writers, Configs
<1>1. ASSUME NEW s \in Setups, SetupGate(s)
      PROVE  (OneSetup /\ KeyKnown /\ FilesAgree)'
  BY <1>1 DEF SetupGate, GoTo, Loadable
<1>2. ASSUME NEW s \in Setups, Apply(s)
      PROVE  (OneSetup /\ KeyKnown /\ FilesAgree)'
  BY <1>2 DEF Apply, GoTo, Loadable, NewConfig
<1>3. ASSUME NEW s \in Setups, SetupError(s)
      PROVE  (OneSetup /\ KeyKnown /\ FilesAgree)'
  BY <1>3 DEF SetupError, GoTo, Loadable
<1>4. ASSUME NEW w \in Savers, ChangeMeta(w)
      PROVE  (OneSetup /\ KeyKnown /\ FilesAgree)'
  BY <1>4 DEF ChangeMeta, GoTo, Loadable
<1>5. ASSUME NEW w \in Savers, Unlock(w)
      PROVE  (OneSetup /\ KeyKnown /\ FilesAgree)'
  BY <1>5 DEF Unlock, Ready, Loadable
<1>6. CASE Restart
  BY <1>6 DEF Restart, Ready, Loadable
<1>7. CASE UNCHANGED vars
  BY <1>7 DEF vars, Loadable
<1>8. Loadable' = Loadable
  BY <1>6, <1>7 DEF SetupStep, SetupGate, Apply, SetupError, MetaStep, ChangeMeta,
     Unlock, Restart, vars, Loadable
<1>9. QED
  BY <1>1, <1>2, <1>3, <1>4, <1>5, <1>6, <1>7, <1>8 DEF SetupStep, MetaStep

(* Every step keeps the invariant, and keeps loadable files loadable.      *)
LEMMA InTurnStep ==
  ASSUME SetupInTurn
  PROVE  InTurnInv /\ [Next]_vars => InTurnInv' /\ (Loadable => Loadable')
<1> SUFFICES ASSUME InTurnInv, [Next]_vars
             PROVE  InTurnInv' /\ (Loadable => Loadable')
  OBVIOUS
<1>1. Typed'
  BY TypedStep DEF InTurnInv
<1>2. (OneSetup /\ KeyKnown /\ FilesAgree)' /\ (Loadable => Loadable')
  BY SaveStepAgrees, OtherStepAgrees DEF Next
<1>3. QED
  BY <1>1, <1>2 DEF InTurnInv

(* Before the first setup there is nothing to disagree.                    *)
LEMMA InTurnInit == Init => InTurnInv
BY ConfigAssumption DEF Init, InTurnInv, Typed, TypeOK, OneSaver, SaverHasConfig,
   WriterHasKey, OneSetup, KeyKnown, FilesAgree, InSetup, Loadable,
   Writers, Configs, Ready, Saving

(* What an operator set up survives a restart, at every step of a metadata *)
(* change and after any failed save or crash, when setup requests come in  *)
(* turn.                                                                   *)
THEOREM SetupSurvives ==
  ASSUME SetupInTurn
  PROVE  Spec => []Reloads
<1>1. InTurnInv /\ [Next]_vars => InTurnInv'
  BY InTurnStep
<1>2. InTurnInv => Reloads
  BY DEF InTurnInv, FilesAgree, Reloads
<1>3. QED
  BY <1>1, <1>2, InTurnInit, PTL DEF Spec

(* Once the files decrypt they always do, when setup requests come in      *)
(* turn: no save and no crash in it ever makes them undecipherable.        *)
THEOREM FilesStayLoadable ==
  ASSUME SetupInTurn
  PROVE  Spec => StaysLoadable
<1>1. InTurnInv /\ [Next]_vars => InTurnInv' /\ [Loadable => Loadable']_vars
  BY InTurnStep
<1>2. QED
  BY <1>1, InTurnInit, PTL DEF Spec, StaysLoadable

(* While a configuration is in use, no step changes whose it is, and none  *)
(* takes it away but a restart that cannot read it and leaves it on disk.  *)
LEMMA OwnerKept ==
  ASSUME SetupInTurn, InTurnInv, [Next]_vars, mem # None
  PROVE  \/ mem' # None /\ mem'.owner = mem.owner
         \/ /\ restarts' # restarts /\ mem' = None
            /\ Loadable' /\ file'.cfg.owner = mem.owner
<1> USE ConfigAssumption DEF InTurnInv, Typed, TypeOK
<1>1. mem \in Configs
  OBVIOUS
<1>2. ASSUME NEW w \in Writers, SaveStep(w) PROVE mem' = mem
  BY <1>2 DEF SaveStep, FindKey, MakeKey, WriteFile, SaveFails
<1>3. ASSUME NEW s \in Setups, SetupStep(s) PROVE mem' = mem
  <2>1. ~Apply(s)
    BY DEF Apply, OneSetup, InSetup
  <2>2. QED
    BY <1>3, <2>1 DEF SetupStep, SetupGate, SetupError
<1>4. ASSUME NEW w \in Savers, MetaStep(w)
      PROVE  mem' # None /\ mem'.owner = mem.owner
  <2>1. CASE ChangeMeta(w)
    <3>1. mem' = [mem EXCEPT !.rev = mem.rev + 1] /\ mem.rev + 1 \in Nat
      BY <2>1, <1>1 DEF ChangeMeta, Configs
    <3>2. mem' \in [owner : Setups, rev : Nat] /\ mem'.owner = mem.owner
      BY <1>1, <3>1 DEF Configs
    <3>3. QED
      BY <3>2
  <2>2. CASE Unlock(w)
    BY <2>2 DEF Unlock
  <2>3. QED
    BY <1>4, <2>1, <2>2 DEF MetaStep
<1>5. CASE Restart
  <2>1. Loadable /\ file.cfg.owner = mem.owner
    BY DEF FilesAgree
  <2>2. /\ mem' = file.cfg \/ mem' = None
        /\ restarts' # restarts /\ UNCHANGED <<key, file>>
    BY <1>5, <2>1 DEF Restart
  <2>3. file.cfg \in [owner : Setups, rev : Nat]
    BY <2>1 DEF Loadable, Configs
  <2>4. Loadable' /\ file'.cfg.owner = mem.owner
    BY <2>1, <2>2 DEF Loadable
  <2>5. QED
    BY <2>1, <2>2, <2>3, <2>4
<1>6. CASE UNCHANGED vars
  BY <1>6 DEF vars
<1>7. QED
  BY <1>2, <1>3, <1>4, <1>5, <1>6 DEF Next

-----------------------------------------------------------------------------
(* The refinement of DurableConfig.  What a restart would read is a        *)
(* configuration, or None.                                                 *)
Safe == IF Loadable THEN file.cfg ELSE None

(* A blob has its key beside it.                                           *)
FileFits == file # None => file.key = key

DurableInv == InTurnInv /\ FileFits

(* The steps of DurableConfig, in the variables of the store.              *)
LEMMA DurableSteps ==
  /\ UNCHANGED <<mem, Safe>> => UNCHANGED Durable!vars
  /\ mem = None /\ UNCHANGED mem /\ (\E s \in Setups : Safe' = NewConfig(s))
     => Durable!Setup
  /\ mem' = Safe /\ UNCHANGED Safe => Durable!Adopt
  /\ mem' = None /\ UNCHANGED Safe => Durable!Unread
  /\ mem # None /\ mem' = [mem EXCEPT !.rev = @ + 1] /\ UNCHANGED Safe => Durable!Change
  /\ mem # None /\ Safe' = mem /\ UNCHANGED mem => Durable!Save
BY DEF Safe, NewConfig, Durable!vars, Durable!Setup, Durable!Adopt, Durable!Unread,
       Durable!Change, Durable!Save

(* A step of Store.Save changes what is safe only when it writes the blob. *)
LEMMA SaveStepDurable ==
  ASSUME DurableInv, NEW w \in Writers, SaveStep(w)
  PROVE  FileFits' /\ [Durable!Next]_Durable!vars
<1> USE ConfigAssumption DEF DurableInv, InTurnInv, Typed, TypeOK
<1>1. CASE FindKey(w) \/ SaveFails(w)
  <2>1. UNCHANGED <<key, file, mem>>
    BY <1>1 DEF FindKey, SaveFails
  <2>2. Safe' = Safe /\ FileFits'
    BY <2>1 DEF Safe, Loadable, FileFits
  <2>3. QED
    BY <2>1, <2>2, DurableSteps
<1>2. CASE MakeKey(w)
  <2>1. key = None
    BY <1>2 DEF MakeKey, KeyKnown
  <2>2. file = None
    BY <2>1 DEF FileFits, Writers
  <2>3. file' = None /\ mem' = mem
    BY <1>2, <2>2 DEF MakeKey
  <2>4. Safe = None /\ Safe' = None
    BY <2>2, <2>3 DEF Loadable, Safe
  <2>5. QED
    BY <2>3, <2>4, DurableSteps DEF FileFits
<1>3. CASE WriteFile(w)
  <2>1. /\ writer[w].key = key /\ key \in Writers /\ UNCHANGED <<key, mem>>
        /\ file' = [key |-> key, cfg |-> IF w \in Setups THEN NewConfig(w) ELSE mem]
    BY <1>3 DEF WriteFile, KeyKnown, WriterHasKey
  <2>2. w \notin Setups => mem \in Configs /\ mem # None
    BY <1>3 DEF WriteFile, OneSaver, SaverHasConfig, Writers, Saving
  <2>3. (IF w \in Setups THEN NewConfig(w) ELSE mem) \in [owner : Setups, rev : Nat]
    BY <2>2 DEF NewConfig, Configs
  <2>4. Loadable' /\ FileFits'
    <3>1. file' # None /\ key' # None /\ file'.key = key'
      BY <2>1, <2>3 DEF Writers
    <3>2. QED
      BY <3>1 DEF Loadable, FileFits
  <2>5. Safe' = IF w \in Setups THEN NewConfig(w) ELSE mem
    BY <2>1, <2>4 DEF Safe
  <2>6. CASE w \in Setups
    <3>1. mem = None
      BY <1>3, <2>6 DEF WriteFile, OneSetup, InSetup
    <3>2. QED
      BY <2>1, <2>4, <2>5, <2>6, <3>1, DurableSteps DEF Durable!Next
  <2>7. CASE w \notin Setups
    BY <2>1, <2>2, <2>4, <2>5, <2>7, DurableSteps DEF Durable!Next
  <2>8. QED
    BY <2>6, <2>7
<1>4. QED
  BY <1>1, <1>2, <1>3 DEF SaveStep

(* Any other step leaves the files alone.                                  *)
LEMMA OtherStepDurable ==
  ASSUME DurableInv,
         \/ \E s \in Setups : SetupStep(s)
         \/ \E w \in Savers : MetaStep(w)
         \/ Restart
         \/ UNCHANGED vars
  PROVE  FileFits' /\ [Durable!Next]_Durable!vars
<1> USE ConfigAssumption DEF DurableInv, InTurnInv, Typed, TypeOK
<1>1. UNCHANGED <<key, file>> /\ Safe' = Safe /\ FileFits'
  <2>1. UNCHANGED <<key, file>>
    BY DEF SetupStep, SetupGate, Apply, SetupError, MetaStep, ChangeMeta, Unlock,
       Restart, vars
  <2>2. QED
    BY <2>1 DEF Safe, Loadable, FileFits
<1>2. ASSUME NEW s \in Setups, Apply(s) PROVE Durable!Adopt
  <2>1. Loadable /\ file.cfg = NewConfig(s)
    BY <1>2 DEF Apply, FilesAgree
  <2>2. mem' = Safe
    BY <1>2, <2>1 DEF Apply, Safe
  <2>3. QED
    BY <1>1, <2>2, DurableSteps
<1>3. ASSUME NEW s \in Setups, SetupStep(s) PROVE [Durable!Next]_Durable!vars
  <2>1. ~Apply(s) => UNCHANGED mem
    BY <1>3 DEF SetupStep, SetupGate, SetupError
  <2>2. QED
    BY <1>1, <1>2, <2>1, DurableSteps DEF Durable!Next
<1>4. ASSUME NEW w \in Savers, MetaStep(w) PROVE [Durable!Next]_Durable!vars
  <2>1. CASE ChangeMeta(w)
    BY <1>1, <2>1, DurableSteps DEF ChangeMeta, Durable!Next
  <2>2. CASE Unlock(w)
    BY <1>1, <2>2, DurableSteps DEF Unlock
  <2>3. QED
    BY <1>4, <2>1, <2>2 DEF MetaStep
<1>5. CASE Restart
  <2>1. mem' = Safe \/ mem' = None
    BY <1>5 DEF Restart, Safe
  <2>2. QED
    BY <1>1, <2>1, DurableSteps DEF Durable!Next
<1>6. CASE UNCHANGED vars
  BY <1>1, <1>6, DurableSteps DEF vars
<1>7. QED
  BY <1>1, <1>3, <1>4, <1>5, <1>6

LEMMA DurableStart == Init => DurableInv /\ Durable!Init
BY InTurnInit DEF Init, DurableInv, FileFits, Loadable, Durable!Init

LEMMA DurableStep ==
  ASSUME SetupInTurn, DurableInv, [Next]_vars
  PROVE  DurableInv' /\ [Durable!Next]_Durable!vars
<1>1. InTurnInv'
  BY InTurnStep DEF DurableInv
<1>2. FileFits' /\ [Durable!Next]_Durable!vars
  BY SaveStepDurable, OtherStepDurable DEF Next
<1>3. QED
  BY <1>1, <1>2 DEF DurableInv

(* With setup requests in turn, two files, a key made on the way and a     *)
(* lock that setup does not take behave as one durable configuration, also *)
(* over starts that cannot read it and the setups these make possible.     *)
THEOREM StoreIsDurable ==
  ASSUME SetupInTurn
  PROVE  Spec => ImplementsDurable
<1>1. Init => DurableInv /\ Durable!Init
  BY DurableStart
<1>2. DurableInv /\ [Next]_vars => DurableInv' /\ [Durable!Next]_Durable!vars
  BY DurableStep
<1>3. QED
  BY <1>1, <1>2, PTL DEF Spec, ImplementsDurable, Durable!Spec

(* So, with the types of the store, what follows from DurableConfig alone  *)
(* holds of it.                                                            *)
LEMMA DurableTypes ==
  DurableInv => /\ mem \in [owner : Setups, rev : Nat] \cup {None}
                /\ Safe \in [owner : Setups, rev : Nat] \cup {None}
                /\ Loadable => Safe = file.cfg /\ Safe # None
                /\ ~Loadable => Safe = None
BY ConfigAssumption DEF DurableInv, InTurnInv, Typed, TypeOK, Configs, Safe, Loadable

NotBack ==
  Safe # None =>
    /\ Safe' # None
    /\ mem # None => Safe'.owner = Safe.owner /\ Safe.rev <= Safe'.rev

LEMMA AheadStep ==
  ASSUME DurableInv, DurableInv', Durable!Ahead, [Durable!Next]_Durable!vars
  PROVE  Durable!Ahead' /\ NotBack
<1> DEFINE Config == [owner : Setups, rev : Nat]
<1>1. /\ mem \in Config \cup {None} /\ mem' \in Config \cup {None}
      /\ Safe \in Config \cup {None} /\ Safe' \in Config \cup {None}
      /\ None \notin Config
  <2>1. /\ mem \in Config \cup {None} /\ Safe \in Config \cup {None}
    BY DurableTypes
  <2>2. (mem \in Config \cup {None} /\ Safe \in Config \cup {None})'
    BY DurableTypes, PTL
  <2>3. QED
    BY <2>1, <2>2, ConfigAssumption
<1>2. mem # None => Safe # None /\ Safe.owner = mem.owner /\ Safe.rev <= mem.rev
  BY DEF Durable!Ahead, Safe
<1>3. /\ mem' # None => Safe' # None /\ Safe'.owner = mem'.owner /\ Safe'.rev <= mem'.rev
      /\ NotBack
  <2>1. CASE Durable!Setup
    <3>1. /\ mem = None /\ mem' = None
          /\ \E o \in Setups : Safe' = [owner |-> o, rev |-> 0]
      BY <2>1 DEF Durable!Setup, Safe
    <3>2. Safe' # None
      BY <1>1, <3>1
    <3>3. QED
      BY <3>1, <3>2 DEF NotBack
  <2>2. CASE Durable!Adopt
    <3>1. mem' = Safe /\ Safe' = Safe
      BY <2>2 DEF Durable!Adopt, Safe
    <3>2. QED
      BY <1>1, <3>1 DEF NotBack
  <2>3. CASE Durable!Unread
    <3>1. mem' = None /\ Safe' = Safe
      BY <2>3 DEF Durable!Unread, Safe
    <3>2. QED
      BY <1>1, <3>1 DEF NotBack
  <2>4. CASE Durable!Change
    <3>1. mem # None /\ mem' = [mem EXCEPT !.rev = @ + 1] /\ Safe' = Safe
      BY <2>4 DEF Durable!Change, Safe
    <3>2. mem'.owner = mem.owner /\ mem'.rev = mem.rev + 1
      BY <1>1, <3>1
    <3>3. QED
      BY <1>1, <1>2, <3>1, <3>2 DEF NotBack
  <2>5. CASE Durable!Save
    <3>1. mem # None /\ mem' = mem /\ Safe' = mem
      BY <2>5 DEF Durable!Save, Safe
    <3>2. QED
      BY <1>1, <1>2, <3>1 DEF NotBack
  <2>6. CASE UNCHANGED Durable!vars
    <3>1. mem' = mem /\ Safe' = Safe
      BY <2>6 DEF Durable!vars, Safe
    <3>2. QED
      BY <1>1, <1>2, <3>1 DEF NotBack
  <2>7. QED
    BY <2>1, <2>2, <2>3, <2>4, <2>5, <2>6 DEF Durable!Next
<1>4. QED
  BY <1>3 DEF Durable!Ahead, Safe

(* What the app runs with is what the files hold, or a later revision of   *)
(* it, of the same setup: a restart that reads them goes back to that.     *)
THEOREM OnlyNewestChangesLost ==
  ASSUME SetupInTurn
  PROVE  Spec => []Durable!Ahead
<1>1. Init => DurableInv /\ Durable!Ahead
  BY DurableStart DEF Durable!Init, Durable!Ahead
<1>2. DurableInv /\ Durable!Ahead /\ [Next]_vars => (DurableInv /\ Durable!Ahead)'
  BY DurableStep, AheadStep
<1>3. QED
  BY <1>1, <1>2, PTL DEF Spec

(* Loadable files stay loadable and the revision in them never gets older: *)
(* no save, failed or not, and no crash undoes an earlier save.  Only a    *)
(* setup made while nothing is in use, because a start could not read      *)
(* them, replaces what they hold.                                          *)
THEOREM SavedNeverGoesBack ==
  ASSUME SetupInTurn
  PROVE  Spec => [][Loadable => /\ Loadable'
                                /\ \/ mem = None
                                   \/ /\ file'.cfg.owner = file.cfg.owner
                                      /\ file.cfg.rev <= file'.cfg.rev]_vars
<1> DEFINE Back == Loadable => /\ Loadable'
                               /\ \/ mem = None
                                  \/ /\ file'.cfg.owner = file.cfg.owner
                                     /\ file.cfg.rev <= file'.cfg.rev
<1>1. Init => DurableInv /\ Durable!Ahead
  BY DurableStart DEF Durable!Init, Durable!Ahead
<1>2. DurableInv /\ Durable!Ahead /\ [Next]_vars
        => (DurableInv /\ Durable!Ahead)' /\ Back
  <2> SUFFICES ASSUME DurableInv, Durable!Ahead, [Next]_vars
               PROVE  (DurableInv /\ Durable!Ahead)' /\ Back
    OBVIOUS
  <2>1. DurableInv' /\ Durable!Ahead' /\ NotBack
    BY DurableStep, AheadStep
  <2>2. (Loadable => Safe = file.cfg /\ Safe # None) /\ (~Loadable => Safe = None)
    BY DurableTypes
  <2>3. ((Loadable => Safe = file.cfg /\ Safe # None) /\ (~Loadable => Safe = None))'
    BY <2>1, DurableTypes, PTL
  <2>4. QED
    BY <2>1, <2>2, <2>3 DEF NotBack
<1>3. QED
  BY <1>1, <1>2, PTL DEF Spec
=============================================================================
