-------------------------- MODULE Sessions_proofs ---------------------------
(***************************************************************************)
(* How long a session lasts, proved for every number of setup requests,    *)
(* savers, logins and restarts, when setup requests come in turn.  The     *)
(* invariant of ConfigStore_proofs carries over, since a step of Sessions  *)
(* is one of ConfigStore or leaves its variables alone.                    *)
(***************************************************************************)
EXTENDS Sessions, ConfigStore_proofs

(* A step with sign-in is a step of the store, or none.                    *)
LEMMA SessionStepIsStoreStep == [SNext]_svars => [Next]_vars
BY DEF SNext, svars, vars, Next, SetupStep, ApplySetup, Verify, Issue, Tick, RestartAll

(* No step but the clock's ends a session for good: not a crash in the     *)
(* middle of a save, nor a save that failed.  A restart that cannot read   *)
(* the files suspends it, and leaves in them the secret it is signed with. *)
THEOREM SessionSurvives ==
  ASSUME SetupInTurn
  PROVE  SSpec => SessionLasts
<1> DEFINE Lasts(c) ==
      \/ Valid(c)'
      \/ /\ restarts' # restarts /\ mem' = None
         /\ Loadable' /\ file'.cfg.owner = c.secret
<1>1. SInit => InTurnInv
  BY InTurnInit DEF SInit
<1>2. InTurnInv /\ [SNext]_svars => InTurnInv'
  BY SessionStepIsStoreStep, InTurnStep
<1>3. ASSUME InTurnInv, [SNext]_svars, NEW c \in cookies, Valid(c), now' < c.expires
      PROVE  Lasts(c)
  <2>1. mem # None /\ c.secret = mem.owner
    BY <1>3 DEF Valid
  <2>2. \/ mem' # None /\ mem'.owner = mem.owner
        \/ /\ restarts' # restarts /\ mem' = None
           /\ Loadable' /\ file'.cfg.owner = mem.owner
    BY <1>3, <2>1, SessionStepIsStoreStep, OwnerKept
  <2>3. QED
    BY <1>3, <2>1, <2>2 DEF Valid
<1>4. InTurnInv /\ [SNext]_svars
        => [\A c \in cookies : Valid(c) /\ now' < c.expires => Lasts(c)]_svars
  BY <1>3
<1>5. QED
  BY <1>1, <1>2, <1>4, PTL DEF SSpec, SessionLasts

=============================================================================
