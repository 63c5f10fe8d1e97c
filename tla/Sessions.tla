------------------------------ MODULE Sessions ------------------------------
(***************************************************************************)
(* Sign-in on top of ConfigStore.  A session is a cookie: an expiry signed *)
(* with the session secret of the configuration in use when it was issued; *)
(* the server keeps none of them (auth.go).  The handler of POST /setup    *)
(* and that of POST /login issue one after their check, and look up the    *)
(* session manager again to do so.  Logging out only clears the browser's  *)
(* cookie, so it is not a step here.                                       *)
(***************************************************************************)
EXTENDS ConfigStore

CONSTANTS Logins,   \* goroutines that serve POST /login
          Ttl,      \* lifetime of a session
          MaxClock  \* bound: ticks of the clock

ASSUME SessionsAssumption ==
  /\ Logins \cap Writers = {}
  /\ Ttl \in Nat \ {0} /\ MaxClock \in Nat

VARIABLES now,     \* the server's clock
          grants,  \* handlers past their check
          cookies  \* every cookie issued

svars == <<vars, now, grants, cookies>>

SInit == Init /\ now = 0 /\ grants = {} /\ cookies = {}

(* Valid: signed with the secret in use (which is its owner's), not over.  *)
Valid(c) == mem # None /\ c.secret = mem.owner /\ now < c.expires

(* handleSetupSubmit after the save: applyConfig; the cookie is next.      *)
ApplySetup(s) ==
  /\ Apply(s)
  /\ grants' = grants \cup {s}
  /\ UNCHANGED <<now, cookies>>

(* handleLoginSubmit verifies the password against the configuration it    *)
(* read; a wrong password changes nothing.                                 *)
Verify(l) ==
  /\ mem # None
  /\ grants' = grants \cup {l}
  /\ UNCHANGED <<vars, now, cookies>>

(* sessionManager().Issue: signed with the secret in use by now.           *)
Issue(g) ==
  /\ mem # None
  /\ cookies' = cookies \cup {[secret |-> mem.owner, expires |-> now + Ttl]}
  /\ grants' = grants \ {g}
  /\ UNCHANGED <<vars, now>>

Tick ==
  /\ now < MaxClock
  /\ now' = now + 1
  /\ UNCHANGED <<vars, grants, cookies>>

(* The browsers keep their cookies; the requests in progress are gone.     *)
RestartAll ==
  /\ Restart
  /\ grants' = {}
  /\ UNCHANGED <<now, cookies>>

SNext ==
  \/ /\ \/ \E w \in Writers : SaveStep(w)
        \/ \E s \in Setups : SetupGate(s) \/ SetupError(s)
        \/ \E w \in Savers : MetaStep(w)
     /\ UNCHANGED <<now, grants, cookies>>
  \/ \E s \in Setups : ApplySetup(s)
  \/ \E l \in Logins : Verify(l)
  \/ \E g \in grants : Issue(g)
  \/ Tick
  \/ RestartAll

SSpec == SInit /\ [][SNext]_svars

-----------------------------------------------------------------------------
(* Properties.                                                             *)

(* A session stays valid until it expires: no save, failed save, crash or  *)
(* setup request signs anyone out, and neither does a restart that reads   *)
(* the files.  One that cannot leaves in them the secret that makes the    *)
(* session valid again.                                                    *)
SessionLasts ==
  [][\A c \in cookies :
       Valid(c) /\ now' < c.expires
         => \/ Valid(c)'
            \/ /\ restarts' # restarts /\ mem' = None
               /\ Loadable' /\ file'.cfg.owner = c.secret]_svars
=============================================================================
