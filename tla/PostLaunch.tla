----------------------------- MODULE PostLaunch -----------------------------
(***************************************************************************)
(* What happens inside a container after `lxc launch`: handleAdd answers   *)
(* the browser and leaves Client.PostLaunch to a goroutine, which retries  *)
(* the /dev/kmsg fix until the container can run it, starts the unit that  *)
(* provides /dev/kmsg, installs k9s and turns IPv6 off.  The goroutine     *)
(* knows its container by name only, so the module follows one name        *)
(* through its successive containers: generation g is the g-th container   *)
(* launched under the name, and goroutine g the one its launch started.    *)
(***************************************************************************)
EXTENDS Integers

CONSTANTS Attempts,   \* kmsgRetryAttempts
          MaxGen,     \* bound: how often the name is launched
          MaxRestarts \* bound: how often the app restarts

ASSUME PostLaunchAssumption ==
  /\ Attempts \in Nat \ {0}
  /\ MaxGen \in Nat \ {0}
  /\ MaxRestarts \in Nat

VARIABLES alive,     \* the name's container exists (and runs)
          gen,       \* launches of the name so far
          box,       \* inside the current container
          job,       \* per generation, its PostLaunch goroutine
          cache,     \* the host-side copy of k9s: "none", "partial", "whole"
          pulling,   \* cacheK9s is writing that copy
          restarts,  \* restarts of the app so far (bounded)
          disturbed  \* history: what else happened to the current container

vars == <<alive, gen, box, job, cache, pulling, restarts, disturbed>>

Gens == 1..MaxGen

(* A container as `lxc launch` leaves it: no unit file, /dev/kmsg absent,  *)
(* so the journald of its first boot is quiet.                             *)
FreshBox == [unit |-> "none", enabled |-> FALSE, kmsg |-> FALSE,
             looping |-> FALSE, k9s |-> "none", ipv6 |-> TRUE]

Boxes == [unit : {"none", "inactive", "active"}, enabled : BOOLEAN,
          kmsg : BOOLEAN, looping : BOOLEAN,
          k9s : {"none", "partial", "whole"}, ipv6 : BOOLEAN]

(* Where a goroutine is.  "lost" is a goroutine the app did not survive.   *)
Working == {"fix", "restart", "finalize", "k9s", "ipv6"}
Ended == {"ok", "failed", "lost"}
NoJob == [pc |-> "none", tries |-> 0]

Init ==
  /\ alive = FALSE /\ gen = 0
  /\ box = FreshBox
  /\ job = [g \in Gens |-> NoJob]
  /\ cache = "none" /\ pulling = FALSE
  /\ restarts = 0
  /\ disturbed = {}

(* Goroutine g goes to pc. *)
GoTo(g, pc) == job' = [job EXCEPT ![g].pc = pc]

(* A command of goroutine g that reaches the container leaves its mark on  *)
(* the history when the container is not the one g was started for.        *)
Touch(g) ==
  disturbed' = IF g = gen THEN disturbed ELSE disturbed \cup {"overlap"}

-----------------------------------------------------------------------------
(* The name's containers come and go (module ContainerPool).               *)

Launch ==
  /\ ~alive /\ gen < MaxGen
  /\ alive' = TRUE /\ gen' = gen + 1
  /\ box' = FreshBox
  /\ job' = [job EXCEPT ![gen + 1] = [pc |-> "fix", tries |-> 0]]
  /\ disturbed' = {}
  /\ UNCHANGED <<cache, pulling, restarts>>

(* Mutants: the attempts are not counted; they are, but not compared.      *)
RetryUncounted(j) == [j EXCEPT !.pc = "fix"]
RetryUnlimited(j) == [pc |-> "fix", tries |-> j.tries + 1]

(* After a failed attempt: wait kmsgRetryDelay and try again, or give up.  *)
Retry(j) ==
  IF j.tries + 1 < Attempts
  THEN [pc |-> "fix", tries |-> j.tries + 1]
  ELSE [pc |-> "failed", tries |-> j.tries]

(* A container that stops takes the script it is running with it.          *)
ScriptsDie ==
  job' = [g \in Gens |-> IF job[g].pc = "restart" THEN Retry(job[g]) ELSE job[g]]

Remove ==
  /\ alive
  /\ alive' = FALSE
  /\ ScriptsDie
  /\ UNCHANGED <<gen, box, cache, pulling, restarts, disturbed>>

(* The container reboots (an operator's shell, the host).  journald starts *)
(* first and finds no /dev/kmsg; then an enabled unit provides it.         *)
Reboot ==
  /\ alive
  /\ box' = [box EXCEPT !.kmsg = box.enabled, !.looping = FALSE,
               !.unit = IF box.enabled THEN "active"
                        ELSE IF box.unit = "none" THEN "none" ELSE "inactive"]
  /\ disturbed' = IF job[gen].pc \in {"fix", "restart"}
                  THEN disturbed \cup {"reboot"} ELSE disturbed
  /\ ScriptsDie
  /\ UNCHANGED <<alive, gen, cache, pulling, restarts>>

-----------------------------------------------------------------------------
(* PostLaunch, goroutine g.                                                *)

(* Mutant: /dev/kmsg is left in place. *)
FixScriptKeepsKmsg(g) ==
  /\ job[g].pc = "fix" /\ alive
  /\ \E enabled \in BOOLEAN :
       box' = [box EXCEPT !.unit = IF @ = "none" THEN "inactive" ELSE @,
                          !.enabled = @ \/ enabled]
  /\ GoTo(g, "restart")
  /\ Touch(g)
  /\ UNCHANGED <<alive, gen, cache, pulling, restarts>>

(* The first half of the fix script: a chain of && that writes the journald*)
(* configuration and the unit, reloads systemd and enables the unit, then, *)
(* after a `;` and so whatever the chain did, `rm -f /dev/kmsg`.           *)
FixScript(g) ==
  /\ job[g].pc = "fix" /\ alive
  /\ \E written \in BOOLEAN, enabled \in BOOLEAN :
       /\ enabled => written
       /\ box' = [box EXCEPT
                    !.unit = IF written /\ @ = "none" THEN "inactive" ELSE @,
                    !.enabled = @ \/ enabled,
                    !.kmsg = FALSE]
  /\ GoTo(g, "restart")
  /\ Touch(g)
  /\ UNCHANGED <<alive, gen, cache, pulling, restarts>>

(* The second half, `systemctl restart systemd-journald`, which gives the  *)
(* script its exit status.  journald spins if it finds /dev/kmsg.          *)
FixRestart(g) ==
  /\ job[g].pc = "restart"
  /\ box' = [box EXCEPT !.looping = box.kmsg]
  /\ GoTo(g, "finalize")
  /\ UNCHANGED <<alive, gen, cache, pulling, restarts, disturbed>>

(* The attempt fails: the container is gone or not ready for `lxc exec`.   *)
FixFails(g) ==
  /\ job[g].pc \in {"fix", "restart"}
  /\ job' = [job EXCEPT ![g] = Retry(@)]
  /\ UNCHANGED <<alive, gen, box, cache, pulling, restarts, disturbed>>

(* Mutant: the unit counts as started but its command did not run.         *)
StartUnitOnly(b) == [b EXCEPT !.unit = IF @ = "none" THEN @ ELSE "active"]

(* `systemctl start` of the unit: a oneshot with RemainAfterExit creates   *)
(* /dev/kmsg unless it counts as started already.                          *)
StartUnit(b) ==
  IF b.unit = "inactive" THEN [b EXCEPT !.unit = "active", !.kmsg = TRUE] ELSE b

(* finalizeContainer, whose result nobody looks at.                        *)
Finalize(g) ==
  /\ job[g].pc = "finalize"
  /\ GoTo(g, "k9s")
  /\ \/ /\ alive
        /\ box' = StartUnit(box)
        /\ Touch(g)
     \/ UNCHANGED <<box, disturbed>>
  /\ UNCHANGED <<alive, gen, cache, pulling, restarts>>

(* installK9s pushes the host's copy when there is a file, whole or not... *)
PushK9s(g) ==
  /\ job[g].pc = "k9s" /\ alive /\ cache # "none"
  /\ box' = [box EXCEPT !.k9s = cache]
  /\ \E pc \in {"ipv6", "failed"} : GoTo(g, pc) \* chmod
  /\ Touch(g)
  /\ UNCHANGED <<alive, gen, cache, pulling, restarts>>

(* ... and downloads it when there is none or the push fails.              *)
CurlK9s(g) ==
  /\ job[g].pc = "k9s" /\ alive
  /\ box' = [box EXCEPT !.k9s = "whole"]
  /\ GoTo(g, "ipv6")
  /\ Touch(g)
  /\ UNCHANGED <<alive, gen, cache, pulling, restarts>>

(* Mutant: a failed download is no error. *)
K9sFailsQuietly(g) ==
  /\ job[g].pc = "k9s"
  /\ GoTo(g, "ipv6")
  /\ UNCHANGED <<alive, gen, box, cache, pulling, restarts, disturbed>>

(* The download fails: PostLaunch returns before disableIPv6.              *)
K9sFails(g) ==
  /\ job[g].pc = "k9s"
  /\ GoTo(g, "failed")
  /\ UNCHANGED <<alive, gen, box, cache, pulling, restarts, disturbed>>

(* disableIPv6, best effort; PostLaunch returns nil.                       *)
DisableIPv6(g) ==
  /\ job[g].pc = "ipv6"
  /\ GoTo(g, "ok")
  /\ \/ /\ alive
        /\ box' = [box EXCEPT !.ipv6 = FALSE]
        /\ Touch(g)
     \/ UNCHANGED <<box, disturbed>>
  /\ UNCHANGED <<alive, gen, cache, pulling, restarts>>

-----------------------------------------------------------------------------
(* cacheK9s, in the start-up goroutine: `lxc file pull` writes in place.   *)

PullBegin ==
  /\ ~pulling
  /\ pulling' = TRUE /\ cache' = "partial"
  /\ UNCHANGED <<alive, gen, box, job, restarts, disturbed>>

PullEnd ==
  /\ pulling
  /\ pulling' = FALSE
  /\ \/ cache' = "whole"
     \/ UNCHANGED cache
  /\ UNCHANGED <<alive, gen, box, job, restarts, disturbed>>

(* The app ends and starts again.  Nothing runs PostLaunch for containers  *)
(* that exist already.                                                     *)
Restart ==
  /\ restarts < MaxRestarts
  /\ restarts' = restarts + 1
  /\ job' = [g \in Gens |-> IF job[g].pc \in Working
                            THEN [job[g] EXCEPT !.pc = "lost"] ELSE job[g]]
  /\ pulling' = FALSE
  /\ UNCHANGED <<alive, gen, box, cache, disturbed>>

PostLaunchStep(g) ==
  \/ FixScript(g) \/ FixRestart(g) \/ FixFails(g)
  \/ Finalize(g)
  \/ PushK9s(g) \/ CurlK9s(g) \/ K9sFails(g)
  \/ DisableIPv6(g)

Next ==
  \/ Launch \/ Remove \/ Reboot
  \/ \E g \in Gens : PostLaunchStep(g)
  \/ PullBegin \/ PullEnd
  \/ Restart

Spec == Init /\ [][Next]_vars

(* Each goroutine runs: its commands and its timer return.                 *)
FairSpec == Spec /\ \A g \in Gens : WF_vars(PostLaunchStep(g))

-----------------------------------------------------------------------------
(* Properties.                                                             *)

TypeOK ==
  /\ alive \in BOOLEAN /\ gen \in 0..MaxGen
  /\ box \in Boxes
  /\ job \in [Gens -> [pc : {"none"} \cup Working \cup Ended, tries : 0..Attempts]]
  /\ cache \in {"none", "partial", "whole"} /\ pulling \in BOOLEAN
  /\ restarts \in 0..MaxRestarts
  /\ disturbed \in SUBSET {"overlap", "reboot"}

(* The comment on the fix: journald "never opens the console and never     *)
(* loops".  It loops only if the goroutine of an earlier container of the  *)
(* name worked on this one; retries, reboots and restarts cannot do it.    *)
LoopNeedsOverlap == alive /\ box.looping => "overlap" \in disturbed

(* "/dev/kmsg exists for k3s": it is there exactly when the unit that      *)
(* provides it counts as started, unless another goroutine or a reboot     *)
(* came in between, after which a later start of the unit does nothing.    *)
KmsgFollowsUnit ==
  alive /\ disturbed = {} => (box.kmsg <=> box.unit = "active")

(* PostLaunch returns nil for its own container only after k9s was put     *)
(* there, whoever else works on the container.                             *)
OkMeansK9s == alive /\ job[gen].pc = "ok" => box.k9s # "none"

(* Every goroutine ends, whatever becomes of its container.                *)
GoroutinesEnd == \A g \in Gens : job[g].pc \in Working ~> job[g].pc \notin Working

(* The test report: "every container the app creates is guaranteed to get  *)
(* the workaround".  So once nobody works on a container any more, its     *)
(* provider unit is there and enabled.                                     *)
WorkaroundGuaranteed ==
  alive /\ (\A g \in Gens : job[g].pc \notin Working) => box.enabled
=============================================================================
