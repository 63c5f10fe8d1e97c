-------------------------- MODULE PostLaunch_proofs --------------------------
(***************************************************************************)
(* Proofs about PostLaunch, for any number of launches under the name, of  *)
(* attempts and of restarts: typing, the three invariants of its runs, and *)
(* that each goroutine has only so many steps to take.                     *)
(***************************************************************************)
EXTENDS PostLaunch, TLAPS

Jobs == [pc : {"none"} \cup Working \cup Ended, tries : 0..Attempts]

(* A container that exists has a generation.                               *)
Launched == alive => gen \in Gens

Typed == TypeOK /\ Launched

(* A goroutine that retries is a goroutine. *)
LEMMA RetryTyped ==
  ASSUME NEW j \in Jobs
  PROVE  /\ Retry(j) \in Jobs
         /\ Retry(j).pc \in {"fix", "failed"}
BY PostLaunchAssumption DEF Jobs, Retry, Working, Ended

(* What a removal and a reboot do to the goroutines.                       *)
LEMMA ScriptsDieTyped ==
  ASSUME job \in [Gens -> Jobs], ScriptsDie
  PROVE  /\ job' \in [Gens -> Jobs]
         /\ \A g \in Gens : /\ job'[g].pc # "restart"
                            /\ job'[g].pc \in {"fix", "failed"} \/ job'[g] = job[g]
                            /\ job[g].pc # "restart" => job'[g] = job[g]
BY RetryTyped DEF ScriptsDie

(* A goroutine that goes on leaves the others where they are.              *)
LEMMA GoToTyped ==
  ASSUME job \in [Gens -> Jobs], NEW g \in Gens,
         NEW pc, pc \in Working \cup Ended, GoTo(g, pc)
  PROVE  /\ job' \in [Gens -> Jobs]
         /\ job'[g].pc = pc
         /\ \A h \in Gens : h # g => job'[h] = job[h]
BY DEF GoTo, Jobs

(* The types hold before the first launch.                                 *)
LEMMA TypedInit == Init => Typed
<1> SUFFICES ASSUME Init PROVE Typed
  OBVIOUS
<1>1. FreshBox \in Boxes
  BY DEF FreshBox, Boxes
<1>2. job \in [Gens -> Jobs]
  BY PostLaunchAssumption DEF Init, NoJob, Jobs
<1>3. alive \in BOOLEAN /\ pulling \in BOOLEAN /\ ~alive
  BY DEF Init
<1>4. gen \in 0..MaxGen /\ restarts \in 0..MaxRestarts
  BY PostLaunchAssumption DEF Init
<1>5. cache \in {"none", "partial", "whole"} /\ disturbed \in SUBSET {"overlap", "reboot"}
  BY DEF Init
<1>6. QED
  BY <1>1, <1>2, <1>3, <1>4, <1>5 DEF Init, Typed, TypeOK, Launched, Jobs

(* Every step of a goroutine keeps the types.                              *)
LEMMA PostLaunchTyped ==
  ASSUME Typed, NEW g \in Gens, PostLaunchStep(g)
  PROVE  Typed'
<1> USE DEF Typed, TypeOK, Launched
<1>0. job \in [Gens -> Jobs]
  BY DEF Jobs
<1>1. job' \in [Gens -> Jobs]
  <2>1. ASSUME NEW pc, pc \in Working \cup Ended, GoTo(g, pc) PROVE job' \in [Gens -> Jobs]
    BY <1>0, <2>1, GoToTyped
  <2>2. CASE FixScript(g)
    BY <2>1, <2>2 DEF FixScript, Working
  <2>3. CASE FixRestart(g)
    BY <2>1, <2>3 DEF FixRestart, Working
  <2>4. CASE FixFails(g)
    <3>1. job' = [job EXCEPT ![g] = Retry(job[g])]
      BY <2>4 DEF FixFails
    <3>2. QED
      BY <1>0, <3>1, RetryTyped
  <2>5. CASE Finalize(g)
    BY <2>1, <2>5 DEF Finalize, Working
  <2>6. CASE PushK9s(g) \/ CurlK9s(g) \/ K9sFails(g)
    BY <2>1, <2>6 DEF PushK9s, CurlK9s, K9sFails, Working, Ended
  <2>7. CASE DisableIPv6(g)
    BY <2>1, <2>7 DEF DisableIPv6, Ended
  <2>8. QED
    BY <2>2, <2>3, <2>4, <2>5, <2>6, <2>7 DEF PostLaunchStep
<1>2. box' \in Boxes
  <2>1. CASE FixScript(g)
    BY <2>1 DEF FixScript, Boxes
  <2>2. CASE FixRestart(g)
    BY <2>2 DEF FixRestart, Boxes
  <2>3. CASE FixFails(g) \/ K9sFails(g)
    BY <2>3 DEF FixFails, K9sFails
  <2>4. CASE Finalize(g)
    BY <2>4 DEF Finalize, StartUnit, Boxes
  <2>5. CASE PushK9s(g)
    BY <2>5 DEF PushK9s, Boxes
  <2>6. CASE CurlK9s(g)
    BY <2>6 DEF CurlK9s, Boxes
  <2>7. CASE DisableIPv6(g)
    BY <2>7 DEF DisableIPv6, Boxes
  <2>8. QED
    BY <2>1, <2>2, <2>3, <2>4, <2>5, <2>6, <2>7 DEF PostLaunchStep
<1>3. disturbed' \in SUBSET {"overlap", "reboot"}
  <2>1. disturbed' = disturbed \/ Touch(g)
    BY DEF PostLaunchStep, FixScript, FixRestart, FixFails, Finalize, PushK9s, CurlK9s,
           K9sFails, DisableIPv6
  <2>2. QED
    BY <2>1 DEF Touch
<1>4. UNCHANGED <<alive, gen, cache, pulling, restarts>>
  BY DEF PostLaunchStep, FixScript, FixRestart, FixFails, Finalize, PushK9s, CurlK9s,
         K9sFails, DisableIPv6
<1>5. QED
  BY <1>1, <1>2, <1>3, <1>4 DEF Jobs

(* So does every launch, removal, reboot, pull and restart.                *)
LEMMA TypedStep == Typed /\ [Next]_vars => Typed'
<1> SUFFICES ASSUME Typed, [Next]_vars PROVE Typed'
  OBVIOUS
<1> USE PostLaunchAssumption DEF Typed, TypeOK, Launched, Gens
<1>0. job \in [Gens -> Jobs]
  BY DEF Jobs
<1>1. CASE Launch
  <2>1. job' \in [Gens -> Jobs]
    BY <1>0, <1>1 DEF Launch, Jobs, Working
  <2>2. gen' \in Gens
    BY <1>1 DEF Launch
  <2>3. box' \in Boxes
    BY <1>1 DEF Launch, FreshBox, Boxes
  <2>4. QED
    BY <1>1, <2>1, <2>2, <2>3 DEF Launch, Jobs
<1>2. CASE Remove
  <2>1. job' \in [Gens -> Jobs]
    BY <1>0, <1>2, ScriptsDieTyped DEF Remove
  <2>2. QED
    BY <1>2, <2>1 DEF Remove, Jobs
<1>3. CASE Reboot
  <2>1. job' \in [Gens -> Jobs]
    BY <1>0, <1>3, ScriptsDieTyped DEF Reboot
  <2>2. box' \in Boxes
    BY <1>3 DEF Reboot, Boxes
  <2>3. disturbed' \in SUBSET {"overlap", "reboot"}
    BY <1>3 DEF Reboot
  <2>4. QED
    BY <1>3, <2>1, <2>2, <2>3 DEF Reboot, Jobs
<1>4. ASSUME NEW g \in Gens, PostLaunchStep(g) PROVE Typed'
  BY <1>4, PostLaunchTyped
<1>5. CASE PullBegin \/ PullEnd
  <2>1. pulling' \in BOOLEAN /\ cache' \in {"none", "partial", "whole"}
    BY <1>5 DEF PullBegin, PullEnd
  <2>2. UNCHANGED <<alive, gen, box, job, restarts, disturbed>>
    BY <1>5 DEF PullBegin, PullEnd
  <2>3. QED
    BY <2>1, <2>2
<1>6. CASE Restart
  <2>1. ASSUME NEW g \in Gens PROVE [job[g] EXCEPT !.pc = "lost"] \in Jobs
    BY <1>0 DEF Jobs, Ended
  <2>2. job' \in [Gens -> Jobs]
    BY <1>0, <1>6, <2>1 DEF Restart
  <2>3. restarts' \in 0..MaxRestarts
    <3>1. restarts < MaxRestarts /\ restarts' = restarts + 1
      BY <1>6 DEF Restart
    <3>2. restarts \in 0..MaxRestarts
      OBVIOUS
    <3>3. QED
      BY <3>1, <3>2
  <2>4. pulling' \in BOOLEAN
    BY <1>6 DEF Restart
  <2>5. QED
    BY <1>6, <2>2, <2>3, <2>4 DEF Restart, Jobs
<1>7. CASE UNCHANGED vars
  BY <1>7 DEF vars
<1>8. QED
  BY <1>1, <1>2, <1>3, <1>4, <1>5, <1>6, <1>7 DEF Next

(* Every variable keeps its type.                                          *)
THEOREM Typing == Spec => []TypeOK
BY TypedInit, TypedStep, PTL DEF Spec, Typed

-----------------------------------------------------------------------------
(* A fix script runs in the container it was started in, and it dies with  *)
(* it: one of an earlier generation has left its mark on this container.   *)
ScriptsHere ==
  \A g \in Gens :
    job[g].pc = "restart" => alive /\ (g # gen => "overlap" \in disturbed)

(* Between the two halves of the container's own script /dev/kmsg is gone. *)
KmsgRemoved ==
  alive /\ "overlap" \notin disturbed /\ job[gen].pc = "restart" => ~box.kmsg

(* The unit is not started before the fix is through.                      *)
UnitAfterFix ==
  alive /\ disturbed = {} /\ job[gen].pc \in {"fix", "restart"} => box.unit # "active"

(* k9s comes before IPv6. *)
K9sBeforeIPv6 == alive /\ job[gen].pc \in {"ipv6", "ok"} => box.k9s # "none"

Inv ==
  /\ Typed
  /\ ScriptsHere /\ KmsgRemoved /\ LoopNeedsOverlap
  /\ UnitAfterFix /\ KmsgFollowsUnit
  /\ K9sBeforeIPv6

(* Every step of a goroutine keeps the invariant.                          *)
LEMMA PostLaunchFacts ==
  ASSUME Inv, NEW g \in Gens, PostLaunchStep(g)
  PROVE  Inv'
<1> USE DEF Inv
<1>0. job \in [Gens -> Jobs] /\ (alive => gen \in Gens)
  BY DEF Typed, TypeOK, Launched, Jobs
<1>1. CASE FixScript(g)
  <2>1. /\ job'[g].pc = "restart" /\ \A h \in Gens : h # g => job'[h] = job[h]
    BY <1>0, <1>1, GoToTyped DEF FixScript, Working
  <2>2. /\ box'.kmsg = FALSE /\ box'.looping = box.looping
        /\ box'.k9s = box.k9s
    BY <1>1 DEF FixScript, Typed, TypeOK, Boxes
  <2>3. box'.unit # "active" \/ box.unit = "active"
    BY <1>1 DEF FixScript, Typed, TypeOK, Boxes
  <2>4. alive /\ alive' = alive /\ gen' = gen /\ Touch(g) /\ job[g].pc = "fix"
    BY <1>1 DEF FixScript
  <2>5. ScriptsHere'
    BY <2>1, <2>4 DEF ScriptsHere, Touch
  <2>6. KmsgRemoved'
    BY <2>2 DEF KmsgRemoved
  <2>7. LoopNeedsOverlap'
    BY <2>2, <2>4 DEF LoopNeedsOverlap, Touch
  <2>8. UnitAfterFix' /\ KmsgFollowsUnit'
    BY <2>2, <2>3, <2>4 DEF UnitAfterFix, KmsgFollowsUnit, Touch
  <2>9. K9sBeforeIPv6'
    BY <1>0, <2>1, <2>2, <2>4 DEF K9sBeforeIPv6
  <2>10. QED
    BY <2>5, <2>6, <2>7, <2>8, <2>9, PostLaunchTyped
<1>2. CASE FixRestart(g)
  <2>1. /\ job'[g].pc = "finalize" /\ \A h \in Gens : h # g => job'[h] = job[h]
    BY <1>0, <1>2, GoToTyped DEF FixRestart, Working
  <2>2. /\ box'.kmsg = box.kmsg /\ box'.looping = box.kmsg
        /\ box'.k9s = box.k9s /\ box'.unit = box.unit
    BY <1>2 DEF FixRestart, Typed, TypeOK, Boxes
  <2>4. alive' = alive /\ gen' = gen /\ disturbed' = disturbed /\ job[g].pc = "restart"
    BY <1>2 DEF FixRestart
  <2>5. ScriptsHere'
    BY <2>1, <2>4 DEF ScriptsHere
  <2>6. KmsgRemoved'
    BY <1>0, <2>1, <2>2, <2>4 DEF KmsgRemoved
  <2>7. LoopNeedsOverlap'
    BY <2>2, <2>4 DEF LoopNeedsOverlap, ScriptsHere, KmsgRemoved
  <2>8. UnitAfterFix' /\ KmsgFollowsUnit'
    BY <1>0, <2>1, <2>2, <2>4 DEF UnitAfterFix, KmsgFollowsUnit
  <2>9. K9sBeforeIPv6'
    BY <1>0, <2>1, <2>2, <2>4 DEF K9sBeforeIPv6
  <2>10. QED
    BY <2>5, <2>6, <2>7, <2>8, <2>9, PostLaunchTyped
<1>3. CASE FixFails(g)
  <2>1. job' = [job EXCEPT ![g] = Retry(job[g])]
    BY <1>3 DEF FixFails
  <2>2. job'[g].pc \in {"fix", "failed"} /\ \A h \in Gens : h # g => job'[h] = job[h]
    BY <1>0, <2>1, RetryTyped
  <2>3. UNCHANGED <<alive, gen, box, disturbed>> /\ job[g].pc \in {"fix", "restart"}
    BY <1>3 DEF FixFails
  <2>4. ScriptsHere' /\ LoopNeedsOverlap' /\ KmsgFollowsUnit'
    BY <2>2, <2>3 DEF ScriptsHere, LoopNeedsOverlap, KmsgFollowsUnit
  <2>5. KmsgRemoved' /\ UnitAfterFix' /\ K9sBeforeIPv6'
    BY <1>0, <2>2, <2>3 DEF KmsgRemoved, UnitAfterFix, K9sBeforeIPv6
  <2>6. QED
    BY <2>4, <2>5, PostLaunchTyped
<1>4. CASE Finalize(g) \/ PushK9s(g) \/ CurlK9s(g) \/ K9sFails(g) \/ DisableIPv6(g)
  <2>1. /\ job'[g].pc \in {"k9s", "ipv6", "ok", "failed"}
        /\ \A h \in Gens : h # g => job'[h] = job[h]
    BY <1>0, <1>4, GoToTyped
       DEF Finalize, PushK9s, CurlK9s, K9sFails, DisableIPv6, Working, Ended
  <2>2. alive' = alive /\ gen' = gen
    BY <1>4 DEF Finalize, PushK9s, CurlK9s, K9sFails, DisableIPv6
  <2>3. UNCHANGED <<box, disturbed>> \/ Touch(g)
    BY <1>4 DEF Finalize, PushK9s, CurlK9s, K9sFails, DisableIPv6
  <2>4. box'.looping = box.looping
    BY <1>4 DEF Finalize, StartUnit, PushK9s, CurlK9s, K9sFails, DisableIPv6, Typed,
                TypeOK, Boxes
  <2>5. \/ box'.kmsg = box.kmsg /\ box'.unit = box.unit
        \/ box'.kmsg = TRUE /\ box'.unit = "active"
    BY <1>4 DEF Finalize, StartUnit, PushK9s, CurlK9s, K9sFails, DisableIPv6, Typed,
                TypeOK, Boxes
  <2>6. /\ box.k9s # "none" => box'.k9s # "none"
        /\ job'[g].pc \in {"ipv6", "ok"} => box'.k9s # "none" \/ job[g].pc = "ipv6"
    <3>1. CASE Finalize(g)
      <4>1. box'.k9s = box.k9s
        BY <3>1 DEF Finalize, StartUnit, Typed, TypeOK, Boxes
      <4>2. job'[g].pc = "k9s"
        BY <1>0, <3>1, GoToTyped DEF Finalize, Working
      <4>3. QED
        BY <4>1, <4>2
    <3>2. CASE PushK9s(g) \/ CurlK9s(g)
      BY <3>2 DEF PushK9s, CurlK9s, Typed, TypeOK, Boxes
    <3>3. CASE K9sFails(g)
      BY <1>0, <3>3, GoToTyped DEF K9sFails, Ended
    <3>4. CASE DisableIPv6(g)
      BY <3>4 DEF DisableIPv6, Typed, TypeOK, Boxes
    <3>5. QED
      BY <1>4, <3>1, <3>2, <3>3, <3>4
  <2>7. ScriptsHere' /\ LoopNeedsOverlap'
    BY <2>1, <2>2, <2>3, <2>4 DEF ScriptsHere, LoopNeedsOverlap, Touch
  <2>8. KmsgRemoved' /\ UnitAfterFix'
    <3>1. CASE g = gen
      BY <1>0, <2>1, <2>2, <3>1 DEF KmsgRemoved, UnitAfterFix
    <3>2. CASE g # gen /\ Touch(g)
      BY <3>2 DEF KmsgRemoved, UnitAfterFix, Touch
    <3>3. CASE g # gen /\ UNCHANGED <<box, disturbed>>
      BY <1>0, <2>1, <2>2, <3>3 DEF KmsgRemoved, UnitAfterFix
    <3>4. QED
      BY <2>3, <3>1, <3>2, <3>3
  <2>9. KmsgFollowsUnit'
    BY <2>2, <2>3, <2>5 DEF KmsgFollowsUnit, Touch
  <2>10. K9sBeforeIPv6'
    <3>1. CASE g = gen
      BY <2>1, <2>2, <2>6, <3>1 DEF K9sBeforeIPv6
    <3>2. CASE g # gen
      BY <1>0, <2>1, <2>2, <2>6, <3>2 DEF K9sBeforeIPv6
    <3>3. QED
      BY <3>1, <3>2
  <2>11. QED
    BY <2>7, <2>8, <2>9, <2>10, PostLaunchTyped
<1>5. QED
  BY <1>1, <1>2, <1>3, <1>4 DEF PostLaunchStep

(* Every other step does too.                                              *)
LEMMA InvStep == Inv /\ [Next]_vars => Inv'
<1> SUFFICES ASSUME Inv, [Next]_vars PROVE Inv'
  OBVIOUS
<1> USE DEF Inv
<1>0. job \in [Gens -> Jobs] /\ (alive => gen \in Gens)
  BY DEF Typed, TypeOK, Launched, Jobs
<1>1. CASE Launch
  <2>1. gen' \in Gens /\ gen' # gen
    BY <1>1, PostLaunchAssumption DEF Launch, Gens, Typed, TypeOK
  <2>2. /\ job'[gen'].pc = "fix"
        /\ \A h \in Gens : h # gen' => job'[h] = job[h]
        /\ ~alive
    BY <1>0, <1>1, <2>1 DEF Launch
  <2>3. box'.kmsg = FALSE /\ box'.looping = FALSE /\ box'.unit = "none"
    BY <1>1 DEF Launch, FreshBox
  <2>4. ScriptsHere'
    BY <2>1, <2>2 DEF ScriptsHere
  <2>5. KmsgRemoved' /\ LoopNeedsOverlap'
    BY <2>3 DEF KmsgRemoved, LoopNeedsOverlap
  <2>6. UnitAfterFix' /\ KmsgFollowsUnit'
    BY <2>3 DEF UnitAfterFix, KmsgFollowsUnit
  <2>7. K9sBeforeIPv6'
    BY <2>2 DEF K9sBeforeIPv6
  <2>8. QED
    BY <2>4, <2>5, <2>6, <2>7, TypedStep
<1>2. CASE Remove
  <2>1. ~alive' /\ \A g \in Gens : job'[g].pc # "restart"
    BY <1>0, <1>2, ScriptsDieTyped DEF Remove
  <2>2. QED
    BY <2>1, TypedStep
       DEF ScriptsHere, KmsgRemoved, LoopNeedsOverlap, UnitAfterFix, KmsgFollowsUnit,
           K9sBeforeIPv6
<1>3. CASE Reboot
  <2>1. \A g \in Gens : /\ job'[g].pc # "restart"
                        /\ job'[g].pc \in {"fix", "failed"} \/ job'[g] = job[g]
                        /\ job[g].pc # "restart" => job'[g] = job[g]
    BY <1>0, <1>3, ScriptsDieTyped DEF Reboot
  <2>2. alive /\ alive' = alive /\ gen' = gen
    BY <1>3 DEF Reboot
  <2>3. box'.looping = FALSE /\ box'.k9s = box.k9s /\ box'.kmsg = box.enabled
    BY <1>3 DEF Reboot, Typed, TypeOK, Boxes
  <2>4. box.enabled <=> box'.unit = "active"
    BY <1>3 DEF Reboot, Typed, TypeOK, Boxes
  <2>5. disturbed' # {} \/ job[gen].pc \notin {"fix", "restart"}
    BY <1>3 DEF Reboot
  <2>6. ScriptsHere' /\ KmsgRemoved' /\ LoopNeedsOverlap'
    BY <1>0, <2>1, <2>2, <2>3 DEF ScriptsHere, KmsgRemoved, LoopNeedsOverlap
  <2>7. UnitAfterFix'
    BY <1>0, <2>1, <2>2, <2>5 DEF UnitAfterFix
  <2>8. KmsgFollowsUnit'
    BY <2>3, <2>4 DEF KmsgFollowsUnit
  <2>9. K9sBeforeIPv6'
    BY <1>0, <2>1, <2>2, <2>3 DEF K9sBeforeIPv6
  <2>10. QED
    BY <2>6, <2>7, <2>8, <2>9, TypedStep
<1>4. ASSUME NEW g \in Gens, PostLaunchStep(g) PROVE Inv'
  BY <1>4, PostLaunchFacts
<1>5. CASE PullBegin \/ PullEnd \/ UNCHANGED vars
  <2>1. UNCHANGED <<alive, gen, box, job, disturbed>>
    BY <1>5 DEF PullBegin, PullEnd, vars
  <2>2. QED
    BY <2>1, TypedStep
       DEF ScriptsHere, KmsgRemoved, LoopNeedsOverlap, UnitAfterFix, KmsgFollowsUnit,
           K9sBeforeIPv6
<1>6. CASE Restart
  <2>1. \A g \in Gens : job'[g].pc = "lost" \/ job'[g] = job[g]
    BY <1>0, <1>6 DEF Restart, Jobs
  <2>2. UNCHANGED <<alive, gen, box, disturbed>>
    BY <1>6 DEF Restart
  <2>3. QED
    BY <1>0, <2>1, <2>2, TypedStep
       DEF ScriptsHere, KmsgRemoved, LoopNeedsOverlap, UnitAfterFix, KmsgFollowsUnit,
           K9sBeforeIPv6
<1>7. QED
  BY <1>1, <1>2, <1>3, <1>4, <1>5, <1>6 DEF Next

(* Before the first launch there is neither container nor goroutine.       *)
LEMMA InvInit == Init => Inv
<1> SUFFICES ASSUME Init PROVE Inv
  OBVIOUS
<1>1. ~alive /\ \A g \in Gens : job[g].pc = "none"
  BY DEF Init, NoJob
<1>2. QED
  BY <1>1, TypedInit
     DEF Inv, ScriptsHere, KmsgRemoved, LoopNeedsOverlap, UnitAfterFix, KmsgFollowsUnit,
         K9sBeforeIPv6

(* Retries, failures, reboots and restarts never make journald spin: only  *)
(* the goroutine of an earlier container of the name can.                  *)
THEOREM NoLoopAlone == Spec => []LoopNeedsOverlap
<1>1. Inv => LoopNeedsOverlap
  BY DEF Inv
<1>2. QED
  BY <1>1, InvInit, InvStep, PTL DEF Spec

(* /dev/kmsg is there exactly when the unit counts as started, if nothing  *)
(* came in between.                                                        *)
THEOREM KmsgProvided == Spec => []KmsgFollowsUnit
<1>1. Inv => KmsgFollowsUnit
  BY DEF Inv
<1>2. QED
  BY <1>1, InvInit, InvStep, PTL DEF Spec

(* A PostLaunch that returns nil has left k9s in its container.            *)
THEOREM OkInstallsK9s == Spec => []OkMeansK9s
<1>1. Inv => OkMeansK9s
  BY DEF Inv, K9sBeforeIPv6, OkMeansK9s
<1>2. QED
  BY <1>1, InvInit, InvStep, PTL DEF Spec

-----------------------------------------------------------------------------
(* A goroutine works for a bounded time, whatever fails and whatever       *)
(* becomes of its container: it has at most this many steps left.          *)
Left(j) ==
  IF j.pc = "none" THEN 2 * Attempts + 6
  ELSE IF j.pc = "fix" THEN 2 * (Attempts - j.tries) + 5
  ELSE IF j.pc = "restart" THEN 2 * (Attempts - j.tries) + 4
  ELSE IF j.pc = "finalize" THEN 3
  ELSE IF j.pc = "k9s" THEN 2
  ELSE IF j.pc = "ipv6" THEN 1
  ELSE 0

(* There is no goroutine for a container that was not launched.            *)
NotYet == \A g \in Gens : g > gen => job[g].pc = "none"

LEMMA LeftNat == \A j \in Jobs : Left(j) \in Nat /\ Left(j) <= 2 * Attempts + 6
BY PostLaunchAssumption DEF Jobs, Left

LEMMA RetryLess ==
  ASSUME NEW j \in Jobs, j.pc \in {"fix", "restart"}
  PROVE  Left(Retry(j)) < Left(j)
BY PostLaunchAssumption DEF Jobs, Retry, Left

(* One step of goroutine g.                                                *)
LEMMA StepLess ==
  ASSUME Typed, NEW g \in Gens, PostLaunchStep(g)
  PROVE  /\ job[g].pc \in Working
         /\ Left(job'[g]) < Left(job[g])
         /\ \A h \in Gens : h # g => job'[h] = job[h]
<1>0. job \in [Gens -> Jobs] /\ job[g] \in Jobs /\ Attempts \in Nat
  BY PostLaunchAssumption DEF Typed, TypeOK, Jobs
<1>1. ASSUME NEW pc \in Working \cup Ended, GoTo(g, pc)
      PROVE  /\ job'[g].pc = pc /\ job'[g].tries = job[g].tries
             /\ \A h \in Gens : h # g => job'[h] = job[h]
  BY <1>0, <1>1 DEF GoTo, Jobs
<1>2. job[g].tries \in 0..Attempts
  BY <1>0 DEF Jobs
<1>3. CASE FixScript(g)
  <2>1. GoTo(g, "restart") /\ job[g].pc = "fix"
    BY <1>3 DEF FixScript
  <2>2. QED
    BY <1>0, <1>1, <1>2, <2>1 DEF Left, Working
<1>4. CASE FixRestart(g)
  <2>1. GoTo(g, "finalize") /\ job[g].pc = "restart"
    BY <1>4 DEF FixRestart
  <2>2. QED
    BY <1>0, <1>1, <1>2, <2>1 DEF Left, Working
<1>5. CASE FixFails(g)
  <2>1. /\ job[g].pc \in {"fix", "restart"} /\ job'[g] = Retry(job[g])
        /\ \A h \in Gens : h # g => job'[h] = job[h]
    BY <1>0, <1>5 DEF FixFails
  <2>2. QED
    BY <1>0, <2>1, RetryLess DEF Working
<1>6. CASE Finalize(g)
  <2>1. GoTo(g, "k9s") /\ job[g].pc = "finalize"
    BY <1>6 DEF Finalize
  <2>2. QED
    BY <1>1, <2>1 DEF Left, Working
<1>7. CASE PushK9s(g) \/ CurlK9s(g) \/ K9sFails(g)
  <2>1. (GoTo(g, "ipv6") \/ GoTo(g, "failed")) /\ job[g].pc = "k9s"
    BY <1>7 DEF PushK9s, CurlK9s, K9sFails
  <2>2. QED
    BY <1>1, <2>1 DEF Left, Working, Ended
<1>8. CASE DisableIPv6(g)
  <2>1. GoTo(g, "ok") /\ job[g].pc = "ipv6"
    BY <1>8 DEF DisableIPv6
  <2>2. QED
    BY <1>1, <2>1 DEF Left, Working, Ended
<1>9. QED
  BY <1>3, <1>4, <1>5, <1>6, <1>7, <1>8 DEF PostLaunchStep

(* Whatever happens leaves every goroutine with no more than it had.       *)
LEMMA NeverMore ==
  ASSUME Typed, NotYet, [Next]_vars
  PROVE  NotYet' /\ \A g \in Gens : Left(job'[g]) <= Left(job[g])
<1>0. /\ job \in [Gens -> Jobs] /\ Attempts \in Nat
      /\ \A g \in Gens : job[g] \in Jobs /\ Left(job[g]) \in Nat
      /\ gen \in 0..MaxGen
  BY PostLaunchAssumption, LeftNat DEF Typed, TypeOK, Jobs
<1>1. CASE Launch
  <2>1. /\ gen + 1 \in Gens /\ gen' = gen + 1
        /\ job'[gen + 1] = [pc |-> "fix", tries |-> 0]
        /\ \A h \in Gens : h # gen + 1 => job'[h] = job[h]
    BY <1>0, <1>1, PostLaunchAssumption DEF Launch, Gens
  <2>2. job[gen + 1].pc = "none"
    BY <1>0, <2>1 DEF NotYet
  <2>3. Left(job'[gen + 1]) <= Left(job[gen + 1])
    BY <1>0, <2>1, <2>2 DEF Left
  <2>4. NotYet'
    BY <1>0, <2>1 DEF NotYet, Gens
  <2>5. QED
    BY <1>0, <2>1, <2>3, <2>4
<1>2. CASE Remove \/ Reboot
  <2>1. ScriptsDie /\ gen' = gen
    BY <1>2 DEF Remove, Reboot
  <2>2. \A g \in Gens : \/ job'[g] = job[g]
                        \/ job[g].pc = "restart" /\ job'[g] = Retry(job[g])
    BY <2>1 DEF ScriptsDie
  <2>3. \A g \in Gens : Left(job'[g]) <= Left(job[g])
    <3>1. ASSUME NEW g \in Gens, job[g].pc = "restart", job'[g] = Retry(job[g])
          PROVE  Left(job'[g]) <= Left(job[g])
      <4>1. Left(job'[g]) < Left(job[g])
        BY <1>0, <3>1, RetryLess
      <4>2. Left(job'[g]) \in Nat
        BY <1>0, <3>1, RetryTyped, LeftNat
      <4>3. QED
        BY <1>0, <4>1, <4>2
    <3>2. ASSUME NEW g \in Gens, job'[g] = job[g]
          PROVE  Left(job'[g]) <= Left(job[g])
      <4>1. Left(job'[g]) = Left(job[g])
        BY <3>2
      <4>2. QED
        BY <1>0, <4>1
    <3>3. QED
      BY <2>2, <3>1, <3>2
  <2>4. QED
    BY <2>1, <2>2, <2>3 DEF NotYet
<1>3. ASSUME NEW k \in Gens, PostLaunchStep(k)
      PROVE  NotYet' /\ \A g \in Gens : Left(job'[g]) <= Left(job[g])
  <2>1. /\ job[k].pc \in Working /\ Left(job'[k]) < Left(job[k])
        /\ \A h \in Gens : h # k => job'[h] = job[h]
    BY <1>3, StepLess
  <2>2. gen' = gen
    BY <1>3 DEF PostLaunchStep, FixScript, FixRestart, FixFails, Finalize, PushK9s,
       CurlK9s, K9sFails, DisableIPv6
  <2>3. ~(k > gen)
    BY <2>1 DEF NotYet, Working
  <2>4. NotYet'
    BY <2>1, <2>2, <2>3 DEF NotYet
  <2>5. Left(job'[k]) \in Nat
    <3>1. job'[k] \in Jobs
      BY <1>3, PostLaunchTyped DEF Typed, TypeOK, Jobs
    <3>2. QED
      BY <3>1, LeftNat
  <2>6. \A g \in Gens : Left(job'[g]) <= Left(job[g])
    <3>1. ASSUME NEW g \in Gens PROVE Left(job'[g]) <= Left(job[g])
      <4>1. CASE g = k
        BY <1>0, <2>1, <2>5, <4>1
      <4>2. CASE g # k
        <5>1. Left(job'[g]) = Left(job[g])
          BY <2>1, <4>2
        <5>2. QED
          BY <1>0, <5>1
      <4>3. QED
        BY <4>1, <4>2
    <3>2. QED
      BY <3>1
  <2>7. QED
    BY <2>4, <2>6
<1>4. CASE Restart
  <2>1. /\ gen' = gen
        /\ \A g \in Gens : \/ job'[g] = job[g]
                           \/ job[g].pc \in Working /\ job'[g].pc = "lost"
    BY <1>0, <1>4 DEF Restart, Jobs
  <2>2. \A g \in Gens : Left(job'[g]) \in {Left(job[g]), 0}
    BY <2>1 DEF Left
  <2>3. NotYet'
    BY <2>1 DEF NotYet, Working
  <2>4. QED
    BY <1>0, <2>2, <2>3
<1>5. CASE PullBegin \/ PullEnd \/ UNCHANGED vars
  <2>1. job' = job /\ gen' = gen
    BY <1>5 DEF PullBegin, PullEnd, vars
  <2>2. QED
    BY <1>0, <2>1 DEF NotYet
<1>6. QED
  BY <1>1, <1>2, <1>3, <1>4, <1>5 DEF Next

(* Every step of a PostLaunch goroutine brings it nearer to its end, and   *)
(* no removal, reboot, restart or later launch under its name, nor another *)
(* goroutine, takes it back: with Attempts tries of the fix it ends after  *)
(* at most 2 * Attempts + 5 steps.                                         *)
THEOREM PostLaunchIsBounded ==
  Spec => [][\A g \in Gens :
               /\ Left(job'[g]) <= Left(job[g])
               /\ PostLaunchStep(g) => Left(job'[g]) < Left(job[g])]_vars
<1>1. Init => NotYet
  BY DEF Init, NoJob, NotYet
<1>2. Typed /\ NotYet /\ [Next]_vars
        => /\ (Typed /\ NotYet)'
           /\ \A g \in Gens :
                /\ Left(job'[g]) <= Left(job[g])
                /\ PostLaunchStep(g) => Left(job'[g]) < Left(job[g])
  BY TypedStep, NeverMore, StepLess
<1>3. QED
  BY <1>1, <1>2, TypedInit, PTL DEF Spec
=============================================================================
