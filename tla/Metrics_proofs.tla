--------------------------- MODULE Metrics_proofs ---------------------------
(***************************************************************************)
(* Proofs about Metrics, for every set of containers, any amount of work   *)
(* and any delay of a sample: typing, and that no row counts more than was *)
(* done, whatever LXD leaves out and whatever the host's sums lose.        *)
(***************************************************************************)
EXTENDS Metrics, TLAPS

Polls == [pc : {"idle", "host", "query"},
          listed : [Containers -> {"absent", "stopped", "running"}],
          host : Rows \cup {None}, late : 0..MaxLate]

(* Since a sample that has the counter, the counter has grown by no more   *)
(* than was done; a restart, or a device that goes, takes it further down. *)
Behind(n, p) == p # None /\ "counter" \in p.has => sum[n] - p.sum <= p.since
CounterBehind == \A n \in All : Behind(n, prev[n])

HonestInv == TypeOK /\ CounterBehind /\ Honest(poll.host) /\ NeverInflated

(* Two samples make a row of the right type, and an honest one if the      *)
(* counter did not outgrow what was done.                                  *)
LEMMA RowHonest ==
  ASSUME NEW running \in BOOLEAN,
         NEW new \in Samples \cup {None}, NEW old \in Samples \cup {None},
         new # None /\ old # None /\ "counter" \in old.has
           => new.sum - old.sum <= old.since
  PROVE  Row(running, new, old) \in Rows /\ Honest(Row(running, new, old))
<1> DEFINE both == running /\ new # None /\ old # None /\ "size" \in new.has
<1>1. CASE both
  <2>1. new \in Samples /\ old \in Samples
    BY <1>1
  <2> DEFINE w == Growth(new.sum, old.sum)
             o == new.late - old.late
             c == "counter" \in old.has
  <2>2. w \in Nat /\ (c => w <= old.since)
    BY <1>1, <2>1 DEF Samples, Growth
  <2>3. o \in Int /\ o \in -MaxLate..MaxLate
    BY <2>1, MetricsAssumption DEF Samples
  <2>4. c \in BOOLEAN /\ old.since \in Nat
    BY <2>1 DEF Samples
  <2>5. Row(running, new, old) = [running |-> TRUE, work |-> w, true |-> old.since,
                                  off |-> o, whole |-> c]
    BY <1>1 DEF Row
  <2> HIDE DEF w, o, c
  <2>6. Row(running, new, old) \in Rows
    BY <2>2, <2>3, <2>4, <2>5 DEF Rows
  <2>7. Honest(Row(running, new, old))
    BY <2>2, <2>3, <2>5 DEF Honest
  <2>8. QED
    BY <2>6, <2>7
<1>2. CASE ~both
  BY <1>2 DEF Row, Rows, Honest
<1>3. QED
  BY <1>1, <1>2

(* A sample has its type, and so has what LXD reports of one.              *)
LEMMA SampleFits ==
  ASSUME TypeOK, NEW n \in All, NEW late \in 0..MaxLate,
         NEW has \in SUBSET {"counter", "size"}
  PROVE  /\ Sample(n, late) \in Samples /\ Sample(n, late).sum = sum[n]
         /\ Sample(n, late).since = 0
         /\ Reported(n, late, has) \in Samples /\ Reported(n, late, has).sum <= sum[n]
         /\ Reported(n, late, has).since = 0
         /\ "counter" \in Reported(n, late, has).has => Reported(n, late, has).sum = sum[n]
<1> DEFINE s == Sample(n, late)
           q == IF "counter" \in has THEN sum[n] ELSE 0
<1>1. s = [sum |-> sum[n], since |-> 0, has |-> {"counter", "size"}, late |-> late]
  BY DEF Sample
<1>2. sum[n] \in Nat /\ q \in Nat /\ q <= sum[n] /\ ("counter" \in has => q = sum[n])
  BY DEF TypeOK
<1>3. Reported(n, late, has) = [sum |-> q, since |-> 0, has |-> has, late |-> late]
  <2>1. Reported(n, late, has)
          = [s EXCEPT !.has = has, !.sum = IF "counter" \in has THEN s.sum ELSE 0]
    BY DEF Reported
  <2>2. (IF "counter" \in has THEN s.sum ELSE 0) = q
    BY <1>1
  <2> HIDE DEF s, q
  <2>3. QED
    BY <1>1, <2>1, <2>2
<1> HIDE DEF q
<1>4. QED
  BY <1>1, <1>2, <1>3 DEF Samples

(* What publishing takes from a query: the samples of containers, none of  *)
(* which counts more than the counter or is behind it.                     *)
Fit(c, s) == /\ s \in Samples \cup {None}
             /\ s # None => s.sum <= sum[c] /\ s.since = 0
             /\ s # None /\ "counter" \in s.has => s.sum = sum[c]

(* Publishing such samples, or none, keeps the rows honest.                *)
LEMMA PublishHonest ==
  ASSUME HonestInv, NEW samples, Publish(samples),
         \A c \in Containers : Fit(c, samples[c])
  PROVE  HonestInv'
<1> USE DEF HonestInv
<1>1. ASSUME NEW n \in All PROVE rows'[n] \in Rows \cup {None} /\ Honest(rows'[n])
  <2>1. CASE n = Host
    BY <2>1 DEF Publish, Published, TypeOK
  <2>2. CASE n # Host
    <3>1. n \in Containers /\ Fit(n, samples[n])
      BY <2>2 DEF All
    <3>2. prev[n] \in Samples \cup {None} /\ sum[n] \in Nat
      BY DEF TypeOK
    <3>3. samples[n] # None /\ prev[n] # None /\ "counter" \in prev[n].has
            => samples[n].sum - prev[n].sum <= prev[n].since
      BY <3>1, <3>2 DEF CounterBehind, Behind, Fit, Samples
    <3>4. LET r == Row(poll.listed[n] = "running", samples[n], prev[n])
          IN  r \in Rows /\ Honest(r)
      BY <3>1, <3>2, <3>3, RowHonest DEF Fit
    <3>5. QED
      BY <2>2, <3>4 DEF Publish, Published, Honest
  <2>3. QED
    BY <2>1, <2>2
<1>2. ASSUME NEW n \in All PROVE prev'[n] \in Samples \cup {None} /\ Behind(n, prev[n])'
  <2>1. CASE n = Host
    BY <2>1 DEF Publish, TypeOK, CounterBehind, Behind
  <2>2. CASE n # Host
    <3>1. n \in Containers /\ Fit(n, samples[n])
      BY <2>2 DEF All
    <3>2. prev'[n] \in {None, samples[n]} /\ sum'[n] = sum[n] /\ sum[n] \in Nat
      BY <2>2 DEF Publish, TypeOK
    <3>3. QED
      BY <3>1, <3>2 DEF Fit, Behind
  <2>3. QED
    BY <2>1, <2>2
<1>3. rows' \in [All -> Rows \cup {None}] /\ prev' \in [All -> Samples \cup {None}]
  BY <1>1, <1>2 DEF Publish, Published
<1>4. poll' \in Polls /\ Honest(poll'.host)
  BY MetricsAssumption DEF Publish, Idle, Honest, Polls
<1>5. QED
  BY <1>1, <1>2, <1>3, <1>4 DEF Publish, NeverInflated, CounterBehind, TypeOK, Polls

(* What the containers and the host do keeps the counters behind the work. *)
LEMMA WorldHonest ==
  ASSUME HonestInv,
         \/ \E c \in Containers : Start(c) \/ StopOrDelete(c)
         \/ \E n \in All : Work(n) \/ Shrink(n)
         \/ LxdToggle
  PROVE  HonestInv'
<1> USE DEF HonestInv
<1>1. UNCHANGED <<poll, rows>> /\ Honest(poll'.host) /\ NeverInflated'
  BY DEF Start, StopOrDelete, Work, Shrink, LxdToggle, NeverInflated
<1>2. ASSUME NEW c \in Containers, Start(c) PROVE TypeOK' /\ CounterBehind'
  BY <1>2 DEF Start, TypeOK, CounterBehind, Behind, Samples, All
<1>3. ASSUME NEW c \in Containers, StopOrDelete(c) PROVE TypeOK' /\ CounterBehind'
  BY <1>3 DEF StopOrDelete, TypeOK, CounterBehind, Behind
<1>4. ASSUME NEW n \in All, Work(n) PROVE TypeOK' /\ CounterBehind'
  <2>1. sum' = [sum EXCEPT ![n] = sum[n] + 1] /\ sum' \in [All -> Nat]
    BY <1>4 DEF Work, TypeOK
  <2>2. prev' = [prev EXCEPT ![n] = IF prev[n] = None THEN None
                                    ELSE [prev[n] EXCEPT !.since = prev[n].since + 1]]
    BY <1>4 DEF Work
  <2>3. prev[n] # None
          => /\ [prev[n] EXCEPT !.since = prev[n].since + 1] \in Samples
             /\ prev[n] \in Samples
    BY DEF TypeOK, Samples
  <2>4. prev' \in [All -> Samples \cup {None}]
    BY <2>2, <2>3 DEF TypeOK
  <2>5. ASSUME NEW m \in All PROVE Behind(m, prev[m])'
    <3>1. CASE m = n
      BY <2>1, <2>2, <2>3, <3>1 DEF TypeOK, CounterBehind, Behind, Samples
    <3>2. CASE m # n
      BY <2>1, <2>2, <3>2 DEF TypeOK, CounterBehind, Behind
    <3>3. QED
      BY <3>1, <3>2
  <2>6. QED
    BY <1>4, <2>1, <2>4, <2>5 DEF Work, TypeOK, CounterBehind
<1>5. ASSUME NEW n \in All, Shrink(n) PROVE TypeOK' /\ CounterBehind'
  <2>1. PICK less \in 0..(sum[n] - 1) : sum' = [sum EXCEPT ![n] = less]
    BY <1>5 DEF Shrink
  <2>2. sum[n] \in Nat /\ less \in Nat /\ less < sum[n] /\ sum' \in [All -> Nat]
    BY <2>1 DEF TypeOK
  <2>3. ASSUME NEW m \in All PROVE Behind(m, prev[m])'
    BY <1>5, <2>1, <2>2 DEF Shrink, TypeOK, CounterBehind, Behind, Samples
  <2>4. QED
    BY <1>5, <2>2, <2>3 DEF Shrink, TypeOK, CounterBehind
<1>6. CASE LxdToggle
  <2>1. lxd' \in {"up", "partial", "down"} /\ UNCHANGED <<life, sum, poll, prev, rows>>
    BY <1>6 DEF LxdToggle
  <2>2. QED
    <3>1. TypeOK'
      BY <2>1 DEF TypeOK
    <3>2. CounterBehind'
      BY <2>1 DEF CounterBehind, Behind
    <3>3. QED
      BY <1>1, <3>1, <3>2
<1>7. QED
  BY <1>1, <1>2, <1>3, <1>4, <1>5, <1>6

(* So does every call of a poll.                                           *)
LEMMA PollHonest ==
  ASSUME HonestInv, Poll
  PROVE  HonestInv'
<1> USE DEF HonestInv
<1>1. CASE PollList
  <2>1. poll' \in Polls /\ Honest(poll'.host)
    BY <1>1, MetricsAssumption DEF PollList, TypeOK, Polls, Honest
  <2>2. QED
    BY <1>1, <2>1 DEF PollList, TypeOK, Polls, CounterBehind, Behind, NeverInflated
<1>2. CASE PollListFails
  BY <1>2 DEF PollListFails, vars, TypeOK, CounterBehind, Behind, NeverInflated
<1>3. CASE PollHost
  <2>1. PICK late \in poll.late..MaxLate :
          /\ poll' = [poll EXCEPT !.pc = "query", !.late = late,
                                  !.host = Row(TRUE, Sample(Host, late), prev[Host])]
          /\ prev' = [prev EXCEPT ![Host] = Sample(Host, late)]
    BY <1>3 DEF PollHost
  <2>2. Host \in All /\ late \in 0..MaxLate
    BY MetricsAssumption DEF All, TypeOK
  <2>3. /\ Sample(Host, late) \in Samples /\ Sample(Host, late).sum = sum[Host]
        /\ Sample(Host, late).since = 0
        /\ prev[Host] \in Samples \cup {None} /\ sum[Host] \in Nat
    BY <2>2, SampleFits DEF TypeOK
  <2>4. LET r == Row(TRUE, Sample(Host, late), prev[Host])
        IN  r \in Rows /\ Honest(r)
    BY <2>2, <2>3, RowHonest DEF CounterBehind, Behind
  <2>5. poll' \in Polls /\ Honest(poll'.host)
    BY <2>1, <2>2, <2>4 DEF TypeOK, Polls
  <2>6. ASSUME NEW n \in All PROVE prev'[n] \in Samples \cup {None} /\ Behind(n, prev[n])'
    BY <1>3, <2>1, <2>2, <2>3 DEF PollHost, TypeOK, CounterBehind, Behind
  <2>7. prev' \in [All -> Samples \cup {None}]
    BY <2>1, <2>6 DEF TypeOK
  <2>8. QED
    BY <1>3, <2>5, <2>6, <2>7 DEF PollHost, TypeOK, Polls, CounterBehind, NeverInflated
<1>4. CASE PollHostFails
  <2>1. prev[Host] \in Samples \cup {None}
    BY DEF TypeOK, All
  <2>2. LET r == Row(TRUE, None, prev[Host]) IN r \in Rows /\ Honest(r)
    BY <2>1, RowHonest
  <2>3. poll' \in Polls /\ Honest(poll'.host)
    BY <1>4, <2>2 DEF PollHostFails, TypeOK, Polls
  <2>4. QED
    BY <1>4, <2>3 DEF PollHostFails, TypeOK, Polls, CounterBehind, Behind, NeverInflated
<1>5. CASE PollQuery
  <2> DEFINE Has == IF lxd = "up" THEN {{"counter", "size"}} ELSE SUBSET {"counter", "size"}
  <2>1. PICK late \in poll.late..MaxLate, has \in [Containers -> Has] :
          Publish([c \in Containers |->
                     IF life[c] = "running" THEN Reported(c, late, has[c]) ELSE None])
    BY <1>5 DEF PollQuery
  <2>2. late \in 0..MaxLate
    BY MetricsAssumption DEF TypeOK
  <2>3. \A c \in Containers :
          Fit(c, IF life[c] = "running" THEN Reported(c, late, has[c]) ELSE None)
    BY <2>1, <2>2, SampleFits DEF Fit, All
  <2>4. QED
    BY <2>1, <2>3, PublishHonest
<1>6. CASE PollQueryFails
  BY <1>6, PublishHonest DEF PollQueryFails, Fit
<1>7. QED
  BY <1>1, <1>2, <1>3, <1>4, <1>5, <1>6 DEF Poll

(* Every step keeps the invariant.                                         *)
LEMMA HonestStep == HonestInv /\ [Next]_vars => HonestInv'
<1>1. HonestInv /\ Next => HonestInv'
  BY WorldHonest, PollHonest DEF Next
<1>2. HonestInv /\ UNCHANGED vars => HonestInv'
  BY DEF vars, HonestInv, TypeOK, CounterBehind, Behind, NeverInflated
<1>3. QED
  BY <1>1, <1>2

(* Before the first poll there is nothing to exaggerate.                   *)
LEMMA HonestInit == Init => HonestInv
BY MetricsAssumption DEF Init, HonestInv, TypeOK, CounterBehind, Behind, Honest,
   NeverInflated, Idle, NoRows, All

(* Every variable keeps its type; in particular no rate is ever negative,  *)
(* and no sample is later than a poll takes.                               *)
THEOREM Typing == Spec => []TypeOK
<1>1. HonestInv => TypeOK
  BY DEF HonestInv
<1>2. QED
  BY <1>1, HonestInit, HonestStep, PTL DEF Spec

(* However containers are restarted, deleted and created again between     *)
(* polls and in the middle of one, whatever devices the sums lose, and     *)
(* whatever calls fail or leave out, a rate counts no more than what was   *)
(* done since a sample that had the counter, over a time that is off by no *)
(* more than a poll takes.                                                 *)
THEOREM RowsHonest == Spec => []NeverInflated
<1>1. HonestInv => NeverInflated
  BY DEF HonestInv
<1>2. QED
  BY <1>1, HonestInit, HonestStep, PTL DEF Spec

=============================================================================
