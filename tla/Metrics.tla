------------------------------ MODULE Metrics ------------------------------
(***************************************************************************)
(* The monitoring collector (metrics.go): one goroutine that polls, over   *)
(* and over, the list of containers, the host's counters and LXD's, and    *)
(* publishes a table of rows that GET /monitoring/data reads.  A container *)
(* may stop, start, be deleted and be created again at any moment, also    *)
(* between the calls of one poll; its counters start at zero with it.      *)
(*                                                                         *)
(* A container's CPU time and all disk and network bytes go through rate,  *)
(* so one counter stands for them; each is a sum over series, devices or   *)
(* interfaces that come and go.  (The host's CPU and all memory figures    *)
(* are of one moment or a share, and are left out.)  A row shows `work`,   *)
(* the growth between two samples, over dt, the time between the stamps of *)
(* their two polls, which a monotonic clock and a ticker keep above zero.  *)
(* A poll is stamped before it takes its samples, each by its own delay:   *)
(* the time between the samples is not dt but dt + `off`.                  *)
(***************************************************************************)
EXTENDS Integers

CONSTANTS
  Containers,     \* container names
  Host,           \* the name of the host's row
  None,           \* no sample, no row, no number
  MaxLate,        \* the longest time from a poll's stamp to its last sample
  MaxWork,        \* bound: a container's counter, and its work since a sample
  MaxHostWork     \* bound: the same of the host

ASSUME MetricsAssumption ==
  /\ Host \notin Containers
  /\ None \notin Int
  /\ None \notin [sum : Nat, since : Nat, has : SUBSET {"counter", "size"}, late : Nat]
  /\ None \notin [running : BOOLEAN, work : Int \cup {None}, true : Nat, off : Int,
                   whole : BOOLEAN]
  /\ MaxLate \in Nat /\ MaxWork \in Nat /\ MaxHostWork \in Nat

VARIABLES
  life,   \* per container: "absent", "stopped" or "running"
  sum,    \* per name: its cumulative counter
  lxd,    \* whether lxc and /proc answer: "up", "partial" (LXD leaves
          \* series out), "down"
  poll,   \* where poll is, and what it has so far
  prev,   \* c.container and c.hostPrev: the sample a rate starts from, and
          \* the work done since it (history)
  rows    \* c.rows

vars == <<life, sum, lxd, poll, prev, rows>>

All == Containers \cup {Host}

\* Before the first poll, and between two polls, poll holds nothing.
Idle == [pc |-> "idle", listed |-> [c \in Containers |-> "absent"], host |-> None, late |-> 0]

NoRows == [c \in All |-> None]

Init ==
  /\ life = [c \in Containers |-> "absent"]
  /\ sum = [c \in All |-> 0]
  /\ lxd = "up"
  /\ poll = Idle
  /\ prev = [c \in All |-> None]
  /\ rows = NoRows

-----------------------------------------------------------------------------
(* The containers and the host.                                            *)

\* A container is created and started, or started again, its counter at zero.
Start(c) ==
  /\ life[c] # "running"
  /\ life' = [life EXCEPT ![c] = "running"]
  /\ sum' = [sum EXCEPT ![c] = 0]
  /\ UNCHANGED <<lxd, poll, prev, rows>>

StopOrDelete(c) ==
  /\ life[c] # "absent"
  /\ \E s \in {"stopped", "absent"} \ {life[c]} : life' = [life EXCEPT ![c] = s]
  /\ UNCHANGED <<sum, lxd, poll, prev, rows>>

Bound(n) == IF n = Host THEN MaxHostWork ELSE MaxWork

Work(n) ==
  /\ n # Host => life[n] = "running"
  /\ sum[n] < Bound(n)
  /\ prev[n] # None => prev[n].since < Bound(n)
  /\ sum' = [sum EXCEPT ![n] = @ + 1]
  /\ prev' = [prev EXCEPT ![n] =
              IF prev[n] = None THEN None
              ELSE [prev[n] EXCEPT !.since = prev[n].since + 1]]
  /\ UNCHANGED <<life, lxd, poll, rows>>

\* A device or interface of the sum goes away and takes its part with it: on
\* the host with every container that stops, in a container with its pods.
Shrink(n) ==
  /\ n # Host => life[n] = "running"
  /\ \E less \in 0..(sum[n] - 1) : sum' = [sum EXCEPT ![n] = less]
  /\ UNCHANGED <<life, lxd, poll, prev, rows>>

LxdToggle ==
  /\ \E s \in {"up", "partial", "down"} \ {lxd} : lxd' = s
  /\ UNCHANGED <<life, sum, poll, prev, rows>>

-----------------------------------------------------------------------------
(* Collector.poll.                                                         *)

\* listContainersForMonitoring, and the poll's stamp.
PollList ==
  /\ poll.pc = "idle" /\ lxd # "down"
  /\ poll' = [pc |-> "host", listed |-> life, host |-> None, late |-> 0]
  /\ UNCHANGED <<life, sum, lxd, prev, rows>>

\* Its failure ends the poll and keeps the rows and the samples.
PollListFails ==
  /\ poll.pc = "idle" /\ lxd = "down"
  /\ UNCHANGED vars

\* Mutant: the counter's distance, not its growth.
Distance(cur, old) == IF cur < old THEN old - cur ELSE cur - old

\* Mutant: a counter that shrank makes a negative rate.
Difference(cur, old) == cur - old

\* What rate divides by dt: the growth of a counter, nothing when it shrank.
Growth(cur, old) == IF cur < old THEN 0 ELSE cur - old

Sample(n, late) ==
  [sum |-> sum[n], since |-> 0, has |-> {"counter", "size"}, late |-> late]

\* computeHostUsage, computeContainerUsage: numbers for a name that was sampled
\* before and is sampled now, its memory and CPUs included.
Row(running, new, old) ==
  IF running /\ new # None /\ old # None /\ "size" \in new.has
  THEN [running |-> TRUE, work |-> Growth(new.sum, old.sum), true |-> old.since,
        off |-> new.late - old.late, whole |-> "counter" \in old.has]
  ELSE [running |-> running, work |-> None, true |-> 0, off |-> 0, whole |-> FALSE]

\* sampleHost: a sample replaces the last one, whose rate is computed first.
PollHost ==
  /\ poll.pc = "host" /\ lxd # "down"
  /\ \E late \in poll.late..MaxLate :
       /\ poll' = [poll EXCEPT !.pc = "query", !.late = late,
                               !.host = Row(TRUE, Sample(Host, late), prev[Host])]
       /\ prev' = [prev EXCEPT ![Host] = Sample(Host, late)]
  /\ UNCHANGED <<life, sum, lxd, rows>>

\* Its failure leaves the row without numbers and the last sample in place.
PollHostFails ==
  /\ poll.pc = "host" /\ lxd = "down"
  /\ poll' = [poll EXCEPT !.pc = "query", !.host = Row(TRUE, None, prev[Host])]
  /\ UNCHANGED <<life, sum, lxd, prev, rows>>

\* Mutant: a container that was not sampled keeps its row.
PublishedKeep(samples) ==
  [n \in All |->
     IF n = Host THEN poll.host
     ELSE IF samples[n] = None THEN rows[n]
     ELSE Row(poll.listed[n] = "running", samples[n], prev[n])]

\* A row for the host and for each container listed, whatever was sampled.
Published(samples) ==
  [n \in All |->
     IF n = Host THEN poll.host
     ELSE IF poll.listed[n] = "absent" THEN None
     ELSE Row(poll.listed[n] = "running", samples[n], prev[n])]

Publish(samples) ==
  /\ rows' = Published(samples)
  /\ prev' = [n \in All |-> IF n = Host THEN prev[Host]
                            ELSE IF poll.listed[n] = "absent" THEN None ELSE samples[n]]
  /\ poll' = Idle
  /\ UNCHANGED <<life, sum, lxd>>

\* sampleContainers: LXD reports the containers that run now.  A counter it
\* leaves out is zero in the sample.
Reported(c, late, has) ==
  [Sample(c, late) EXCEPT !.has = has, !.sum = IF "counter" \in has THEN @ ELSE 0]

PollQuery ==
  /\ poll.pc = "query" /\ lxd # "down"
  /\ \E late \in poll.late..MaxLate :
       \E has \in [Containers -> IF lxd = "up" THEN {{"counter", "size"}}
                                 ELSE SUBSET {"counter", "size"}] :
         Publish([c \in Containers |->
                    IF life[c] = "running" THEN Reported(c, late, has[c]) ELSE None])

\* Its failure publishes rows without numbers and forgets every sample.
PollQueryFails ==
  /\ poll.pc = "query" /\ lxd = "down"
  /\ Publish([c \in Containers |-> None])

Poll == \/ PollList \/ PollListFails \/ PollHost \/ PollHostFails
        \/ PollQuery \/ PollQueryFails

Next == \/ \E c \in Containers : Start(c) \/ StopOrDelete(c)
        \/ \E n \in All : Work(n) \/ Shrink(n)
        \/ LxdToggle
        \/ Poll

\* Run never stops polling, and every call of a poll returns.
Spec == Init /\ [][Next]_vars /\ WF_vars(Poll)

-----------------------------------------------------------------------------
(* Properties.                                                             *)

Samples == [sum : Nat, since : Nat, has : SUBSET {"counter", "size"}, late : 0..MaxLate]
Rows == [running : BOOLEAN, work : Nat \cup {None}, true : Nat, off : Int, whole : BOOLEAN]

TypeOK ==
  /\ life \in [Containers -> {"absent", "stopped", "running"}]
  /\ sum \in [All -> Nat]
  /\ lxd \in {"up", "partial", "down"}
  /\ poll \in [pc : {"idle", "host", "query"},
               listed : [Containers -> {"absent", "stopped", "running"}],
               host : Rows \cup {None}, late : 0..MaxLate]
  /\ prev \in [All -> Samples \cup {None}]
  /\ rows \in [All -> Rows \cup {None}]

\* A rate never counts more than what was really done under its name between
\* the two samples it comes from, however often the container was restarted, or
\* deleted and created again, and whatever calls failed in between; and the time
\* it is divided by is off by no more than what a poll takes.  A rate over a
\* sample whose counter LXD left out is another matter: all of the counter then
\* counts as growth.
Honest(r) ==
  r # None /\ r.work # None =>
    /\ r.whole => r.work <= r.true
    /\ r.off \in -MaxLate..MaxLate
NeverInflated == \A n \in All : Honest(rows[n])

\* Once LXD answers in full and a container is left alone, the table tells what
\* it is: no row when it is gone, a row without numbers when it is stopped, one
\* with numbers when it runs; and the host's row has numbers.
Tells(c, s) ==
  CASE s = "absent"  -> rows[c] = None
    [] s = "stopped" -> rows[c] # None /\ rows[c].work = None
    [] s = "running" -> rows[c] # None /\ rows[c].work # None
RowsSettle ==
  /\ \A c \in Containers, s \in {"absent", "stopped", "running"} :
       <>[](lxd = "up" /\ life[c] = s) => <>[]Tells(c, s)
  /\ <>[](lxd = "up") => <>[](rows[Host] # None /\ rows[Host].work # None)
=============================================================================
