---------------------------- MODULE EdgeLedger ------------------------------
(***************************************************************************)
(* What the app promises its tenant: a ledger beside the containers says   *)
(* which edge instance runs in which, written before the instance exists   *)
(* and kept until it is gone; an instance comes once, to a container that  *)
(* has none, and goes before its container does.  An incident may end the  *)
(* promise for a container, and its next life begins it anew.  Lifecycle   *)
(* implements this module with handlers that take many calls and may stop  *)
(* after any of them.                                                      *)
(***************************************************************************)
EXTENDS Integers

CONSTANTS Names,   \* containers
          Codes,   \* edge instances, by pairing code
          Nothing, \* no entry
          Nowhere  \* in no container

VARIABLES containers, \* those that exist and the ledger vouches for
          ledger,     \* per name: the instance written down for it
          placed,     \* per instance: where it is registered to run
          paired      \* the instances that have ever been registered

vars == <<containers, ledger, placed, paired>>

Empty(n) == \A c \in Codes : placed[c] # n

Init ==
  /\ containers = {}
  /\ ledger = [n \in Names |-> Nothing]
  /\ placed = [c \in Codes |-> Nowhere]
  /\ paired = {}

\* The entry may be left from an earlier life.
Create(n) ==
  /\ n \notin containers /\ Empty(n)
  /\ containers' = containers \cup {n}
  /\ \E c \in {Nothing} \cup Codes : ledger' = [ledger EXCEPT ![n] = c]
  /\ UNCHANGED <<placed, paired>>

\* An entry may be erased, or name an instance still to come.
Write(n) ==
  /\ Empty(n)
  /\ \E c \in {Nothing} \cup (Codes \ paired) : ledger' = [ledger EXCEPT ![n] = c]
  /\ UNCHANGED <<containers, placed, paired>>

Register(n) ==
  /\ n \in containers /\ Empty(n)
  /\ ledger[n] \in Codes \ paired
  /\ placed' = [placed EXCEPT ![ledger[n]] = n]
  /\ paired' = paired \cup {ledger[n]}
  /\ UNCHANGED <<containers, ledger>>

Deregister(c) ==
  /\ placed[c] # Nowhere
  /\ placed' = [placed EXCEPT ![c] = Nowhere]
  /\ UNCHANGED <<containers, ledger, paired>>

Destroy(n) ==
  /\ n \in containers /\ Empty(n)
  /\ containers' = containers \ {n}
  /\ UNCHANGED <<ledger, placed, paired>>

\* After an incident nothing is promised of these containers...
Abandon(S) ==
  /\ containers' = containers \ S
  /\ ledger' = [n \in Names |-> IF n \in S THEN Nothing ELSE ledger[n]]
  /\ placed' = [c \in Codes |-> IF placed[c] \in S THEN Nowhere ELSE placed[c]]
  /\ UNCHANGED paired

\* ... and an instance may come to one of them.
Stray(c) ==
  /\ c \notin paired
  /\ paired' = paired \cup {c}
  /\ UNCHANGED <<containers, ledger, placed>>

Next ==
  \/ \E n \in Names : Create(n) \/ Write(n) \/ Register(n) \/ Destroy(n)
  \/ \E c \in Codes : Deregister(c) \/ Stray(c)
  \/ \E S \in SUBSET Names : Abandon(S)

Spec == Init /\ [][Next]_vars

\* Wherever an instance is, the container is there and its entry says so.
Traceable ==
  \A c \in Codes :
    placed[c] # Nowhere => placed[c] \in containers /\ ledger[placed[c]] = c
=============================================================================
