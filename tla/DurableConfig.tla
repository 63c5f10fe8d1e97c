--------------------------- MODULE DurableConfig ----------------------------
(***************************************************************************)
(* What the app promises of its configuration: there is one in use and one *)
(* that is safe, a new one is made only while none is in use, and whatever *)
(* is lost in a crash is at most the newest changes.  ConfigStore          *)
(* implements this module with two files, a key that is made on the way    *)
(* and a lock that setup does not take.                                    *)
(***************************************************************************)
EXTENDS Integers

CONSTANTS Owners,   \* whose password and secret a configuration holds
          Nothing   \* no configuration

VARIABLES used,     \* the configuration in memory
          saved     \* the one a start would read

vars == <<used, saved>>

Init == used = Nothing /\ saved = Nothing

\* A setup replaces what is saved, if anything is.
Setup ==
  /\ used = Nothing
  /\ \E o \in Owners : saved' = [owner |-> o, rev |-> 0]
  /\ UNCHANGED used

\* After a setup, or when the app starts.
Adopt ==
  /\ used' = saved
  /\ UNCHANGED saved

\* When the app starts and cannot read what is saved.
Unread ==
  /\ used' = Nothing
  /\ UNCHANGED saved

Change ==
  /\ used # Nothing
  /\ used' = [used EXCEPT !.rev = @ + 1]
  /\ UNCHANGED saved

Save ==
  /\ used # Nothing
  /\ saved' = used
  /\ UNCHANGED used

Next == Setup \/ Adopt \/ Unread \/ Change \/ Save

Spec == Init /\ [][Next]_vars

\* What is in use is what is safe, or a later revision of it.
Ahead ==
  used # Nothing =>
    saved # Nothing /\ saved.owner = used.owner /\ saved.rev <= used.rev
=============================================================================
