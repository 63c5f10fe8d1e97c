--------------------------- MODULE TerminalStream ---------------------------
(***************************************************************************)
(* What a terminal session promises of the output of its process: the     *)
(* chunks arrive in the order they were written, none twice; none is       *)
(* skipped while the session is sound; and a session that ends in good     *)
(* order has delivered everything.  WebTerm implements this module.        *)
(***************************************************************************)
EXTENDS Naturals, Sequences

VARIABLES
  written,    \* number of chunks the process has written
  delivered,  \* the chunks the terminal page has taken
  state       \* "sound", "complete" (ended in good order) or "broken"

vars == <<written, delivered, state>>

Init == written = 0 /\ delivered = << >> /\ state = "sound"

Write ==
  /\ state # "complete"
  /\ written' = written + 1
  /\ UNCHANGED <<delivered, state>>

Deliver ==
  /\ state = "sound"
  /\ Len(delivered) < written
  /\ delivered' = Append(delivered, Len(delivered) + 1)
  /\ UNCHANGED <<written, state>>

\* Once something was lost, what still comes is later than what came.
DeliverAfterLoss ==
  /\ state = "broken"
  /\ \E c \in 1..written :
       /\ \A i \in DOMAIN delivered : delivered[i] < c
       /\ delivered' = Append(delivered, c)
  /\ UNCHANGED <<written, state>>

Complete ==
  /\ state = "sound"
  /\ Len(delivered) = written
  /\ state' = "complete"
  /\ UNCHANGED <<written, delivered>>

Break ==
  /\ state = "sound"
  /\ state' = "broken"
  /\ UNCHANGED <<written, delivered>>

Next == Write \/ Deliver \/ DeliverAfterLoss \/ Complete \/ Break

Spec == Init /\ [][Next]_vars
=============================================================================
