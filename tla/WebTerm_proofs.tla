--------------------------- MODULE WebTerm_proofs ---------------------------
(***************************************************************************)
(* Proofs about WebTerm, for every amount of output and input, any buffer  *)
(* sizes, any window sizes and any watermark: typing, what is left of a    *)
(* session, that its goroutines never wait for each other for ever, the    *)
(* terminal's size, the order of input, and that the output is the stream  *)
(* TerminalStream describes.                                               *)
(***************************************************************************)
EXTENDS WebTerm, SequenceTheorems, TLAPS

(* The widths and cells of a page make a number of columns.                *)
LEMMA ColsNat == \A w \in Widths : Cols(w) \in Nat
BY TermAssumption DEF Cols

Out == 1..MaxOut
Key == 1..MaxKeys

(* What the types of the sequences rest on: at most one chunk is held, and *)
(* what looks like a key is one.                                           *)
Single == Len(held) <= 1 /\ Len(input) <= 1
KeysAreKeys == \A i \in DOMAIN up : up[i].kind = "keys" => up[i].n \in Key
Typed == TypeOK /\ Single /\ KeysAreKeys

(* Taking the first of a sequence.                                         *)
LEMMA HeadTail ==
  ASSUME NEW S, NEW s \in Seq(S), s # << >>
  PROVE  /\ Head(s) \in S /\ Tail(s) \in Seq(S) /\ Len(Tail(s)) = Len(s) - 1
         /\ Head(s) = s[1] /\ 1 \in DOMAIN s
         /\ \A i \in DOMAIN Tail(s) : i + 1 \in DOMAIN s /\ Tail(s)[i] = s[i + 1]
BY HeadTailProperties, EmptySeq, LenProperties

(* Adding one at the end.                                                  *)
LEMMA Appended ==
  ASSUME NEW S, NEW s \in Seq(S), NEW e \in S
  PROVE  /\ Append(s, e) \in Seq(S) /\ Len(Append(s, e)) = Len(s) + 1
         /\ DOMAIN Append(s, e) = 1..Len(s) + 1
         /\ Append(s, e)[Len(s) + 1] = e
         /\ \A i \in DOMAIN s : Append(s, e)[i] = s[i]
BY AppendProperties, LenProperties

Messages == [kind : {"keys", "resize"}, n : Nat]

(* A message that joins the others keeps them what they are.               *)
LEMMA SentTyped ==
  ASSUME Typed, NEW msg \in Messages, msg.kind = "keys" => msg.n \in Key,
         up' = Append(up, msg)
  PROVE  up' \in Seq(Messages) /\ KeysAreKeys'
<1>1. up \in Seq(Messages)
  BY DEF Typed, TypeOK, Messages
<1>2. /\ Append(up, msg) \in Seq(Messages)
      /\ DOMAIN Append(up, msg) = 1..Len(up) + 1
      /\ Append(up, msg)[Len(up) + 1] = msg
      /\ \A i \in DOMAIN up : Append(up, msg)[i] = up[i]
  BY <1>1, Appended
<1>3. DOMAIN up = 1..Len(up) /\ Len(up) \in Nat
  BY <1>1, LenProperties
<1>4. ASSUME NEW i \in DOMAIN up', up'[i].kind = "keys" PROVE up'[i].n \in Key
  <2>1. CASE i = Len(up) + 1
    BY <1>2, <1>4, <2>1
  <2>2. CASE i \in DOMAIN up
    BY <1>2, <1>4, <2>2 DEF Typed, KeysAreKeys
  <2>3. QED
    BY <1>2, <1>3, <2>1, <2>2
<1>5. QED
  BY <1>2, <1>4 DEF KeysAreKeys

(* Taking a message leaves the others what they are.                       *)
LEMMA TakenTyped ==
  ASSUME Typed, up # << >>, up' = Tail(up)
  PROVE  /\ up' \in Seq(Messages) /\ KeysAreKeys'
         /\ Head(up) \in Messages /\ (Head(up).kind = "keys" => Head(up).n \in Key)
<1>1. up \in Seq(Messages)
  BY DEF Typed, TypeOK, Messages
<1>2. /\ Head(up) \in Messages /\ Tail(up) \in Seq(Messages)
      /\ Head(up) = up[1] /\ 1 \in DOMAIN up
      /\ \A i \in DOMAIN Tail(up) : i + 1 \in DOMAIN up /\ Tail(up)[i] = up[i + 1]
  BY <1>1, HeadTail
<1>3. QED
  BY <1>2 DEF Typed, KeysAreKeys

(* Every step keeps the types.                                             *)
LEMMA TypedStep == Typed /\ [Next]_vars => Typed'
<1> USE TermAssumption
<1> SUFFICES ASSUME Typed, [Next]_vars PROVE Typed'
  OBVIOUS
<1> USE DEF Typed, Single, procVars, ptyVars, mainVars, readVars, wireVars, pageVars
<1>1. CASE ProcWrite
  <2>1. wrote + 1 \in Out
    BY <1>1 DEF ProcWrite, TypeOK, Out
  <2>2. ptyOut' \in Seq(Out) /\ Len(ptyOut') = Len(ptyOut) + 1
    BY <1>1, <2>1, Appended DEF ProcWrite, TypeOK, Out
  <2>3. Len(ptyOut') <= PtyCap
    BY <1>1, <2>2, EmptySeq, LenProperties DEF ProcWrite, TypeOK
  <2>4. TypeOK'
    BY <1>1, <2>1, <2>2, <2>3 DEF ProcWrite, TypeOK, Out
  <2>5. QED
    BY <1>1, <2>4 DEF ProcWrite, KeysAreKeys
<1>2. CASE ProcRead
  <2>1. Head(ptyIn) \in Key /\ ptyIn' \in Seq(Key)
    BY <1>2, HeadTail DEF ProcRead, TypeOK, Key
  <2>2. got' \in Seq(Key)
    BY <1>2, <2>1, Appended DEF ProcRead, TypeOK, Key
  <2>3. TypeOK'
    BY <1>2, <2>1, <2>2 DEF ProcRead, TypeOK, Key
  <2>4. QED
    BY <1>2, <2>3 DEF ProcRead, KeysAreKeys
<1>3. CASE ReadKeys
  <2>1. up' \in Seq(Messages) /\ KeysAreKeys' /\ Head(up).n \in Key
    BY <1>3, TakenTyped DEF ReadKeys
  <2>2. input' \in Seq(Key) /\ Len(input') = 1
    BY <1>3, <2>1 DEF ReadKeys
  <2>3. TypeOK'
    BY <1>3, <2>1, <2>2 DEF ReadKeys, TypeOK, Key, Messages
  <2>4. QED
    BY <1>3, <2>1, <2>2, <2>3 DEF ReadKeys
<1>4. CASE ReadResize
  <2>1. up' \in Seq(Messages) /\ KeysAreKeys' /\ Head(up).n \in Nat
    BY <1>4, TakenTyped DEF ReadResize, Messages
  <2>2. TypeOK'
    BY <1>4, <2>1 DEF ReadResize, TypeOK, Messages
  <2>3. QED
    BY <1>4, <2>1, <2>2 DEF ReadResize
<1>5. CASE WriteInput
  <2>1. ptyIn' \in Seq(Key)
    BY <1>5, ConcatProperties DEF WriteInput, TypeOK, Key
  <2>2. TypeOK'
    BY <1>5, <2>1 DEF WriteInput, TypeOK, Key
  <2>3. QED
    BY <1>5, <2>2 DEF WriteInput, KeysAreKeys
<1>6. ASSUME CloseConn, UNCHANGED <<procVars, ptyVars, input, lateKey, readVars, up, pageVars>>,
             main' \in {main, "done"}, closer' \in {closer, "done"}, mu' = mu, ctx' = ctx
      PROVE  Typed'
  <2>1. down' \in Seq(Out) /\ Len(down') <= WireCap
    <3>1. CASE down' = down
      BY <3>1 DEF TypeOK, Out
    <3>2. ASSUME NEW k \in 0..Len(down), down' = SubSeq(down, 1, k)
          PROVE  down' \in Seq(Out) /\ Len(down') <= WireCap
      <4>1. down \in Seq(Out) /\ Len(down) \in Nat /\ Len(down) <= WireCap
        BY LenProperties DEF TypeOK, Out
      <4>2. \A i \in 1..k : down[i] \in Out
        BY <4>1, ElementOfSeq
      <4>3. k \in Int /\ 1 \in Int
        BY <4>1
      <4>4. down' \in Seq(Out) /\ Len(down') = IF 1 <= k THEN k - 1 + 1 ELSE 0
        BY <3>2, <4>2, <4>3, SubSeqProperties
      <4>5. QED
        BY <4>1, <4>4
    <3>3. QED
      BY <1>6, <3>1, <3>2 DEF CloseConn
  <2>2. conn' \in {"open", "closed"} /\ closeFrame' \in {"none", "sent", "failed", "seen"}
    BY <1>6 DEF CloseConn, TypeOK
  <2>3. TypeOK'
    BY <1>6, <2>1, <2>2 DEF TypeOK, Out
  <2>4. QED
    BY <1>6, <2>3 DEF KeysAreKeys
<1>7. CASE ReadOutput
  <2>1. Head(ptyOut) \in Out /\ ptyOut' \in Seq(Out) /\ Len(ptyOut') = Len(ptyOut) - 1
    BY <1>7, HeadTail DEF ReadOutput, TypeOK, Out
  <2>2. held' \in Seq(Out) /\ Len(held') = 1
    BY <1>7, <2>1 DEF ReadOutput
  <2>3. Len(ptyOut') <= PtyCap
    BY <2>1, LenProperties DEF TypeOK
  <2>4. TypeOK'
    BY <1>7, <2>1, <2>2, <2>3 DEF ReadOutput, TypeOK, Out
  <2>5. QED
    BY <1>7, <2>2, <2>4 DEF ReadOutput, KeysAreKeys
<1>8. CASE SendOutput
  <2>1. down' \in Seq(Out) /\ Len(down') = Len(down) + Len(held)
    BY <1>8, ConcatProperties DEF SendOutput, TypeOK, Out
  <2>2. Len(down') <= WireCap
    BY <1>8, <2>1, LenProperties DEF SendOutput, TypeOK
  <2>3. TypeOK'
    BY <1>8, <2>1, <2>2 DEF SendOutput, TypeOK, Out
  <2>4. QED
    BY <1>8, <2>3 DEF SendOutput, KeysAreKeys
<1>9. CASE PageOpen
  <2>1. Resize(size) \in Messages /\ Resize(size).kind # "keys"
    BY DEF Resize, Messages, TypeOK
  <2>2. up' \in Seq(Messages) /\ KeysAreKeys'
    BY <1>9, <2>1, SentTyped DEF PageOpen
  <2>3. TypeOK'
    BY <1>9, <2>2 DEF PageOpen, TypeOK, Messages
  <2>4. QED
    BY <1>9, <2>2, <2>3 DEF PageOpen
<1>10. CASE Type
  <2>1. typed + 1 \in Key /\ typed' = typed + 1
    BY <1>10 DEF Type, TypeOK, Key
  <2>2. Keys(typed + 1) \in Messages /\ Keys(typed + 1).n \in Key
    BY <2>1 DEF Keys, Messages, Key
  <2>3. up' = Append(up, Keys(typed + 1))
    BY <1>10 DEF Type, Sent
  <2>4. up' \in Seq(Messages) /\ KeysAreKeys'
    BY <2>2, <2>3, SentTyped
  <2>5. TypeOK'
    BY <1>10, <2>1, <2>4 DEF Type, TypeOK, Key, Messages
  <2>6. QED
    BY <1>10, <2>4, <2>5 DEF Type
<1>11. CASE ResizeWindow
  <2>1. size' \in Nat /\ resized' \in 0..MaxResize
    BY <1>11, ColsNat DEF ResizeWindow, TypeOK
  <2>2. Resize(size') \in Messages /\ Resize(size').kind # "keys"
    BY <2>1 DEF Resize, Messages
  <2>3. up' \in Seq(Messages) /\ KeysAreKeys'
    <3>1. CASE up' = up
      BY <3>1 DEF TypeOK, Messages, KeysAreKeys
    <3>2. CASE up' = Append(up, Resize(size'))
      BY <2>2, <3>2, SentTyped
    <3>3. QED
      BY <1>11, <3>1, <3>2 DEF ResizeWindow, Sent
  <2>4. TypeOK'
    BY <1>11, <2>1, <2>3 DEF ResizeWindow, TypeOK, Messages
  <2>5. QED
    BY <1>11, <2>3, <2>4 DEF ResizeWindow
<1>12. CASE Receive
  <2>1. Head(down) \in Out /\ down' \in Seq(Out) /\ Len(down') = Len(down) - 1
    BY <1>12, HeadTail DEF Receive, TypeOK, Out
  <2>2. Len(down') <= WireCap
    BY <2>1, LenProperties DEF TypeOK
  <2>a. Append(screen, Head(down)) \in Seq(Out)
    BY <2>1, Appended DEF TypeOK, Out
  <2>b. screen' \in Seq(Out)
    BY <1>12, <2>a DEF Receive, TypeOK, Out
  <2>c. discarded' \in BOOLEAN
    <3>1. discarded' = TRUE \/ discarded' = discarded
      BY <1>12 DEF Receive
    <3>2. QED
      BY <3>1 DEF TypeOK
  <2>3. screen' \in Seq(Out) /\ discarded' \in BOOLEAN
    BY <2>b, <2>c
  <2>4. TypeOK'
    BY <1>12, <2>1, <2>2, <2>3 DEF Receive, TypeOK, Out
  <2>5. QED
    BY <1>12, <2>4 DEF Receive, KeysAreKeys
<1>13. CASE ProcExit
  BY <1>13 DEF ProcExit, TypeOK, KeysAreKeys
<1>14. CASE StartOk
  BY <1>14 DEF StartOk, TypeOK, KeysAreKeys
<1>15. CASE StartFails
  BY <1>15 DEF StartFails, TypeOK, KeysAreKeys
<1>16. CASE ReadFails
  BY <1>16 DEF ReadFails, TypeOK, KeysAreKeys
<1>17. CASE ClosePty
  BY <1>17 DEF ClosePty, TypeOK, KeysAreKeys
<1>18. CASE Reap
  BY <1>18 DEF Reap, TypeOK, KeysAreKeys
<1>19. CASE Cancel
  BY <1>19 DEF Cancel, TypeOK, KeysAreKeys
<1>20. CASE OutputEnds
  BY <1>20 DEF OutputEnds, TypeOK, KeysAreKeys
<1>21. CASE ReaderLock
  BY <1>21 DEF ReaderLock, TypeOK, KeysAreKeys
<1>22. CASE SendFails
  BY <1>22 DEF SendFails, TypeOK, KeysAreKeys
<1>23. CASE ReaderCancel
  BY <1>23 DEF ReaderCancel, TypeOK, KeysAreKeys
<1>24. CASE CloserLock
  BY <1>24 DEF CloserLock, TypeOK, KeysAreKeys
<1>25. CASE SendClose
  BY <1>25 DEF SendClose, TypeOK, KeysAreKeys
<1>26. CASE Parse
  BY <1>26 DEF Parse, TypeOK, KeysAreKeys
<1>27. CASE SeeClose
  BY <1>27 DEF SeeClose, TypeOK, KeysAreKeys
<1>28. CASE Leave
  BY <1>28 DEF Leave, TypeOK, KeysAreKeys
<1>29. CASE WriteToDead
  <2>1. lateKey' = lateKey \/ lateKey' = ~ctx
    BY <1>29 DEF WriteToDead
  <2>2. lateKey' \in BOOLEAN
    BY <2>1 DEF TypeOK
  <2>3. QED
    BY <1>29, <2>2 DEF WriteToDead, TypeOK, KeysAreKeys
<1>30. CASE Return
  BY <1>30, <1>6 DEF Return
<1>31. CASE CloserClose
  BY <1>31, <1>6 DEF CloserClose
<1>32. CASE UNCHANGED vars
  BY <1>32 DEF vars, TypeOK, KeysAreKeys
<1>33. QED
  BY <1>1, <1>2, <1>3, <1>4, <1>5, <1>6, <1>7, <1>8, <1>9, <1>10, <1>11, <1>12, <1>13,
     <1>14, <1>15, <1>16, <1>17, <1>18, <1>19, <1>20, <1>21, <1>22, <1>23, <1>24, <1>25,
     <1>26, <1>27, <1>28, <1>29, <1>30, <1>31, <1>32 DEF Next, Main, Reader, Closer,
     Shown, ProcKilled

(* At the start everything is empty.                                       *)
LEMMA TypedInit == Init => Typed
<1> SUFFICES ASSUME Init PROVE Typed
  OBVIOUS
<1>1. size \in Nat
  BY ColsNat DEF Init
<1>2. \A S : << >> \in Seq(S) /\ Len(<< >>) = 0
  BY EmptySeq
<1>3. KeysAreKeys /\ Single
  BY <1>2 DEF Init, KeysAreKeys, Single
<1>4. lateKey \in BOOLEAN /\ ctx \in BOOLEAN /\ discarded \in BOOLEAN
  BY DEF Init
<1>5. /\ got \in Seq(1..MaxKeys) /\ ptyIn \in Seq(1..MaxKeys) /\ input \in Seq(1..MaxKeys)
      /\ ptyOut \in Seq(1..MaxOut) /\ held \in Seq(1..MaxOut)
      /\ down \in Seq(1..MaxOut) /\ screen \in Seq(1..MaxOut)
      /\ up \in Seq([kind : {"keys", "resize"}, n : Nat])
  BY EmptySeq DEF Init
<1>6. Len(down) <= WireCap /\ Len(ptyOut) <= PtyCap
  BY <1>2, TermAssumption DEF Init
<1>7. /\ wrote \in 0..MaxOut /\ typed \in 0..MaxKeys /\ resized \in 0..MaxResize
      /\ winsize \in Nat /\ parsed \in Nat
  BY TermAssumption DEF Init
<1>8. TypeOK
  BY <1>1, <1>4, <1>5, <1>6, <1>7 DEF Init, TypeOK
<1>9. QED
  BY <1>3, <1>8 DEF Typed

(* Every variable keeps its type; in particular no buffer overflows.       *)
THEOREM Typing == Spec => []TypeOK
<1>1. Typed => TypeOK
  BY DEF Typed
<1>2. QED
  BY <1>1, TypedInit, TypedStep, PTL DEF Spec

-----------------------------------------------------------------------------
(* Where the three goroutines of a session can be.                         *)

(* writeMu is held by whoever is about to send.                            *)
LocksHeld ==
  /\ mu = "reader" <=> reader = "send"
  /\ mu = "closer" <=> closer = "send"

(* Before the process starts nothing has happened on the server.           *)
Fresh ==
  main = "start" =>
    /\ proc = "none" /\ wrote = 0 /\ got = << >> /\ ptyIn = << >> /\ ptyOut = << >>
    /\ reader = "off" /\ closer = "off" /\ ~ctx
    /\ down = << >> /\ screen = << >>

(* The socket is closed, and anything about it said, only after cancelling. *)
Cancelled ==
  /\ conn = "closed" => ctx
  /\ closer \in {"send", "close", "done"} => ctx
  /\ closeFrame \in {"sent", "seen"} => ctx
  /\ main \in {"closeConn", "done"} => ctx

(* ServeWS returns after it has waited for the process and closed.         *)
Cleaned ==
  /\ main \in {"cancel", "closeConn", "done"} => proc \in {"none", "reaped"}
  /\ main \in {"read", "write", "closePty", "reap"} => proc # "none"
  /\ main = "done" => conn = "closed"
  /\ master = "closed" => main \in {"reap", "cancel", "closeConn", "done"}
  /\ main \in {"start", "read", "write"} => lateKey = FALSE

(* Chunks are held only between reading and sending them.                  *)
Holding ==
  /\ reader \notin {"lock", "send"} => held = << >>
  /\ main # "write" => input = << >>

(* The page has seen everything that was sent before the close frame.      *)
Seen == closeFrame = "seen" => page = "closed" /\ down = << >>

Control == LocksHeld /\ Fresh /\ Cancelled /\ Cleaned /\ Holding /\ Seen

(* Every step keeps them there.                                            *)
LEMMA ControlStep == Typed /\ Control /\ [Next]_vars => Control'
<1> SUFFICES ASSUME Typed, Control, [Next]_vars PROVE Control'
  OBVIOUS
<1>t. /\ lateKey \in BOOLEAN /\ ctx \in BOOLEAN
      /\ mu \in {"free", "reader", "closer"}
  BY DEF Typed, TypeOK
<1> USE <1>t DEF Control, LocksHeld, Fresh, Cancelled, Cleaned, Holding, Seen,
        procVars, ptyVars, mainVars, readVars, wireVars, pageVars
<1>1. CASE ProcWrite
  BY <1>1 DEF ProcWrite
<1>2. CASE ProcRead
  BY <1>2 DEF ProcRead
<1>3. CASE ProcExit
  BY <1>3 DEF ProcExit
<1>4. CASE StartOk
  BY <1>4 DEF StartOk
<1>5. CASE StartFails
  BY <1>5 DEF StartFails
<1>6. CASE ReadKeys
  BY <1>6 DEF ReadKeys
<1>7. CASE ReadResize
  BY <1>7 DEF ReadResize
<1>8. CASE ReadFails
  BY <1>8 DEF ReadFails
<1>9. CASE WriteInput
  BY <1>9 DEF WriteInput
<1>10. CASE WriteToDead
  BY <1>10 DEF WriteToDead
<1>11. CASE ClosePty
  BY <1>11 DEF ClosePty
<1>12. CASE Reap
  BY <1>12 DEF Reap
<1>13. CASE Cancel
  BY <1>13 DEF Cancel
<1>14. CASE Return
  BY <1>14 DEF Return, CloseConn
<1>15. CASE ReadOutput
  BY <1>15 DEF ReadOutput
<1>16. CASE OutputEnds
  BY <1>16 DEF OutputEnds
<1>17. CASE ReaderLock
  BY <1>17 DEF ReaderLock
<1>18. CASE SendOutput
  BY <1>18 DEF SendOutput
<1>19. CASE SendFails
  BY <1>19 DEF SendFails
<1>20. CASE ReaderCancel
  BY <1>20 DEF ReaderCancel
<1>21. CASE CloserLock
  BY <1>21 DEF CloserLock
<1>22. CASE SendClose
  BY <1>22 DEF SendClose
<1>23. CASE CloserClose
  BY <1>23 DEF CloserClose, CloseConn
<1>24. CASE PageOpen
  BY <1>24 DEF PageOpen
<1>25. CASE Type
  BY <1>25 DEF Type
<1>26. CASE ResizeWindow
  BY <1>26 DEF ResizeWindow
<1>27. CASE Receive
  BY <1>27 DEF Receive
<1>28. CASE Parse
  BY <1>28 DEF Parse
<1>29. CASE SeeClose
  BY <1>29 DEF SeeClose
<1>30. CASE Leave
  BY <1>30 DEF Leave
<1>31. CASE UNCHANGED vars
  BY <1>31 DEF vars
<1>32. QED
  BY <1>1, <1>2, <1>3, <1>4, <1>5, <1>6, <1>7, <1>8, <1>9, <1>10, <1>11, <1>12,
     <1>13, <1>14, <1>15, <1>16, <1>17, <1>18, <1>19, <1>20, <1>21, <1>22, <1>23,
     <1>24, <1>25, <1>26, <1>27, <1>28, <1>29, <1>30, <1>31 DEF Next, Main, Reader,
     Closer, Shown, ProcKilled

(* Nothing has started.                                                    *)
LEMMA ControlInit == Init => Control
BY DEF Init, Control, LocksHeld, Fresh, Cancelled, Cleaned, Holding, Seen

(* Whichever of the three goroutines stops first, and however the process  *)
(* and the page end, a session that is over leaves no process, no open     *)
(* socket and no lock behind.                                              *)
THEOREM SessionCleansUp == Spec => []NothingLeft
<1>1. Typed /\ Control => NothingLeft
  BY DEF Typed, TypeOK, Control, LocksHeld, Cleaned, NothingLeft, Over
<1>2. QED
  BY <1>1, TypedInit, TypedStep, ControlInit, ControlStep, PTL DEF Spec

-----------------------------------------------------------------------------
(* Nobody waits for ever.  The three start together; the PTY is open until *)
(* ServeWS closes it; the goroutines return after they have cancelled and  *)
(* closed; and the close frame is the closer's last message.               *)
Together ==
  /\ main = "start" => master = "none"
  /\ reader = "off" <=> closer = "off"
  /\ main \in {"read", "write", "closePty"} => master = "open" /\ reader # "off"
  /\ main = "reap" => master = "closed" /\ reader # "off"
  /\ reader # "off" /\ main \in {"cancel", "closeConn", "done"} => master = "closed"
  /\ reader = "done" => ctx
  /\ closer = "done" => conn = "closed"
  /\ closeFrame # "none" => conn = "closed" \/ closer \in {"close", "done"}

LEMMA TogetherStep == Typed /\ Control /\ Together /\ [Next]_vars => Together'
<1> SUFFICES ASSUME Typed, Control, Together, [Next]_vars PROVE Together'
  OBVIOUS
<1>s. main = "start" => reader = "off" /\ closer = "off"
  BY DEF Control, Fresh
<1>c. ctx \in BOOLEAN
  BY DEF Typed, TypeOK
<1> USE <1>s, <1>c DEF Together, procVars, ptyVars, mainVars, readVars, wireVars, pageVars
<1>1. CASE StartOk
  BY <1>1 DEF StartOk
<1>2. CASE StartFails
  BY <1>2 DEF StartFails
<1>3. CASE ReadKeys
  BY <1>3 DEF ReadKeys
<1>4. CASE ReadFails
  BY <1>4 DEF ReadFails
<1>5. CASE WriteInput
  BY <1>5 DEF WriteInput
<1>6. CASE WriteToDead
  BY <1>6 DEF WriteToDead
<1>7. CASE ClosePty
  BY <1>7 DEF ClosePty
<1>8. CASE Reap
  BY <1>8 DEF Reap
<1>9. CASE Cancel
  BY <1>9 DEF Cancel
<1>10. CASE Return
  BY <1>10 DEF Return, CloseConn
<1>11. CASE ReadOutput
  BY <1>11 DEF ReadOutput
<1>12. CASE OutputEnds
  BY <1>12 DEF OutputEnds
<1>13. CASE ReaderLock
  BY <1>13 DEF ReaderLock
<1>14. CASE SendOutput
  BY <1>14 DEF SendOutput
<1>15. CASE SendFails
  BY <1>15 DEF SendFails
<1>16. CASE ReaderCancel
  BY <1>16 DEF ReaderCancel
<1>17. CASE CloserLock
  BY <1>17 DEF CloserLock
<1>18. CASE SendClose
  BY <1>18 DEF SendClose
<1>19. CASE CloserClose
  BY <1>19 DEF CloserClose, CloseConn
<1>20. CASE SeeClose
  BY <1>20 DEF SeeClose
<1>21. CASE ProcWrite \/ ProcRead \/ ProcExit \/ ReadResize \/ PageOpen
  BY <1>21 DEF ProcWrite, ProcRead, ProcExit, ReadResize, PageOpen
<1>22. CASE Type \/ ResizeWindow \/ Receive \/ Parse \/ Leave
  BY <1>22 DEF Type, ResizeWindow, Receive, Parse, Leave
<1>23. CASE UNCHANGED vars
  BY <1>23 DEF vars
<1>24. QED
  BY <1>1, <1>2, <1>3, <1>4, <1>5, <1>6, <1>7, <1>8, <1>9, <1>10, <1>11,
     <1>12, <1>13, <1>14, <1>15, <1>16, <1>17, <1>18, <1>19, <1>20, <1>21,
     <1>22, <1>23 DEF Next, Main, Reader, Closer, Shown, ProcKilled

LEMMA TogetherInit == Init => Together
BY DEF Init, Together

(* What is full is not empty.                                              *)
LEMMA FullBuffers ==
  ASSUME Typed
  PROVE  /\ Len(down) < WireCap \/ (Len(down) = WireCap /\ down # << >>)
         /\ Len(ptyIn) < PtyCap \/ ptyIn # << >>
<1>1. /\ Len(down) \in Nat /\ Len(down) <= WireCap /\ WireCap \in Nat \ {0}
      /\ Len(ptyIn) \in Nat /\ PtyCap \in Nat \ {0}
  BY TermAssumption, LenProperties DEF Typed, TypeOK
<1>2. (down = << >> => Len(down) = 0) /\ (ptyIn = << >> => Len(ptyIn) = 0)
  BY EmptySeq
<1>3. QED
  BY <1>1, <1>2

(* Each of them waits for something only another can be late with.         *)
LEMMA SomeoneGoes ==
  ASSUME Typed, Control, Together,
         proc # "run" \/ page \in {"closed", "gone"},
         ~(Over /\ page \in {"closed", "gone"})
  PROVE  MainGoes \/ ReaderGoes \/ CloserGoes \/ PageGoes \/ ProcReads
<1>1. /\ page \in {"connecting", "open", "closed", "gone"}
      /\ main \in {"start", "read", "write", "closePty", "reap", "cancel", "closeConn", "done"}
      /\ reader \in {"off", "read", "lock", "send", "cancel", "done"}
      /\ closer \in {"off", "wait", "send", "close", "done"}
      /\ mu \in {"free", "reader", "closer"} /\ conn \in {"open", "closed"}
      /\ ctx \in BOOLEAN
  BY DEF Typed, TypeOK
<1>2. (mu = "reader" <=> reader = "send") /\ (mu = "closer" <=> closer = "send")
  BY DEF Control, LocksHeld
<1>3. CASE closer = "send"
  <2>1. conn = "closed" \/ closeFrame = "none"
    BY <1>3 DEF Together
  <2>2. QED
    BY <1>3, <2>1 DEF CloserGoes
<1>4. CASE reader = "send"
  <2>1. Len(down) < WireCap \/ down # << >>
    BY FullBuffers
  <2>2. QED
    BY <1>1, <1>4, <2>1 DEF ReaderGoes, PageGoes
<1>5. CASE mu = "free" /\ (reader \in {"lock", "cancel"} \/ closer = "close")
  BY <1>5 DEF ReaderGoes, CloserGoes
<1>6. CASE /\ mu = "free" /\ reader \in {"off", "read", "done"}
           /\ closer \in {"off", "wait", "done"}
  <2>1. CASE main = "done"
    <3>1. conn = "closed" /\ ctx
      BY <2>1 DEF Control, Cleaned, Cancelled
    <3>2. CASE reader = "read"
      BY <2>1, <3>2 DEF Together, ReaderGoes
    <3>3. CASE closer = "wait"
      BY <1>6, <3>1, <3>3 DEF CloserGoes
    <3>4. CASE reader \in {"off", "done"} /\ closer \in {"off", "done"}
      BY <1>1, <2>1, <3>1, <3>4 DEF Over, PageGoes
    <3>5. QED
      BY <1>6, <3>2, <3>3, <3>4
  <2>2. CASE main = "write"
    BY <2>2, FullBuffers DEF Typed, TypeOK, MainGoes, ProcReads
  <2>3. CASE main = "read"
    <3>1. CASE page \in {"closed", "gone"} \/ conn = "closed"
      BY <2>3, <3>1 DEF MainGoes
    <3>2. CASE page = "connecting"
      BY <3>2 DEF PageGoes
    <3>3. CASE page = "open" /\ conn = "open"
      <4>1. proc # "run" /\ master = "open" /\ reader # "off" /\ closer # "off"
        BY <2>3, <3>3 DEF Together
      <4>2. CASE reader = "read"
        BY <4>1, <4>2 DEF ReaderGoes
      <4>3. CASE reader = "done"
        BY <1>6, <3>3, <4>1, <4>3 DEF Together, CloserGoes
      <4>4. QED
        BY <1>6, <4>1, <4>2, <4>3
    <3>4. QED
      BY <1>1, <3>1, <3>2, <3>3
  <2>4. CASE main \notin {"read", "write", "done"}
    BY <2>4 DEF MainGoes
  <2>5. QED
    BY <2>1, <2>2, <2>3, <2>4
<1>7. QED
  BY <1>1, <1>2, <1>3, <1>4, <1>5, <1>6

(* So whatever is full, whoever holds writeMu and whichever ends first, a  *)
(* session whose process or page has ended can always go on towards its    *)
(* end: a full socket is emptied by a page or fails, and the PTY's input   *)
(* by a process or fails, for all sizes of either.                         *)
THEOREM NoDeadlock == Spec => []NeverStuck
<1>1. Typed /\ Control /\ Together => NeverStuck
  BY SomeoneGoes DEF NeverStuck
<1>2. Typed /\ Control /\ Together /\ [Next]_vars => (Typed /\ Control /\ Together)'
  BY TypedStep, ControlStep, TogetherStep
<1>3. QED
  BY <1>1, <1>2, TypedInit, ControlInit, TogetherInit, PTL DEF Spec

-----------------------------------------------------------------------------
(* The size of the terminal.                                               *)

LastSize ==
  \E i \in DOMAIN up : /\ up[i] = Resize(size)
                       /\ \A j \in DOMAIN up : j > i => up[j].kind = "keys"
NoSize == \A i \in DOMAIN up : up[i].kind = "keys"

(* The last size on its way is the page's; if none is, the PTY has it.     *)
SizeKnown ==
  page = "open" /\ main \in {"start", "read", "write"}
    => LastSize \/ (NoSize /\ winsize = size)

(* A resize message that joins the others is the last.                     *)
LEMMA ResizeJoins ==
  ASSUME Typed, size' \in Nat, up' = Append(up, Resize(size'))
  PROVE  LastSize'
<1>1. up \in Seq(Messages) /\ Resize(size') \in Messages
  BY DEF Typed, TypeOK, Messages, Resize
<1>2. /\ DOMAIN up' = 1..Len(up) + 1 /\ up'[Len(up) + 1] = Resize(size') /\ Len(up) \in Nat
  BY <1>1, Appended, LenProperties
<1>3. QED
  BY <1>2 DEF LastSize

(* Keys that join them change nothing.                                     *)
LEMMA KeysJoin ==
  ASSUME Typed, NEW n \in Nat, up' = Append(up, Keys(n)), UNCHANGED <<size, winsize>>,
         LastSize \/ (NoSize /\ winsize = size)
  PROVE  LastSize' \/ (NoSize' /\ winsize' = size')
<1>1. up \in Seq(Messages) /\ Keys(n) \in Messages /\ Keys(n).kind = "keys"
  BY DEF Typed, TypeOK, Messages, Keys
<1>2. /\ DOMAIN up' = 1..Len(up) + 1 /\ up'[Len(up) + 1] = Keys(n) /\ Len(up) \in Nat
      /\ \A i \in DOMAIN up : up'[i] = up[i]
      /\ DOMAIN up = 1..Len(up)
  BY <1>1, Appended, LenProperties
<1>3. CASE LastSize
  <2>1. PICK i \in DOMAIN up : /\ up[i] = Resize(size)
                              /\ \A j \in DOMAIN up : j > i => up[j].kind = "keys"
    BY <1>3 DEF LastSize
  <2>2. i \in DOMAIN up' /\ up'[i] = Resize(size')
    BY <1>2, <2>1
  <2>3. ASSUME NEW j \in DOMAIN up', j > i PROVE up'[j].kind = "keys"
    <3>1. j \in DOMAIN up \/ j = Len(up) + 1
      BY <1>2
    <3>2. QED
      BY <1>1, <1>2, <2>1, <2>3, <3>1
  <2>4. QED
    BY <2>2, <2>3 DEF LastSize
<1>4. CASE NoSize /\ winsize = size
  <2>1. ASSUME NEW j \in DOMAIN up' PROVE up'[j].kind = "keys"
    <3>1. j \in DOMAIN up \/ j = Len(up) + 1
      BY <1>2
    <3>2. QED
      BY <1>1, <1>2, <1>4, <3>1 DEF NoSize
  <2>2. QED
    BY <1>4, <2>1 DEF NoSize
<1>5. QED
  BY <1>3, <1>4

(* Taking a message: a resize the server has applied, or keys.             *)
LEMMA MessageTaken ==
  ASSUME Typed, up # << >>, up' = Tail(up), size' = size,
         IF Head(up).kind = "resize" THEN winsize' = Head(up).n ELSE winsize' = winsize,
         LastSize \/ (NoSize /\ winsize = size)
  PROVE  LastSize' \/ (NoSize' /\ winsize' = size')
<1>1. up \in Seq(Messages)
  BY DEF Typed, TypeOK, Messages
<1>2. /\ Head(up) = up[1] /\ 1 \in DOMAIN up /\ Len(up') = Len(up) - 1 /\ up' \in Seq(Messages)
      /\ \A i \in DOMAIN up' : i + 1 \in DOMAIN up /\ up'[i] = up[i + 1]
  BY <1>1, HeadTail
<1>3. DOMAIN up = 1..Len(up) /\ DOMAIN up' = 1..Len(up) - 1 /\ Len(up) \in Nat
  BY <1>1, <1>2, LenProperties
<1>4. CASE LastSize
  <2>1. PICK i \in DOMAIN up : /\ up[i] = Resize(size)
                              /\ \A j \in DOMAIN up : j > i => up[j].kind = "keys"
    BY <1>4 DEF LastSize
  <2>2. CASE i = 1
    <3>1. winsize' = size'
      BY <1>2, <2>1, <2>2 DEF Resize
    <3>2. ASSUME NEW j \in DOMAIN up' PROVE up'[j].kind = "keys"
      <4>1. j + 1 \in DOMAIN up /\ j + 1 > 1 /\ up'[j] = up[j + 1]
        BY <1>2, <1>3
      <4>2. QED
        BY <2>1, <2>2, <4>1
    <3>3. QED
      BY <3>1, <3>2 DEF NoSize
  <2>3. CASE i # 1
    <3>1. i - 1 \in DOMAIN up' /\ up'[i - 1] = up[i]
      <4>1. i - 1 \in DOMAIN up' /\ (i - 1) + 1 = i
        BY <1>3, <2>3
      <4>2. QED
        BY <1>2, <4>1
    <3>2. ASSUME NEW j \in DOMAIN up', j > i - 1 PROVE up'[j].kind = "keys"
      <4>1. j + 1 \in DOMAIN up /\ j + 1 > i /\ up'[j] = up[j + 1]
        BY <1>2, <1>3, <3>2
      <4>2. QED
        BY <2>1, <4>1
    <3>3. QED
      BY <2>1, <3>1, <3>2 DEF LastSize
  <2>4. QED
    BY <2>2, <2>3
<1>5. CASE NoSize /\ winsize = size
  BY <1>2, <1>5 DEF NoSize
<1>6. QED
  BY <1>4, <1>5

(* Every step keeps the size known.                                        *)
LEMMA SizeStep == Typed /\ SizeKnown /\ [Next]_vars => SizeKnown'
<1> SUFFICES ASSUME Typed, SizeKnown, [Next]_vars PROVE SizeKnown'
  OBVIOUS
<1> USE DEF procVars, ptyVars, mainVars, readVars, wireVars, pageVars
<1>f. ASSUME UNCHANGED <<up, size, winsize>>,
             page' = "open" => page = "open",
             main' \in {"start", "read", "write"} => main \in {"start", "read", "write"}
      PROVE  SizeKnown'
  BY <1>f DEF SizeKnown, LastSize, NoSize
<1>1. CASE ProcWrite
  BY <1>1, <1>f DEF ProcWrite
<1>2. CASE ProcRead
  BY <1>2, <1>f DEF ProcRead
<1>3. CASE ProcExit
  BY <1>3, <1>f DEF ProcExit
<1>4. CASE StartOk
  BY <1>4, <1>f DEF StartOk
<1>5. CASE StartFails
  BY <1>5, <1>f DEF StartFails
<1>6. CASE ReadKeys
  BY <1>6, MessageTaken DEF ReadKeys, SizeKnown
<1>7. CASE ReadResize
  BY <1>7, MessageTaken DEF ReadResize, SizeKnown
<1>8. CASE ReadFails
  BY <1>8, <1>f DEF ReadFails
<1>9. CASE WriteInput
  BY <1>9, <1>f DEF WriteInput
<1>10. CASE WriteToDead
  BY <1>10, <1>f DEF WriteToDead
<1>11. CASE ClosePty
  BY <1>11, <1>f DEF ClosePty
<1>12. CASE Reap
  BY <1>12, <1>f DEF Reap
<1>13. CASE Cancel
  BY <1>13, <1>f DEF Cancel
<1>14. CASE Return
  BY <1>14, <1>f DEF Return, CloseConn
<1>15. CASE ReadOutput
  BY <1>15, <1>f DEF ReadOutput
<1>16. CASE OutputEnds
  BY <1>16, <1>f DEF OutputEnds
<1>17. CASE ReaderLock
  BY <1>17, <1>f DEF ReaderLock
<1>18. CASE SendOutput
  BY <1>18, <1>f DEF SendOutput
<1>19. CASE SendFails
  BY <1>19, <1>f DEF SendFails
<1>20. CASE ReaderCancel
  BY <1>20, <1>f DEF ReaderCancel
<1>21. CASE CloserLock
  BY <1>21, <1>f DEF CloserLock
<1>22. CASE SendClose
  BY <1>22, <1>f DEF SendClose
<1>23. CASE CloserClose
  BY <1>23, <1>f DEF CloserClose, CloseConn
<1>24. CASE PageOpen
  BY <1>24, ResizeJoins DEF PageOpen, SizeKnown, Typed, TypeOK
<1>25. CASE Type
  <2>1. typed + 1 \in Nat
    BY DEF Typed, TypeOK
  <2>2. QED
    BY <1>25, <2>1, KeysJoin DEF Type, Sent, SizeKnown
<1>26. CASE ResizeWindow
  <2>1. size' \in Nat
    BY <1>26, ColsNat DEF ResizeWindow
  <2>2. QED
    BY <1>26, <2>1, ResizeJoins DEF ResizeWindow, Sent, SizeKnown
<1>27. CASE Receive
  BY <1>27, <1>f DEF Receive
<1>28. CASE Parse
  BY <1>28, <1>f DEF Parse
<1>29. CASE SeeClose
  BY <1>29, <1>f DEF SeeClose
<1>30. CASE Leave
  BY <1>30, <1>f DEF Leave
<1>31. CASE UNCHANGED vars
  BY <1>31 DEF vars, SizeKnown, LastSize, NoSize
<1>32. QED
  BY <1>1, <1>2, <1>3, <1>4, <1>5, <1>6, <1>7, <1>8, <1>9, <1>10, <1>11, <1>12,
     <1>13, <1>14, <1>15, <1>16, <1>17, <1>18, <1>19, <1>20, <1>21, <1>22, <1>23,
     <1>24, <1>25, <1>26, <1>27, <1>28, <1>29, <1>30, <1>31 DEF Next, Main, Reader,
     Closer, Shown, ProcKilled

(* The page has not opened.                                                *)
LEMMA SizeInit == Init => SizeKnown
BY DEF Init, SizeKnown

(* However resizes race with the opening of the socket, the start of the   *)
(* PTY and blocked input: when none is on its way the PTY has the size.    *)
THEOREM SizeArrives == Spec => []SizeFollows
<1>1. SizeKnown => SizeFollows
  BY DEF SizeKnown, SizeFollows, LastSize, Resize
<1>2. QED
  BY <1>1, TypedInit, TypedStep, SizeInit, SizeStep, PTL DEF Spec

-----------------------------------------------------------------------------
(* The order of the input.                                                 *)

(* The keys among the messages q are those from b + 1 to t, in order.      *)
Queued(b, q, t) ==
  /\ b <= t
  /\ \A i \in DOMAIN q : q[i].kind = "keys" => b < q[i].n /\ q[i].n <= t
  /\ \A i, j \in DOMAIN q :
       i < j /\ q[i].kind = "keys" /\ q[j].kind = "keys" => q[i].n < q[j].n
  /\ \A n \in b + 1..t : \E i \in DOMAIN q : q[i].kind = "keys" /\ q[i].n = n

(* The first message, when it is a key, is the next one.                   *)
LEMMA KeyTaken ==
  ASSUME NEW q \in Seq(Messages), q # << >>, NEW b \in Nat, NEW t \in Nat, Queued(b, q, t),
         Head(q).kind = "keys"
  PROVE  Head(q).n = b + 1 /\ Queued(b + 1, Tail(q), t)
<1>1. /\ Head(q) = q[1] /\ 1 \in DOMAIN q /\ Len(Tail(q)) = Len(q) - 1 /\ Tail(q) \in Seq(Messages)
      /\ \A i \in DOMAIN Tail(q) : i + 1 \in DOMAIN q /\ Tail(q)[i] = q[i + 1]
  BY HeadTail
<1>2. DOMAIN q = 1..Len(q) /\ DOMAIN Tail(q) = 1..Len(q) - 1 /\ Len(q) \in Nat
  BY <1>1, LenProperties
<1>3. \A i \in DOMAIN q : q[i].n \in Nat
  <2>1. \A i \in DOMAIN q : q[i] \in Messages
    BY <1>2, ElementOfSeq
  <2>2. QED
    BY <2>1 DEF Messages
<1>4. q[1].kind = "keys" /\ b < q[1].n /\ q[1].n <= t
  BY <1>1 DEF Queued
<1>5. PICK k \in DOMAIN q : q[k].kind = "keys" /\ q[k].n = b + 1
  <2>1. b + 1 \in b + 1..t
    BY <1>1, <1>3, <1>4
  <2>2. QED
    BY <2>1 DEF Queued
<1>6. k = 1
  <2>1. SUFFICES ASSUME 1 < k PROVE FALSE
    BY <1>2
  <2>2. q[1].n < q[k].n
    BY <1>1, <1>4, <1>5, <2>1 DEF Queued
  <2>3. QED
    BY <1>1, <1>3, <1>4, <1>5, <2>2
<1>7. Head(q).n = b + 1
  BY <1>1, <1>5, <1>6
<1>8. ASSUME NEW i \in DOMAIN Tail(q), Tail(q)[i].kind = "keys"
      PROVE  b + 1 < Tail(q)[i].n /\ Tail(q)[i].n <= t
  <2>1. i + 1 \in DOMAIN q /\ 1 < i + 1 /\ Tail(q)[i] = q[i + 1]
    BY <1>1, <1>2
  <2>2. q[1].n < q[i + 1].n /\ q[i + 1].n <= t
    BY <1>1, <1>4, <1>8, <2>1 DEF Queued
  <2>3. QED
    BY <1>5, <1>6, <2>1, <2>2
<1>9. ASSUME NEW i \in DOMAIN Tail(q), NEW j \in DOMAIN Tail(q), i < j,
             Tail(q)[i].kind = "keys", Tail(q)[j].kind = "keys"
      PROVE  Tail(q)[i].n < Tail(q)[j].n
  <2>1. i + 1 \in DOMAIN q /\ j + 1 \in DOMAIN q /\ i + 1 < j + 1
    BY <1>1, <1>2, <1>9
  <2>2. QED
    BY <1>1, <1>9, <2>1 DEF Queued
<1>10. ASSUME NEW n \in b + 1 + 1..t
       PROVE  \E i \in DOMAIN Tail(q) : Tail(q)[i].kind = "keys" /\ Tail(q)[i].n = n
  <2>1. PICK i \in DOMAIN q : q[i].kind = "keys" /\ q[i].n = n
    BY DEF Queued
  <2>2. i # 1
    BY <1>5, <1>6, <2>1
  <2>3. i - 1 \in DOMAIN Tail(q) /\ (i - 1) + 1 = i
    BY <1>2, <2>2
  <2>4. QED
    BY <1>1, <2>1, <2>3
<1>11. b + 1 <= t
  BY <1>1, <1>3, <1>4
<1>12. QED
  BY <1>7, <1>8, <1>9, <1>10, <1>11 DEF Queued

(* A resize message in front is none of them.                              *)
LEMMA ResizeTaken ==
  ASSUME NEW q \in Seq(Messages), q # << >>, NEW b \in Nat, NEW t \in Nat, Queued(b, q, t),
         Head(q).kind = "resize"
  PROVE  Queued(b, Tail(q), t)
<1>1. /\ Head(q) = q[1] /\ 1 \in DOMAIN q /\ Len(Tail(q)) = Len(q) - 1 /\ Tail(q) \in Seq(Messages)
      /\ \A i \in DOMAIN Tail(q) : i + 1 \in DOMAIN q /\ Tail(q)[i] = q[i + 1]
  BY HeadTail
<1>2. DOMAIN q = 1..Len(q) /\ DOMAIN Tail(q) = 1..Len(q) - 1 /\ Len(q) \in Nat
  BY <1>1, LenProperties
<1>3. ASSUME NEW i \in DOMAIN Tail(q), NEW j \in DOMAIN Tail(q), i < j,
             Tail(q)[i].kind = "keys", Tail(q)[j].kind = "keys"
      PROVE  Tail(q)[i].n < Tail(q)[j].n
  <2>1. i + 1 \in DOMAIN q /\ j + 1 \in DOMAIN q /\ i + 1 < j + 1
    BY <1>1, <1>2, <1>3
  <2>2. QED
    BY <1>1, <1>3, <2>1 DEF Queued
<1>4. ASSUME NEW n \in b + 1..t
      PROVE  \E i \in DOMAIN Tail(q) : Tail(q)[i].kind = "keys" /\ Tail(q)[i].n = n
  <2>1. PICK i \in DOMAIN q : q[i].kind = "keys" /\ q[i].n = n
    BY DEF Queued
  <2>2. i # 1
    BY <1>1, <2>1
  <2>3. i - 1 \in DOMAIN Tail(q) /\ (i - 1) + 1 = i
    BY <1>2, <2>2
  <2>4. QED
    BY <1>1, <2>1, <2>3
<1>5. QED
  BY <1>1, <1>3, <1>4 DEF Queued

(* A message that is sent: the next key, or no key.                        *)
LEMMA MessageSent ==
  ASSUME NEW q \in Seq(Messages), NEW b \in Nat, NEW t \in Nat, Queued(b, q, t),
         NEW msg \in Messages, NEW u \in Nat,
         IF msg.kind = "keys" THEN u = t + 1 /\ msg.n = u ELSE u = t
  PROVE  Queued(b, Append(q, msg), u)
<1> DEFINE r == Append(q, msg)
<1>1. /\ DOMAIN r = 1..Len(q) + 1 /\ r[Len(q) + 1] = msg /\ Len(q) \in Nat
      /\ \A i \in DOMAIN q : r[i] = q[i]
      /\ DOMAIN q = 1..Len(q)
  BY Appended, LenProperties
<1>2. \A i \in DOMAIN q : q[i].n \in Nat
  <2>1. \A i \in DOMAIN q : q[i] \in Messages
    BY <1>1, ElementOfSeq
  <2>2. QED
    BY <2>1 DEF Messages
<1> HIDE DEF r
<1>3. \A i \in DOMAIN r : i \in DOMAIN q \/ i = Len(q) + 1
  BY <1>1
<1>4. b <= u /\ t <= u
  BY DEF Queued
<1>5. ASSUME NEW i \in DOMAIN r, r[i].kind = "keys" PROVE b < r[i].n /\ r[i].n <= u
  <2>1. CASE i \in DOMAIN q
    BY <1>1, <1>2, <1>4, <1>5, <2>1 DEF Queued
  <2>2. CASE i = Len(q) + 1
    BY <1>1, <1>5, <2>2 DEF Queued
  <2>3. QED
    BY <1>3, <2>1, <2>2
<1>6. ASSUME NEW i \in DOMAIN r, NEW j \in DOMAIN r, i < j,
             r[i].kind = "keys", r[j].kind = "keys"
      PROVE  r[i].n < r[j].n
  <2>1. i \in DOMAIN q
    BY <1>1, <1>6
  <2>2. CASE j \in DOMAIN q
    BY <1>1, <1>6, <2>1, <2>2 DEF Queued
  <2>3. CASE j = Len(q) + 1
    <3>1. q[i].n <= t /\ r[j].n = t + 1
      BY <1>1, <1>6, <2>1, <2>3 DEF Queued
    <3>2. QED
      BY <1>1, <1>2, <2>1, <3>1
  <2>4. QED
    BY <1>3, <2>2, <2>3
<1>7. ASSUME NEW n \in b + 1..u
      PROVE  \E i \in DOMAIN r : r[i].kind = "keys" /\ r[i].n = n
  <2>1. CASE n <= t
    <3>1. PICK i \in DOMAIN q : q[i].kind = "keys" /\ q[i].n = n
      BY <2>1 DEF Queued
    <3>2. QED
      BY <1>1, <3>1
  <2>2. CASE n > t
    BY <1>1, <2>2
  <2>3. QED
    BY <2>1, <2>2
<1>8. QED
  BY <1>4, <1>5, <1>6, <1>7 DEF Queued, r

(* What the process has not read yet continues what it has: in the PTY,    *)
(* in ServeWS, on the wire.  Once the process has ended nobody reads.      *)
InputContinues ==
  proc \in {"none", "run"} =>
    /\ \A i \in DOMAIN ptyIn : ptyIn[i] = Len(got) + i
    /\ \A i \in DOMAIN input : input[i] = Len(got) + Len(ptyIn) + i
    /\ Queued(Len(got) + Len(ptyIn) + Len(input), up, typed)

InputInv == InputInOrder /\ InputContinues

(* The types this needs, in one place.                                     *)
LEMMA InputTypes ==
  ASSUME Typed
  PROVE  /\ got \in Seq(Key) /\ ptyIn \in Seq(Key) /\ input \in Seq(Key) /\ up \in Seq(Messages)
         /\ Len(got) \in Nat /\ Len(ptyIn) \in Nat /\ Len(input) \in Nat /\ typed \in Nat
         /\ DOMAIN got = 1..Len(got) /\ DOMAIN ptyIn = 1..Len(ptyIn)
         /\ DOMAIN input = 1..Len(input)
         /\ Key \subseteq Nat
BY LenProperties, TermAssumption DEF Typed, TypeOK, Key, Messages

(* Every step keeps the input in order.                                    *)
LEMMA InputStep == Typed /\ Control /\ InputInv /\ [Next]_vars => InputInv'
<1> SUFFICES ASSUME Typed, Control, InputInv, [Next]_vars PROVE InputInv'
  OBVIOUS
<1> USE DEF procVars, ptyVars, mainVars, readVars, wireVars, pageVars
<1>f. ASSUME UNCHANGED <<got, ptyIn, input, up, typed>>,
             proc' \in {"none", "run"} => proc \in {"none", "run"}
      PROVE  InputInv'
  BY <1>f DEF InputInv, InputInOrder, InputContinues
<1>b. Len(got) + Len(ptyIn) + Len(input) \in Nat
  BY InputTypes
<1>1. CASE ProcWrite
  BY <1>1, <1>f DEF ProcWrite
<1>2. CASE ProcRead
  <2>1. /\ Head(ptyIn) = ptyIn[1] /\ 1 \in DOMAIN ptyIn /\ Len(ptyIn') = Len(ptyIn) - 1
        /\ Head(ptyIn) \in Key /\ ptyIn' \in Seq(Key)
        /\ \A i \in DOMAIN ptyIn' : i + 1 \in DOMAIN ptyIn /\ ptyIn'[i] = ptyIn[i + 1]
    BY <1>2, InputTypes, HeadTail DEF ProcRead
  <2>2. /\ Len(got') = Len(got) + 1 /\ DOMAIN got' = 1..Len(got) + 1
        /\ got'[Len(got) + 1] = Head(ptyIn) /\ \A i \in DOMAIN got : got'[i] = got[i]
    BY <1>2, <2>1, InputTypes, Appended DEF ProcRead
  <2>3. Head(ptyIn) = Len(got) + 1
    BY <1>2, <2>1 DEF ProcRead, InputInv, InputContinues
  <2>4. ASSUME NEW i \in DOMAIN got' PROVE got'[i] = i
    <3>1. i \in DOMAIN got \/ i = Len(got) + 1
      <4>1. i \in 1..Len(got) + 1
        BY <2>2
      <4>2. Len(got) \in Nat /\ DOMAIN got = 1..Len(got)
        BY InputTypes
      <4>3. QED
        BY <4>1, <4>2
    <3>2. QED
      BY <2>2, <2>3, <3>1 DEF InputInv, InputInOrder
  <2>5. ASSUME NEW i \in DOMAIN ptyIn' PROVE ptyIn'[i] = Len(got') + i
    <3>1. i \in 1..Len(ptyIn') /\ Len(ptyIn') \in Nat
      BY <2>1, LenProperties
    <3>2. ptyIn'[i] = Len(got) + (i + 1)
      BY <1>2, <2>1 DEF ProcRead, InputInv, InputContinues
    <3>3. QED
      BY <2>2, <3>1, <3>2, InputTypes
  <2>6. Len(got') + Len(ptyIn') = Len(got) + Len(ptyIn)
    BY <2>1, <2>2, InputTypes
  <2>7. QED
    BY <1>2, <2>4, <2>5, <2>6 DEF ProcRead, InputInv, InputInOrder, InputContinues
<1>3. CASE ProcExit
  BY <1>3, <1>f DEF ProcExit
<1>4. CASE StartOk
  <2>1. proc = "none"
    BY <1>4 DEF StartOk, Control, Fresh
  <2>2. QED
    BY <1>4, <1>f, <2>1 DEF StartOk
<1>5. CASE StartFails
  BY <1>5, <1>f DEF StartFails
<1>6. CASE ReadKeys
  <2>1. input = << >> /\ proc # "none" /\ Len(input) = 0
    BY <1>6, EmptySeq DEF ReadKeys, Control, Holding, Cleaned
  <2>2. CASE proc = "run"
    <3>1. Queued(Len(got) + Len(ptyIn) + Len(input), up, typed)
      BY <2>2 DEF InputInv, InputContinues
    <3>2. /\ Head(up).n = Len(got) + Len(ptyIn) + Len(input) + 1
          /\ Queued(Len(got) + Len(ptyIn) + Len(input) + 1, Tail(up), typed)
      BY <1>6, <1>b, <3>1, InputTypes, KeyTaken DEF ReadKeys
    <3>3. input' = <<Len(got) + Len(ptyIn) + 1>> /\ Len(input') = 1 /\ DOMAIN input' = {1}
      BY <1>6, <2>1, <3>2, InputTypes DEF ReadKeys
    <3>4. Queued(Len(got) + Len(ptyIn) + Len(input'), up', typed)
      BY <1>6, <2>1, <3>2, <3>3, InputTypes DEF ReadKeys
    <3>5. \A i \in DOMAIN input' : input'[i] = Len(got) + Len(ptyIn) + i
      BY <3>3
    <3>6. QED
      BY <1>6, <3>4, <3>5 DEF ReadKeys, InputInv, InputInOrder, InputContinues
  <2>3. CASE proc # "run"
    BY <1>6, <2>1, <2>3 DEF ReadKeys, InputInv, InputInOrder, InputContinues
  <2>4. QED
    BY <2>2, <2>3
<1>7. CASE ReadResize
  <2>1. ASSUME proc \in {"none", "run"}
        PROVE  Queued(Len(got) + Len(ptyIn) + Len(input), Tail(up), typed)
    BY <1>7, <1>b, <2>1, InputTypes, ResizeTaken DEF ReadResize, InputInv, InputContinues
  <2>2. QED
    BY <1>7, <2>1 DEF ReadResize, InputInv, InputInOrder, InputContinues
<1>8. CASE ReadFails
  BY <1>8, <1>f DEF ReadFails
<1>9. CASE WriteInput
  <2>1. /\ Len(ptyIn') = Len(ptyIn) + Len(input) /\ ptyIn' \in Seq(Key)
        /\ \A i \in 1..Len(ptyIn) + Len(input) :
             ptyIn'[i] = IF i <= Len(ptyIn) THEN ptyIn[i] ELSE input[i - Len(ptyIn)]
    BY <1>9, InputTypes, ConcatProperties DEF WriteInput
  <2>2. DOMAIN ptyIn' = 1..Len(ptyIn) + Len(input)
    BY <2>1, LenProperties
  <2>3. /\ \A i \in DOMAIN ptyIn : ptyIn[i] = Len(got) + i
        /\ \A i \in DOMAIN input : input[i] = Len(got) + Len(ptyIn) + i
    BY <1>9 DEF WriteInput, InputInv, InputContinues
  <2>4. ASSUME NEW i \in DOMAIN ptyIn' PROVE ptyIn'[i] = Len(got) + i
    <3>1. CASE i <= Len(ptyIn)
      <4>1. i \in DOMAIN ptyIn /\ ptyIn'[i] = ptyIn[i]
        BY <2>1, <2>2, <3>1, InputTypes
      <4>2. QED
        BY <2>3, <4>1
    <3>2. CASE i > Len(ptyIn)
      <4>1. i - Len(ptyIn) \in DOMAIN input /\ ptyIn'[i] = input[i - Len(ptyIn)]
        BY <2>1, <2>2, <3>2, InputTypes
      <4>2. ptyIn'[i] = Len(got) + Len(ptyIn) + (i - Len(ptyIn))
        BY <2>3, <4>1
      <4>3. QED
        BY <2>2, <4>2, InputTypes
    <3>3. QED
      BY <2>2, <3>1, <3>2, InputTypes
  <2>5. Len(got) + Len(ptyIn') + Len(input') = Len(got) + Len(ptyIn) + Len(input)
    BY <1>9, <2>1, EmptySeq, InputTypes DEF WriteInput
  <2>6. DOMAIN input' = {}
    BY <1>9 DEF WriteInput
  <2>7. QED
    BY <1>9, <2>4, <2>5, <2>6 DEF WriteInput, InputInv, InputInOrder, InputContinues
<1>10. CASE WriteToDead
  <2>1. proc' \notin {"none", "run"} /\ got' = got
    BY <1>10 DEF WriteToDead, Control, Cleaned, Typed, TypeOK
  <2>2. QED
    BY <2>1 DEF InputInv, InputInOrder, InputContinues
<1>11. CASE ClosePty
  BY <1>11, <1>f DEF ClosePty
<1>12. CASE Reap
  BY <1>12, <1>f DEF Reap
<1>13. CASE Cancel
  BY <1>13, <1>f DEF Cancel
<1>14. CASE Return
  BY <1>14, <1>f DEF Return, CloseConn
<1>15. CASE ReadOutput
  BY <1>15, <1>f DEF ReadOutput
<1>16. CASE OutputEnds
  BY <1>16, <1>f DEF OutputEnds
<1>17. CASE ReaderLock
  BY <1>17, <1>f DEF ReaderLock
<1>18. CASE SendOutput
  BY <1>18, <1>f DEF SendOutput
<1>19. CASE SendFails
  BY <1>19, <1>f DEF SendFails
<1>20. CASE ReaderCancel
  BY <1>20, <1>f DEF ReaderCancel
<1>21. CASE CloserLock
  BY <1>21, <1>f DEF CloserLock
<1>22. CASE SendClose
  BY <1>22, <1>f DEF SendClose
<1>23. CASE CloserClose
  BY <1>23, <1>f DEF CloserClose, CloseConn
<1>24. CASE PageOpen
  <2>1. Resize(size) \in Messages /\ Resize(size).kind # "keys"
    BY DEF Resize, Messages, Typed, TypeOK
  <2>2. ASSUME proc \in {"none", "run"}
        PROVE  Queued(Len(got) + Len(ptyIn) + Len(input), Append(up, Resize(size)), typed)
    BY <1>b, <2>1, <2>2, InputTypes, MessageSent DEF InputInv, InputContinues
  <2>3. QED
    BY <1>24, <2>2 DEF PageOpen, InputInv, InputInOrder, InputContinues
<1>25. CASE Type
  <2>1. /\ Keys(typed + 1) \in Messages /\ Keys(typed + 1).kind = "keys"
        /\ Keys(typed + 1).n = typed + 1 /\ typed + 1 \in Nat
    BY InputTypes DEF Keys, Messages
  <2>2. ASSUME proc \in {"none", "run"}
        PROVE  Queued(Len(got) + Len(ptyIn) + Len(input), Append(up, Keys(typed + 1)), typed + 1)
    BY <1>b, <2>1, <2>2, InputTypes, MessageSent DEF InputInv, InputContinues
  <2>3. QED
    BY <1>25, <2>2 DEF Type, Sent, InputInv, InputInOrder, InputContinues
<1>26. CASE ResizeWindow
  <2>1. Resize(size') \in Messages /\ Resize(size').kind # "keys"
    BY <1>26, ColsNat DEF ResizeWindow, Resize, Messages
  <2>2. ASSUME proc \in {"none", "run"}
        PROVE  Queued(Len(got) + Len(ptyIn) + Len(input), Append(up, Resize(size')), typed)
    BY <1>b, <2>1, <2>2, InputTypes, MessageSent DEF InputInv, InputContinues
  <2>3. CASE up' = up
    BY <1>26, <1>f, <2>3 DEF ResizeWindow
  <2>4. CASE up' = Append(up, Resize(size'))
    BY <1>26, <2>2, <2>4 DEF ResizeWindow, InputInv, InputInOrder, InputContinues
  <2>5. QED
    BY <1>26, <2>3, <2>4 DEF ResizeWindow, Sent
<1>27. CASE Receive
  BY <1>27, <1>f DEF Receive
<1>28. CASE Parse
  BY <1>28, <1>f DEF Parse
<1>29. CASE SeeClose
  BY <1>29, <1>f DEF SeeClose
<1>30. CASE Leave
  BY <1>30, <1>f DEF Leave
<1>31. CASE UNCHANGED vars
  BY <1>31 DEF vars, InputInv, InputInOrder, InputContinues
<1>32. QED
  BY <1>1, <1>2, <1>3, <1>4, <1>5, <1>6, <1>7, <1>8, <1>9, <1>10, <1>11, <1>12,
     <1>13, <1>14, <1>15, <1>16, <1>17, <1>18, <1>19, <1>20, <1>21, <1>22, <1>23,
     <1>24, <1>25, <1>26, <1>27, <1>28, <1>29, <1>30, <1>31 DEF Next, Main, Reader,
     Closer, Shown, ProcKilled

(* Nothing has been typed.                                                 *)
LEMMA InputInit == Init => InputInv
<1> SUFFICES ASSUME Init PROVE InputInv
  OBVIOUS
<1>1. Len(got) + Len(ptyIn) + Len(input) = 0 /\ DOMAIN up = {} /\ typed = 0
  BY EmptySeq DEF Init
<1>2. Queued(Len(got) + Len(ptyIn) + Len(input), up, typed)
  BY <1>1 DEF Queued
<1>3. QED
  BY <1>2 DEF Init, InputInv, InputInOrder, InputContinues

(* However input and resizes interleave with a full PTY and with the end   *)
(* of the session, the process reads what was typed, in order, each key    *)
(* once and none left out.                                                 *)
THEOREM InputArrives == Spec => []InputInOrder
<1>1. InputInv => InputInOrder
  BY DEF InputInv
<1>2. QED
  BY <1>1, TypedInit, TypedStep, ControlInit, ControlStep, InputInit, InputStep, PTL DEF Spec

-----------------------------------------------------------------------------
(* The output.  Chunks pass from the process through the PTY (ptyOut), the *)
(* copying goroutine (held) and the wire (down) to the screen.             *)

Rising(s) == \A i, j \in DOMAIN s : i < j => s[i] < s[j]
Before(s, t) == \A i \in DOMAIN s, j \in DOMAIN t : s[i] < t[j]
UpTo(s, w) == \A i \in DOMAIN s : s[i] <= w

(* Taking the first chunk off.                                             *)
LEMMA RisingTail ==
  ASSUME NEW s \in Seq(Nat), s # << >>, Rising(s)
  PROVE  /\ Rising(Tail(s)) /\ Before(<<Head(s)>>, Tail(s))
         /\ \A w \in Nat : UpTo(s, w) => UpTo(Tail(s), w) /\ UpTo(<<Head(s)>>, w)
         /\ \A r \in Seq(Nat) : Before(r, s) => Before(r, Tail(s)) /\ Before(r, <<Head(s)>>)
         /\ \A t \in Seq(Nat) : Before(s, t) => Before(Tail(s), t) /\ Before(<<Head(s)>>, t)
<1>1. /\ Head(s) = s[1] /\ 1 \in DOMAIN s /\ Tail(s) \in Seq(Nat) /\ Len(Tail(s)) = Len(s) - 1
      /\ \A i \in DOMAIN Tail(s) : i + 1 \in DOMAIN s /\ Tail(s)[i] = s[i + 1]
  BY HeadTail
<1>2. DOMAIN s = 1..Len(s) /\ DOMAIN Tail(s) = 1..Len(s) - 1 /\ Len(s) \in Nat
  BY <1>1, LenProperties
<1>3. DOMAIN <<Head(s)>> = {1} /\ <<Head(s)>>[1] = s[1]
  BY <1>1
<1>4. Rising(Tail(s))
  <2>1. ASSUME NEW i \in DOMAIN Tail(s), NEW j \in DOMAIN Tail(s), i < j
        PROVE  Tail(s)[i] < Tail(s)[j]
    <3>1. i + 1 \in DOMAIN s /\ j + 1 \in DOMAIN s /\ i + 1 < j + 1
      BY <1>1, <1>2, <2>1
    <3>2. s[i + 1] < s[j + 1]
      BY <3>1 DEF Rising
    <3>3. QED
      BY <1>1, <3>2
  <2>2. QED
    BY <2>1 DEF Rising
<1>5. Before(<<Head(s)>>, Tail(s))
  <2>1. ASSUME NEW j \in DOMAIN Tail(s) PROVE s[1] < Tail(s)[j]
    <3>1. j + 1 \in DOMAIN s /\ 1 < j + 1
      BY <1>1, <1>2
    <3>2. s[1] < s[j + 1]
      BY <1>1, <3>1 DEF Rising
    <3>3. QED
      BY <1>1, <3>2
  <2>2. QED
    BY <1>3, <2>1 DEF Before
<1>6. \A w \in Nat : UpTo(s, w) => UpTo(Tail(s), w) /\ UpTo(<<Head(s)>>, w)
  BY <1>1, <1>3 DEF UpTo
<1>7. \A r \in Seq(Nat) : Before(r, s) => Before(r, Tail(s)) /\ Before(r, <<Head(s)>>)
  BY <1>1, <1>3 DEF Before
<1>8. \A t \in Seq(Nat) : Before(s, t) => Before(Tail(s), t) /\ Before(<<Head(s)>>, t)
  BY <1>1, <1>3 DEF Before
<1>9. QED
  BY <1>4, <1>5, <1>6, <1>7, <1>8

(* Putting chunks behind others.                                           *)
LEMMA RisingConcat ==
  ASSUME NEW s \in Seq(Nat), NEW t \in Seq(Nat)
  PROVE  /\ Rising(s) /\ Rising(t) /\ Before(s, t) => Rising(s \o t)
         /\ \A w \in Nat : UpTo(s, w) /\ UpTo(t, w) => UpTo(s \o t, w)
         /\ \A r \in Seq(Nat) : Before(r, s) /\ Before(r, t) => Before(r, s \o t)
         /\ \A r \in Seq(Nat) : Before(s, r) /\ Before(t, r) => Before(s \o t, r)
<1>1. /\ s \o t \in Seq(Nat) /\ Len(s \o t) = Len(s) + Len(t)
      /\ \A i \in 1..Len(s) + Len(t) :
           (s \o t)[i] = IF i <= Len(s) THEN s[i] ELSE t[i - Len(s)]
  BY ConcatProperties
<1>2. /\ DOMAIN s = 1..Len(s) /\ DOMAIN t = 1..Len(t) /\ DOMAIN (s \o t) = 1..Len(s) + Len(t)
      /\ Len(s) \in Nat /\ Len(t) \in Nat
  BY <1>1, LenProperties
<1>3. ASSUME NEW i \in DOMAIN (s \o t)
      PROVE  \/ i \in DOMAIN s /\ (s \o t)[i] = s[i]
             \/ i > Len(s) /\ i - Len(s) \in DOMAIN t /\ (s \o t)[i] = t[i - Len(s)]
  BY <1>1, <1>2
<1>4. ASSUME Rising(s), Rising(t), Before(s, t) PROVE Rising(s \o t)
  <2>1. ASSUME NEW i \in DOMAIN (s \o t), NEW j \in DOMAIN (s \o t), i < j
        PROVE  (s \o t)[i] < (s \o t)[j]
    <3>1. CASE i \in DOMAIN s /\ (s \o t)[i] = s[i]
      BY <1>3, <1>4, <2>1, <3>1 DEF Rising, Before
    <3>2. CASE i > Len(s) /\ i - Len(s) \in DOMAIN t /\ (s \o t)[i] = t[i - Len(s)]
      <4>1. j - Len(s) \in DOMAIN t /\ (s \o t)[j] = t[j - Len(s)] /\ i - Len(s) < j - Len(s)
        BY <1>1, <1>2, <2>1, <3>2
      <4>2. QED
        BY <1>4, <3>2, <4>1 DEF Rising
    <3>3. QED
      BY <1>3, <3>1, <3>2
  <2>2. QED
    BY <2>1 DEF Rising
<1>5. \A w \in Nat : UpTo(s, w) /\ UpTo(t, w) => UpTo(s \o t, w)
  BY <1>3 DEF UpTo
<1>6. \A r \in Seq(Nat) : Before(r, s) /\ Before(r, t) => Before(r, s \o t)
  BY <1>3 DEF Before
<1>7. \A r \in Seq(Nat) : Before(s, r) /\ Before(t, r) => Before(s \o t, r)
  BY <1>3 DEF Before
<1>8. QED
  BY <1>4, <1>5, <1>6, <1>7

(* Losing chunks from the end.                                             *)
LEMMA RisingCut ==
  ASSUME NEW s \in Seq(Nat), NEW k \in 0..Len(s)
  PROVE  /\ Rising(s) => Rising(SubSeq(s, 1, k))
         /\ \A w \in Nat : UpTo(s, w) => UpTo(SubSeq(s, 1, k), w)
         /\ \A r \in Seq(Nat) : Before(r, s) => Before(r, SubSeq(s, 1, k))
         /\ \A r \in Seq(Nat) : Before(s, r) => Before(SubSeq(s, 1, k), r)
<1>1. DOMAIN s = 1..Len(s) /\ Len(s) \in Nat
  BY LenProperties
<1>2. \A i \in 1..k : s[i] \in Nat
  BY <1>1, ElementOfSeq
<1>3. /\ SubSeq(s, 1, k) \in Seq(Nat) /\ Len(SubSeq(s, 1, k)) = k
      /\ \A i \in 1..k : SubSeq(s, 1, k)[i] = s[i]
  BY <1>1, <1>2, SubSeqProperties
<1>4. DOMAIN SubSeq(s, 1, k) = 1..k
  BY <1>3, LenProperties
<1>5. \A i \in DOMAIN SubSeq(s, 1, k) : i \in DOMAIN s /\ SubSeq(s, 1, k)[i] = s[i]
  BY <1>1, <1>3, <1>4
<1>6. QED
  BY <1>5 DEF Rising, UpTo, Before

(* The chunk a process writes next is later than all before.               *)
LEMMA NextChunk ==
  ASSUME NEW w \in Nat
  PROVE  /\ \A s \in Seq(Nat) : UpTo(s, w) => Before(s, <<w + 1>>) /\ UpTo(s, w + 1)
         /\ UpTo(<<w + 1>>, w + 1) /\ <<w + 1>> \in Seq(Nat)
<1>1. \A s \in Seq(Nat) : \A i \in DOMAIN s : s[i] \in Nat
  BY LenProperties, ElementOfSeq
<1>2. QED
  BY <1>1 DEF UpTo, Before

(* The types this needs, in one place.                                     *)
LEMMA OutTypes ==
  ASSUME Typed
  PROVE  /\ screen \in Seq(Nat) /\ down \in Seq(Nat) /\ held \in Seq(Nat) /\ ptyOut \in Seq(Nat)
         /\ wrote \in Nat /\ Len(screen) \in Nat /\ Len(down) \in Nat
         /\ Len(held) \in Nat /\ Len(ptyOut) \in Nat
<1>1. Out \subseteq Nat
  BY TermAssumption DEF Out
<1>2. /\ screen \in Seq(Out) /\ down \in Seq(Out) /\ held \in Seq(Out) /\ ptyOut \in Seq(Out)
      /\ wrote \in Nat
  BY TermAssumption DEF Typed, TypeOK, Out
<1>3. QED
  BY <1>1, <1>2, SeqMonotonic, LenProperties

(* Wherever the chunks are, and whatever was lost, they are in order.      *)
OutputRises ==
  /\ Rising(screen) /\ Rising(down) /\ Rising(held) /\ Rising(ptyOut)
  /\ Before(screen, down) /\ Before(screen, held) /\ Before(screen, ptyOut)
  /\ Before(down, held) /\ Before(down, ptyOut) /\ Before(held, ptyOut)
  /\ UpTo(screen, wrote) /\ UpTo(down, wrote) /\ UpTo(held, wrote) /\ UpTo(ptyOut, wrote)

(* Every step keeps them in order.                                         *)
LEMMA RisesStep == Typed /\ Control /\ OutputRises /\ [Next]_vars => OutputRises'
<1> SUFFICES ASSUME Typed, Control, OutputRises, [Next]_vars PROVE OutputRises'
  OBVIOUS
<1> USE DEF procVars, ptyVars, mainVars, readVars, wireVars, pageVars
<1>f. ASSUME UNCHANGED <<screen, down, held, ptyOut, wrote>> PROVE OutputRises'
  BY <1>f DEF OutputRises, Rising, Before, UpTo
<1>e. /\ Rising(<< >>) /\ UpTo(<< >>, wrote) /\ \A x : Rising(<<x>>)
      /\ \A s \in Seq(Nat) : Before(s, << >>) /\ Before(<< >>, s)
  BY DEF Rising, Before, UpTo
<1>c. ASSUME CloseConn, UNCHANGED <<screen, held, ptyOut, wrote>> PROVE OutputRises'
  <2>1. CASE down' = down
    BY <1>c, <1>f, <2>1
  <2>2. ASSUME NEW k \in 0..Len(down), down' = SubSeq(down, 1, k) PROVE OutputRises'
    BY <1>c, <2>2, OutTypes, RisingCut DEF OutputRises
  <2>3. QED
    BY <1>c, <2>1, <2>2 DEF CloseConn
<1>1. CASE ProcWrite
  <2>1. ptyOut' = ptyOut \o <<wrote + 1>> /\ wrote' = wrote + 1
        /\ UNCHANGED <<screen, down, held>>
    BY <1>1, OutTypes, AppendIsConcat DEF ProcWrite
  <2>2. /\ \A s \in Seq(Nat) : UpTo(s, wrote) => Before(s, <<wrote + 1>>) /\ UpTo(s, wrote + 1)
        /\ UpTo(<<wrote + 1>>, wrote + 1) /\ <<wrote + 1>> \in Seq(Nat)
    BY OutTypes, NextChunk
  <2>3. Rising(ptyOut') /\ UpTo(ptyOut', wrote')
    <3>1. /\ Before(ptyOut, <<wrote + 1>>) /\ UpTo(ptyOut, wrote + 1)
          /\ Rising(ptyOut) /\ Rising(<<wrote + 1>>) /\ wrote + 1 \in Nat
      <4>1. UpTo(ptyOut, wrote) /\ Rising(ptyOut)
        BY DEF OutputRises
      <4>2. ptyOut \in Seq(Nat) /\ wrote + 1 \in Nat
        BY OutTypes
      <4>3. QED
        BY <1>e, <2>2, <4>1, <4>2
    <3>2. Rising(ptyOut')
      BY <2>1, <2>2, <3>1, OutTypes, RisingConcat
    <3>3. UpTo(ptyOut', wrote')
      BY <2>1, <2>2, <3>1, OutTypes, RisingConcat
    <3>4. QED
      BY <3>2, <3>3
  <2>4. Before(screen, ptyOut') /\ Before(down, ptyOut') /\ Before(held, ptyOut')
    BY <2>1, <2>2, OutTypes, RisingConcat DEF OutputRises
  <2>5. UpTo(screen, wrote') /\ UpTo(down, wrote') /\ UpTo(held, wrote')
    BY <2>1, <2>2, OutTypes DEF OutputRises
  <2>6. QED
    BY <2>1, <2>3, <2>4, <2>5 DEF OutputRises
<1>2. CASE ProcRead
  BY <1>2, <1>f DEF ProcRead
<1>3. CASE ProcExit
  BY <1>3, <1>f DEF ProcExit
<1>4. CASE StartOk
  BY <1>4, <1>f DEF StartOk
<1>5. CASE StartFails
  BY <1>5, <1>f DEF StartFails
<1>6. CASE ReadKeys
  BY <1>6, <1>f DEF ReadKeys
<1>7. CASE ReadResize
  BY <1>7, <1>f DEF ReadResize
<1>8. CASE ReadFails
  BY <1>8, <1>f DEF ReadFails
<1>9. CASE WriteInput
  BY <1>9, <1>f DEF WriteInput
<1>10. CASE WriteToDead
  BY <1>10, <1>f DEF WriteToDead
<1>11. CASE ClosePty
  <2>1. ptyOut' = << >> /\ UNCHANGED <<screen, down, held, wrote>>
    BY <1>11 DEF ClosePty
  <2>2. QED
    BY <1>e, <2>1, OutTypes DEF OutputRises
<1>12. CASE Reap
  BY <1>12, <1>f DEF Reap
<1>13. CASE Cancel
  BY <1>13, <1>f DEF Cancel
<1>14. CASE Return
  BY <1>14, <1>c DEF Return
<1>15. CASE ReadOutput
  <2>1. /\ ptyOut # << >> /\ held' = <<Head(ptyOut)>> /\ ptyOut' = Tail(ptyOut)
        /\ UNCHANGED <<screen, down, wrote>>
    BY <1>15 DEF ReadOutput
  <2>2. QED
    BY <1>e, <2>1, OutTypes, RisingTail DEF OutputRises
<1>16. CASE OutputEnds
  BY <1>16, <1>f DEF OutputEnds
<1>17. CASE ReaderLock
  BY <1>17, <1>f DEF ReaderLock
<1>18. CASE SendOutput
  <2>1. down' = down \o held /\ held' = << >> /\ UNCHANGED <<screen, ptyOut, wrote>>
    BY <1>18 DEF SendOutput
  <2>2. Rising(down') /\ UpTo(down', wrote)
    BY <2>1, OutTypes, RisingConcat DEF OutputRises
  <2>3. Before(screen, down') /\ Before(down', ptyOut)
    BY <2>1, OutTypes, RisingConcat DEF OutputRises
  <2>4. down' \in Seq(Nat)
    BY <2>1, OutTypes, ConcatProperties
  <2>5. QED
    BY <1>e, <2>1, <2>2, <2>3, <2>4, OutTypes DEF OutputRises
<1>19. CASE SendFails
  <2>1. held' = << >> /\ UNCHANGED <<screen, down, ptyOut, wrote>>
    BY <1>19 DEF SendFails
  <2>2. QED
    BY <1>e, <2>1, OutTypes DEF OutputRises
<1>20. CASE ReaderCancel
  BY <1>20, <1>f DEF ReaderCancel
<1>21. CASE CloserLock
  BY <1>21, <1>f DEF CloserLock
<1>22. CASE SendClose
  BY <1>22, <1>f DEF SendClose
<1>23. CASE CloserClose
  BY <1>23, <1>c DEF CloserClose
<1>24. CASE PageOpen
  BY <1>24, <1>f DEF PageOpen
<1>25. CASE Type
  BY <1>25, <1>f DEF Type
<1>26. CASE ResizeWindow
  BY <1>26, <1>f DEF ResizeWindow
<1>27. CASE Receive
  <2>1. down # << >> /\ down' = Tail(down) /\ UNCHANGED <<held, ptyOut, wrote>>
    BY <1>27 DEF Receive
  <2>2. screen' = screen \/ screen' = Append(screen, Head(down))
    BY <1>27 DEF Receive
  <2>3. /\ Rising(down') /\ UpTo(down', wrote) /\ Before(screen, down')
        /\ Before(down', held) /\ Before(down', ptyOut)
    BY <2>1, OutTypes, RisingTail DEF OutputRises
  <2>4. CASE screen' = screen
    BY <2>1, <2>3, <2>4 DEF OutputRises
  <2>5. CASE screen' = Append(screen, Head(down))
    <3>1. Head(down) \in Nat /\ <<Head(down)>> \in Seq(Nat) /\ Tail(down) \in Seq(Nat)
      BY <2>1, OutTypes, HeadTail
    <3>2. screen' = screen \o <<Head(down)>>
      BY <2>5, <3>1, OutTypes, AppendIsConcat
    <3>3. /\ Before(<<Head(down)>>, down') /\ UpTo(<<Head(down)>>, wrote)
          /\ Before(screen, <<Head(down)>>)
          /\ Before(<<Head(down)>>, held) /\ Before(<<Head(down)>>, ptyOut)
      BY <2>1, OutTypes, RisingTail DEF OutputRises
    <3>4. Rising(screen') /\ UpTo(screen', wrote)
      BY <1>e, <3>1, <3>2, <3>3, OutTypes, RisingConcat DEF OutputRises
    <3>5. Before(screen', down') /\ Before(screen', held) /\ Before(screen', ptyOut)
      BY <2>1, <2>3, <3>1, <3>2, <3>3, OutTypes, RisingConcat DEF OutputRises
    <3>6. QED
      BY <2>1, <2>3, <3>4, <3>5 DEF OutputRises
  <2>6. QED
    BY <2>2, <2>4, <2>5
<1>28. CASE Parse
  BY <1>28, <1>f DEF Parse
<1>29. CASE SeeClose
  BY <1>29, <1>f DEF SeeClose
<1>30. CASE Leave
  BY <1>30, <1>f DEF Leave
<1>31. CASE UNCHANGED vars
  BY <1>31, <1>f DEF vars
<1>32. QED
  BY <1>1, <1>2, <1>3, <1>4, <1>5, <1>6, <1>7, <1>8, <1>9, <1>10, <1>11, <1>12,
     <1>13, <1>14, <1>15, <1>16, <1>17, <1>18, <1>19, <1>20, <1>21, <1>22, <1>23,
     <1>24, <1>25, <1>26, <1>27, <1>28, <1>29, <1>30, <1>31 DEF Next, Main, Reader,
     Closer, Shown, ProcKilled

(* Nothing has been written.                                               *)
LEMMA RisesInit == Init => OutputRises
BY DEF Init, OutputRises, Rising, Before, UpTo

(* Nothing has been lost so far.                                           *)
Whole ==
  /\ discarded = FALSE /\ lateKey = FALSE /\ closeFrame # "failed"
  /\ page \in {"connecting", "open"} \/ closeFrame = "seen"

(* What was lost stays lost.                                               *)
LEMMA LossStays == Typed /\ Control /\ [Next]_vars => (Whole' => Whole)
<1> SUFFICES ASSUME Typed, Control, [Next]_vars, Whole' PROVE Whole
  OBVIOUS
<1> USE DEF procVars, ptyVars, mainVars, readVars, wireVars, pageVars
<1>f. ASSUME UNCHANGED <<discarded, lateKey, closeFrame, page>> PROVE Whole
  BY <1>f DEF Whole
<1>1. CASE ProcWrite
  BY <1>1, <1>f DEF ProcWrite
<1>2. CASE ProcRead
  BY <1>2, <1>f DEF ProcRead
<1>3. CASE ProcExit
  BY <1>3, <1>f DEF ProcExit
<1>4. CASE StartOk
  BY <1>4, <1>f DEF StartOk
<1>5. CASE StartFails
  BY <1>5, <1>f DEF StartFails
<1>6. CASE ReadKeys
  BY <1>6, <1>f DEF ReadKeys
<1>7. CASE ReadResize
  BY <1>7, <1>f DEF ReadResize
<1>8. CASE ReadFails
  BY <1>8, <1>f DEF ReadFails
<1>9. CASE WriteInput
  BY <1>9, <1>f DEF WriteInput
<1>10. CASE WriteToDead
  BY <1>10 DEF WriteToDead, Whole, Control, Cleaned
<1>11. CASE ClosePty
  BY <1>11, <1>f DEF ClosePty
<1>12. CASE Reap
  BY <1>12, <1>f DEF Reap
<1>13. CASE Cancel
  BY <1>13, <1>f DEF Cancel
<1>14. CASE Return
  BY <1>14 DEF Return, CloseConn, Whole
<1>15. CASE ReadOutput
  BY <1>15, <1>f DEF ReadOutput
<1>16. CASE OutputEnds
  BY <1>16, <1>f DEF OutputEnds
<1>17. CASE ReaderLock
  BY <1>17, <1>f DEF ReaderLock
<1>18. CASE SendOutput
  BY <1>18, <1>f DEF SendOutput
<1>19. CASE SendFails
  BY <1>19, <1>f DEF SendFails
<1>20. CASE ReaderCancel
  BY <1>20, <1>f DEF ReaderCancel
<1>21. CASE CloserLock
  BY <1>21, <1>f DEF CloserLock
<1>22. CASE SendClose
  BY <1>22 DEF SendClose, Whole
<1>23. CASE CloserClose
  BY <1>23 DEF CloserClose, CloseConn, Whole
<1>24. CASE PageOpen
  BY <1>24 DEF PageOpen, Whole
<1>25. CASE Type
  BY <1>25, <1>f DEF Type
<1>26. CASE ResizeWindow
  BY <1>26, <1>f DEF ResizeWindow
<1>27. CASE Receive
  BY <1>27 DEF Receive, Whole
<1>28. CASE Parse
  BY <1>28, <1>f DEF Parse
<1>29. CASE SeeClose
  BY <1>29 DEF SeeClose, Whole
<1>30. CASE Leave
  BY <1>30 DEF Leave, Whole
<1>31. CASE UNCHANGED vars
  BY <1>31, <1>f DEF vars
<1>32. QED
  BY <1>1, <1>2, <1>3, <1>4, <1>5, <1>6, <1>7, <1>8, <1>9, <1>10, <1>11, <1>12,
     <1>13, <1>14, <1>15, <1>16, <1>17, <1>18, <1>19, <1>20, <1>21, <1>22, <1>23,
     <1>24, <1>25, <1>26, <1>27, <1>28, <1>29, <1>30, <1>31 DEF Next, Main, Reader,
     Closer, Shown, ProcKilled

(* Once a session without a loss begins to end, there is no output left on *)
(* the server.                                                             *)
Quiet == proc # "run" /\ ptyOut = << >> /\ held = << >>
Ending == ctx \/ main \notin {"start", "read", "write"} \/ reader \in {"cancel", "done"}
QuietEnd == Whole /\ Ending => Quiet

(* A closed socket, a close frame and a page that is gone without a loss   *)
(* all say that the session is ending.                                     *)
LEMMA EndSeen ==
  ASSUME Typed, Control, QuietEnd, Whole,
         conn = "closed" \/ closeFrame # "none" \/ page \in {"closed", "gone"}
  PROVE  ctx /\ Quiet
<1>1. conn = "closed" \/ closeFrame \in {"sent", "seen"}
  BY DEF Typed, TypeOK, Whole
<1>2. ctx
  BY <1>1 DEF Control, Cancelled
<1>3. QED
  BY <1>2 DEF QuietEnd, Ending

(* Every step keeps this.                                                  *)
LEMMA QuietStep == Typed /\ Control /\ QuietEnd /\ [Next]_vars => QuietEnd'
<1> SUFFICES ASSUME Typed, Control, QuietEnd, [Next]_vars, Whole', Ending' PROVE Quiet'
  BY DEF QuietEnd
<1> USE DEF procVars, ptyVars, mainVars, readVars, wireVars, pageVars
<1>w. Whole
  BY LossStays
<1>q. Ending => Quiet
  BY <1>w DEF QuietEnd
<1>f. ASSUME UNCHANGED <<ptyOut, held, ctx, main, reader>>, proc' = "run" => proc = "run"
      PROVE  Quiet'
  BY <1>q, <1>f DEF Ending, Quiet
<1>g. ASSUME ptyOut' = << >> \/ ptyOut' = ptyOut, held' = << >> \/ held' = held,
             proc' = "run" => proc = "run", Ending
      PROVE  Quiet'
  BY <1>q, <1>g DEF Quiet
<1>1. CASE ProcWrite
  <2>1. Ending
    BY <1>1 DEF ProcWrite, Ending
  <2>2. QED
    BY <1>1, <1>q, <2>1 DEF ProcWrite, Quiet
<1>2. CASE ProcRead
  BY <1>2, <1>f DEF ProcRead
<1>3. CASE ProcExit
  BY <1>3, <1>f DEF ProcExit
<1>4. CASE StartOk
  <2>1. ~ctx /\ reader' = "read" /\ main' = "read" /\ ctx' = ctx
    BY <1>4 DEF StartOk, Control, Fresh
  <2>2. QED
    BY <2>1 DEF Ending
<1>5. CASE StartFails
  BY <1>5 DEF StartFails, Control, Fresh, Holding, Quiet
<1>6. CASE ReadKeys
  <2>1. Ending
    BY <1>6 DEF ReadKeys, Ending
  <2>2. QED
    BY <1>6, <1>g, <2>1 DEF ReadKeys
<1>7. CASE ReadResize
  BY <1>7, <1>f DEF ReadResize
<1>8. CASE ReadFails
  <2>1. Quiet
    BY <1>8, <1>w, EndSeen DEF ReadFails
  <2>2. QED
    BY <1>8, <2>1 DEF ReadFails, Quiet
<1>9. CASE WriteInput
  <2>1. Ending
    BY <1>9 DEF WriteInput, Ending
  <2>2. QED
    BY <1>9, <1>g, <2>1 DEF WriteInput
<1>10. CASE WriteToDead
  <2>1. CASE main' = "read"
    <3>1. Ending
      BY <1>10, <2>1 DEF WriteToDead, Ending
    <3>2. QED
      BY <1>10, <1>g, <3>1 DEF WriteToDead
  <2>2. CASE main' = "closePty"
    <3>1. lateKey' = ~ctx
      BY <1>10, <2>2 DEF WriteToDead
    <3>2. ctx
      BY <3>1 DEF Whole, Typed, TypeOK
    <3>3. QED
      BY <1>10, <1>g, <3>2 DEF WriteToDead, Ending
  <2>3. QED
    BY <1>10, <2>1, <2>2 DEF WriteToDead
<1>11. CASE ClosePty
  <2>1. Ending
    BY <1>11 DEF ClosePty, Ending
  <2>2. QED
    BY <1>11, <1>g, <2>1 DEF ClosePty
<1>12. CASE Reap
  <2>1. Ending
    BY <1>12 DEF Reap, Ending
  <2>2. QED
    BY <1>12, <1>g, <2>1 DEF Reap
<1>13. CASE Cancel
  <2>1. Ending
    BY <1>13 DEF Cancel, Ending
  <2>2. QED
    BY <1>13, <1>g, <2>1 DEF Cancel
<1>14. CASE Return
  <2>1. Ending
    BY <1>14 DEF Return, Ending
  <2>2. QED
    BY <1>14, <1>g, <2>1 DEF Return
<1>15. CASE ReadOutput
  <2>1. Ending
    BY <1>15 DEF ReadOutput, Ending
  <2>2. QED
    BY <1>15, <1>q, <2>1 DEF ReadOutput, Quiet
<1>16. CASE OutputEnds
  <2>1. CASE master = "closed"
    <3>1. Ending
      BY <2>1 DEF Control, Cleaned, Ending
    <3>2. QED
      BY <1>16, <1>g, <3>1 DEF OutputEnds
  <2>2. CASE proc # "run" /\ ptyOut = << >>
    BY <1>16, <2>2 DEF OutputEnds, Control, Holding, Quiet
  <2>3. QED
    BY <1>16, <2>1, <2>2 DEF OutputEnds
<1>17. CASE ReaderLock
  <2>1. Ending
    BY <1>17 DEF ReaderLock, Ending
  <2>2. QED
    BY <1>17, <1>g, <2>1 DEF ReaderLock
<1>18. CASE SendOutput
  <2>1. Ending
    BY <1>18 DEF SendOutput, Ending
  <2>2. QED
    BY <1>18, <1>g, <2>1 DEF SendOutput
<1>19. CASE SendFails
  <2>1. Quiet
    BY <1>19, <1>w, EndSeen DEF SendFails
  <2>2. QED
    BY <1>19, <2>1 DEF SendFails, Quiet
<1>20. CASE ReaderCancel
  <2>1. Ending
    BY <1>20 DEF ReaderCancel, Ending
  <2>2. QED
    BY <1>20, <1>g, <2>1 DEF ReaderCancel
<1>21. CASE CloserLock
  BY <1>21, <1>f DEF CloserLock
<1>22. CASE SendClose
  BY <1>22, <1>f DEF SendClose
<1>23. CASE CloserClose
  BY <1>23, <1>f DEF CloserClose, CloseConn
<1>24. CASE PageOpen
  BY <1>24, <1>f DEF PageOpen
<1>25. CASE Type
  BY <1>25, <1>f DEF Type
<1>26. CASE ResizeWindow
  BY <1>26, <1>f DEF ResizeWindow
<1>27. CASE Receive
  BY <1>27, <1>f DEF Receive
<1>28. CASE Parse
  BY <1>28, <1>f DEF Parse
<1>29. CASE SeeClose
  BY <1>29, <1>f DEF SeeClose
<1>30. CASE Leave
  BY <1>30, <1>f DEF Leave
<1>31. CASE UNCHANGED vars
  BY <1>31, <1>f DEF vars
<1>32. QED
  BY <1>1, <1>2, <1>3, <1>4, <1>5, <1>6, <1>7, <1>8, <1>9, <1>10, <1>11, <1>12,
     <1>13, <1>14, <1>15, <1>16, <1>17, <1>18, <1>19, <1>20, <1>21, <1>22, <1>23,
     <1>24, <1>25, <1>26, <1>27, <1>28, <1>29, <1>30, <1>31 DEF Next, Main, Reader,
     Closer, Shown, ProcKilled

(* Nothing is lost or ending.                                              *)
LEMMA QuietInit == Init => QuietEnd
BY DEF Init, QuietEnd, Quiet

(* The chunks of s are numbered from b + 1.                                *)
NumberedFrom(s, b) == \A i \in DOMAIN s : s[i] = b + i

(* Numbers follow the chunks through the pipe.                             *)
LEMMA NumberedTail ==
  ASSUME NEW s \in Seq(Nat), s # << >>, NEW b \in Nat, NumberedFrom(s, b)
  PROVE  /\ NumberedFrom(<<Head(s)>>, b) /\ NumberedFrom(Tail(s), b + 1)
         /\ Head(s) = b + 1 /\ Len(Tail(s)) = Len(s) - 1 /\ Tail(s) \in Seq(Nat)
         /\ Len(<<Head(s)>>) = 1 /\ <<Head(s)>> \in Seq(Nat)
<1>1. /\ Head(s) = s[1] /\ 1 \in DOMAIN s /\ Tail(s) \in Seq(Nat) /\ Len(Tail(s)) = Len(s) - 1
      /\ \A i \in DOMAIN Tail(s) : i + 1 \in DOMAIN s /\ Tail(s)[i] = s[i + 1]
      /\ Head(s) \in Nat
  BY HeadTail
<1>2. DOMAIN Tail(s) = 1..Len(s) - 1 /\ Len(s) \in Nat
  BY <1>1, LenProperties
<1>3. Head(s) = b + 1
  BY <1>1 DEF NumberedFrom
<1>4. NumberedFrom(<<Head(s)>>, b)
  BY <1>3 DEF NumberedFrom
<1>5. NumberedFrom(Tail(s), b + 1)
  <2>1. ASSUME NEW i \in DOMAIN Tail(s) PROVE Tail(s)[i] = b + 1 + i
    <3>1. i \in Nat /\ Tail(s)[i] = b + (i + 1)
      BY <1>1, <1>2 DEF NumberedFrom
    <3>2. QED
      BY <3>1
  <2>2. QED
    BY <2>1 DEF NumberedFrom
<1>6. <<Head(s)>> \in Seq(Nat) /\ Len(<<Head(s)>>) = 1
  BY <1>1
<1>7. QED
  BY <1>1, <1>3, <1>4, <1>5, <1>6

(* And so they do through a concatenation.                                 *)
LEMMA NumberedConcat ==
  ASSUME NEW s \in Seq(Nat), NEW t \in Seq(Nat), NEW b \in Nat,
         NumberedFrom(s, b), NumberedFrom(t, b + Len(s))
  PROVE  NumberedFrom(s \o t, b) /\ Len(s \o t) = Len(s) + Len(t) /\ s \o t \in Seq(Nat)
<1>1. /\ s \o t \in Seq(Nat) /\ Len(s \o t) = Len(s) + Len(t)
      /\ \A i \in 1..Len(s) + Len(t) :
           (s \o t)[i] = IF i <= Len(s) THEN s[i] ELSE t[i - Len(s)]
  BY ConcatProperties
<1>2. /\ DOMAIN s = 1..Len(s) /\ DOMAIN t = 1..Len(t) /\ DOMAIN (s \o t) = 1..Len(s) + Len(t)
      /\ Len(s) \in Nat /\ Len(t) \in Nat
  BY <1>1, LenProperties
<1>3. ASSUME NEW i \in DOMAIN (s \o t) PROVE (s \o t)[i] = b + i
  <2>1. CASE i <= Len(s)
    BY <1>1, <1>2, <2>1 DEF NumberedFrom
  <2>2. CASE i > Len(s)
    <3>1. i - Len(s) \in DOMAIN t /\ (s \o t)[i] = t[i - Len(s)] /\ i \in Nat
      BY <1>1, <1>2, <2>2
    <3>2. (s \o t)[i] = b + Len(s) + (i - Len(s))
      BY <3>1 DEF NumberedFrom
    <3>3. QED
      BY <1>2, <3>1, <3>2
  <2>3. QED
    BY <1>2, <2>1, <2>2
<1>4. QED
  BY <1>1, <1>3 DEF NumberedFrom

(* While nothing is lost the chunks in the pipe are those from the first   *)
(* to the last one written, one after the other.                           *)
AllThere ==
  /\ NumberedFrom(screen, 0)
  /\ NumberedFrom(down, Len(screen))
  /\ NumberedFrom(held, Len(screen) + Len(down))
  /\ NumberedFrom(ptyOut, Len(screen) + Len(down) + Len(held))
  /\ wrote = Len(screen) + Len(down) + Len(held) + Len(ptyOut)
Complete == Whole => AllThere

(* Every step keeps them all while nothing is lost.                        *)
LEMMA CompleteStep == Typed /\ Control /\ QuietEnd /\ Complete /\ [Next]_vars => Complete'
<1> SUFFICES ASSUME Typed, Control, QuietEnd, Complete, [Next]_vars, Whole' PROVE AllThere'
  BY DEF Complete
<1> USE DEF procVars, ptyVars, mainVars, readVars, wireVars, pageVars
<1>w. Whole
  BY LossStays
<1>a. AllThere
  BY <1>w DEF Complete
<1>f. ASSUME UNCHANGED <<screen, down, held, ptyOut, wrote>> PROVE AllThere'
  BY <1>a, <1>f DEF AllThere, NumberedFrom
<1>e. Len(<< >>) = 0 /\ << >> \in Seq(Nat) /\ \A b : NumberedFrom(<< >>, b)
  BY EmptySeq DEF NumberedFrom
<1>c. ASSUME CloseConn, UNCHANGED <<screen, held, ptyOut, wrote>> PROVE AllThere'
  <2>1. CASE down' = down
    BY <1>c, <1>f, <2>1
  <2>2. ASSUME NEW k \in 0..Len(down), down' = SubSeq(down, 1, k),
               closeFrame' = IF closeFrame = "seen" THEN "seen" ELSE "failed"
        PROVE  AllThere'
    <3>1. closeFrame = "seen"
      BY <2>2 DEF Whole
    <3>2. down = << >>
      BY <3>1 DEF Control, Seen
    <3>3. k = 0
      BY <1>e, <2>2, <3>2
    <3>4. down' = << >>
      BY <2>2, <3>3, SubSeqEmpty
    <3>5. QED
      BY <1>c, <1>f, <3>2, <3>4
  <2>3. QED
    BY <1>c, <2>1, <2>2 DEF CloseConn
<1>1. CASE ProcWrite
  <2>1. ptyOut' = ptyOut \o <<wrote + 1>> /\ wrote' = wrote + 1
        /\ UNCHANGED <<screen, down, held>>
    BY <1>1, OutTypes, AppendIsConcat DEF ProcWrite
  <2>2. <<wrote + 1>> \in Seq(Nat) /\ Len(<<wrote + 1>>) = 1
    BY OutTypes
  <2>3. NumberedFrom(<<wrote + 1>>, Len(screen) + Len(down) + Len(held) + Len(ptyOut))
    BY <1>a DEF AllThere, NumberedFrom
  <2>4. Len(screen) + Len(down) + Len(held) \in Nat
    BY OutTypes
  <2>5. /\ NumberedFrom(ptyOut', Len(screen) + Len(down) + Len(held))
        /\ Len(ptyOut') = Len(ptyOut) + 1
    BY <1>a, <2>1, <2>2, <2>3, <2>4, OutTypes, NumberedConcat DEF AllThere
  <2>6. wrote' = Len(screen) + Len(down) + Len(held) + Len(ptyOut')
    BY <1>a, <2>1, <2>5, OutTypes DEF AllThere
  <2>7. QED
    BY <1>a, <2>1, <2>5, <2>6 DEF AllThere
<1>2. CASE ProcRead
  BY <1>2, <1>f DEF ProcRead
<1>3. CASE ProcExit
  BY <1>3, <1>f DEF ProcExit
<1>4. CASE StartOk
  BY <1>4, <1>f DEF StartOk
<1>5. CASE StartFails
  BY <1>5, <1>f DEF StartFails
<1>6. CASE ReadKeys
  BY <1>6, <1>f DEF ReadKeys
<1>7. CASE ReadResize
  BY <1>7, <1>f DEF ReadResize
<1>8. CASE ReadFails
  BY <1>8, <1>f DEF ReadFails
<1>9. CASE WriteInput
  BY <1>9, <1>f DEF WriteInput
<1>10. CASE WriteToDead
  BY <1>10, <1>f DEF WriteToDead
<1>11. CASE ClosePty
  <2>1. Quiet
    BY <1>11, <1>w DEF ClosePty, QuietEnd, Ending
  <2>2. QED
    BY <1>11, <1>f, <2>1 DEF ClosePty, Quiet
<1>12. CASE Reap
  BY <1>12, <1>f DEF Reap
<1>13. CASE Cancel
  BY <1>13, <1>f DEF Cancel
<1>14. CASE Return
  BY <1>14, <1>c DEF Return
<1>15. CASE ReadOutput
  <2>1. /\ ptyOut # << >> /\ held' = <<Head(ptyOut)>> /\ ptyOut' = Tail(ptyOut)
        /\ held = << >> /\ UNCHANGED <<screen, down, wrote>>
    BY <1>15 DEF ReadOutput, Control, Holding
  <2>2. NumberedFrom(ptyOut, Len(screen) + Len(down)) /\ Len(screen) + Len(down) \in Nat
    BY <1>a, <1>e, <2>1, OutTypes DEF AllThere
  <2>3. /\ NumberedFrom(held', Len(screen) + Len(down)) /\ Len(held') = 1
        /\ NumberedFrom(ptyOut', Len(screen) + Len(down) + 1)
        /\ Len(ptyOut') = Len(ptyOut) - 1
    BY <2>1, <2>2, OutTypes, NumberedTail
  <2>4. wrote = Len(screen) + Len(down) + 1 + (Len(ptyOut) - 1)
    BY <1>a, <1>e, <2>1, OutTypes DEF AllThere
  <2>5. QED
    BY <1>a, <2>1, <2>3, <2>4 DEF AllThere
<1>16. CASE OutputEnds
  BY <1>16, <1>f DEF OutputEnds
<1>17. CASE ReaderLock
  BY <1>17, <1>f DEF ReaderLock
<1>18. CASE SendOutput
  <2>1. down' = down \o held /\ held' = << >> /\ UNCHANGED <<screen, ptyOut, wrote>>
    BY <1>18 DEF SendOutput
  <2>2. NumberedFrom(down', Len(screen)) /\ Len(down') = Len(down) + Len(held)
    BY <1>a, <2>1, OutTypes, NumberedConcat DEF AllThere
  <2>3. Len(screen) + Len(down') + Len(held') = Len(screen) + Len(down) + Len(held)
    BY <1>e, <2>1, <2>2, OutTypes
  <2>4. QED
    BY <1>a, <1>e, <2>1, <2>2, <2>3 DEF AllThere
<1>19. CASE SendFails
  <2>1. Quiet
    BY <1>19, <1>w, EndSeen DEF SendFails
  <2>2. QED
    BY <1>19, <1>f, <2>1 DEF SendFails, Quiet
<1>20. CASE ReaderCancel
  BY <1>20, <1>f DEF ReaderCancel
<1>21. CASE CloserLock
  BY <1>21, <1>f DEF CloserLock
<1>22. CASE SendClose
  BY <1>22, <1>f DEF SendClose
<1>23. CASE CloserClose
  BY <1>23, <1>c DEF CloserClose
<1>24. CASE PageOpen
  BY <1>24, <1>f DEF PageOpen
<1>25. CASE Type
  BY <1>25, <1>f DEF Type
<1>26. CASE ResizeWindow
  BY <1>26, <1>f DEF ResizeWindow
<1>27. CASE Receive
  <2>1. /\ down # << >> /\ down' = Tail(down) /\ screen' = Append(screen, Head(down))
        /\ UNCHANGED <<held, ptyOut, wrote>>
    BY <1>27 DEF Receive, Whole
  <2>2. /\ NumberedFrom(<<Head(down)>>, Len(screen)) /\ NumberedFrom(down', Len(screen) + 1)
        /\ Len(down') = Len(down) - 1
        /\ <<Head(down)>> \in Seq(Nat) /\ Len(<<Head(down)>>) = 1 /\ Head(down) = Len(screen) + 1
    BY <1>a, <2>1, OutTypes, NumberedTail DEF AllThere
  <2>3. screen' = screen \o <<Head(down)>>
    <3>1. Head(down) \in Nat
      BY <2>2, OutTypes
    <3>2. QED
      BY <2>1, <3>1, OutTypes, AppendIsConcat
  <2>4. NumberedFrom(screen', 0) /\ Len(screen') = Len(screen) + 1
    <3>1. NumberedFrom(<<Head(down)>>, 0 + Len(screen)) /\ NumberedFrom(screen, 0) /\ 0 \in Nat
      BY <1>a, <2>2, OutTypes DEF AllThere
    <3>2. QED
      BY <2>2, <2>3, <3>1, OutTypes, NumberedConcat
  <2>5. Len(screen') + Len(down') = Len(screen) + Len(down)
    BY <2>2, <2>4, OutTypes
  <2>6. QED
    BY <1>a, <2>1, <2>2, <2>4, <2>5 DEF AllThere
<1>28. CASE Parse
  BY <1>28, <1>f DEF Parse
<1>29. CASE SeeClose
  BY <1>29, <1>f DEF SeeClose
<1>30. CASE Leave
  BY <1>30, <1>f DEF Leave
<1>31. CASE UNCHANGED vars
  BY <1>31, <1>f DEF vars
<1>32. QED
  BY <1>1, <1>2, <1>3, <1>4, <1>5, <1>6, <1>7, <1>8, <1>9, <1>10, <1>11, <1>12,
     <1>13, <1>14, <1>15, <1>16, <1>17, <1>18, <1>19, <1>20, <1>21, <1>22, <1>23,
     <1>24, <1>25, <1>26, <1>27, <1>28, <1>29, <1>30, <1>31 DEF Next, Main, Reader,
     Closer, Shown, ProcKilled

(* Nothing has been written.                                               *)
LEMMA CompleteInit == Init => Complete
<1> SUFFICES ASSUME Init PROVE AllThere
  BY DEF Complete
<1>1. Len(<< >>) = 0
  BY EmptySeq
<1>2. QED
  BY <1>1 DEF Init, AllThere, NumberedFrom

(* A session that has ended in good order stays so.                        *)
LEMMA EndStays ==
  Typed /\ Control /\ [Next]_vars
    => (Whole /\ closeFrame = "seen" => Whole' /\ closeFrame' = "seen")
<1> SUFFICES ASSUME Typed, Control, [Next]_vars, Whole, closeFrame = "seen"
             PROVE  Whole' /\ closeFrame' = "seen"
  OBVIOUS
<1> USE DEF procVars, ptyVars, mainVars, readVars, wireVars, pageVars
<1>p. page = "closed" /\ ctx
  BY DEF Control, Seen, Cancelled
<1>f. ASSUME UNCHANGED <<discarded, lateKey, closeFrame>>, page' = page
      PROVE  Whole' /\ closeFrame' = "seen"
  BY <1>f DEF Whole
<1>1. CASE ProcWrite
  BY <1>1, <1>f DEF ProcWrite
<1>2. CASE ProcRead
  BY <1>2, <1>f DEF ProcRead
<1>3. CASE ProcExit
  BY <1>3, <1>f DEF ProcExit
<1>4. CASE StartOk
  BY <1>4, <1>f DEF StartOk
<1>5. CASE StartFails
  BY <1>5, <1>f DEF StartFails
<1>6. CASE ReadKeys
  BY <1>6, <1>f DEF ReadKeys
<1>7. CASE ReadResize
  BY <1>7, <1>f DEF ReadResize
<1>8. CASE ReadFails
  BY <1>8, <1>f DEF ReadFails
<1>9. CASE WriteInput
  BY <1>9, <1>f DEF WriteInput
<1>10. CASE WriteToDead
  <2>1. lateKey = FALSE
    BY DEF Whole
  <2>2. lateKey' = FALSE
    BY <1>10, <1>p, <2>1 DEF WriteToDead
  <2>3. QED
    BY <1>10, <1>f, <2>1, <2>2 DEF WriteToDead
<1>11. CASE ClosePty
  BY <1>11, <1>f DEF ClosePty
<1>12. CASE Reap
  BY <1>12, <1>f DEF Reap
<1>13. CASE Cancel
  BY <1>13, <1>f DEF Cancel
<1>14. CASE Return
  BY <1>14, <1>p DEF Return, CloseConn, Whole
<1>15. CASE ReadOutput
  BY <1>15, <1>f DEF ReadOutput
<1>16. CASE OutputEnds
  BY <1>16, <1>f DEF OutputEnds
<1>17. CASE ReaderLock
  BY <1>17, <1>f DEF ReaderLock
<1>18. CASE SendOutput
  BY <1>18, <1>f DEF SendOutput
<1>19. CASE SendFails
  BY <1>19, <1>f DEF SendFails
<1>20. CASE ReaderCancel
  BY <1>20, <1>f DEF ReaderCancel
<1>21. CASE CloserLock
  BY <1>21, <1>f DEF CloserLock
<1>22. CASE SendClose
  BY <1>22, <1>p DEF SendClose, Whole
<1>23. CASE CloserClose
  BY <1>23, <1>p DEF CloserClose, CloseConn, Whole
<1>24. CASE PageOpen
  BY <1>24, <1>p DEF PageOpen
<1>25. CASE Type
  BY <1>25, <1>f DEF Type
<1>26. CASE ResizeWindow
  BY <1>26, <1>f DEF ResizeWindow
<1>27. CASE Receive
  BY <1>27, <1>p DEF Receive
<1>28. CASE Parse
  BY <1>28, <1>f DEF Parse
<1>29. CASE SeeClose
  BY <1>29, <1>p DEF SeeClose
<1>30. CASE Leave
  BY <1>30, <1>p DEF Leave
<1>31. CASE UNCHANGED vars
  BY <1>31, <1>f DEF vars
<1>32. QED
  BY <1>1, <1>2, <1>3, <1>4, <1>5, <1>6, <1>7, <1>8, <1>9, <1>10, <1>11, <1>12,
     <1>13, <1>14, <1>15, <1>16, <1>17, <1>18, <1>19, <1>20, <1>21, <1>22, <1>23,
     <1>24, <1>25, <1>26, <1>27, <1>28, <1>29, <1>30, <1>31 DEF Next, Main, Reader,
     Closer, Shown, ProcKilled

(* The state of the stream that a state of the session stands for.         *)
StreamState ==
  IF closeFrame = "seen" /\ ~lateKey /\ ~discarded THEN "complete"
  ELSE IF discarded \/ lateKey \/ page \in {"closed", "gone"} \/ closeFrame = "failed"
  THEN "broken" ELSE "sound"

(* It follows from whether something was lost.                             *)
LEMMA StreamStateIs ==
  /\ Typed => StreamState = IF ~Whole THEN "broken"
                            ELSE IF closeFrame = "seen" THEN "complete" ELSE "sound"
  /\ Typed' => StreamState' = IF ~Whole' THEN "broken"
                              ELSE IF closeFrame' = "seen" THEN "complete" ELSE "sound"
<1>1. ASSUME Typed
      PROVE  StreamState = IF ~Whole THEN "broken"
                           ELSE IF closeFrame = "seen" THEN "complete" ELSE "sound"
  <2>1. (discarded = FALSE <=> ~discarded) /\ (lateKey = FALSE <=> ~lateKey)
    <3>1. discarded \in BOOLEAN /\ lateKey \in BOOLEAN
      BY <1>1 DEF Typed, TypeOK
    <3>2. QED
      BY <3>1, Zenon
  <2>2. page \in {"connecting", "open", "closed", "gone"}
    BY <1>1 DEF Typed, TypeOK
  <2>3. QED
    BY <2>1, <2>2 DEF StreamState, Whole
<1>2. ASSUME Typed'
      PROVE  StreamState' = IF ~Whole' THEN "broken"
                            ELSE IF closeFrame' = "seen" THEN "complete" ELSE "sound"
  <2>1. (discarded' = FALSE <=> ~discarded') /\ (lateKey' = FALSE <=> ~lateKey')
    <3>1. discarded' \in BOOLEAN /\ lateKey' \in BOOLEAN
      BY <1>2 DEF Typed, TypeOK
    <3>2. QED
      BY <3>1, Zenon
  <2>2. page' \in {"connecting", "open", "closed", "gone"}
    BY <1>2 DEF Typed, TypeOK
  <2>3. QED
    BY <2>1, <2>2 DEF StreamState, Whole
<1>3. QED
  BY <1>1, <1>2

(* The steps of the stream, in the variables of the session.               *)
LEMMA StreamSteps ==
  /\ UNCHANGED <<wrote, screen, StreamState>> => UNCHANGED Stream!vars
  /\ /\ StreamState # "complete" /\ wrote' = wrote + 1
     /\ UNCHANGED <<screen, StreamState>>
     => Stream!Write
  /\ /\ StreamState = "sound" /\ Len(screen) < wrote
     /\ screen' = Append(screen, Len(screen) + 1) /\ UNCHANGED <<wrote, StreamState>>
     => Stream!Deliver
  /\ /\ StreamState = "broken"
     /\ \E c \in 1..wrote :
          (\A i \in DOMAIN screen : screen[i] < c) /\ screen' = Append(screen, c)
     /\ UNCHANGED <<wrote, StreamState>>
     => Stream!DeliverAfterLoss
  /\ /\ StreamState = "sound" /\ Len(screen) = wrote /\ StreamState' = "complete"
     /\ UNCHANGED <<wrote, screen>>
     => Stream!Complete
  /\ /\ StreamState = "sound" /\ StreamState' = "broken" /\ UNCHANGED <<wrote, screen>>
     => Stream!Break
BY DEF StreamState, Stream!vars, Stream!Write, Stream!Deliver, Stream!DeliverAfterLoss,
       Stream!Complete, Stream!Break

(* Every step of a session is a step of the stream or does not touch it.   *)
LEMMA StreamStep ==
  Typed /\ Typed' /\ Control /\ OutputRises /\ QuietEnd /\ Complete /\ [Next]_vars
    => [Stream!Next]_Stream!vars
<1> SUFFICES ASSUME Typed, Typed', Control, OutputRises, QuietEnd, Complete, [Next]_vars
             PROVE  [Stream!Next]_Stream!vars
  OBVIOUS
<1> USE DEF procVars, ptyVars, mainVars, readVars, wireVars, pageVars
<1>l. /\ Whole' => Whole
      /\ Whole /\ closeFrame = "seen" => Whole' /\ closeFrame' = "seen"
  BY LossStays, EndStays
<1>s. /\ StreamState = IF ~Whole THEN "broken"
                      ELSE IF closeFrame = "seen" THEN "complete" ELSE "sound"
      /\ StreamState' = IF ~Whole' THEN "broken"
                       ELSE IF closeFrame' = "seen" THEN "complete" ELSE "sound"
  BY StreamStateIs
<1>f. ASSUME UNCHANGED <<wrote, screen>>, closeFrame' = "seen" => closeFrame = "seen"
      PROVE  [Stream!Next]_Stream!vars
  <2>1. StreamState' = StreamState \/ (StreamState = "sound" /\ StreamState' = "broken")
    BY <1>l, <1>s, <1>f
  <2>2. QED
    BY <1>f, <2>1, StreamSteps DEF Stream!Next
<1>1. CASE ProcWrite
  <2>1. /\ wrote' = wrote + 1
        /\ UNCHANGED <<screen, closeFrame, discarded, lateKey, page>>
    BY <1>1 DEF ProcWrite
  <2>2. StreamState' = StreamState
    BY <2>1 DEF StreamState
  <2>3. ASSUME StreamState = "complete" PROVE FALSE
    <3>1. Whole /\ closeFrame = "seen"
      BY <1>s, <2>3
    <3>2. Quiet
      BY <3>1, EndSeen
    <3>3. QED
      BY <1>1, <3>2 DEF ProcWrite, Quiet
  <2>4. QED
    BY <2>1, <2>2, <2>3, StreamSteps DEF Stream!Next
<1>2. CASE ProcRead
  BY <1>2, <1>f DEF ProcRead
<1>3. CASE ProcExit
  BY <1>3, <1>f DEF ProcExit
<1>4. CASE StartOk
  BY <1>4, <1>f DEF StartOk
<1>5. CASE StartFails
  BY <1>5, <1>f DEF StartFails
<1>6. CASE ReadKeys
  BY <1>6, <1>f DEF ReadKeys
<1>7. CASE ReadResize
  BY <1>7, <1>f DEF ReadResize
<1>8. CASE ReadFails
  BY <1>8, <1>f DEF ReadFails
<1>9. CASE WriteInput
  BY <1>9, <1>f DEF WriteInput
<1>10. CASE WriteToDead
  BY <1>10, <1>f DEF WriteToDead
<1>11. CASE ClosePty
  BY <1>11, <1>f DEF ClosePty
<1>12. CASE Reap
  BY <1>12, <1>f DEF Reap
<1>13. CASE Cancel
  BY <1>13, <1>f DEF Cancel
<1>14. CASE Return
  BY <1>14, <1>f DEF Return, CloseConn
<1>15. CASE ReadOutput
  BY <1>15, <1>f DEF ReadOutput
<1>16. CASE OutputEnds
  BY <1>16, <1>f DEF OutputEnds
<1>17. CASE ReaderLock
  BY <1>17, <1>f DEF ReaderLock
<1>18. CASE SendOutput
  BY <1>18, <1>f DEF SendOutput
<1>19. CASE SendFails
  BY <1>19, <1>f DEF SendFails
<1>20. CASE ReaderCancel
  BY <1>20, <1>f DEF ReaderCancel
<1>21. CASE CloserLock
  BY <1>21, <1>f DEF CloserLock
<1>22. CASE SendClose
  BY <1>22, <1>f DEF SendClose
<1>23. CASE CloserClose
  BY <1>23, <1>f DEF CloserClose, CloseConn
<1>24. CASE PageOpen
  BY <1>24, <1>f DEF PageOpen
<1>25. CASE Type
  BY <1>25, <1>f DEF Type
<1>26. CASE ResizeWindow
  BY <1>26, <1>f DEF ResizeWindow
<1>27. CASE Receive
  <2>1. CASE UNCHANGED screen
    BY <1>27, <1>f, <2>1 DEF Receive
  <2>2. CASE screen' = Append(screen, Head(down)) /\ UNCHANGED discarded
    <3>1. /\ down # << >> /\ page = "open" /\ wrote' = wrote
          /\ UNCHANGED <<closeFrame, discarded, lateKey, page>>
      BY <1>27, <2>2 DEF Receive
    <3>2. StreamState' = StreamState /\ closeFrame # "seen"
      BY <3>1 DEF StreamState, Control, Seen
    <3>3. CASE Whole
      <4>1. /\ Len(screen) + Len(down) + Len(held) + Len(ptyOut) = wrote
            /\ NumberedFrom(down, Len(screen))
        BY <3>3 DEF Complete, AllThere
      <4>2. Head(down) = Len(screen) + 1 /\ Len(down) >= 1
        <5>1. Head(down) = Len(screen) + 1 /\ Len(Tail(down)) = Len(down) - 1
              /\ Tail(down) \in Seq(Nat)
          BY <3>1, <4>1, OutTypes, NumberedTail
        <5>2. Len(Tail(down)) \in Nat
          BY <5>1, LenProperties
        <5>3. QED
          BY <5>1, <5>2, OutTypes
      <4>3. Len(screen) < wrote
        BY <4>1, <4>2, OutTypes
      <4>4. StreamState = "sound"
        BY <1>s, <3>2, <3>3
      <4>5. QED
        BY <2>2, <3>1, <3>2, <4>2, <4>3, <4>4, StreamSteps DEF Stream!Next
    <3>4. CASE ~Whole
      <4>1. Head(down) \in Out /\ Head(down) = down[1] /\ 1 \in DOMAIN down
        BY <3>1, HeadTail DEF Typed, TypeOK, Out
      <4>2. Head(down) <= wrote /\ \A i \in DOMAIN screen : screen[i] < Head(down)
        BY <4>1 DEF OutputRises, Before, UpTo
      <4>3. Head(down) \in 1..wrote
        BY <4>1, <4>2, OutTypes DEF Out
      <4>4. StreamState = "broken"
        BY <1>s, <3>4
      <4>5. QED
        BY <2>2, <3>1, <3>2, <4>2, <4>3, <4>4, StreamSteps DEF Stream!Next
    <3>5. QED
      BY <3>3, <3>4
  <2>3. QED
    BY <1>27, <2>1, <2>2 DEF Receive
<1>28. CASE Parse
  BY <1>28, <1>f DEF Parse
<1>29. CASE SeeClose
  <2>1. CASE closeFrame' = "seen" /\ Whole'
    <3>1. /\ closeFrame = "sent" /\ down = << >> /\ Whole
          /\ UNCHANGED <<wrote, screen>>
      BY <1>29, <1>l, <2>1 DEF SeeClose, Control, Seen
    <3>2. Quiet /\ AllThere
      BY <3>1, EndSeen DEF Complete
    <3>3. Len(screen) = wrote
      BY <3>1, <3>2, EmptySeq, OutTypes DEF Quiet, AllThere
    <3>4. StreamState = "sound" /\ StreamState' = "complete"
      BY <1>s, <2>1, <3>1
    <3>5. QED
      BY <3>1, <3>3, <3>4, StreamSteps DEF Stream!Next
  <2>2. CASE closeFrame' # "seen"
    BY <1>29, <1>f, <2>2 DEF SeeClose
  <2>3. CASE ~Whole'
    <3>1. UNCHANGED <<wrote, screen>>
      BY <1>29 DEF SeeClose
    <3>2. StreamState' = StreamState \/ (StreamState = "sound" /\ StreamState' = "broken")
      BY <1>l, <1>s, <2>3
    <3>3. QED
      BY <3>1, <3>2, StreamSteps DEF Stream!Next
  <2>4. QED
    BY <2>1, <2>2, <2>3
<1>30. CASE Leave
  BY <1>30, <1>f DEF Leave
<1>31. CASE UNCHANGED vars
  BY <1>31, <1>f DEF vars
<1>32. QED
  BY <1>1, <1>2, <1>3, <1>4, <1>5, <1>6, <1>7, <1>8, <1>9, <1>10, <1>11, <1>12,
     <1>13, <1>14, <1>15, <1>16, <1>17, <1>18, <1>19, <1>20, <1>21, <1>22, <1>23,
     <1>24, <1>25, <1>26, <1>27, <1>28, <1>29, <1>30, <1>31 DEF Next, Main, Reader,
     Closer, Shown, ProcKilled

(* The terminal shows the output of its process in order, skips nothing    *)
(* while nothing was lost, and has shown all of it when it says that the   *)
(* session has ended (ServeWS, webterm.go).                                *)
THEOREM TerminalImplementsStream == Spec => ImplementsStream
<1>1. Init => /\ Typed /\ Control /\ OutputRises /\ QuietEnd /\ Complete
              /\ Stream!Init
  <2>1. Init => Stream!Init
    BY DEF Init, Stream!Init
  <2>2. QED
    BY <2>1, TypedInit, ControlInit, RisesInit, QuietInit, CompleteInit
<1>2. /\ Typed /\ Control /\ OutputRises /\ QuietEnd /\ Complete
      /\ [Next]_vars
      => /\ (Typed /\ Control /\ OutputRises /\ QuietEnd /\ Complete)'
         /\ [Stream!Next]_Stream!vars
  BY TypedStep, ControlStep, RisesStep, QuietStep, CompleteStep, StreamStep
<1>3. QED
  BY <1>1, <1>2, PTL DEF Spec, ImplementsStream, Stream!Spec

(* What that means for a page: it never shows output out of order or twice,*)
(* and when it has seen the close frame with nothing lost on the way, it   *)
(* shows all that the process wrote and nothing else.                      *)
THEOREM OutputInOrder ==
  Spec => [](/\ \A i, j \in DOMAIN screen : i < j => screen[i] < screen[j]
             /\ closeFrame = "seen" /\ ~lateKey /\ ~discarded
                  => /\ Len(screen) = wrote
                     /\ \A i \in DOMAIN screen : screen[i] = i)
<1> DEFINE InOrder == \A i, j \in DOMAIN screen : i < j => screen[i] < screen[j]
           InFull == closeFrame = "seen" /\ ~lateKey /\ ~discarded
                       => /\ Len(screen) = wrote
                          /\ \A i \in DOMAIN screen : screen[i] = i
           All == Typed /\ Control /\ OutputRises /\ QuietEnd /\ Complete
<1>1. Init => All
  BY TypedInit, ControlInit, RisesInit, QuietInit, CompleteInit
<1>2. All /\ [Next]_vars => All'
  BY TypedStep, ControlStep, RisesStep, QuietStep, CompleteStep
<1>3. All => InOrder
  BY DEF OutputRises, Rising
<1>4. ASSUME All, closeFrame = "seen", ~lateKey, ~discarded
      PROVE  Len(screen) = wrote /\ \A i \in DOMAIN screen : screen[i] = i
  <2>1. Whole
    BY <1>4 DEF Whole, Typed, TypeOK
  <2>2. ptyOut = << >> /\ held = << >> /\ down = << >>
    BY <1>4, <2>1, EndSeen DEF Quiet, Control, Seen
  <2>3. NumberedFrom(screen, 0) /\ wrote = Len(screen) + Len(down) + Len(held) + Len(ptyOut)
    BY <1>4, <2>1 DEF Complete, AllThere
  <2>4. screen \in Seq(Nat) /\ Len(screen) \in Nat /\ DOMAIN screen = 1..Len(screen)
    BY <1>4, OutTypes, LenProperties
  <2>5. Len(screen) = wrote
    BY <2>2, <2>3, <2>4, EmptySeq
  <2>6. QED
    BY <2>3, <2>4, <2>5 DEF NumberedFrom
<1>5. All => InFull
  BY <1>4
<1>6. QED
  BY <1>1, <1>2, <1>3, <1>5, PTL DEF Spec

=============================================================================
