------------------------------ MODULE WebTerm ------------------------------
(***************************************************************************)
(* One terminal session: the page with its xterm.js (terminal.html), the   *)
(* WebSocket, ServeWS with the two goroutines it starts (webterm.go), the  *)
(* PTY (pty_linux.go) and the process `lxc exec <name> -- bash -l`.        *)
(*                                                                         *)
(* Output and input are chunks numbered in the order they were produced,   *)
(* and a terminal's size is its number of columns.  Everything that holds  *)
(* data is bounded: the PTY's two buffers by PtyCap, the socket's two      *)
(* directions by WireCap; xterm.js stops taking data over Watermark.       *)
(***************************************************************************)
EXTENDS Naturals, Sequences

CONSTANTS
  MaxOut,      \* output chunks the process writes      (bound of the runs)
  MaxKeys,     \* input chunks the user types           (bound of the runs)
  MaxResize,   \* times the user resizes the window     (bound of the runs)
  PtyCap,      \* chunks each buffer of the PTY holds
  WireCap,     \* messages each direction of the socket holds
  Watermark,   \* unparsed chunks over which xterm.js discards (5e7 bytes)
  Widths,      \* widths of the terminal element
  CellWidth    \* width of a character cell

ASSUME TermAssumption ==
  /\ MaxOut \in Nat /\ MaxKeys \in Nat /\ MaxResize \in Nat
  /\ PtyCap \in Nat \ {0} /\ WireCap \in Nat \ {0} /\ Watermark \in Nat
  /\ Widths \subseteq Nat /\ Widths # {} /\ CellWidth \in Nat \ {0}

VARIABLES
  proc,        \* the process: "none", "run", "dead", "reaped"
  wrote,       \* output chunks it has written
  got,         \* input chunks it has read
  master,      \* the app's end of the PTY: "none", "open", "closed"
  ptyOut,      \* output not yet read from the PTY
  ptyIn,       \* input not yet read by the process
  winsize,     \* the PTY's columns
  main,        \* where ServeWS is
  input,       \* what ServeWS is about to write to the PTY
  reader,      \* where the PTY -> WebSocket goroutine is
  held,        \* what it has read and not sent
  closer,      \* where the goroutine that closes the socket is
  mu,          \* writeMu: "free" or who holds it
  ctx,         \* whether the context is cancelled
  conn,        \* the server's socket: "open", "closed"
  closeFrame,  \* "none", "sent", "failed", "seen" (by the page)
  down,        \* frames on their way to the page
  up,          \* frames on their way to the server
  page,        \* "connecting", "open", "closed", "gone"
  screen,      \* chunks xterm.js has taken
  parsed,      \* how many of them it has parsed
  discarded,   \* whether xterm.js has refused one
  size,        \* its columns
  typed,       \* input chunks typed so far
  resized,     \* window resizes so far
  lateKey      \* whether a failed write to the PTY is what ended the session

procVars == <<proc, wrote, got>>
ptyVars == <<master, ptyOut, ptyIn, winsize>>
mainVars == <<main, input, lateKey>>
readVars == <<reader, held>>
wireVars == <<conn, closeFrame, down>>
pageVars == <<page, screen, parsed, discarded, size, typed, resized>>
vars == <<procVars, ptyVars, mainVars, readVars, closer, mu, ctx, wireVars, up, pageVars>>

\* FitAddon.proposeDimensions: whole cells, at least two columns.
Cols(w) == IF w \div CellWidth < 2 THEN 2 ELSE w \div CellWidth

Keys(n) == [kind |-> "keys", n |-> n]
Resize(n) == [kind |-> "resize", n |-> n]

Init ==
  /\ proc = "none" /\ wrote = 0 /\ got = << >>
  /\ master = "none" /\ ptyOut = << >> /\ ptyIn = << >> /\ winsize = 0
  /\ main = "start" /\ input = << >> /\ lateKey = FALSE
  /\ reader = "off" /\ held = << >> /\ closer = "off"
  /\ mu = "free" /\ ctx = FALSE
  /\ conn = "open" /\ closeFrame = "none" /\ down = << >> /\ up = << >>
  /\ page = "connecting" /\ screen = << >> /\ parsed = 0 /\ discarded = FALSE
  /\ \E w \in Widths : size = Cols(w)
  /\ typed = 0 /\ resized = 0

-----------------------------------------------------------------------------
(* The process, at the other end of the PTY.                               *)

ProcWrite ==
  /\ proc = "run" /\ wrote < MaxOut /\ Len(ptyOut) < PtyCap
  /\ wrote' = wrote + 1
  /\ ptyOut' = Append(ptyOut, wrote + 1)
  /\ UNCHANGED <<proc, got, master, ptyIn, winsize, mainVars, readVars, closer, mu, ctx,
                 wireVars, up, pageVars>>

ProcRead ==
  /\ proc = "run" /\ ptyIn # << >>
  /\ got' = Append(got, Head(ptyIn))
  /\ ptyIn' = Tail(ptyIn)
  /\ UNCHANGED <<proc, wrote, master, ptyOut, winsize, mainVars, readVars, closer, mu, ctx,
                 wireVars, up, pageVars>>

\* The shell exits, or the container goes away, or the hang-up of the PTY ends it.
ProcExit ==
  /\ proc = "run"
  /\ proc' = "dead"
  /\ UNCHANGED <<wrote, got, ptyVars, mainVars, readVars, closer, mu, ctx, wireVars, up, pageVars>>

\* exec.CommandContext kills the process when its context is cancelled.
ProcKilled ==
  /\ ctx
  /\ ProcExit

-----------------------------------------------------------------------------
(* ServeWS: start, the loop WebSocket -> PTY, and the deferred calls.      *)

StartOk ==
  /\ main = "start"
  /\ main' = "read" /\ reader' = "read" /\ closer' = "wait"
  /\ proc' = "run" /\ master' = "open"
  /\ UNCHANGED <<wrote, got, ptyOut, ptyIn, winsize, input, lateKey, held, mu, ctx,
                 wireVars, up, pageVars>>

\* No PTY: a text message says so (not modelled) and the socket is closed.
StartFails ==
  /\ main = "start"
  /\ main' = "cancel"
  /\ UNCHANGED <<procVars, ptyVars, input, lateKey, readVars, closer, mu, ctx, wireVars, up,
                 pageVars>>

ReadKeys ==
  /\ main = "read" /\ up # << >> /\ Head(up).kind = "keys"
  /\ input' = <<Head(up).n>>
  /\ up' = Tail(up)
  /\ main' = "write"
  /\ UNCHANGED <<procVars, ptyVars, lateKey, readVars, closer, mu, ctx, wireVars, pageVars>>

\* Mutant: a resize message is taken for input.
ResizeAsKeys ==
  /\ main = "read" /\ up # << >> /\ Head(up).kind = "resize"
  /\ input' = <<Head(up).n>>
  /\ up' = Tail(up)
  /\ main' = "write"
  /\ UNCHANGED <<procVars, ptyVars, lateKey, readVars, closer, mu, ctx, wireVars, pageVars>>

\* pty.Resize; its error is ignored.
ReadResize ==
  /\ main = "read" /\ up # << >> /\ Head(up).kind = "resize"
  /\ winsize' = Head(up).n
  /\ up' = Tail(up)
  /\ UNCHANGED <<procVars, master, ptyOut, ptyIn, mainVars, readVars, closer, mu, ctx, wireVars,
                 pageVars>>

\* Mutant: a page that went away without a word is not noticed.
ReadFailsOnClose ==
  /\ main = "read"
  /\ \/ conn = "closed"
     \/ /\ page = "closed"
        /\ up = << >>
  /\ main' = "closePty"
  /\ UNCHANGED <<procVars, ptyVars, input, lateKey, readVars, closer, mu, ctx, wireVars, up,
                 pageVars>>

\* The socket was closed here, or the page closed it or stopped answering.
ReadFails ==
  /\ main = "read"
  /\ \/ conn = "closed"
     \/ /\ page = "closed"
        /\ up = << >>
     \/ page = "gone"
  /\ main' = "closePty"
  /\ UNCHANGED <<procVars, ptyVars, input, lateKey, readVars, closer, mu, ctx, wireVars, up,
                 pageVars>>

\* Mutant: a write that had to wait is repeated as a whole.
WriteInputAgain ==
  /\ main = "write" /\ proc = "run" /\ Len(ptyIn) < PtyCap
  /\ ptyIn' = ptyIn \o input
  /\ UNCHANGED <<procVars, master, ptyOut, winsize, mainVars, readVars, closer, mu, ctx, wireVars,
                 up, pageVars>>

\* pty.Write blocks while the PTY's input buffer is full.
WriteInput ==
  /\ main = "write" /\ proc = "run" /\ Len(ptyIn) < PtyCap
  /\ ptyIn' = ptyIn \o input
  /\ input' = << >>
  /\ main' = "read"
  /\ UNCHANGED <<procVars, master, ptyOut, winsize, lateKey, readVars, closer, mu, ctx, wireVars,
                 up, pageVars>>

\* Without a process the kernel fails the write, or takes it and drops it.
WriteToDead ==
  /\ main = "write" /\ proc # "run"
  /\ input' = << >>
  /\ \/ main' = "read" /\ UNCHANGED lateKey
     \/ main' = "closePty" /\ lateKey' = ~ctx
  /\ UNCHANGED <<procVars, ptyVars, readVars, closer, mu, ctx, wireVars, up, pageVars>>

\* Mutant: only the file is closed.
ClosePtyFile ==
  /\ main = "closePty"
  /\ master' = "closed" /\ ptyOut' = << >>
  /\ main' = "cancel"
  /\ UNCHANGED <<procVars, ptyIn, winsize, input, lateKey, readVars, closer, mu, ctx, wireVars,
                 up, pageVars>>

\* pty.Close: close the file (what was not read is lost), kill, wait.
ClosePty ==
  /\ main = "closePty"
  /\ master' = "closed" /\ ptyOut' = << >>
  /\ main' = "reap"
  /\ UNCHANGED <<procVars, ptyIn, winsize, input, lateKey, readVars, closer, mu, ctx, wireVars,
                 up, pageVars>>

Reap ==
  /\ main = "reap"
  /\ proc' = "reaped"
  /\ main' = "cancel"
  /\ UNCHANGED <<wrote, got, ptyVars, input, lateKey, readVars, closer, mu, ctx, wireVars, up,
                 pageVars>>

Cancel ==
  /\ main = "cancel"
  /\ ctx' = TRUE
  /\ main' = "closeConn"
  /\ UNCHANGED <<procVars, ptyVars, input, lateKey, readVars, closer, mu, wireVars, up, pageVars>>

\* conn.Close.  When input was not read the kernel resets the connection, and
\* any part of what was on its way to the page, from the end, may be lost.
CloseConn ==
  /\ conn' = "closed"
  /\ \/ UNCHANGED <<down, closeFrame>>
     \/ /\ conn = "open" /\ up # << >>
        /\ closeFrame' = IF closeFrame = "seen" THEN "seen" ELSE "failed"
        /\ \E k \in 0..Len(down) : down' = SubSeq(down, 1, k)

Return ==
  /\ main = "closeConn"
  /\ CloseConn
  /\ main' = "done"
  /\ UNCHANGED <<procVars, ptyVars, input, lateKey, readVars, closer, mu, ctx, up, pageVars>>

-----------------------------------------------------------------------------
(* The goroutine PTY -> WebSocket.                                         *)

ReadOutput ==
  /\ reader = "read" /\ master = "open" /\ ptyOut # << >>
  /\ held' = <<Head(ptyOut)>>
  /\ ptyOut' = Tail(ptyOut)
  /\ reader' = "lock"
  /\ UNCHANGED <<procVars, master, ptyIn, winsize, mainVars, closer, mu, ctx, wireVars, up,
                 pageVars>>

\* Mutant: the end of the process is taken for the end of its output.
OutputEndsWithProcess ==
  /\ reader = "read"
  /\ master = "closed" \/ proc # "run"
  /\ reader' = "cancel"
  /\ UNCHANGED <<procVars, ptyVars, mainVars, held, closer, mu, ctx, wireVars, up, pageVars>>

\* The end of output comes after all the output.
OutputEnds ==
  /\ reader = "read"
  /\ master = "closed" \/ (proc # "run" /\ ptyOut = << >>)
  /\ reader' = "cancel"
  /\ UNCHANGED <<procVars, ptyVars, mainVars, held, closer, mu, ctx, wireVars, up, pageVars>>

ReaderLock ==
  /\ reader = "lock" /\ mu = "free"
  /\ mu' = "reader" /\ reader' = "send"
  /\ UNCHANGED <<procVars, ptyVars, mainVars, held, closer, ctx, wireVars, up, pageVars>>

\* conn.WriteMessage has no deadline: it blocks while the socket is full.
SendOutput ==
  /\ reader = "send" /\ conn = "open" /\ closeFrame = "none" /\ Len(down) < WireCap
  /\ down' = down \o held
  /\ held' = << >> /\ mu' = "free" /\ reader' = "read"
  /\ UNCHANGED <<procVars, ptyVars, mainVars, closer, ctx, conn, closeFrame, up, pageVars>>

SendFails ==
  /\ reader = "send"
  /\ conn = "closed" \/ closeFrame # "none" \/ page \in {"closed", "gone"}
  /\ held' = << >> /\ mu' = "free" /\ reader' = "cancel"
  /\ UNCHANGED <<procVars, ptyVars, mainVars, closer, ctx, wireVars, up, pageVars>>

\* Mutant: the goroutine returns without cancelling the context.
ReaderReturns ==
  /\ reader = "cancel"
  /\ reader' = "done"
  /\ UNCHANGED <<procVars, ptyVars, mainVars, held, closer, mu, ctx, wireVars, up, pageVars>>

ReaderCancel ==
  /\ reader = "cancel"
  /\ ctx' = TRUE /\ reader' = "done"
  /\ UNCHANGED <<procVars, ptyVars, mainVars, held, closer, mu, wireVars, up, pageVars>>

-----------------------------------------------------------------------------
(* The goroutine that closes the socket once the context is cancelled.     *)

CloserLock ==
  /\ closer = "wait" /\ ctx /\ mu = "free"
  /\ mu' = "closer" /\ closer' = "send"
  /\ UNCHANGED <<procVars, ptyVars, mainVars, readVars, ctx, wireVars, up, pageVars>>

\* WriteControl gives up after a second; either way nothing is sent after it.
SendClose ==
  /\ closer = "send"
  /\ \/ /\ conn = "open" /\ closeFrame = "none" /\ Len(down) < WireCap
        /\ closeFrame' = "sent"
     \/ /\ conn = "closed" \/ Len(down) = WireCap \/ page \in {"closed", "gone"}
        /\ closeFrame' = IF closeFrame = "none" THEN "failed" ELSE closeFrame
  /\ mu' = "free" /\ closer' = "close"
  /\ UNCHANGED <<procVars, ptyVars, mainVars, readVars, ctx, conn, down, up, pageVars>>

CloserClose ==
  /\ closer = "close"
  /\ CloseConn
  /\ closer' = "done"
  /\ UNCHANGED <<procVars, ptyVars, mainVars, readVars, mu, ctx, up, pageVars>>

-----------------------------------------------------------------------------
(* The page.                                                               *)

Sent(m) == up' = IF page = "open" THEN Append(up, m) ELSE up

\* Mutant: the size is sent only when the window changes.
PageOpenQuiet ==
  /\ page = "connecting"
  /\ page' = "open"
  /\ UNCHANGED <<procVars, ptyVars, mainVars, readVars, closer, mu, ctx, wireVars, up,
                 screen, parsed, discarded, size, typed, resized>>

\* onopen: fit, then send the size.
PageOpen ==
  /\ page = "connecting"
  /\ page' = "open"
  /\ up' = Append(up, Resize(size))
  /\ UNCHANGED <<procVars, ptyVars, mainVars, readVars, closer, mu, ctx, wireVars,
                 screen, parsed, discarded, size, typed, resized>>

Type ==
  /\ page = "open" /\ typed < MaxKeys /\ Len(up) < WireCap
  /\ typed' = typed + 1
  /\ Sent(Keys(typed + 1))
  /\ UNCHANGED <<procVars, ptyVars, mainVars, readVars, closer, mu, ctx, wireVars,
                 page, screen, parsed, discarded, size, resized>>

\* fit and sendResize; sendResize does nothing unless the socket is open.
ResizeWindow ==
  /\ page \in {"connecting", "open"} /\ resized < MaxResize /\ Len(up) < WireCap
  /\ \E w \in Widths : size' = Cols(w)
  /\ resized' = resized + 1
  /\ Sent(Resize(size'))
  /\ UNCHANGED <<procVars, ptyVars, mainVars, readVars, closer, mu, ctx, wireVars,
                 page, screen, parsed, discarded, typed>>

\* onmessage: term.write takes the chunk, or throws when too much is unparsed.
Receive ==
  /\ page = "open" /\ down # << >>
  /\ down' = Tail(down)
  /\ IF Len(screen) - parsed > Watermark
     THEN discarded' = TRUE /\ UNCHANGED screen
     ELSE screen' = Append(screen, Head(down)) /\ UNCHANGED discarded
  /\ UNCHANGED <<procVars, ptyVars, mainVars, readVars, closer, mu, ctx, conn, closeFrame, up,
                 page, parsed, size, typed, resized>>

Parse ==
  /\ page # "gone" /\ parsed < Len(screen)
  /\ parsed' = parsed + 1
  /\ UNCHANGED <<procVars, ptyVars, mainVars, readVars, closer, mu, ctx, wireVars, up,
                 page, screen, discarded, size, typed, resized>>

\* onclose: the close frame, or the end of the connection without one.
SeeClose ==
  /\ page = "open" /\ down = << >>
  /\ \/ closeFrame = "sent" /\ closeFrame' = "seen"
     \/ closeFrame # "sent" /\ conn = "closed" /\ UNCHANGED closeFrame
  /\ page' = "closed"
  /\ UNCHANGED <<procVars, ptyVars, mainVars, readVars, closer, mu, ctx, conn, down, up,
                 screen, parsed, discarded, size, typed, resized>>

\* The tab is closed, the machine or the network is lost.
Leave ==
  /\ page \in {"connecting", "open"}
  /\ page' = "gone"
  /\ UNCHANGED <<procVars, ptyVars, mainVars, readVars, closer, mu, ctx, wireVars, up,
                 screen, parsed, discarded, size, typed, resized>>

-----------------------------------------------------------------------------
Main == \/ StartOk \/ StartFails \/ ReadKeys \/ ReadResize \/ ReadFails
        \/ WriteInput \/ WriteToDead \/ ClosePty \/ Reap \/ Cancel \/ Return
Reader == ReadOutput \/ OutputEnds \/ ReaderLock \/ SendOutput \/ SendFails \/ ReaderCancel
Closer == CloserLock \/ SendClose \/ CloserClose
Shown == PageOpen \/ Receive \/ Parse \/ SeeClose
Next == \/ ProcWrite \/ ProcRead \/ ProcExit \/ ProcKilled
        \/ Main \/ Reader \/ Closer
        \/ Shown \/ Type \/ ResizeWindow \/ Leave

\* Goroutines are scheduled, the page handles its events, a cancelled context
\* kills.  Nothing makes the process write, read its input or end.
Fairness ==
  /\ WF_vars(Main) /\ WF_vars(Reader) /\ WF_vars(Closer)
  /\ WF_vars(Shown) /\ WF_vars(ProcKilled)

Spec == Init /\ [][Next]_vars /\ Fairness
-----------------------------------------------------------------------------
(* Properties.                                                             *)

TypeOK ==
  /\ proc \in {"none", "run", "dead", "reaped"} /\ wrote \in 0..MaxOut
  /\ got \in Seq(1..MaxKeys) /\ ptyIn \in Seq(1..MaxKeys) /\ input \in Seq(1..MaxKeys)
  /\ master \in {"none", "open", "closed"} /\ ptyOut \in Seq(1..MaxOut) /\ winsize \in Nat
  /\ main \in {"start", "read", "write", "closePty", "reap", "cancel", "closeConn", "done"}
  /\ lateKey \in BOOLEAN
  /\ reader \in {"off", "read", "lock", "send", "cancel", "done"} /\ held \in Seq(1..MaxOut)
  /\ closer \in {"off", "wait", "send", "close", "done"}
  /\ mu \in {"free", "reader", "closer"} /\ ctx \in BOOLEAN
  /\ conn \in {"open", "closed"} /\ closeFrame \in {"none", "sent", "failed", "seen"}
  /\ down \in Seq(1..MaxOut) /\ Len(down) <= WireCap /\ Len(ptyOut) <= PtyCap
  /\ up \in Seq([kind : {"keys", "resize"}, n : Nat])
  /\ page \in {"connecting", "open", "closed", "gone"}
  /\ screen \in Seq(1..MaxOut) /\ parsed \in Nat /\ discarded \in BOOLEAN
  /\ size \in Nat /\ typed \in 0..MaxKeys /\ resized \in 0..MaxResize

\* What was typed reaches the process in order, nothing twice and nothing left out.
InputInOrder == \A i \in DOMAIN got : got[i] = i

\* Resizes may come before the socket opens, before the PTY exists and while
\* input blocks the loop: when none is on its way the PTY has the page's size.
SizeFollows ==
  (page = "open" /\ main \in {"read", "write"} /\ \A i \in DOMAIN up : up[i].kind = "keys")
     => winsize = size

\* All three goroutines have returned.
Over == main = "done" /\ reader \in {"off", "done"} /\ closer \in {"off", "done"}

\* A session that is over leaves no process, running or unreaped, no open
\* socket and no lock behind, whichever of the three was the first to stop.
\* (The goroutine with which exec.Cmd watches its context is not one of the
\* three: it kills, and then stays, waiting for the Cmd.Wait that Close, which
\* calls Process.Wait, never makes.)
NothingLeft == Over => proc \in {"none", "reaped"} /\ conn = "closed" /\ mu = "free"

\* The output is an in-order stream that is complete when the page sees the
\* close frame, unless a key typed after the process ended, xterm.js
\* discarding data, or the loss of the page or the connection broke it.
Stream == INSTANCE TerminalStream WITH
  written <- wrote,
  delivered <- screen,
  state <- IF closeFrame = "seen" /\ ~lateKey /\ ~discarded THEN "complete"
           ELSE IF discarded \/ lateKey \/ page \in {"closed", "gone"} \/ closeFrame = "failed"
           THEN "broken" ELSE "sound"
ImplementsStream == Stream!Spec

\* Who can take its next step: ServeWS, its two goroutines, the page, and the
\* process in reading its input.  (These are the guards of their actions.)
MainGoes ==
  \/ main \notin {"read", "write", "done"}
  \/ main = "read" /\ (up # << >> \/ conn = "closed" \/ page \in {"closed", "gone"})
  \/ main = "write" /\ (proc # "run" \/ Len(ptyIn) < PtyCap)
ReaderGoes ==
  \/ reader = "cancel" \/ (reader = "lock" /\ mu = "free")
  \/ /\ reader = "read"
     /\ \/ master = "open" /\ ptyOut # << >>
        \/ master = "closed" \/ (proc # "run" /\ ptyOut = << >>)
  \/ /\ reader = "send"
     /\ \/ Len(down) < WireCap \/ conn = "closed" \/ closeFrame # "none"
        \/ page \in {"closed", "gone"}
CloserGoes ==
  \/ closer = "close" \/ (closer = "wait" /\ ctx /\ mu = "free")
  \/ /\ closer = "send"
     /\ \/ closeFrame = "none" \/ conn = "closed" \/ Len(down) = WireCap
        \/ page \in {"closed", "gone"}
PageGoes ==
  \/ page = "connecting"
  \/ page = "open" /\ (down # << >> \/ closeFrame = "sent" \/ conn = "closed")
  \/ page # "gone" /\ parsed < Len(screen)
ProcReads == proc = "run" /\ ptyIn # << >>

\* The pumps do not wait for each other for ever: from when the process or the
\* page ends, whatever is full and whoever holds writeMu, one of them can go
\* on, until all have returned and the page knows.
NeverStuck ==
  /\ proc # "run" \/ page \in {"closed", "gone"}
  /\ ~(Over /\ page \in {"closed", "gone"})
  => MainGoes \/ ReaderGoes \/ CloserGoes \/ PageGoes \/ ProcReads

\* When the process ends the session ends, and the page says so if it is there.
ExitEnds == proc = "dead" ~> (Over /\ page \in {"closed", "gone"})

\* The loop waits for a process that does not take its input.
HeldUp == main = "write" /\ proc = "run" /\ Len(ptyIn) = PtyCap /\ ~ctx

\* When the page goes the session ends, its process included.  One thing can
\* keep it: a process that never reads again, while the loop that would notice
\* is blocked in pty.Write.
LeaveEnds == <>[]HeldUp \/ (page = "gone" ~> (Over /\ proc # "run"))
=============================================================================
