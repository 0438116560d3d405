------------------------------ MODULE GdbInput ------------------------------
(***************************************************************************)
(* How multi-gdb-ui.el shares one GDB between the user and itself: the     *)
(* input queue, the phases of the output sink, the annotation handlers and *)
(* the triggers that bring every display up to date after a command.       *)
(*                                                                         *)
(* Emacs runs one handler at a time; GDB and the debugged program run      *)
(* beside it, and what either writes arrives later, in order.  ui is the   *)
(* state of Emacs.  GDB is external: what it annotates is what the         *)
(* handlers expect, with -annotate=3.                                      *)
(***************************************************************************)
EXTENDS Integers, Sequences, FiniteSets, SequencesExt

CONSTANTS
  Buffers,       (* displays the user may open: locals, registers, ...     *)
  MaxTyped,      (* bound of the lines typed                               *)
  OpensAnytime,  (* a display is opened while GDB is busy or the program   *)
                 (* runs, not only at a prompt                             *)
  AnswersEarly,  (* a question of GDB is answered before it is asked       *)
  LeavesInput,   (* the program stops, or has stopped, with input typed    *)
                 (* for it that it has not read                            *)
  DiesWithIO,    (* a signal ends a program that has its own I/O buffer    *)
  KillsAwaited,  (* a display is killed whose answer is awaited            *)
  FilesLost      (* GDB does not find the source file of a breakpoint      *)

Frame       == "frame"         \* gdb-get-selected-frame: in no buffer
Breakpoints == "breakpoints"   \* made again by every post-prompt
Displays    == Buffers \cup {Frame, Breakpoints}
Early       == {"stack"}       \* asked for before the breakpoints

(* Displays whose custom function makes the buffer current, there or not.  *)
NeedsBuffer == {Breakpoints, "stack", "threads", "registers"}

(* What gdb-info-breakpoints-custom asks of a breakpoint whose file is not *)
(* where GDB names it: it is in no buffer and nobody waits for it.         *)
List        == "list"          \* server list FILE:1, handler ignore
InfoSource  == "info source"   \* server info source, gdb-get-location
Lookups     == {List, InfoSource}

(* Lines the user types: one that changes what GDB would print, one that   *)
(* runs the program, one GDB asks back about, the answer, and input of the *)
(* program.                                                                *)
Commands == {"set", "go", "ask"}
Typed    == Commands \cup {"yes", "text"}
Items    == Displays \cup Lookups \cup Typed

ASSUME BuffersAssumption ==
  /\ IsFiniteSet(Buffers)
  /\ Buffers \cap ({Frame, Breakpoints, "program"} \cup Lookups \cup Typed) = {}
ASSUME BoundAssumption   == MaxTyped \in Nat
ASSUME HabitsAssumption  == 
  {OpensAnytime, AnswersEarly, LeavesInput, DiesWithIO, KillsAwaited, FilesLost} \subseteq BOOLEAN

VARIABLES
  ui,        (* Emacs                                                      *)
  gdb,       (* GDB: at its prompt, at a question, or running the program  *)
  version,   (* changes whenever what GDB would print changes              *)
  out,       (* written by GDB, not yet received by Emacs                  *)
  separate,  (* gdb-use-separate-io-buffer                                 *)
  typed      (* lines typed so far                                         *)

vars == <<ui, gdb, version, out, separate, typed>>

Nothing == [cmd |-> "nothing", ver |-> 0]
Output(c, v) == [cmd |-> c, ver |-> v]
IsList(x) == x \notin Typed                  \* (INPUT-STRING HANDLER-FN)
-----------------------------------------------------------------------------
(* Sending.  ui.tty is what Emacs sent and nobody has read.                *)

KeepsPartial(u, x) ==                                                  \* mutant
  [u EXCEPT !.flush = FALSE, !.current = x, !.tty = Append(@, x),
            !.sink = IF IsList(x) THEN "pre-emacs" ELSE "user"]
SendItem(u, x) ==
  [u EXCEPT !.flush = FALSE, !.current = x, !.tty = Append(@, x),
            !.sink = IF IsList(x) THEN "pre-emacs" ELSE "user",
            !.partial = IF IsList(x) THEN <<>> ELSE @]

EnqueueInput(u, x) ==
  IF u.running THEN u
  ELSE IF u.prompting THEN [SendItem(u, x) EXCEPT !.prompting = FALSE]
  ELSE [u EXCEPT !.queue = <<x>> \o @]

(* def-gdb-auto-update-trigger.                                            *)
Trigger(u, b) ==
  IF b \in u.open /\ b \notin u.pending
  THEN [EnqueueInput(u, b) EXCEPT !.pending = @ \cup {b}] ELSE u

(* gdb-get-buffer-create.                                                  *)
CreateBuffer(u, b) == Trigger([u EXCEPT !.open = @ \cup {b}], b)

(* gdb-info-breakpoints-custom: the file of a breakpoint set by a command  *)
(* is neither where GDB names it nor in gdb-location-alist.                *)
Unlocated(u) == ~u.located /\ u.partial # <<>> /\ Head(u.partial).ver > 0
Custom(u, b) ==
  IF b = Breakpoints /\ Unlocated(u)
  THEN EnqueueInput(EnqueueInput(u, List), InfoSource) ELSE u

(* def-gdb-auto-update-handler: what was collected goes to the display.    *)
StaysPending(u, b) == IF b \in u.open THEN [u EXCEPT !.shown[b] = u.partial] ELSE u  \* mutant
UpdateHandler(u, b) ==
  Custom([u EXCEPT !.pending = @ \ {b}, !.shown[b] = IF b \in u.open THEN u.partial ELSE @], b)
-----------------------------------------------------------------------------
(* The annotation handlers.                                                *)

Resync(u) ==
  [u EXCEPT !.flush = TRUE, !.running = FALSE, !.sink = "user", !.queue = <<>>,
            !.pending = {}, !.prompting = TRUE]
PhaseError(u) == [Resync(u) EXCEPT !.errors = TRUE]

PrePrompt(u) ==
  IF u.sink = "user" THEN u
  ELSE IF u.sink = "emacs" THEN [u EXCEPT !.sink = "post-emacs"]
  ELSE PhaseError(u)

(* gdb-dequeue-input and what gdb-prompt does with it.                     *)
NeverDequeues(u) == [u EXCEPT !.prompting = TRUE]                      \* mutant
NextInput(u) ==
  IF u.queue = <<>> THEN [u EXCEPT !.prompting = TRUE]
  ELSE SendItem([u EXCEPT !.queue = Front(@)], Last(u.queue))

(* gdb-get-location.                                                       *)
GetLocation(u) == IF FilesLost THEN Resync(u) ELSE [u EXCEPT !.located = TRUE]

Handler(u, x) ==
  CASE x \in Displays -> UpdateHandler(u, x)
    [] x = List        -> u
    [] x = InfoSource  -> GetLocation(u)

(* The custom function of a display that was killed fails after what the   *)
(* trigger put there is taken away, and the queue is not looked at.        *)
HandlerFails(u, x) == x \in NeedsBuffer \cap Displays /\ x \notin u.open

Prompt(u) ==
  LET v == [u EXCEPT !.sink = "user"] IN
  IF u.sink = "user" THEN NextInput(u)
  ELSE IF u.sink # "post-emacs" THEN PhaseError(u)
  ELSE IF HandlerFails(v, u.current)
  THEN [v EXCEPT !.pending = @ \ {u.current}, !.errors = TRUE]
  ELSE NextInput(Handler(v, u.current))

Subprompt(u) == [u EXCEPT !.prompting = TRUE]

AlwaysApart(u) ==                                                      \* mutant
  IF u.sink # "user" THEN PhaseError(u)
  ELSE [u EXCEPT !.running = TRUE, !.signalled = FALSE, !.sink = "inferior"]
Starting(u) ==
  IF u.sink # "user" THEN PhaseError(u)
  ELSE [u EXCEPT !.running = TRUE, !.signalled = FALSE,
                 !.sink = IF separate THEN "inferior" ELSE @]

(* gdb-stopping, for `breakpoint' and others; gdb-signal and gdb-exited    *)
(* end with it.                                                            *)
Stopping(u) ==
  IF ~separate THEN u
  ELSE IF u.sink = "inferior" THEN [u EXCEPT !.sink = "user"] ELSE PhaseError(u)

Signalled(u) == [u EXCEPT !.signalled = TRUE]

Source(u) == IF u.sink = "inferior" THEN [u EXCEPT !.sink = "user"] ELSE u
FrameBegin(u) ==
  IF u.sink = "inferior" THEN [u EXCEPT !.sink = "user"]
  ELSE IF u.sink \in {"user", "emacs"} THEN u ELSE PhaseError(u)

(* gdb-stopped.  An error in gdb-resync's place skips gdb-exited.          *)
OnlyAfterRun(u) ==                                                     \* mutant
  IF u.sink = "inferior" THEN [u EXCEPT !.running = FALSE, !.sink = "user"] ELSE PhaseError(u)
Stopped(u) ==
  LET s == [u EXCEPT !.running = FALSE, !.sink = "user"] IN
  IF u.sink \notin {"inferior", "user"} THEN PhaseError(u)
  ELSE IF u.signalled THEN Stopping(s) ELSE s

(* The triggers of all displays, one after the other: each enqueues its    *)
(* item before those of the triggers called earlier.  (A disassembly, for  *)
(* which gdb-frame-handler asks, and watch expressions are left out.)      *)
AskedOf(open) ==
  <<Frame>> \o SetToSeq(open \cap Early) \o <<Breakpoints>>
  \o SetToSeq(open \ (Early \cup {Frame, Breakpoints}))
AskAll(u) ==
  LET asked == AskedOf(u.open)
      v     == [u EXCEPT !.open = @ \cup {Breakpoints}, !.pending = Range(asked)]
  IN  IF u.running THEN v
      ELSE IF u.prompting
      THEN [SendItem(v, Frame) EXCEPT !.prompting = FALSE, !.queue = Reverse(Tail(asked)) \o @]
      ELSE [v EXCEPT !.queue = Reverse(asked) \o @]

(* gdb-post-prompt: a command was read; unless displays are waited for,    *)
(* all of them are asked for after it.                                     *)
PostPrompt(u) ==
  LET v == IF u.pending = {} THEN AskAll(u) ELSE u
  IN  IF v.sink = "user" THEN v
      ELSE IF v.sink = "pre-emacs" THEN [v EXCEPT !.sink = "emacs"]
      ELSE PhaseError(v)

(* gdb-concat-output: output that is not an annotation.                    *)
ConcatOutput(u, x) ==
  IF u.sink = "emacs" THEN [u EXCEPT !.partial = Append(@, x)]
  ELSE IF u.sink = "inferior" THEN [u EXCEPT !.io = @ \cup {x.cmd}]
  ELSE u

(* gud-gdba-marker-filter.  What is left of a burst when a handler fails   *)
(* stays in gud-marker-acc until another burst comes, and what comes while *)
(* output is flushed is lost.                                              *)
Handled(a, u) ==
  CASE a = "pre-prompt"  -> PrePrompt(u)
    [] a = "prompt"      -> Prompt(u)
    [] a = "query"       -> Subprompt(u)
    [] a = "post-prompt" -> PostPrompt(u)
    [] a = "source"      -> Source(u)
    [] a = "starting"    -> Starting(u)
    [] a = "signalled"   -> Signalled(u)
    [] a \in {"breakpoint", "signal", "exited"} -> Stopping(u)
    [] a = "frame-begin" -> FrameBegin(u)
    [] a = "stopped"     -> Stopped(u)

Apply(x, u) == IF x.tag = "output" THEN ConcatOutput(u, x.text) ELSE Handled(x.tag, u)

Receive ==
  /\ out # <<>>
  /\ IF ui.flush THEN out' = Tail(out) /\ UNCHANGED ui
     ELSE LET x == Head(ui.acc \o out)
              u == Apply(x, [ui EXCEPT !.acc = IF @ = <<>> THEN @ ELSE Tail(@)])
              rest == IF ui.acc = <<>> THEN Tail(out) ELSE out
          IN  \E n \in IF u.flush \/ u.errors # ui.errors THEN 0 .. Len(rest) ELSE {0} :
                /\ ui' = [u EXCEPT !.acc = @ \o SubSeq(rest, 1, n)]
                /\ out' = SubSeq(rest, n + 1, Len(rest))
  /\ UNCHANGED <<gdb, version, separate, typed>>
-----------------------------------------------------------------------------
(* GDB and the program.                                                    *)

Tag(a) == [tag |-> a, text |-> Nothing]
Text(c, v) == [tag |-> "output", text |-> Output(c, v)]
Tags(s) == [i \in 1 .. Len(s) |-> Tag(s[i])]
AtPrompt == Tags(<<"pre-prompt", "prompt">>)

Reads(x, tokens, next, v) ==
  /\ ui.tty # <<>>
  /\ Head(ui.tty) = x
  /\ ui' = [ui EXCEPT !.tty = Tail(@)]
  /\ out' = out \o tokens
  /\ gdb' = next
  /\ version' = v
  /\ UNCHANGED <<separate, typed>>

(* A line is read at the prompt: a command of Emacs or the user's.         *)
GdbShows ==
  /\ gdb = "prompt"
  /\ \E x \in Displays \cup Lookups \cup {"yes", "text"} :
       Reads(x, Tags(<<"post-prompt">>) \o <<Text(x, version)>> \o AtPrompt, "prompt", version)
GdbSets ==
  /\ gdb = "prompt"
  /\ Reads("set", Tags(<<"post-prompt">>) \o AtPrompt, "prompt", version + 1)
GdbAsks ==
  /\ gdb = "prompt"
  /\ Reads("ask", Tags(<<"post-prompt", "query">>), "query", version)
GdbRuns ==
  /\ gdb = "prompt"
  /\ Reads("go", Tags(<<"post-prompt", "starting">>) \o <<Text("program", version)>>, "run", version)

(* A line is read as an answer.                                            *)
GdbIsAnswered ==
  /\ gdb = "query"
  /\ \/ Reads("yes", AtPrompt, "prompt", version + 1)
     \/ \E x \in Items \ {"yes"} :
          Reads(x, Tags(<<"query">>), "query", version)

ProgramReads == gdb = "run" /\ \E x \in Items : Reads(x, <<>>, "run", version)

(* The program stops or ends.                                              *)
Stops(tokens) ==
  /\ gdb = "run"
  /\ LeavesInput \/ ui.tty = <<>>
  /\ gdb' = "prompt"
  /\ version' = version + 1
  /\ out' = out \o Tags(tokens \o <<"stopped">>) \o AtPrompt
  /\ UNCHANGED <<ui, separate, typed>>

ProgramStops ==
  \/ Stops(<<"breakpoint", "frame-begin", "source">>)
  \/ Stops(<<"signal", "frame-begin", "source">>)
  \/ Stops(<<"frame-begin", "source">>)
  \/ Stops(<<"exited">>)
  \/ Stops(<<"signalled">>) /\ (separate => DiesWithIO)
-----------------------------------------------------------------------------
(* The user.                                                               *)

Asked == gdb = "query" /\ out = <<>>         \* the question is on the screen

Answers == {"yes", "text"}                   \* GDB asks again after another one
MayType(c) ==
  IF ui.running THEN c = "text" /\ (gdb = "run" \/ LeavesInput)
  ELSE IF c \in Answers THEN Asked \/ AnswersEarly
  ELSE c \in Commands /\ ~Asked

(* A question is asked only when nothing was typed ahead.                  *)
Undisturbed(c) ==
  AnswersEarly \/ (/\ "ask" \notin Range(ui.queue) \cup Range(ui.tty) \cup {ui.current}
                   /\ c = "ask" => Range(ui.queue) \cap Typed = {})

(* gdb-send.  A line for the program goes to GDB's terminal at once.       *)
Type ==
  /\ typed < MaxTyped
  /\ \E c \in Typed :
       /\ MayType(c)
       /\ c \in Commands => Undisturbed(c)
       /\ ui' = IF ui.running THEN [ui EXCEPT !.tty = Append(@, c)] ELSE EnqueueInput(ui, c)
  /\ typed' = typed + 1
  /\ UNCHANGED <<gdb, version, out, separate>>

(* gdb-display-locals-buffer and the like.                                 *)
Display ==
  /\ OpensAnytime \/ (ui.prompting /\ gdb = "prompt")
  /\ typed < MaxTyped
  /\ \E b \in Buffers : ui' = CreateBuffer(ui, b)
  /\ typed' = typed + 1
  /\ UNCHANGED <<gdb, version, out, separate>>

KillBuffer ==
  /\ \E b \in Displays \ {Frame} :
       /\ b \in ui.open
       /\ b \in NeedsBuffer /\ b \in ui.pending => KillsAwaited
       /\ ui' = [ui EXCEPT !.open = @ \ {b}, !.shown[b] = <<>>]
  /\ UNCHANGED <<gdb, version, out, separate, typed>>

(* located is FALSE from the start if a command is going to set a          *)
(* breakpoint in a file that is not where GDB names it.                    *)
Init ==
  /\ \E shown \in SUBSET Buffers, located \in BOOLEAN :
       ui = [queue |-> <<>>, prompting |-> TRUE, sink |-> "user", current |-> "set",
             pending |-> {}, running |-> FALSE, flush |-> FALSE, signalled |-> FALSE,
             open |-> shown \cup {Frame, Breakpoints}, partial |-> <<>>, io |-> {},
             shown |-> [b \in Displays |-> IF b \in shown \cup {Frame, Breakpoints}
                                           THEN <<Output(b, 0)>> ELSE <<>>],
             acc |-> <<>>, tty |-> <<>>, errors |-> FALSE, located |-> located]
  /\ gdb = "prompt"
  /\ version = 0
  /\ out = <<>>
  /\ separate \in BOOLEAN
  /\ typed = 0

Gdb  == GdbShows \/ GdbSets \/ GdbAsks \/ GdbRuns \/ GdbIsAnswered
Next == Receive \/ Gdb \/ ProgramReads \/ ProgramStops \/ Type \/ Display \/ KillBuffer

(* Emacs runs the filter when output has come, and GDB reads what it is    *)
(* sent.  The program need not stop and the user need not type.            *)
Spec == Init /\ [][Next]_vars /\ WF_vars(Receive) /\ WF_vars(Gdb)
-----------------------------------------------------------------------------
(* Properties.                                                             *)

(* A display is asked for once, however often it is triggered, so that no  *)
(* two items of the queue are of one display; output goes to the I/O       *)
(* buffer of the program only when it has one.                             *)
TypeOK ==
  /\ ui.queue \in Seq(Items)
  /\ \A i, j \in 1 .. Len(ui.queue) :
       ui.queue[i] = ui.queue[j] /\ ui.queue[i] \in Displays => i = j
  /\ ui.sink \in {"user", "inferior", "pre-emacs", "emacs", "post-emacs"}
  /\ ui.sink = "inferior" => separate
  /\ {ui.prompting, ui.running, ui.flush, ui.signalled, ui.errors, ui.located} \subseteq BOOLEAN
  /\ ui.pending \subseteq Displays /\ ui.open \subseteq Displays
  /\ ui.current \in Items
  /\ gdb \in {"prompt", "query", "run"}

(* A handler gets the output of its own command, all of it and nothing     *)
(* else, whatever the user types meanwhile; and the I/O buffer of the      *)
(* program gets no output of GDB.                                          *)
OwnOutput ==
  /\ \A b \in Displays : ui.shown[b] = <<>> \/ (Len(ui.shown[b]) = 1 /\ ui.shown[b][1].cmd = b)
  /\ ui.io \subseteq {"program"}

(* No annotation comes in a phase its handler does not expect, and Emacs   *)
(* takes GDB to be waiting for input only when it is: all it sent was read *)
(* and all GDB wrote was received.                                         *)
Lockstep ==
  /\ ~ui.errors
  /\ ui.prompting => ui.tty = <<>> /\ out = <<>> /\ gdb \in {"prompt", "query"}

(* When GDB waits at its prompt and nothing is left to send, every open    *)
(* display shows what GDB would print now ("always up to date",            *)
(* multi-gdb-ui.el:1687).                                                  *)
UpToDate ==
  ui.prompting /\ gdb = "prompt" /\ ui.queue = <<>> =>
    \A b \in ui.open : ui.shown[b] = <<Output(b, version)>>

(* What is queued is sent, unless the program runs or GDB asks.            *)
Served == ui.queue # <<>> ~> (ui.queue = <<>> \/ ui.running \/ gdb = "query")
=============================================================================
