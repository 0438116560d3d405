--------------------------- MODULE GdbInput_proofs ---------------------------
(***************************************************************************)
(* Proofs about GdbInput: that Emacs and GDB stay in step, that every      *)
(* display gets its own output, and that every open display is up to date  *)
(* when GDB waits.                                                         *)
(*                                                                         *)
(* What GDB wrote and Emacs has not received is a text in a small grammar, *)
(* MayFollow, so that its first annotation, with the phase of the sink,    *)
(* tells where both sides are; the queue is told apart by what was asked   *)
(* for by Emacs and what was typed.                                        *)
(***************************************************************************)
EXTENDS GdbInput, FiniteSetTheorems, SequenceTheorems, TLAPS

(* The user opens a display at a prompt, the program reads its input       *)
(* before it stops, no signal ends it while it has an I/O buffer, no       *)
(* display is killed that is waited for, and GDB finds the source files.   *)
(* A question may be answered before it is asked.                          *)
Habits == ~OpensAnytime /\ ~LeavesInput /\ ~DiesWithIO /\ ~KillsAwaited /\ ~FilesLost
-----------------------------------------------------------------------------
(* The types.                                                              *)

Requests == Displays \cup Lookups
Names   == {"pre-prompt", "prompt", "query", "post-prompt", "source", "starting", "signalled",
            "breakpoint", "signal", "exited", "frame-begin", "stopped", "output"}
Outputs == [cmd : Items \cup {"program", "nothing"}, ver : Nat]
Message == [tag : Names, text : Outputs]
Sinks   == {"user", "inferior", "pre-emacs", "emacs", "post-emacs"}
Emacs   == [queue : Seq(Items), prompting : BOOLEAN, sink : Sinks, current : Items,
            pending : SUBSET Displays, running : BOOLEAN, flush : BOOLEAN, signalled : BOOLEAN,
            open : SUBSET Displays, partial : Seq(Outputs), io : SUBSET {"program"},
            shown : [Displays -> Seq(Outputs)], acc : Seq(Message), tty : Seq(Items),
            errors : BOOLEAN, located : BOOLEAN]

Types ==
  /\ ui \in Emacs
  /\ gdb \in {"prompt", "query", "run"}
  /\ version \in Nat
  /\ out \in Seq(Message)
  /\ separate \in BOOLEAN
  /\ typed \in 0 .. MaxTyped
-----------------------------------------------------------------------------
(* The inductive invariant.                                                *)

(* The members of a sequence.                                              *)
In(s) == {s[i] : i \in 1 .. Len(s)}

(* What a message is to Emacs: the output of the program is no output of a *)
(* command.                                                                *)
Kind(m) == IF m.tag = "output" /\ m.text.cmd = "program" THEN "program" ELSE m.tag

MayFollow(k, l) ==
  \/ k = "post-prompt" /\ l \in {"output", "pre-prompt", "query", "starting"}
  \/ k = "starting" /\ l = "program"
  \/ k = "program" /\ l \in {"breakpoint", "signal", "frame-begin", "exited", "signalled"}
  \/ k \in {"breakpoint", "signal"} /\ l = "frame-begin"
  \/ k = "frame-begin" /\ l = "source"
  \/ k \in {"source", "exited", "signalled"} /\ l = "stopped"
  \/ k \in {"output", "stopped"} /\ l = "pre-prompt"
  \/ k = "pre-prompt" /\ l = "prompt"

(* The last that GDB wrote tells where it is.                              *)
EndOf(g) == CASE g = "prompt" -> "prompt" [] g = "query" -> "query" [] g = "run" -> "program"

StopKinds == {"breakpoint", "signal", "frame-begin", "source", "exited", "signalled", "stopped"}

Grammar ==
  /\ \A i \in 1 .. Len(out) - 1 : MayFollow(Kind(out[i]), Kind(out[i + 1]))
  /\ out # <<>> => Kind(out[Len(out)]) = EndOf(gdb)
  /\ \A i \in 1 .. Len(out) : Kind(out[i]) = "signalled" => ~separate
  /\ \A i \in 1 .. Len(out) : Kind(out[i]) \in StopKinds => gdb = "prompt"

(* No handler failed and nothing is put by.                                *)
Steady ==
  /\ ~ui.errors /\ ~ui.flush /\ ui.acc = <<>>
  /\ separate => ~ui.signalled

(* Emacs waits for the output of a command of its own.                     *)
Asking(u) == u.sink \in {"pre-emacs", "emacs", "post-emacs"}

(* The phases of such a command, and what is still to come.                *)
OwnPhase(u, o, now) ==
  LET text   == Text(u.current, now)
      answer == <<Output(u.current, now)>>
  IN  \/ u.sink = "pre-emacs" /\ u.tty = <<u.current>> /\ o = <<>> /\ u.partial = <<>>
      \/ /\ u.tty = <<>>
         /\ \/ /\ u.sink = "pre-emacs" /\ u.partial = <<>>
               /\ o = <<Tag("post-prompt"), text, Tag("pre-prompt"), Tag("prompt")>>
            \/ u.sink = "emacs" /\ u.partial = <<>> /\ o = <<text, Tag("pre-prompt"), Tag("prompt")>>
            \/ u.sink = "emacs" /\ u.partial = answer /\ o = <<Tag("pre-prompt"), Tag("prompt")>>
            \/ u.sink = "post-emacs" /\ u.partial = answer /\ o = <<Tag("prompt")>>

(* What Emacs can receive next when the user's command, or the program, is *)
(* at work.                                                                *)
Heads(u) ==
  IF ~u.running THEN {"post-prompt", "output", "pre-prompt", "prompt", "query", "starting"}
  ELSE IF ~separate
  THEN {"program", "breakpoint", "signal", "frame-begin", "source", "exited", "signalled", "stopped"}
  ELSE IF u.sink = "inferior" THEN {"program", "breakpoint", "signal", "frame-begin", "exited"}
  ELSE {"frame-begin", "source", "stopped"}

UserPhase(u, o, g) ==
  /\ u.sink = "inferior" => u.running /\ separate
  /\ u.running => ~u.prompting
  /\ u.prompting /\ g = "prompt" => u.queue = <<>>
  /\ o # <<>> => /\ ~u.prompting
                 /\ Kind(o[1]) \in Heads(u)
                 /\ u.tty # <<>> => u.running /\ g = "run"
  /\ o = <<>> => \/ u.prompting /\ u.tty = <<>> /\ g \in {"prompt", "query"}
                 \/ /\ ~u.prompting /\ ~u.running /\ u.tty = <<u.current>>
                    /\ (g = "prompt" /\ u.current \in Typed) \/ (g = "query" /\ u.current \in Answers)
                 \/ u.running /\ g = "run" /\ (separate => u.sink = "inferior")

Phase ==
  IF Asking(ui)
  THEN /\ ui.current \in Requests /\ ~ui.prompting /\ ~ui.running /\ gdb = "prompt"
       /\ OwnPhase(ui, out, version)
  ELSE UserPhase(ui, out, gdb)

(* A display is waited for exactly while it is in the queue, once, or GDB  *)
(* was sent its command; and it is not killed if its handler looks for it. *)
Queued(u) == In(u.queue)
Answering(u) == IF Asking(u) THEN {u.current} \cap Displays ELSE {}
Waiting(u) ==
  /\ u.pending = (Queued(u) \cap Displays) \cup Answering(u)
  /\ Answering(u) \cap Queued(u) = {}
  /\ \A i, j \in 1 .. Len(u.queue) : u.queue[i] = u.queue[j] /\ u.queue[i] \in Displays => i = j
  /\ u.pending \cap NeedsBuffer \subseteq u.open

(* A command of the user that was typed before displays were asked for is  *)
(* sent before all of them.                                                *)
Ordered(u) ==
  \A i, j \in 1 .. Len(u.queue) :
    i < j /\ u.queue[i] \in Displays /\ u.queue[j] \notin Displays =>
      /\ u.open \subseteq Queued(u)
      /\ \A k \in j .. Len(u.queue) : u.queue[k] \notin Displays
Blocks(u) ==
  /\ Ordered(u)
  /\ ~Asking(u) => \A i \in 1 .. Len(u.queue) : u.queue[i] \in Displays => u.open \subseteq Queued(u)

(* A command was read and Emacs does not know yet.                         *)
Unknown(o) == o # <<>> /\ Kind(o[1]) = "post-prompt"

(* What is not up to date is asked for or will be.                         *)
Fresh ==
  /\ Frame \in ui.open
  /\ \A b \in ui.open :
       \/ ui.shown[b] = <<Output(b, version)>>
       \/ b \in Queued(ui)
       \/ Asking(ui) /\ ui.current = b
       \/ ui.pending = {} /\ Unknown(out)
  /\ gdb # "prompt" /\ ~Unknown(out) => ui.open \subseteq Queued(ui)

Shown == \A b \in Displays : ui.shown[b] = <<>> \/ \E v \in Nat : ui.shown[b] = <<Output(b, v)>>

Inv == Types /\ Grammar /\ Steady /\ Phase /\ Waiting(ui) /\ Blocks(ui) /\ Fresh /\ Shown
-----------------------------------------------------------------------------
LEMMA SendItemIs ==
  ASSUME NEW u \in Emacs, NEW x \in Items
  PROVE  LET v == SendItem(u, x) IN
         /\ v \in Emacs
         /\ v.current = x /\ v.tty = Append(u.tty, x) /\ ~v.flush
         /\ v.sink = (IF x \notin Typed THEN "pre-emacs" ELSE "user")
         /\ v.partial = (IF x \notin Typed THEN <<>> ELSE u.partial)
         /\ v.queue = u.queue /\ v.prompting = u.prompting /\ v.pending = u.pending
         /\ v.running = u.running /\ v.signalled = u.signalled /\ v.open = u.open
         /\ v.io = u.io /\ v.shown = u.shown /\ v.acc = u.acc /\ v.errors = u.errors
<1> DEFINE v == SendItem(u, x)
<1>1. Append(u.tty, x) \in Seq(Items) /\ <<>> \in Seq(Outputs) /\ u.partial \in Seq(Outputs)
  BY DEF Emacs
<1>2. v \in Emacs
  BY <1>1 DEF SendItem, Emacs, IsList, Sinks
<1>3. /\ v.current = x /\ v.tty = Append(u.tty, x) /\ ~v.flush
      /\ v.sink = (IF x \notin Typed THEN "pre-emacs" ELSE "user")
      /\ v.partial = (IF x \notin Typed THEN <<>> ELSE u.partial)
  BY DEF SendItem, Emacs, IsList
<1>4. /\ v.queue = u.queue /\ v.prompting = u.prompting /\ v.pending = u.pending
      /\ v.running = u.running /\ v.signalled = u.signalled /\ v.open = u.open
      /\ v.io = u.io /\ v.shown = u.shown /\ v.acc = u.acc /\ v.errors = u.errors
  BY DEF SendItem, Emacs
<1> QED BY <1>2, <1>3, <1>4
-----------------------------------------------------------------------------
(* Sequences.                                                              *)

(* No member twice.                                                        *)
Distinct(s) == \A i, j \in 1 .. Len(s) : s[i] = s[j] => i = j

(* The three sorts of items.                                               *)
LEMMA Sorts ==
  /\ Items = Requests \cup Typed /\ Requests \cap Typed = {} /\ Displays \cap Lookups = {}
  /\ List # InfoSource /\ Frame # Breakpoints /\ "program" \notin Items
BY BuffersAssumption DEF Items, Requests, Displays, Lookups, List, InfoSource, Typed, Commands,
   Frame, Breakpoints

LEMMA DisplaysFinite == IsFiniteSet(Displays)
<1>1. IsFiniteSet({Frame}) /\ IsFiniteSet({Frame} \cup {Breakpoints})
  BY FS_Singleton, FS_Union
<1>2. IsFiniteSet(Buffers \cup ({Frame} \cup {Breakpoints}))
  BY <1>1, FS_Union, BuffersAssumption
<1>3. Displays = Buffers \cup ({Frame} \cup {Breakpoints})
  BY DEF Displays
<1> QED BY <1>2, <1>3

(* SetToSeq lists a finite set without a repetition.                       *)
LEMMA SetToSeqIs ==
  ASSUME NEW R, IsFiniteSet(R)
  PROVE  /\ SetToSeq(R) \in Seq(R)
         /\ In(SetToSeq(R)) = R
         /\ Distinct(SetToSeq(R))
<1> DEFINE n == Cardinality(R)
<1> DEFINE s == SetToSeq(R)
<1>1. n \in Nat /\ ExistsBijection(1 .. n, R)
  BY FS_CardinalityType
<1>2. PICK f \in [1 .. n -> R] : IsInjective(f) /\ \A r \in R : \E i \in 1 .. n : f[i] = r
  BY <1>1 DEF ExistsBijection, Bijection, Injection, Surjection, IsInjective
<1>3. s \in [1 .. n -> R] /\ IsInjective(s)
  BY <1>2 DEF SetToSeq
<1>4. s \in Seq(R) /\ Len(s) = n /\ DOMAIN s = 1 .. n
  BY <1>1, <1>3
<1>5. IsFiniteSet(1 .. n) /\ Cardinality(1 .. n) = n
  BY <1>1, FS_Interval
<1>6. s \in Injection(1 .. n, R)
  BY <1>3 DEF Injection
<1>7. s \in Surjection(1 .. n, R)
  BY <1>5, <1>6, FS_Injection
<1>8. In(s) = R
  BY <1>3, <1>4, <1>7 DEF In, Surjection
<1>9. Distinct(s)
  BY <1>3, <1>4 DEF Distinct, IsInjective
<1> QED BY <1>4, <1>8, <1>9

LEMMA ReverseIs ==
  ASSUME NEW S, NEW s \in Seq(S)
  PROVE  /\ Reverse(s) \in Seq(S)
         /\ Len(Reverse(s)) = Len(s)
         /\ In(Reverse(s)) = In(s)
         /\ Distinct(s) => Distinct(Reverse(s))
<1> DEFINE r == Reverse(s)
<1>1. Len(s) \in Nat /\ \A i \in 1 .. Len(s) : Len(s) - i + 1 \in 1 .. Len(s)
  OBVIOUS
<1>2. r \in [1 .. Len(s) -> S] /\ \A i \in 1 .. Len(s) : r[i] = s[Len(s) - i + 1]
  BY <1>1 DEF Reverse
<1>3. r \in Seq(S) /\ Len(r) = Len(s)
  BY <1>1, <1>2
<1>4. ASSUME NEW i \in 1 .. Len(s) PROVE s[i] = r[Len(s) - i + 1]
  BY <1>1, <1>2
<1>5. In(r) = In(s)
  BY <1>1, <1>2, <1>3, <1>4 DEF In
<1>6. Distinct(s) => Distinct(r)
  BY <1>1, <1>2, <1>3 DEF Distinct
<1> QED BY <1>3, <1>5, <1>6

LEMMA FrontLast ==
  ASSUME NEW S, NEW s \in Seq(S), s # <<>>
  PROVE  /\ Front(s) \in Seq(S) /\ Len(Front(s)) = Len(s) - 1 /\ Len(s) \in Nat \ {0}
         /\ \A i \in 1 .. Len(s) - 1 : Front(s)[i] = s[i]
         /\ Last(s) = s[Len(s)] /\ Last(s) \in S
<1>1. Len(s) \in Nat \ {0} /\ \A i \in 1 .. Len(s) : s[i] \in S
  BY EmptySeq, ElementOfSeq
<1> DEFINE n == Len(s) - 1
<1>2. n \in Int /\ 1 \in Int /\ \A i \in 1 .. n : s[i] \in S
  BY <1>1
<1> HIDE DEF n
<1>3. /\ SubSeq(s, 1, n) \in Seq(S) /\ Len(SubSeq(s, 1, n)) = IF 1 <= n THEN n - 1 + 1 ELSE 0
      /\ \A i \in 1 .. n - 1 + 1 : SubSeq(s, 1, n)[i] = s[1 + i - 1]
  BY <1>2, SubSeqProperties
<1>4. /\ Len(SubSeq(s, 1, n)) = n
      /\ \A i \in 1 .. n : SubSeq(s, 1, n)[i] = s[i]
  <2> DEFINE f == SubSeq(s, 1, n)
  <2> HIDE DEF f
  <2>1. Len(f) = (IF 1 <= n THEN n - 1 + 1 ELSE 0) /\ \A i \in 1 .. n - 1 + 1 : f[i] = s[1 + i - 1]
    BY <1>3 DEF f
  <2>2. n \in Nat /\ n - 1 + 1 = n /\ \A i \in 1 .. n : 1 + i - 1 = i
    BY <1>1 DEF n
  <2>3. Len(f) = n /\ \A i \in 1 .. n : f[i] = s[i]
    BY <2>1, <2>2
  <2> QED BY <2>3 DEF f
<1> QED BY <1>1, <1>3, <1>4 DEF Front, Last, n

LEMMA ConcatIs ==
  ASSUME NEW S, NEW s \in Seq(S), NEW t \in Seq(S)
  PROVE  /\ s \o t \in Seq(S) /\ Len(s \o t) = Len(s) + Len(t)
         /\ \A i \in 1 .. Len(s) : (s \o t)[i] = s[i]
         /\ \A i \in 1 .. Len(t) : (s \o t)[Len(s) + i] = t[i]
         /\ \A i \in 1 .. Len(s) + Len(t) :
              \/ i \in 1 .. Len(s) /\ (s \o t)[i] = s[i]
              \/ i - Len(s) \in 1 .. Len(t) /\ (s \o t)[i] = t[i - Len(s)]
         /\ In(s \o t) = In(s) \cup In(t)
<1> DEFINE c == s \o t
<1>1. /\ c \in Seq(S) /\ Len(c) = Len(s) + Len(t) /\ Len(s) \in Nat /\ Len(t) \in Nat
      /\ \A i \in 1 .. Len(s) + Len(t) : c[i] = IF i <= Len(s) THEN s[i] ELSE t[i - Len(s)]
  BY ConcatProperties
<1> HIDE DEF c
<1>2. \A i \in 1 .. Len(s) : c[i] = s[i]
  BY <1>1
<1>3. ASSUME NEW i \in 1 .. Len(t) PROVE c[Len(s) + i] = t[i]
  <2>1. Len(s) + i \in 1 .. Len(s) + Len(t) /\ (Len(s) + i) - Len(s) = i /\ ~(Len(s) + i <= Len(s))
    BY <1>1
  <2> QED BY <1>1, <2>1
<1>4. ASSUME NEW i \in 1 .. Len(s) + Len(t)
      PROVE  \/ i \in 1 .. Len(s) /\ c[i] = s[i]
             \/ i - Len(s) \in 1 .. Len(t) /\ c[i] = t[i - Len(s)]
  BY <1>1
<1>5. In(c) \subseteq In(s) \cup In(t)
  BY <1>1, <1>4 DEF In
<1>6. In(s) \subseteq In(c)
  BY <1>1, <1>2 DEF In
<1>7. In(t) \subseteq In(c)
  <2> SUFFICES ASSUME NEW i \in 1 .. Len(t) PROVE t[i] \in In(c)
    BY DEF In
  <2>1. Len(s) + i \in 1 .. Len(c)
    BY <1>1
  <2> QED BY <1>3, <2>1 DEF In
<1>8. In(c) = In(s) \cup In(t)
  BY <1>5, <1>6, <1>7
<1> QED BY <1>1, <1>2, <1>3, <1>4, <1>8 DEF c

LEMMA ConcatDistinct ==
  ASSUME NEW S, NEW s \in Seq(S), NEW t \in Seq(S), Distinct(s), Distinct(t), In(s) \cap In(t) = {}
  PROVE  Distinct(s \o t)
<1>1. Len(s) \in Nat /\ Len(t) \in Nat /\ Len(s \o t) = Len(s) + Len(t)
  BY ConcatIs
<1> SUFFICES ASSUME NEW i \in 1 .. Len(s) + Len(t), NEW j \in 1 .. Len(s) + Len(t),
                    (s \o t)[i] = (s \o t)[j]
             PROVE  i = j
  BY <1>1 DEF Distinct
<1> DEFINE c == s \o t
<1>2. c[i] = c[j]
  OBVIOUS
<1>3. \/ i \in 1 .. Len(s) /\ c[i] = s[i]
      \/ i - Len(s) \in 1 .. Len(t) /\ c[i] = t[i - Len(s)]
  BY ConcatIs
<1>4. \/ j \in 1 .. Len(s) /\ c[j] = s[j]
      \/ j - Len(s) \in 1 .. Len(t) /\ c[j] = t[j - Len(s)]
  BY ConcatIs
<1> HIDE DEF c
<1>5. CASE i \in 1 .. Len(s) /\ c[i] = s[i] /\ j \in 1 .. Len(s) /\ c[j] = s[j]
  BY <1>2, <1>5 DEF Distinct
<1>6. CASE /\ i - Len(s) \in 1 .. Len(t) /\ c[i] = t[i - Len(s)]
           /\ j - Len(s) \in 1 .. Len(t) /\ c[j] = t[j - Len(s)]
  <2>1. i - Len(s) = j - Len(s)
    BY <1>2, <1>6 DEF Distinct
  <2> QED BY <1>1, <2>1
<1>7. ASSUME NEW x, NEW y, x \in In(s), y \in In(t) PROVE x # y
  BY <1>7
<1>8. CASE i \in 1 .. Len(s) /\ c[i] = s[i] /\ j - Len(s) \in 1 .. Len(t) /\ c[j] = t[j - Len(s)]
  BY <1>2, <1>7, <1>8 DEF In
<1>9. CASE j \in 1 .. Len(s) /\ c[j] = s[j] /\ i - Len(s) \in 1 .. Len(t) /\ c[i] = t[i - Len(s)]
  BY <1>2, <1>7, <1>9 DEF In
<1> QED BY <1>3, <1>4, <1>5, <1>6, <1>8, <1>9

LEMMA OneIs ==
  ASSUME NEW S, NEW x \in S
  PROVE  <<x>> \in Seq(S) /\ In(<<x>>) = {x} /\ Distinct(<<x>>) /\ Len(<<x>>) = 1 /\ <<x>>[1] = x
BY DEF In, Distinct

(* A sequence of displays that lists a set, each member once.              *)
Lists(s, R) == s \in Seq(Displays) /\ In(s) = R /\ Distinct(s)

LEMMA ListsConcat ==
  ASSUME NEW s, NEW R, NEW t, NEW T, Lists(s, R), Lists(t, T), R \cap T = {}
  PROVE  Lists(s \o t, R \cup T)
<1>1. s \in Seq(Displays) /\ t \in Seq(Displays) /\ Distinct(s) /\ Distinct(t) /\ In(s) = R /\ In(t) = T
  BY DEF Lists
<1>2. s \o t \in Seq(Displays) /\ In(s \o t) = In(s) \cup In(t)
  BY <1>1, ConcatIs
<1>3. Distinct(s \o t)
  BY <1>1, ConcatDistinct
<1> QED BY <1>1, <1>2, <1>3 DEF Lists

LEMMA AskedIs ==
  ASSUME NEW open \in SUBSET Displays, Frame \in open
  PROVE  LET a == AskedOf(open) IN
         /\ a \in Seq(Displays) /\ Distinct(a) /\ a # <<>>
         /\ In(a) = open \cup {Breakpoints}
         /\ Range(a) = In(a)
<1> DEFINE R == open \cap Early
<1> DEFINE T == open \ (Early \cup {Frame, Breakpoints})
<1> DEFINE a == AskedOf(open)
<1>1. ASSUME NEW X \in SUBSET Displays PROVE Lists(SetToSeq(X), X)
  <2>1. IsFiniteSet(X)
    BY DisplaysFinite, FS_Subset
  <2>2. SetToSeq(X) \in Seq(X) /\ In(SetToSeq(X)) = X /\ Distinct(SetToSeq(X))
    BY <2>1, SetToSeqIs
  <2>3. SetToSeq(X) \in Seq(Displays)
    BY <2>2, SeqMonotonic
  <2> QED BY <2>2, <2>3 DEF Lists
<1>2. ASSUME NEW x \in Displays PROVE Lists(<<x>>, {x})
  BY OneIs DEF Lists
<1>3. Frame # Breakpoints /\ Frame \in Displays /\ Breakpoints \in Displays
      /\ Frame \notin Early /\ Breakpoints \notin Early
  BY DEF Frame, Breakpoints, Displays, Early
<1>4. Lists(<<Frame>>, {Frame}) /\ Lists(<<Breakpoints>>, {Breakpoints})
  BY <1>2, <1>3
<1>5. Lists(SetToSeq(R), R) /\ Lists(SetToSeq(T), T)
  BY <1>1
<1>6. Lists(<<Frame>> \o SetToSeq(R), {Frame} \cup R)
  BY <1>3, <1>4, <1>5, ListsConcat
<1>7. Lists(<<Frame>> \o SetToSeq(R) \o <<Breakpoints>>, {Frame} \cup R \cup {Breakpoints})
  <2>1. ({Frame} \cup R) \cap {Breakpoints} = {}
    BY <1>3
  <2> QED BY <2>1, <1>4, <1>6, ListsConcat
<1>8. Lists(a, {Frame} \cup R \cup {Breakpoints} \cup T)
  <2>1. ({Frame} \cup R \cup {Breakpoints}) \cap T = {}
    BY <1>3
  <2>2. Lists(<<Frame>> \o SetToSeq(R) \o <<Breakpoints>> \o SetToSeq(T),
              {Frame} \cup R \cup {Breakpoints} \cup T)
    BY <2>1, <1>5, <1>7, ListsConcat
  <2> QED BY <2>2 DEF AskedOf
<1>9. {Frame} \cup R \cup {Breakpoints} \cup T = open \cup {Breakpoints}
  BY <1>3
<1> HIDE DEF a, R, T
<1>10. a \in Seq(Displays) /\ Distinct(a) /\ In(a) = open \cup {Breakpoints}
  BY <1>8, <1>9 DEF Lists
<1>11. a # <<>> /\ DOMAIN a = 1 .. Len(a)
  <2>1. a # <<>>
    <3> SUFFICES ASSUME a = <<>> PROVE FALSE
      OBVIOUS
    <3>1. Len(a) = 0
      OBVIOUS
    <3>2. In(a) = {}
      BY <3>1 DEF In
    <3> QED BY <3>2, <1>10
  <2> QED BY <2>1, <1>10
<1>12. Range(a) = In(a)
  BY <1>11 DEF Range, In
<1> QED BY <1>10, <1>11, <1>12 DEF a
-----------------------------------------------------------------------------
(* Sending from the queue.                                                 *)

LEMMA FrontIn ==
  ASSUME NEW S, NEW s \in Seq(S), s # <<>>
  PROVE  In(s) = In(Front(s)) \cup {Last(s)}
<1> DEFINE f == Front(s)
<1>1. /\ Len(f) = Len(s) - 1 /\ Len(s) \in Nat \ {0}
      /\ \A i \in 1 .. Len(s) - 1 : f[i] = s[i]
      /\ Last(s) = s[Len(s)]
  BY FrontLast
<1> HIDE DEF f
<1>2. ASSUME NEW i \in 1 .. Len(s) PROVE s[i] \in In(f) \cup {Last(s)}
  <2>1. CASE i = Len(s)
    BY <2>1, <1>1
  <2>2. CASE i # Len(s)
    BY <2>2, <1>1 DEF In
  <2> QED BY <2>1, <2>2
<1>3. ASSUME NEW i \in 1 .. Len(f) PROVE f[i] \in In(s)
  BY <1>1 DEF In
<1>4. Last(s) \in In(s)
  BY <1>1 DEF In
<1> QED BY <1>2, <1>3, <1>4 DEF In, f

(* An item that is no display goes behind all others: what is said of the  *)
(* queue stays.                                                            *)
LEMMA PutIs ==
  ASSUME NEW u, NEW v, NEW c \in Items, c \notin Displays, u.queue \in Seq(Items),
         v.queue = <<c>> \o u.queue, v.pending = u.pending, v.open = u.open, v.sink = u.sink,
         v.current = u.current
  PROVE  /\ v.queue \in Seq(Items) /\ Queued(v) = {c} \cup Queued(u)
         /\ Queued(v) \cap Displays = Queued(u) \cap Displays
         /\ Asking(v) <=> Asking(u)
         /\ Waiting(u) => Waiting(v)
         /\ Ordered(u) => Ordered(v)
         /\ Blocks(u) => Blocks(v)
<1> DEFINE q == v.queue
<1>1. <<c>> \in Seq(Items) /\ Len(<<c>>) = 1 /\ In(<<c>>) = {c} /\ <<c>>[1] = c
  BY OneIs
<1> DEFINE one == <<c>>
<1>2. q = one \o u.queue
  OBVIOUS
<1> HIDE DEF one
<1>3. /\ q \in Seq(Items) /\ Len(q) = 1 + Len(u.queue) /\ In(q) = {c} \cup In(u.queue)
      /\ q[1] = c /\ \A i \in 1 .. Len(u.queue) : q[1 + i] = u.queue[i]
  <2>1. one \in Seq(Items) /\ Len(one) = 1 /\ In(one) = {c} /\ one[1] = c
    BY <1>1 DEF one
  <2>2. /\ one \o u.queue \in Seq(Items) /\ Len(one \o u.queue) = Len(one) + Len(u.queue)
        /\ \A i \in 1 .. Len(one) : (one \o u.queue)[i] = one[i]
        /\ \A i \in 1 .. Len(u.queue) : (one \o u.queue)[Len(one) + i] = u.queue[i]
        /\ In(one \o u.queue) = In(one) \cup In(u.queue)
    BY <2>1, ConcatIs
  <2> HIDE DEF q
  <2> QED BY <1>2, <2>1, <2>2
<1>4. Len(u.queue) \in Nat
  OBVIOUS
<1> HIDE DEF q
<1>5. v.queue = q
  BY DEF q
<1>6. /\ Asking(v) <=> Asking(u)
      /\ Answering(v) = Answering(u)
      /\ Queued(v) = {c} \cup Queued(u) /\ Queued(v) \cap Displays = Queued(u) \cap Displays
  BY <1>3, <1>5 DEF Asking, Answering, Queued
<1>7. ASSUME NEW i \in 1 .. Len(v.queue), i > 1 \/ v.queue[i] \in Displays
      PROVE  i > 1 /\ i - 1 \in 1 .. Len(u.queue) /\ v.queue[i] = u.queue[i - 1]
  <2>1. i > 1
    BY <1>3, <1>5, <1>7
  <2>2. i - 1 \in 1 .. Len(u.queue) /\ 1 + (i - 1) = i
    BY <1>3, <1>4, <1>5, <2>1
  <2>3. q[1 + (i - 1)] = u.queue[i - 1]
    BY <1>3, <2>2
  <2> QED BY <1>5, <2>1, <2>2, <2>3
<1>8. ASSUME Waiting(u) PROVE Waiting(v)
  <2>1. \A i, j \in 1 .. Len(v.queue) : v.queue[i] = v.queue[j] /\ v.queue[i] \in Displays => i = j
    <3> SUFFICES ASSUME NEW i \in 1 .. Len(v.queue), NEW j \in 1 .. Len(v.queue),
                        v.queue[i] = v.queue[j], v.queue[i] \in Displays
                 PROVE  i = j
      OBVIOUS
    <3>1. /\ i - 1 \in 1 .. Len(u.queue) /\ v.queue[i] = u.queue[i - 1]
          /\ j - 1 \in 1 .. Len(u.queue) /\ v.queue[j] = u.queue[j - 1]
      BY <1>7
    <3>2. i - 1 = j - 1
      BY <1>8, <3>1 DEF Waiting
    <3> QED BY <3>2
  <2>2. Answering(u) \subseteq Displays
    BY DEF Answering
  <2> QED BY <1>6, <1>8, <2>1, <2>2 DEF Waiting
<1>9. ASSUME Ordered(u) PROVE Ordered(v)
  <2> SUFFICES ASSUME NEW i \in 1 .. Len(v.queue), NEW j \in 1 .. Len(v.queue), i < j,
                      v.queue[i] \in Displays, v.queue[j] \notin Displays
               PROVE  /\ v.open \subseteq Queued(v)
                      /\ \A k \in j .. Len(v.queue) : v.queue[k] \notin Displays
    BY DEF Ordered
  <2>1. i > 1 /\ i - 1 \in 1 .. Len(u.queue) /\ v.queue[i] = u.queue[i - 1]
    BY <1>7
  <2>2. j > 1 /\ j - 1 \in 1 .. Len(u.queue) /\ v.queue[j] = u.queue[j - 1]
    BY <1>7, <2>1
  <2>3. /\ u.open \subseteq Queued(u)
        /\ \A k \in j - 1 .. Len(u.queue) : u.queue[k] \notin Displays
    <3>1. i - 1 < j - 1
      OBVIOUS
    <3> QED BY <1>9, <2>1, <2>2, <3>1 DEF Ordered
  <2>4. ASSUME NEW k \in j .. Len(v.queue) PROVE v.queue[k] \notin Displays
    <3>1. k \in 1 .. Len(v.queue) /\ k > 1
      BY <2>2
    <3>2. k - 1 \in 1 .. Len(u.queue) /\ v.queue[k] = u.queue[k - 1]
      BY <1>7, <3>1
    <3>3. k - 1 \in j - 1 .. Len(u.queue)
      BY <3>2, <1>4
    <3> QED BY <2>3, <3>2, <3>3
  <2> QED BY <1>6, <2>3, <2>4
<1>10. ASSUME Blocks(u) PROVE Blocks(v)
  <2>1. ASSUME ~Asking(v), NEW i \in 1 .. Len(v.queue), v.queue[i] \in Displays
        PROVE  v.open \subseteq Queued(v)
    <3>1. i - 1 \in 1 .. Len(u.queue) /\ v.queue[i] = u.queue[i - 1]
      BY <1>7, <2>1
    <3> QED BY <1>6, <1>10, <2>1, <3>1 DEF Blocks
  <2> QED BY <1>9, <1>10, <2>1 DEF Blocks
<1> QED BY <1>3, <1>5, <1>6, <1>8, <1>9, <1>10

(* What gdb-prompt does with the queue: Emacs takes GDB to be waiting, or  *)
(* sends the item that has waited longest, and the queue keeps its shape.  *)
LEMMA NextInputIs ==
  ASSUME NEW u \in Emacs, Waiting(u), Ordered(u),
         u.sink = "user", ~u.prompting, u.tty = <<>>, ~u.flush
  PROVE  LET v == NextInput(u) IN
         /\ v \in Emacs /\ ~v.flush
         /\ v.pending = u.pending /\ v.running = u.running /\ v.signalled = u.signalled
         /\ v.open = u.open /\ v.io = u.io /\ v.shown = u.shown /\ v.acc = u.acc
         /\ v.errors = u.errors
         /\ Waiting(v) /\ Blocks(v)
         /\ \A b \in Queued(u) \cap Displays : b \in Queued(v) \/ (Asking(v) /\ v.current = b)
         /\ \/ v.prompting /\ v.queue = <<>> /\ v.tty = <<>> /\ v.sink = "user"
            \/ /\ ~v.prompting /\ v.tty = <<v.current>>
               /\ \/ v.current \in Requests /\ v.sink = "pre-emacs" /\ v.partial = <<>>
                  \/ v.current \in Typed /\ v.sink = "user"
<1> DEFINE v == NextInput(u)
<1>1. CASE u.queue = <<>>
  <2>1. v = [u EXCEPT !.prompting = TRUE]
    BY <1>1 DEF NextInput
  <2>2. /\ v \in Emacs /\ ~v.flush /\ v.prompting /\ v.queue = <<>> /\ v.tty = <<>> /\ v.sink = "user"
        /\ v.pending = u.pending /\ v.running = u.running /\ v.signalled = u.signalled
        /\ v.open = u.open /\ v.io = u.io /\ v.shown = u.shown /\ v.acc = u.acc
        /\ v.errors = u.errors /\ v.current = u.current /\ v.queue = u.queue
    BY <1>1, <2>1 DEF Emacs
  <2> HIDE DEF v
  <2>3. Waiting(v)
    BY <2>2 DEF Waiting, Answering, Asking, Queued
  <2>4. Len(v.queue) = 0
    BY <2>2
  <2>5. Blocks(v)
    BY <2>4 DEF Blocks, Ordered
  <2> QED BY <2>2, <2>3, <2>5 DEF Queued, v
<1>2. CASE u.queue # <<>>
  <2> DEFINE w == [u EXCEPT !.queue = Front(@)]
  <2> DEFINE x == Last(u.queue)
  <2> DEFINE m == Len(u.queue)
  <2>1. u.queue \in Seq(Items)
    BY DEF Emacs
  <2>2. /\ Front(u.queue) \in Seq(Items) /\ Len(Front(u.queue)) = m - 1 /\ m \in Nat \ {0}
        /\ \A i \in 1 .. m - 1 : Front(u.queue)[i] = u.queue[i]
        /\ x = u.queue[m] /\ x \in Items
    BY <1>2, <2>1, FrontLast
  <2>3. Queued(u) = In(Front(u.queue)) \cup {x}
    BY <1>2, <2>1, FrontIn DEF Queued
  <2>4. /\ w \in Emacs /\ w.queue = Front(u.queue) /\ ~w.prompting /\ w.tty = <<>>
        /\ w.pending = u.pending /\ w.running = u.running /\ w.signalled = u.signalled
        /\ w.open = u.open /\ w.io = u.io /\ w.shown = u.shown /\ w.acc = u.acc
        /\ w.errors = u.errors /\ w.partial = u.partial
    <3> HIDE DEF x
    <3> QED BY <2>2 DEF Emacs
  <2>5. v = SendItem(w, x)
    BY <1>2 DEF NextInput
  <2> HIDE DEF w, v
  <2>6. /\ v \in Emacs
        /\ v.current = x /\ v.tty = Append(w.tty, x) /\ ~v.flush
        /\ v.sink = (IF x \notin Typed THEN "pre-emacs" ELSE "user")
        /\ v.partial = (IF x \notin Typed THEN <<>> ELSE w.partial)
        /\ v.queue = w.queue /\ v.prompting = w.prompting /\ v.pending = w.pending
        /\ v.running = w.running /\ v.signalled = w.signalled /\ v.open = w.open
        /\ v.io = w.io /\ v.shown = w.shown /\ v.acc = w.acc /\ v.errors = w.errors
    BY <2>2, <2>4, <2>5, SendItemIs
  <2> DEFINE q == Front(u.queue)
  <2> HIDE DEF x, q, m
  <2>7. v.tty = <<v.current>> /\ ~v.prompting
    BY <2>4, <2>6
  <2>8. /\ v.queue = q /\ Len(q) = m - 1 /\ m \in Nat \ {0} /\ m = Len(u.queue)
        /\ \A i \in 1 .. m - 1 : q[i] = u.queue[i]
        /\ x = u.queue[m] /\ Queued(u) = Queued(v) \cup {x}
    BY <2>2, <2>3, <2>4, <2>6 DEF q, m, Queued
  <2>9. /\ Asking(v) <=> x \notin Typed
        /\ ~Asking(u) /\ Answering(u) = {}
        /\ Answering(v) = {x} \cap Displays
    BY <2>6, Sorts DEF Asking, Answering, Requests
  <2>10. x \in Displays => x \notin Queued(v)
    <3> SUFFICES ASSUME x \in Displays, NEW i \in 1 .. m - 1, q[i] = x PROVE FALSE
      BY <2>8 DEF Queued, In
    <3>1. i \in 1 .. Len(u.queue) /\ m \in 1 .. Len(u.queue) /\ u.queue[i] = u.queue[m]
          /\ u.queue[i] \in Displays /\ i # m
      BY <2>8
    <3> QED BY <3>1 DEF Waiting
  <2>11. Waiting(v)
    <3>1. v.pending = (Queued(v) \cap Displays) \cup Answering(v)
      BY <2>4, <2>6, <2>8, <2>9 DEF Waiting
    <3>2. \A i, j \in 1 .. Len(v.queue) : v.queue[i] = v.queue[j] /\ v.queue[i] \in Displays => i = j
      BY <2>8 DEF Waiting
    <3>3. v.pending = u.pending /\ v.open = u.open
      BY <2>4, <2>6
    <3> QED BY <2>9, <2>10, <3>1, <3>2, <3>3 DEF Waiting
  <2>12. Blocks(v)
    <3>1. v.open = u.open /\ u.open \subseteq Displays
      BY <2>4, <2>6 DEF Emacs
    <3>2. ASSUME NEW i \in 1 .. m - 1, NEW j \in 1 .. m - 1, i < j, q[i] \in Displays, q[j] \notin Displays
          PROVE  /\ u.open \subseteq Queued(v)
                 /\ \A k \in j .. m - 1 : q[k] \notin Displays
      <4>1. /\ i \in 1 .. Len(u.queue) /\ j \in 1 .. Len(u.queue) /\ m \in j .. Len(u.queue)
            /\ u.queue[i] \in Displays /\ u.queue[j] \notin Displays
        BY <2>8, <3>2
      <4>2. u.open \subseteq Queued(u) /\ \A k \in j .. Len(u.queue) : u.queue[k] \notin Displays
        BY <3>2, <4>1 DEF Ordered
      <4>3. x \notin Displays
        BY <2>8, <4>1, <4>2
      <4>4. u.open \subseteq Queued(v)
        BY <2>8, <3>1, <4>2, <4>3
      <4>5. ASSUME NEW k \in j .. m - 1 PROVE q[k] \notin Displays
        <5>1. k \in 1 .. m - 1 /\ k \in j .. Len(u.queue)
          BY <2>8
        <5> QED BY <2>8, <4>2, <5>1
      <4> QED BY <4>4, <4>5
    <3>3. ASSUME ~Asking(v), NEW i \in 1 .. m - 1, q[i] \in Displays
          PROVE  u.open \subseteq Queued(v)
      <4>1. /\ u.queue[i] \in Displays /\ u.queue[m] \notin Displays /\ i < m
            /\ i \in 1 .. Len(u.queue) /\ m \in 1 .. Len(u.queue)
        BY <2>8, <2>9, <3>3, Sorts DEF Requests
      <4>2. u.open \subseteq Queued(u)
        BY <4>1 DEF Ordered
      <4> QED BY <2>8, <3>1, <4>1, <4>2
    <3> QED BY <2>8, <3>1, <3>2, <3>3 DEF Blocks, Ordered
  <2>13. \A b \in Queued(u) \cap Displays : b \in Queued(v) \/ (Asking(v) /\ v.current = b)
    BY <2>6, <2>8, <2>9, Sorts DEF Requests
  <2>14. \/ v.current \in Requests /\ v.sink = "pre-emacs" /\ v.partial = <<>>
         \/ v.current \in Typed /\ v.sink = "user"
    BY <2>2, <2>6, Sorts
  <2> QED BY <2>4, <2>6, <2>7, <2>11, <2>12, <2>13, <2>14 DEF v
<1> QED BY <1>1, <1>2

(* What gdb-post-prompt does when nothing is waited for: every open        *)
(* display gets into the queue, before what was typed ahead.               *)
LEMMA AskAllIs ==
  ASSUME NEW u \in Emacs, Waiting(u), u.pending = {}, ~u.prompting, ~u.running,
         Frame \in u.open, Asking(u) => u.current \in Lookups
  PROVE  LET v == AskAll(u) IN
         /\ v \in Emacs
         /\ v.sink = u.sink /\ v.current = u.current /\ v.tty = u.tty /\ v.partial = u.partial
         /\ v.prompting = u.prompting /\ v.running = u.running /\ v.signalled = u.signalled
         /\ v.flush = u.flush /\ v.io = u.io /\ v.shown = u.shown /\ v.acc = u.acc
         /\ v.errors = u.errors
         /\ v.open = u.open \cup {Breakpoints} /\ v.open \subseteq Queued(v)
         /\ Waiting(v) /\ Blocks(v)
<1> DEFINE v == AskAll(u)
<1> DEFINE a == AskedOf(u.open)
<1> DEFINE r == Reverse(a)
<1> DEFINE open == u.open \cup {Breakpoints}
<1>1. u.open \in SUBSET Displays /\ u.queue \in Seq(Items) /\ open \in SUBSET Displays
  BY DEF Emacs, Displays
<1>2. a \in Seq(Displays) /\ Distinct(a) /\ In(a) = open /\ Range(a) = open
  BY <1>1, AskedIs
<1>3. v = [u EXCEPT !.open = open, !.pending = Range(a), !.queue = r \o @]
  <2>1. v = [[u EXCEPT !.open = open, !.pending = Range(a)] EXCEPT !.queue = r \o @]
    <3> HIDE DEF r, a
    <3> QED BY DEF AskAll, r, a, open
  <2> HIDE DEF v, a, r, open
  <2> QED BY <2>1 DEF Emacs
<1> HIDE DEF a
<1>4. r \in Seq(Displays) /\ Len(r) = Len(a) /\ In(r) = open /\ Distinct(r)
  BY <1>2, ReverseIs
<1>5. Len(r) \in Nat
  BY <1>4
<1> HIDE DEF r
<1>6. r \in Seq(Items)
  <2>1. Displays \subseteq Items
    BY DEF Items
  <2> QED BY <2>1, <1>4, SeqMonotonic
<1> DEFINE q == r \o u.queue
<1>7. /\ q \in Seq(Items) /\ Len(q) = Len(r) + Len(u.queue)
      /\ \A i \in 1 .. Len(r) + Len(u.queue) :
           \/ i \in 1 .. Len(r) /\ q[i] = r[i]
           \/ i - Len(r) \in 1 .. Len(u.queue) /\ q[i] = u.queue[i - Len(r)]
      /\ In(q) = In(r) \cup In(u.queue)
  BY <1>1, <1>6, ConcatIs
<1>8. v = [u EXCEPT !.open = open, !.pending = open, !.queue = q]
  BY <1>2, <1>3
<1> HIDE DEF q, v, open
<1>9. /\ v \in Emacs
      /\ v.sink = u.sink /\ v.current = u.current /\ v.tty = u.tty /\ v.partial = u.partial
      /\ v.prompting = u.prompting /\ v.running = u.running /\ v.signalled = u.signalled
      /\ v.flush = u.flush /\ v.io = u.io /\ v.shown = u.shown /\ v.acc = u.acc
      /\ v.errors = u.errors
      /\ v.open = open /\ v.pending = open /\ v.queue = q
  BY <1>1, <1>7, <1>8 DEF Emacs
<1>10. Answering(u) = {} /\ Answering(v) = {}
  BY <1>9, Sorts DEF Asking, Answering
<1>11. /\ Len(u.queue) \in Nat
       /\ \A i \in 1 .. Len(u.queue) : u.queue[i] \notin Displays
       /\ In(u.queue) \cap Displays = {}
  BY <1>1, <1>10 DEF Waiting, Queued, In
<1>12. \A i \in 1 .. Len(r) : r[i] \in Displays
  BY <1>4, ElementOfSeq
<1>13. Queued(v) \cap Displays = open
  BY <1>1, <1>4, <1>7, <1>9, <1>11 DEF Queued
<1>14. ASSUME NEW i \in 1 .. Len(v.queue)
       PROVE  \/ i \in 1 .. Len(r) /\ v.queue[i] = r[i] /\ v.queue[i] \in Displays
              \/ i > Len(r) /\ v.queue[i] \notin Displays
  <2>1. \/ i \in 1 .. Len(r) /\ q[i] = r[i]
        \/ i - Len(r) \in 1 .. Len(u.queue) /\ q[i] = u.queue[i - Len(r)]
    BY <1>7, <1>9
  <2>2. CASE i \in 1 .. Len(r) /\ q[i] = r[i]
    BY <2>2, <1>9, <1>12
  <2>3. CASE i - Len(r) \in 1 .. Len(u.queue) /\ q[i] = u.queue[i - Len(r)]
    <3>1. u.queue[i - Len(r)] \notin Displays
      BY <2>3, <1>11
    <3>2. i > Len(r)
      BY <2>3, <1>5, <1>11
    <3> QED BY <2>3, <3>1, <3>2, <1>9
  <2> QED BY <2>1, <2>2, <2>3
<1>15. Waiting(v)
  <2>1. \A i, j \in 1 .. Len(v.queue) : v.queue[i] = v.queue[j] /\ v.queue[i] \in Displays => i = j
    <3> SUFFICES ASSUME NEW i \in 1 .. Len(v.queue), NEW j \in 1 .. Len(v.queue),
                        v.queue[i] = v.queue[j], v.queue[i] \in Displays
                 PROVE  i = j
      OBVIOUS
    <3>1. i \in 1 .. Len(r) /\ v.queue[i] = r[i] /\ j \in 1 .. Len(r) /\ v.queue[j] = r[j]
      BY <1>14
    <3> QED BY <3>1, <1>4 DEF Distinct
  <2> QED BY <2>1, <1>9, <1>10, <1>13 DEF Waiting
<1>16. v.open \subseteq Queued(v)
  BY <1>9, <1>13
<1>17. Blocks(v)
  <2>1. ASSUME NEW i \in 1 .. Len(v.queue), NEW j \in 1 .. Len(v.queue), i < j,
               v.queue[i] \in Displays, v.queue[j] \notin Displays, NEW k \in j .. Len(v.queue)
        PROVE  v.queue[k] \notin Displays
    <3>1. j > Len(r)
      BY <2>1, <1>14
    <3>2. k \in 1 .. Len(v.queue) /\ ~(k \in 1 .. Len(r))
      BY <3>1, <1>5
    <3> QED BY <3>2, <1>14
  <2> QED BY <2>1, <1>16 DEF Blocks, Ordered
<1> QED BY <1>9, <1>15, <1>16, <1>17 DEF v, open
-----------------------------------------------------------------------------
(* Receiving.                                                              *)

(* The first annotation goes to its handler and the rest waits, unless the *)
(* handler failed.                                                         *)
LEMMA ReceiveIs ==
  ASSUME Inv, Receive
  PROVE  /\ out # <<>> /\ UNCHANGED <<gdb, version, separate, typed>>
         /\ LET u == Apply(out[1], ui) IN
            u \in Emacs /\ ~u.flush /\ ~u.errors /\ u.acc = <<>> => ui' = u /\ out' = Tail(out)
<1>1. out # <<>> /\ UNCHANGED <<gdb, version, separate, typed>>
  BY DEF Receive
<1>2. /\ ui \in Emacs /\ out \in Seq(Message) /\ ~ui.flush /\ ui.acc = <<>> /\ ~ui.errors
  BY DEF Inv, Types, Steady
<1>3. Tail(out) \in Seq(Message) /\ Head(out) = out[1]
  BY <1>1, <1>2
<1>4. ui.acc \o out = out
  BY <1>2, ConcatEmptySeq
<1>5. [ui EXCEPT !.acc = IF @ = <<>> THEN @ ELSE Tail(@)] = ui
  BY <1>2 DEF Emacs
<1> DEFINE u == Apply(out[1], ui)
<1> DEFINE rest == Tail(out)
<1>6. \E n \in IF u.flush \/ u.errors # ui.errors THEN 0 .. Len(rest) ELSE {0} :
        /\ ui' = [u EXCEPT !.acc = @ \o SubSeq(rest, 1, n)]
        /\ out' = SubSeq(rest, n + 1, Len(rest))
  BY <1>2, <1>3, <1>4, <1>5 DEF Receive
<1> HIDE DEF u, rest
<1>7. ASSUME u \in Emacs, ~u.flush, ~u.errors, u.acc = <<>>
      PROVE  ui' = u /\ out' = rest
  <2>1. /\ ui' = [u EXCEPT !.acc = @ \o SubSeq(rest, 1, 0)]
        /\ out' = SubSeq(rest, 0 + 1, Len(rest))
    <3>1. (u.errors # ui.errors) = FALSE
      BY <1>2, <1>7 DEF Emacs
    <3> QED BY <1>6, <1>7, <3>1
  <2>2. SubSeq(rest, 1, 0) = <<>> /\ SubSeq(rest, 1, Len(rest)) = rest
    <3>1. rest \in Seq(Message)
      BY <1>3 DEF rest
    <3> QED BY <3>1, SubSeqEmpty, SubSeqFull
  <2>3. u.acc \o <<>> = u.acc
    BY <1>7
  <2>4. ui' = [u EXCEPT !.acc = u.acc]
    BY <2>1, <2>2, <2>3
  <2>5. ui' = u
    BY <2>4, <1>7 DEF Emacs
  <2> QED BY <2>1, <2>2, <2>5
<1> QED BY <1>1, <1>7 DEF u, rest

LEMMA TailIs ==
  ASSUME Types, Grammar, out # <<>>, out' = Tail(out), UNCHANGED <<gdb, separate>>
  PROVE  /\ out' \in Seq(Message) /\ Grammar' /\ out[1] \in Message
         /\ out' # <<>> => MayFollow(Kind(out[1]), Kind(out'[1]))
         /\ out' = <<>> => Kind(out[1]) = EndOf(gdb)
         /\ Kind(out[1]) = "signalled" => ~separate
         /\ Kind(out[1]) \in StopKinds => gdb = "prompt"
<1>1. out \in Seq(Message)
  BY DEF Types
<1> DEFINE n == Len(out)
<1>2. /\ n \in Nat \ {0} /\ out' \in Seq(Message) /\ Len(out') = n - 1 /\ out[1] \in Message
      /\ \A i \in 1 .. n - 1 : out'[i] = out[i + 1]
      /\ out' = <<>> <=> n = 1
  <2>1. n \in Nat \ {0} /\ out[1] \in Message
    BY <1>1
  <2>2. /\ Tail(out) \in Seq(Message) /\ Len(Tail(out)) = n - 1
        /\ \A i \in 1 .. Len(Tail(out)) : Tail(out)[i] = out[i + 1]
    BY <1>1, HeadTailProperties
  <2>3. out' = <<>> <=> Len(out') = 0
    BY <2>2, EmptySeq
  <2> QED BY <2>1, <2>2, <2>3
<1> HIDE DEF n
<1>3. n = Len(out)
  BY DEF n
<1>4. \A i \in 1 .. Len(out') - 1 : MayFollow(Kind(out'[i]), Kind(out'[i + 1]))
  <2> SUFFICES ASSUME NEW i \in 1 .. n - 2 PROVE MayFollow(Kind(out'[i]), Kind(out'[i + 1]))
    BY <1>2
  <2>1. i \in 1 .. n - 1 /\ i + 1 \in 1 .. n - 1
    BY <1>2
  <2>2. out'[i] = out[i + 1] /\ out'[i + 1] = out[(i + 1) + 1]
    BY <1>2, <2>1
  <2> QED BY <1>3, <2>1, <2>2 DEF Grammar
<1>5. out' # <<>> => Kind(out'[Len(out')]) = EndOf(gdb)
  <2> SUFFICES ASSUME out' # <<>> PROVE Kind(out'[Len(out')]) = EndOf(gdb)
    OBVIOUS
  <2>1. n - 1 \in 1 .. n - 1 /\ out'[n - 1] = out[(n - 1) + 1] /\ (n - 1) + 1 = n
    BY <1>2
  <2> QED BY <1>2, <1>3, <2>1 DEF Grammar
<1>6. /\ \A i \in 1 .. Len(out') : Kind(out'[i]) = "signalled" => ~separate
      /\ \A i \in 1 .. Len(out') : Kind(out'[i]) \in StopKinds => gdb = "prompt"
  BY <1>2, <1>3 DEF Grammar
<1>7. out' # <<>> => MayFollow(Kind(out[1]), Kind(out'[1]))
  BY <1>2, <1>3 DEF Grammar
<1>8. out' = <<>> => Kind(out[1]) = EndOf(gdb)
  BY <1>2, <1>3 DEF Grammar
<1>9. /\ Kind(out[1]) = "signalled" => ~separate
      /\ Kind(out[1]) \in StopKinds => gdb = "prompt"
  BY <1>2, <1>3 DEF Grammar
<1>10. Grammar'
  BY <1>4, <1>5, <1>6 DEF Grammar
<1> QED BY <1>2, <1>7, <1>8, <1>9, <1>10

(* Queue, displays and what is waited for stay, so does all that is said   *)
(* of them.                                                                *)
LEMMA SameQueue ==
  ASSUME NEW u, NEW v, Waiting(u), Blocks(u),
         Asking(u) <=> Asking(v), Asking(u) => u.current = v.current,
         v.queue = u.queue, v.pending = u.pending, v.open = u.open
  PROVE  Waiting(v) /\ Blocks(v) /\ Queued(v) = Queued(u)
<1>1. Queued(v) = Queued(u)
  BY DEF Queued
<1>2. Waiting(v)
  BY <1>1 DEF Waiting, Answering
<1>3. Blocks(v)
  BY <1>1 DEF Blocks, Ordered
<1> QED BY <1>1, <1>2, <1>3

(* An annotation that asks for nothing: only the phase has to be shown.    *)
LEMMA PlainStep ==
  ASSUME Inv, out # <<>>, out' = Tail(out), UNCHANGED <<gdb, version, separate, typed>>,
         ~Asking(ui), ~Asking(ui'), Kind(out[1]) # "post-prompt", ui' \in Emacs,
         ui'.queue = ui.queue, ui'.pending = ui.pending, ui'.open = ui.open,
         ui'.shown = ui.shown, ui'.current = ui.current,
         ~ui'.errors, ~ui'.flush, ui'.acc = <<>>, separate => ~ui'.signalled,
         UserPhase(ui, out, gdb)'
  PROVE  Inv'
<1>1. /\ out' \in Seq(Message) /\ Grammar'
      /\ out' # <<>> => MayFollow(Kind(out[1]), Kind(out'[1]))
  BY TailIs DEF Inv
<1>2. Types'
  BY <1>1 DEF Inv, Types
<1>3. Steady'
  BY DEF Steady
<1>4. Phase'
  BY DEF Phase
<1>5. Waiting(ui') /\ Blocks(ui') /\ Queued(ui') = Queued(ui)
  BY SameQueue DEF Inv
<1>6. ~Unknown(out) /\ ~Unknown(out')
  BY <1>1 DEF Unknown, MayFollow
<1>7. Fresh'
  BY <1>5, <1>6 DEF Inv, Fresh
<1>8. Shown'
  BY DEF Inv, Shown
<1> QED BY <1>1, <1>2, <1>3, <1>4, <1>5, <1>7, <1>8 DEF Inv

(* What Emacs receives while the command is the user's, or the program     *)
(* runs: one step for each thing that can come.                            *)
LEMMA UserReceives ==
  ASSUME Inv, Receive, ~Asking(ui)
  PROVE  Inv'
<1> DEFINE k == Kind(out[1])
<1> DEFINE u == Apply(out[1], ui)
<1>1. /\ out # <<>> /\ UNCHANGED <<gdb, version, separate, typed>>
      /\ u \in Emacs /\ ~u.flush /\ ~u.errors /\ u.acc = <<>> => ui' = u /\ out' = Tail(out)
  BY ReceiveIs
<1>2. /\ ui \in Emacs /\ ~ui.flush /\ ui.acc = <<>> /\ ~ui.errors /\ (separate => ~ui.signalled)
      /\ UserPhase(ui, out, gdb) /\ ui.sink \in {"user", "inferior"} /\ gdb \in {"prompt", "query", "run"}
  BY DEF Inv, Types, Steady, Phase, Asking, Emacs, Sinks
<1>3. /\ ~ui.prompting /\ k \in Heads(ui) /\ (ui.tty # <<>> => ui.running /\ gdb = "run")
      /\ (ui.sink = "inferior" => ui.running /\ separate)
  BY <1>1, <1>2 DEF UserPhase
<1>4. ASSUME out' = Tail(out)
      PROVE  /\ out[1] \in Message
             /\ out' # <<>> => MayFollow(k, Kind(out'[1]))
             /\ out' = <<>> => k = EndOf(gdb)
             /\ k = "signalled" => ~separate
             /\ k \in StopKinds => gdb = "prompt"
  <2>1. Types /\ Grammar
    BY DEF Inv
  <2> HIDE DEF k
  <2> QED BY <1>1, <1>4, <2>1, TailIs DEF k
<1>5. out[1] \in Message
  <2>1. out \in Seq(Message)
    BY DEF Inv, Types
  <2> QED BY <1>1, <2>1
<1>6. /\ k = "program" => out[1].tag = "output" /\ out[1].text.cmd = "program"
      /\ k # "program" => out[1].tag = k
      /\ k \in Names \cup {"program"}
  BY <1>5 DEF Kind, Message, Names
<1> HIDE DEF k
<1>7. CASE k = "starting"
  <2> DEFINE w == [ui EXCEPT !.running = TRUE, !.signalled = FALSE,
                             !.sink = IF separate THEN "inferior" ELSE @]
  <2>1. ~ui.running /\ ui.sink = "user"
    BY <1>2, <1>3, <1>7 DEF Heads
  <2>2. u = w
    BY <1>6, <1>7, <2>1 DEF Apply, Handled, Starting
  <2>3. /\ w \in Emacs /\ w.sink = (IF separate THEN "inferior" ELSE "user") /\ w.running
        /\ w.queue = ui.queue /\ w.pending = ui.pending /\ w.open = ui.open
        /\ w.shown = ui.shown /\ w.current = ui.current /\ w.tty = ui.tty
        /\ ~w.prompting /\ ~w.errors /\ ~w.flush /\ w.acc = <<>> /\ ~w.signalled
    BY <1>2, <1>3, <2>1 DEF Emacs, Sinks
  <2> HIDE DEF w, u
  <2>4. ui' = w /\ out' = Tail(out)
    BY <1>1, <2>2, <2>3
  <2>5. UserPhase(ui, out, gdb)'
    <3>1. out' # <<>> => Kind(out'[1]) = "program"
      BY <1>4, <1>7, <2>4 DEF MayFollow
    <3>2. out' # <<>>
      BY <1>2, <1>4, <1>7, <2>4 DEF EndOf
    <3> QED BY <1>1, <1>3, <2>1, <2>3, <2>4, <3>1, <3>2 DEF UserPhase, Heads
  <2> QED BY <1>1, <1>7, <2>3, <2>4, <2>5, PlainStep DEF k, Asking
<1>8. CASE k = "output"
  <2>1. ~ui.running /\ ui.sink = "user"
    BY <1>2, <1>3, <1>8 DEF Heads
  <2>2. u = ui
    BY <1>6, <1>8, <2>1 DEF Apply, ConcatOutput
  <2>3. ui' = ui /\ out' = Tail(out)
    BY <1>1, <1>2, <2>2
  <2>4. UserPhase(ui, out, gdb)'
    <3>1. out' # <<>> => Kind(out'[1]) = "pre-prompt"
      BY <1>4, <1>8, <2>3 DEF MayFollow
    <3>2. out' # <<>>
      BY <1>2, <1>4, <1>8, <2>3 DEF EndOf
    <3> QED BY <1>1, <1>3, <2>1, <2>3, <3>1, <3>2 DEF UserPhase, Heads
  <2> QED BY <1>1, <1>2, <1>8, <2>3, <2>4, PlainStep DEF k
<1>9. CASE k = "program"
  <2> DEFINE w == [ui EXCEPT !.io = @ \cup {"program"}]
  <2>1. ui.running /\ (separate => ui.sink = "inferior")
    BY <1>2, <1>3, <1>9 DEF Heads
  <2>2. u = ui \/ u = w
    BY <1>2, <1>6, <1>9 DEF Apply, ConcatOutput
  <2>3. /\ w \in Emacs /\ w.sink = ui.sink /\ w.running = ui.running
        /\ w.queue = ui.queue /\ w.pending = ui.pending /\ w.open = ui.open
        /\ w.shown = ui.shown /\ w.current = ui.current /\ w.tty = ui.tty
        /\ ~w.prompting /\ ~w.errors /\ ~w.flush /\ w.acc = <<>> /\ w.signalled = ui.signalled
    BY <1>2, <1>3 DEF Emacs
  <2> HIDE DEF w, u
  <2>4. (ui' = w \/ ui' = ui) /\ out' = Tail(out)
    BY <1>1, <1>2, <2>2, <2>3
  <2>5. /\ ui' \in Emacs /\ ui'.sink = ui.sink /\ ui'.running = ui.running
        /\ ui'.queue = ui.queue /\ ui'.pending = ui.pending /\ ui'.open = ui.open
        /\ ui'.shown = ui.shown /\ ui'.current = ui.current /\ ui'.tty = ui.tty
        /\ ~ui'.prompting /\ ~ui'.errors /\ ~ui'.flush /\ ui'.acc = <<>> /\ ui'.signalled = ui.signalled
    BY <1>2, <1>3, <2>3, <2>4
  <2>6. UserPhase(ui, out, gdb)'
    <3>1. out' # <<>> => /\ Kind(out'[1]) \in {"breakpoint", "signal", "frame-begin", "exited", "signalled"}
                         /\ Kind(out'[1]) = "signalled" => ~separate
      <4>1. Grammar' /\ out' \in Seq(Message)
        BY <1>1, <2>4, TailIs DEF Inv
      <4>2. out' # <<>> => 1 \in 1 .. Len(out')
        BY <4>1, EmptySeq
      <4> QED BY <1>1, <1>4, <1>9, <2>4, <4>1, <4>2 DEF MayFollow, Grammar
    <3>2. out' = <<>> => gdb = "run"
      BY <1>2, <1>4, <1>9, <2>4 DEF EndOf
    <3> QED BY <1>1, <1>2, <1>3, <2>1, <2>5, <3>1, <3>2 DEF UserPhase, Heads
  <2> QED BY <1>1, <1>2, <1>9, <2>4, <2>5, <2>6, PlainStep DEF k, Asking
<1>10. CASE k \in {"pre-prompt", "breakpoint", "signal", "exited", "frame-begin", "source"}
  <2> DEFINE w == [ui EXCEPT !.sink = "user"]
  <2>1. (k = "pre-prompt" => ~ui.running /\ ui.sink = "user") /\ (k # "pre-prompt" => ui.running)
    BY <1>2, <1>3, <1>10 DEF Heads
  <2>2. k = "source" => ui.sink = "user"
    BY <1>2, <1>3, <2>1 DEF Heads
  <2>3. ui.sink = "user" => w = ui
    BY <1>2 DEF Emacs
  <2>4. u = w
    <3>1. CASE k = "pre-prompt"
      BY <3>1, <1>6, <2>1, <2>3 DEF Apply, Handled, PrePrompt
    <3>2. CASE k \in {"breakpoint", "signal", "exited"}
      BY <3>2, <1>2, <1>3, <1>6, <2>3 DEF Apply, Handled, Stopping, Heads
    <3>3. CASE k = "frame-begin"
      BY <3>3, <1>2, <1>6, <2>3 DEF Apply, Handled, FrameBegin
    <3>4. CASE k = "source"
      BY <3>4, <1>6, <2>2, <2>3 DEF Apply, Handled, Source
    <3> QED BY <1>10, <3>1, <3>2, <3>3, <3>4
  <2>5. /\ w \in Emacs /\ w.sink = "user" /\ w.running = ui.running
        /\ w.queue = ui.queue /\ w.pending = ui.pending /\ w.open = ui.open
        /\ w.shown = ui.shown /\ w.current = ui.current /\ w.tty = ui.tty
        /\ ~w.prompting /\ ~w.errors /\ ~w.flush /\ w.acc = <<>> /\ w.signalled = ui.signalled
    BY <1>2, <1>3 DEF Emacs, Sinks
  <2> HIDE DEF w, u
  <2>6. ui' = w /\ out' = Tail(out)
    BY <1>1, <2>4, <2>5
  <2>7. UserPhase(ui, out, gdb)'
    <3>1. out' # <<>> => \/ k = "pre-prompt" /\ Kind(out'[1]) = "prompt"
                         \/ k # "pre-prompt" /\ Kind(out'[1]) \in {"frame-begin", "source", "stopped"}
      BY <1>4, <1>10, <2>6 DEF MayFollow
    <3>2. out' # <<>>
      BY <1>2, <1>4, <1>10, <2>6 DEF EndOf
    <3> QED BY <1>1, <1>3, <2>1, <2>5, <2>6, <3>1, <3>2 DEF UserPhase, Heads
  <2> QED BY <1>1, <1>2, <1>10, <2>5, <2>6, <2>7, PlainStep DEF k, Asking
<1>11. CASE k = "signalled"
  <2> DEFINE w == [ui EXCEPT !.signalled = TRUE]
  <2>1. ui.running
    BY <1>3, <1>11 DEF Heads
  <2>2. u = w
    BY <1>6, <1>11 DEF Apply, Handled, Signalled
  <2>3. /\ w \in Emacs /\ w.sink = ui.sink /\ w.running = ui.running
        /\ w.queue = ui.queue /\ w.pending = ui.pending /\ w.open = ui.open
        /\ w.shown = ui.shown /\ w.current = ui.current /\ w.tty = ui.tty
        /\ ~w.prompting /\ ~w.errors /\ ~w.flush /\ w.acc = <<>>
    BY <1>2, <1>3 DEF Emacs
  <2> HIDE DEF w, u
  <2>4. ui' = w /\ out' = Tail(out)
    BY <1>1, <2>2, <2>3
  <2>5. ~separate
    BY <1>4, <1>11, <2>4
  <2>6. UserPhase(ui, out, gdb)'
    <3>1. out' # <<>> => Kind(out'[1]) = "stopped"
      BY <1>4, <1>11, <2>4 DEF MayFollow
    <3>2. out' # <<>>
      BY <1>2, <1>4, <1>11, <2>4 DEF EndOf
    <3> QED BY <1>1, <1>3, <2>1, <2>3, <2>4, <2>5, <3>1, <3>2 DEF UserPhase, Heads
  <2> QED BY <1>1, <1>2, <1>11, <2>3, <2>4, <2>5, <2>6, PlainStep DEF k, Asking
<1>12. CASE k = "stopped"
  <2> DEFINE w == [ui EXCEPT !.running = FALSE, !.sink = "user"]
  <2>1. u = w
    BY <1>2, <1>6, <1>12 DEF Apply, Handled, Stopped, Stopping
  <2>2. /\ w \in Emacs /\ w.sink = "user" /\ ~w.running
        /\ w.queue = ui.queue /\ w.pending = ui.pending /\ w.open = ui.open
        /\ w.shown = ui.shown /\ w.current = ui.current /\ w.tty = ui.tty
        /\ ~w.prompting /\ ~w.errors /\ ~w.flush /\ w.acc = <<>> /\ w.signalled = ui.signalled
    BY <1>2, <1>3 DEF Emacs, Sinks
  <2> HIDE DEF w, u
  <2>3. ui' = w /\ out' = Tail(out)
    BY <1>1, <2>1, <2>2
  <2>4. gdb = "prompt"
    BY <1>4, <1>12, <2>3 DEF StopKinds
  <2>5. UserPhase(ui, out, gdb)'
    <3>1. out' # <<>> => Kind(out'[1]) = "pre-prompt"
      BY <1>4, <1>12, <2>3 DEF MayFollow
    <3>2. out' # <<>>
      BY <1>2, <1>4, <1>12, <2>3 DEF EndOf
    <3> QED BY <1>1, <1>3, <2>2, <2>3, <2>4, <3>1, <3>2 DEF UserPhase, Heads
  <2> QED BY <1>1, <1>2, <1>12, <2>2, <2>3, <2>5, PlainStep DEF k, Asking
<1>13. CASE k = "query"
  <2> DEFINE w == [ui EXCEPT !.prompting = TRUE]
  <2>1. ~ui.running /\ ui.sink = "user" /\ ui.tty = <<>>
    BY <1>2, <1>3, <1>13 DEF Heads
  <2>2. u = w
    BY <1>6, <1>13 DEF Apply, Handled, Subprompt
  <2>3. /\ w \in Emacs /\ w.sink = "user" /\ ~w.running /\ w.prompting
        /\ w.queue = ui.queue /\ w.pending = ui.pending /\ w.open = ui.open
        /\ w.shown = ui.shown /\ w.current = ui.current /\ w.tty = <<>>
        /\ ~w.errors /\ ~w.flush /\ w.acc = <<>> /\ w.signalled = ui.signalled
    BY <1>2, <1>3, <2>1 DEF Emacs
  <2> HIDE DEF w, u
  <2>4. ui' = w /\ out' = Tail(out)
    BY <1>1, <2>2, <2>3
  <2>5. UserPhase(ui, out, gdb)'
    <3>1. out' = <<>>
      BY <1>4, <1>13, <2>4 DEF MayFollow
    <3>2. gdb = "query"
      BY <1>2, <1>4, <1>13, <2>4, <3>1 DEF EndOf
    <3> QED BY <1>1, <2>3, <2>4, <3>1, <3>2 DEF UserPhase
  <2> QED BY <1>1, <1>2, <1>13, <2>3, <2>4, <2>5, PlainStep DEF k, Asking
<1>14. CASE k = "prompt"
  <2>1. ~ui.running /\ ui.sink = "user" /\ ui.tty = <<>>
    BY <1>2, <1>3, <1>14 DEF Heads
  <2>2. u = NextInput(ui)
    BY <1>6, <1>14, <2>1 DEF Apply, Handled, Prompt
  <2>3. Waiting(ui) /\ Blocks(ui) /\ Fresh /\ Shown /\ typed \in Nat
    BY DEF Inv, Types
  <2> HIDE DEF u
  <2>4. /\ u \in Emacs /\ ~u.flush
        /\ u.pending = ui.pending /\ u.running = ui.running /\ u.signalled = ui.signalled
        /\ u.open = ui.open /\ u.io = ui.io /\ u.shown = ui.shown /\ u.acc = ui.acc
        /\ u.errors = ui.errors
        /\ Waiting(u) /\ Blocks(u)
        /\ \A b \in Queued(ui) \cap Displays : b \in Queued(u) \/ (Asking(u) /\ u.current = b)
        /\ \/ u.prompting /\ u.queue = <<>> /\ u.tty = <<>> /\ u.sink = "user"
           \/ /\ ~u.prompting /\ u.tty = <<u.current>>
              /\ \/ u.current \in Requests /\ u.sink = "pre-emacs" /\ u.partial = <<>>
                 \/ u.current \in Typed /\ u.sink = "user"
    BY <1>2, <1>3, <2>1, <2>2, <2>3, NextInputIs DEF Blocks
  <2>5. ui' = u /\ out' = Tail(out)
    BY <1>1, <1>2, <2>4
  <2>6. out' = <<>> /\ gdb = "prompt"
    BY <1>2, <1>4, <1>14, <2>5 DEF MayFollow, EndOf
  <2>7. Types' /\ Grammar' /\ Steady'
    BY <1>1, <1>2, <2>4, <2>5, TailIs DEF Inv, Types, Steady
  <2>8. Phase'
    BY <1>1, <2>1, <2>4, <2>5, <2>6 DEF Phase, OwnPhase, UserPhase, Asking
  <2>9. Waiting(ui)' /\ Blocks(ui)'
    BY <1>1, <2>4, <2>5
  <2>10. Fresh'
    <3>1. ~Unknown(out) /\ ui.open \subseteq Displays
      BY <1>2, <1>14 DEF Unknown, k, Emacs
    <3>2. ASSUME NEW b \in ui.open
          PROVE  \/ u.shown[b] = <<Output(b, version)>>
                 \/ b \in Queued(u)
                 \/ Asking(u) /\ u.current = b
      BY <2>3, <2>4, <3>1 DEF Fresh
    <3> QED BY <1>1, <2>3, <2>4, <2>5, <2>6, <3>2 DEF Fresh
  <2>11. Shown'
    BY <2>3, <2>4, <2>5 DEF Shown
  <2> QED BY <2>7, <2>8, <2>9, <2>10, <2>11 DEF Inv
<1>15. CASE k = "post-prompt"
  <2>1. ~ui.running /\ ui.sink = "user" /\ ui.tty = <<>> /\ Unknown(out)
    BY <1>1, <1>2, <1>3, <1>15 DEF Heads, Unknown, k
  <2>2. u = IF ui.pending = {} THEN AskAll(ui) ELSE ui
    <3>1. ui.pending = {} => AskAll(ui).sink = "user"
      BY <1>2, <1>3, <2>1, AskAllIs DEF Inv, Types, Fresh, Asking
    <3> QED BY <1>6, <1>15, <2>1, <3>1 DEF Apply, Handled, PostPrompt
  <2>3. Waiting(ui) /\ Blocks(ui) /\ Fresh /\ Shown /\ typed \in Nat
    BY DEF Inv, Types
  <2> HIDE DEF u
  <2>4. /\ u \in Emacs
        /\ u.sink = "user" /\ u.current = ui.current /\ u.tty = ui.tty
        /\ u.prompting = ui.prompting /\ u.running = ui.running /\ u.signalled = ui.signalled
        /\ u.flush = ui.flush /\ u.shown = ui.shown /\ u.acc = ui.acc /\ u.errors = ui.errors
        /\ u.open \subseteq Queued(u) /\ Frame \in u.open
        /\ Waiting(u) /\ Blocks(u)
    <3>1. CASE ui.pending = {}
      BY <1>2, <1>3, <2>1, <2>2, <2>3, <3>1, AskAllIs DEF Fresh, Asking
    <3>2. CASE ui.pending # {}
      <4>1. \E i \in 1 .. Len(ui.queue) : ui.queue[i] \in Displays
        BY <2>3, <3>2 DEF Waiting, Answering, Queued, In
      <4>2. ui.open \subseteq Queued(ui)
        BY <2>3, <4>1 DEF Blocks
      <4> QED BY <1>2, <2>1, <2>2, <2>3, <3>2, <4>2 DEF Fresh
    <3> QED BY <3>1, <3>2
  <2>5. ui' = u /\ out' = Tail(out)
    BY <1>1, <1>2, <2>4
  <2>6. Types' /\ Grammar' /\ Steady'
    BY <1>1, <1>2, <2>4, <2>5, TailIs DEF Inv, Types, Steady
  <2>7. Phase'
    <3>1. out' # <<>> => Kind(out'[1]) \in {"output", "pre-prompt", "query", "starting"}
      BY <1>4, <1>15, <2>5 DEF MayFollow
    <3>2. out' # <<>>
      BY <1>2, <1>4, <1>15, <2>5 DEF EndOf
    <3> QED BY <1>1, <1>3, <2>1, <2>4, <2>5, <3>1, <3>2 DEF Phase, UserPhase, Asking, Heads
  <2>8. Waiting(ui)' /\ Blocks(ui)'
    BY <1>1, <2>4, <2>5
  <2>9. Fresh'
    BY <2>4, <2>5 DEF Fresh
  <2>10. Shown'
    BY <2>3, <2>4, <2>5 DEF Shown
  <2> QED BY <2>6, <2>7, <2>8, <2>9, <2>10 DEF Inv
<1>16. \/ k \in {"starting", "output", "program", "signalled", "stopped", "query", "prompt", "post-prompt"}
       \/ k \in {"pre-prompt", "breakpoint", "signal", "exited", "frame-begin", "source"}
  BY <1>3 DEF Heads
<1> QED BY <1>7, <1>8, <1>9, <1>10, <1>11, <1>12, <1>13, <1>14, <1>15, <1>16

(* What Emacs receives while it waits for the output of its own command.   *)
LEMMA AskingReceives ==
  ASSUME Inv, Receive, Asking(ui), Habits
  PROVE  Inv'
<1> DEFINE u == Apply(out[1], ui)
<1> DEFINE c == ui.current
<1> DEFINE answer == <<Output(c, version)>>
<1>1. /\ out # <<>> /\ UNCHANGED <<gdb, version, separate, typed>>
      /\ u \in Emacs /\ ~u.flush /\ ~u.errors /\ u.acc = <<>> => ui' = u /\ out' = Tail(out)
  BY ReceiveIs
<1>2. /\ ui \in Emacs /\ ~ui.flush /\ ui.acc = <<>> /\ ~ui.errors /\ (separate => ~ui.signalled)
      /\ c \in Requests /\ ~ui.prompting /\ ~ui.running /\ gdb = "prompt" /\ OwnPhase(ui, out, version)
      /\ Waiting(ui) /\ Blocks(ui) /\ Fresh /\ Shown /\ typed \in Nat /\ version \in Nat
  BY DEF Inv, Types, Steady, Phase
<1>3. /\ c \in Displays => c \in ui.pending
      /\ ui.pending = {} => c \in Lookups
  <2>1. c \in Displays => c \in Answering(ui)
    BY DEF Answering
  <2> QED BY <1>2, <2>1 DEF Waiting, Requests
<1>4. Output(c, version) \in Outputs /\ answer \in Seq(Outputs)
  BY <1>2, Sorts DEF Output, Outputs
<1>5. /\ Text(c, version).tag = "output" /\ Text(c, version).text = Output(c, version)
      /\ \A a \in Names : Tag(a).tag = a /\ (a # "output" => Kind(Tag(a)) = a)
      /\ Kind(Text(c, version)) = "output"
  <2>1. c # "program"
    BY <1>2, Sorts
  <2> QED BY <2>1 DEF Text, Tag, Kind, Output
(* A step inside the answer.                                               *)
<1>6. ASSUME NEW w \in Emacs, ui' = w, out' = Tail(out), Asking(w), ~w.flush, w.acc = <<>>, ~w.errors,
             w.queue = ui.queue, w.pending = ui.pending, w.open = ui.open, w.shown = ui.shown,
             w.current = c, ~w.prompting, ~w.running, w.signalled = ui.signalled,
             OwnPhase(w, Tail(out), version), ~Unknown(Tail(out)),
             ~Unknown(out) \/ ui.pending # {}
      PROVE  Inv'
  <2>1. Types' /\ Grammar' /\ Steady'
    BY <1>1, <1>2, <1>6, TailIs DEF Inv, Types, Steady
  <2>2. Phase'
    BY <1>1, <1>2, <1>6 DEF Phase
  <2>3. Waiting(w) /\ Blocks(w) /\ Queued(w) = Queued(ui)
    BY <1>2, <1>6, SameQueue
  <2>4. Waiting(ui)' /\ Blocks(ui)'
    BY <1>1, <1>6, <2>3
  <2>5. Fresh'
    BY <1>1, <1>2, <1>6, <2>3 DEF Fresh
  <2>6. Shown'
    BY <1>2, <1>6 DEF Shown
  <2> QED BY <2>1, <2>2, <2>4, <2>5, <2>6 DEF Inv
<1>7. CASE /\ ui.pending # {}
           /\ ui.tty = <<>> /\ ui.sink = "pre-emacs" /\ ui.partial = <<>>
           /\ out = <<Tag("post-prompt"), Text(c, version), Tag("pre-prompt"), Tag("prompt")>>
  <2> DEFINE w == [ui EXCEPT !.sink = "emacs"]
  <2>1. out[1].tag = "post-prompt" /\ Tail(out) = <<Text(c, version), Tag("pre-prompt"), Tag("prompt")>>
    BY <1>7 DEF Tag
  <2>2. u = w
    BY <1>7, <2>1 DEF Apply, Handled, PostPrompt
  <2>3. /\ w \in Emacs /\ w.sink = "emacs" /\ w.queue = ui.queue /\ w.pending = ui.pending
        /\ w.open = ui.open /\ w.shown = ui.shown /\ w.current = c /\ ~w.prompting /\ ~w.running
        /\ w.signalled = ui.signalled /\ ~w.flush /\ w.acc = <<>> /\ ~w.errors
        /\ w.tty = <<>> /\ w.partial = <<>>
    BY <1>2, <1>7 DEF Emacs, Sinks
  <2> HIDE DEF w, u
  <2>4. Asking(w)
    BY <2>3 DEF Asking
  <2>5. OwnPhase(w, Tail(out), version)
    BY <2>1, <2>3 DEF OwnPhase
  <2>6. ~Unknown(Tail(out))
    <3>1. Tail(out)[1] = Text(c, version)
      <4>1. <<Text(c, version), Tag("pre-prompt"), Tag("prompt")>>[1] = Text(c, version)
        OBVIOUS
      <4> QED BY <2>1, <4>1
    <3>2. Kind(Tail(out)[1]) = "output"
      BY <1>5, <3>1 DEF Names
    <3> QED BY <3>2 DEF Unknown
  <2> QED BY <1>1, <1>6, <1>7, <2>2, <2>3, <2>4, <2>5, <2>6
(* A lookup is at work and nothing is waited for: everything is asked for. *)
<1>12. CASE /\ ui.pending = {}
            /\ ui.tty = <<>> /\ ui.sink = "pre-emacs" /\ ui.partial = <<>>
            /\ out = <<Tag("post-prompt"), Text(c, version), Tag("pre-prompt"), Tag("prompt")>>
  <2> DEFINE v == AskAll(ui)
  <2> DEFINE w == [v EXCEPT !.sink = "emacs"]
  <2>1. out[1].tag = "post-prompt" /\ Tail(out) = <<Text(c, version), Tag("pre-prompt"), Tag("prompt")>>
    BY <1>12 DEF Tag
  <2>2. /\ v \in Emacs
        /\ v.sink = ui.sink /\ v.current = ui.current /\ v.tty = ui.tty /\ v.partial = ui.partial
        /\ v.prompting = ui.prompting /\ v.running = ui.running /\ v.signalled = ui.signalled
        /\ v.flush = ui.flush /\ v.io = ui.io /\ v.shown = ui.shown /\ v.acc = ui.acc
        /\ v.errors = ui.errors
        /\ v.open = ui.open \cup {Breakpoints} /\ v.open \subseteq Queued(v)
        /\ Waiting(v) /\ Blocks(v)
    <3>1. Frame \in ui.open
      BY <1>2 DEF Fresh
    <3> QED BY <1>2, <1>3, <1>12, <3>1, AskAllIs
  <2> HIDE DEF v
  <2>3. u = w
    BY <1>12, <2>1, <2>2 DEF Apply, Handled, PostPrompt, v
  <2>4. /\ w \in Emacs /\ w.sink = "emacs" /\ w.queue = v.queue /\ w.pending = v.pending
        /\ w.open = v.open /\ w.shown = ui.shown /\ w.current = c /\ ~w.prompting /\ ~w.running
        /\ w.signalled = ui.signalled /\ ~w.flush /\ w.acc = <<>> /\ ~w.errors
        /\ w.tty = <<>> /\ w.partial = <<>>
    BY <1>2, <1>12, <2>2 DEF Emacs, Sinks
  <2> HIDE DEF w, u
  <2>5. ui' = w /\ out' = Tail(out)
    BY <1>1, <2>3, <2>4
  <2>6. Asking(w) /\ Asking(v)
    BY <1>12, <2>2, <2>4 DEF Asking
  <2>7. Waiting(w) /\ Blocks(w) /\ Queued(w) = Queued(v)
    <3>1. Asking(v) => v.current = w.current
      BY <2>2, <2>4
    <3> QED BY <2>2, <2>4, <2>6, <3>1, SameQueue
  <2>8. Types' /\ Grammar' /\ Steady'
    BY <1>1, <1>2, <2>4, <2>5, TailIs DEF Inv, Types, Steady
  <2>9. Phase'
    <3>1. OwnPhase(w, Tail(out), version)
      BY <2>1, <2>4 DEF OwnPhase
    <3> QED BY <1>1, <1>2, <2>4, <2>5, <2>6, <3>1 DEF Phase
  <2>10. Fresh'
    <3>1. Frame \in ui.open
      BY <1>2 DEF Fresh
    <3> QED BY <2>2, <2>4, <2>5, <2>7, <3>1 DEF Fresh
  <2>11. Shown'
    BY <1>2, <2>4, <2>5 DEF Shown
  <2> QED BY <1>1, <2>5, <2>7, <2>8, <2>9, <2>10, <2>11 DEF Inv
<1>8. CASE /\ ui.tty = <<>> /\ ui.sink = "emacs" /\ ui.partial = <<>>
           /\ out = <<Text(c, version), Tag("pre-prompt"), Tag("prompt")>>
  <2> DEFINE w == [ui EXCEPT !.partial = answer]
  <2>1. /\ out[1].tag = "output" /\ out[1].text = Output(c, version)
        /\ Tail(out) = <<Tag("pre-prompt"), Tag("prompt")>>
    BY <1>5, <1>8
  <2>2. u = w
    BY <1>8, <2>1 DEF Apply, ConcatOutput
  <2>3. /\ w \in Emacs /\ w.sink = "emacs" /\ w.queue = ui.queue /\ w.pending = ui.pending
        /\ w.open = ui.open /\ w.shown = ui.shown /\ w.current = c /\ ~w.prompting /\ ~w.running
        /\ w.signalled = ui.signalled /\ ~w.flush /\ w.acc = <<>> /\ ~w.errors
        /\ w.tty = <<>> /\ w.partial = answer
    BY <1>2, <1>4, <1>8 DEF Emacs, Sinks
  <2> HIDE DEF w, u
  <2>4. Asking(w)
    BY <2>3 DEF Asking
  <2>5. OwnPhase(w, Tail(out), version)
    BY <2>1, <2>3 DEF OwnPhase
  <2>6. ~Unknown(Tail(out))
    <3>1. Tail(out)[1] = Tag("pre-prompt")
      <4>1. <<Tag("pre-prompt"), Tag("prompt")>>[1] = Tag("pre-prompt")
        OBVIOUS
      <4> QED BY <2>1, <4>1
    <3>2. Kind(Tail(out)[1]) = "pre-prompt"
      BY <1>5, <3>1 DEF Names
    <3> QED BY <3>2 DEF Unknown
  <2>7. ~Unknown(out)
    <3>1. out[1] = Text(c, version) /\ Kind(out[1]) = "output"
      BY <1>5, <1>8
    <3> QED BY <3>1 DEF Unknown
  <2> QED BY <1>1, <1>6, <2>2, <2>3, <2>4, <2>5, <2>6, <2>7
<1>9. CASE /\ ui.tty = <<>> /\ ui.sink = "emacs" /\ ui.partial = answer
           /\ out = <<Tag("pre-prompt"), Tag("prompt")>>
  <2> DEFINE w == [ui EXCEPT !.sink = "post-emacs"]
  <2>1. out[1].tag = "pre-prompt" /\ Tail(out) = <<Tag("prompt")>>
    BY <1>9 DEF Tag
  <2>2. u = w
    BY <1>9, <2>1 DEF Apply, Handled, PrePrompt
  <2>3. /\ w \in Emacs /\ w.sink = "post-emacs" /\ w.queue = ui.queue /\ w.pending = ui.pending
        /\ w.open = ui.open /\ w.shown = ui.shown /\ w.current = c /\ ~w.prompting /\ ~w.running
        /\ w.signalled = ui.signalled /\ ~w.flush /\ w.acc = <<>> /\ ~w.errors
        /\ w.tty = <<>> /\ w.partial = answer
    BY <1>2, <1>9 DEF Emacs, Sinks
  <2> HIDE DEF w, u
  <2>4. Asking(w)
    BY <2>3 DEF Asking
  <2>5. OwnPhase(w, Tail(out), version)
    BY <2>1, <2>3 DEF OwnPhase
  <2>6. ~Unknown(Tail(out))
    <3>1. Tail(out)[1] = Tag("prompt")
      <4>1. <<Tag("prompt")>>[1] = Tag("prompt")
        OBVIOUS
      <4> QED BY <2>1, <4>1
    <3>2. Kind(Tail(out)[1]) = "prompt"
      BY <1>5, <3>1 DEF Names
    <3> QED BY <3>2 DEF Unknown
  <2>7. ~Unknown(out)
    <3>1. out[1] = Tag("pre-prompt") /\ Kind(out[1]) = "pre-prompt"
      BY <1>5, <1>9 DEF Names
    <3> QED BY <3>1 DEF Unknown
  <2> QED BY <1>1, <1>6, <2>2, <2>3, <2>4, <2>5, <2>6, <2>7
(* The answer is complete: the display shows it, and Emacs goes on.        *)
<1>10. CASE /\ ui.tty = <<>> /\ ui.sink = "post-emacs" /\ ui.partial = answer
            /\ out = <<Tag("prompt")>>
  <2> DEFINE v == [ui EXCEPT !.sink = "user"]
  <2> DEFINE x == [ui EXCEPT !.sink = "user", !.pending = @ \ {c},
                             !.shown[c] = IF c \in ui.open THEN answer ELSE @]
  <2> DEFINE w == Handler(v, c)
  <2>1. out[1].tag = "prompt" /\ Tail(out) = <<>>
    BY <1>10 DEF Tag
  <2>2. /\ v \in Emacs /\ v.sink = "user" /\ v.queue = ui.queue /\ v.pending = ui.pending
        /\ v.open = ui.open /\ v.current = c /\ ~v.prompting /\ ~v.running
        /\ v.signalled = ui.signalled /\ ~v.flush /\ v.acc = <<>> /\ ~v.errors
        /\ v.tty = <<>> /\ v.partial = answer /\ v.shown = ui.shown
    BY <1>2, <1>10 DEF Emacs, Sinks
  <2>3. u = NextInput(w)
    <3>1. ~HandlerFails(v, c)
      <4>1. c \in NeedsBuffer \cap Displays => c \in ui.open
        BY <1>2, <1>3 DEF Waiting
      <4> QED BY <2>2, <4>1 DEF HandlerFails
    <3> QED BY <1>10, <2>1, <2>2, <3>1 DEF Apply, Handled, Prompt
  <2>4. /\ x.sink = "user" /\ x.queue = ui.queue /\ x.pending = ui.pending \ {c}
        /\ x.open = ui.open /\ x.current = c /\ ~x.prompting /\ ~x.running
        /\ x.signalled = ui.signalled /\ ~x.flush /\ x.acc = <<>> /\ ~x.errors
        /\ x.tty = <<>>
        /\ x.shown = [ui.shown EXCEPT ![c] = IF c \in ui.open THEN answer ELSE @]
    BY <1>2, <1>10 DEF Emacs
  <2>5. x \in Emacs
    <3>1. [ui.shown EXCEPT ![c] = IF c \in ui.open THEN answer ELSE @] \in [Displays -> Seq(Outputs)]
      BY <1>2, <1>4 DEF Emacs
    <3> QED BY <1>2, <3>1 DEF Emacs, Sinks
  <2>6. /\ \A b \in Displays \ {c} : x.shown[b] = ui.shown[b]
        /\ c \in Displays => x.shown[c] = IF c \in ui.open THEN answer ELSE ui.shown[c]
    BY <1>2, <2>4 DEF Emacs
  <2>15. c \in Displays => w = Custom(x, c)
    <3> SUFFICES ASSUME c \in Displays PROVE w = Custom(x, c)
      OBVIOUS
    <3>1. w = UpdateHandler(v, c)
      <4> HIDE DEF v
      <4> QED BY Sorts DEF Handler, Lookups
    <3>2. [v EXCEPT !.pending = @ \ {c}, !.shown[c] = IF c \in v.open THEN v.partial ELSE @] = x
      BY <1>2, <1>10 DEF Emacs
    <3> HIDE DEF v, x
    <3> QED BY <3>1, <3>2 DEF UpdateHandler
  <2>16. c \in Lookups => c \notin Displays /\ (w = v \/ w = [v EXCEPT !.located = TRUE])
    BY Sorts DEF Handler, GetLocation, Habits, Lookups
  <2> HIDE DEF v, x, w
(* Whatever the handler does.                                              *)
  <2>7. /\ w \in Emacs /\ w.sink = "user" /\ w.open = ui.open /\ ~w.prompting /\ ~w.running
        /\ w.signalled = ui.signalled /\ ~w.flush /\ w.acc = <<>> /\ ~w.errors /\ w.tty = <<>>
        /\ \A b \in Displays \ {c} : w.shown[b] = ui.shown[b]
        /\ c \in Displays => w.shown[c] = IF c \in ui.open THEN answer ELSE ui.shown[c]
        /\ Waiting(w) /\ Ordered(w) /\ Queued(w) \cap Displays = Queued(ui) \cap Displays
    <3>1. CASE c \in Lookups
      <4>1. /\ w \in Emacs /\ w.sink = "user" /\ w.queue = ui.queue /\ w.pending = ui.pending
            /\ w.open = ui.open /\ ~w.prompting /\ ~w.running
            /\ w.signalled = ui.signalled /\ ~w.flush /\ w.acc = <<>> /\ ~w.errors
            /\ w.tty = <<>> /\ w.shown = ui.shown
        <5>1. CASE w = v
          BY <2>2, <5>1
        <5>2. CASE w = [v EXCEPT !.located = TRUE]
          BY <2>2, <5>2 DEF Emacs
        <5> QED BY <3>1, <2>16, <5>1, <5>2
      <4>2. Queued(w) = Queued(ui) /\ Answering(w) = {} /\ Answering(ui) = {}
        BY <4>1, <2>16, <3>1 DEF Queued, Answering, Asking
      <4>3. Waiting(w) /\ Ordered(w)
        BY <1>2, <4>1, <4>2 DEF Waiting, Blocks, Ordered
      <4> QED BY <4>1, <4>2, <4>3, <2>16, <3>1
    <3>2. CASE c \in Displays
      <4>1. Queued(x) = Queued(ui) /\ Answering(x) = {} /\ Answering(ui) = {c}
        BY <2>4, <3>2 DEF Queued, Answering, Asking
      <4>2. Waiting(x) /\ Ordered(x)
        BY <1>2, <2>4, <4>1 DEF Waiting, Blocks, Ordered
      <4>3. CASE w = x
        BY <2>4, <2>5, <2>6, <4>1, <4>2, <4>3
      <4>4. CASE w # x
        <5> DEFINE y == [x EXCEPT !.queue = <<List>> \o @]
        <5>1. w = [y EXCEPT !.queue = <<InfoSource>> \o @]
          <6>1. w = EnqueueInput(EnqueueInput(x, List), InfoSource)
            BY <2>15, <3>2, <4>4 DEF Custom
          <6>2. EnqueueInput(x, List) = y /\ ~y.running /\ ~y.prompting
            BY <2>4, <2>5 DEF EnqueueInput, Emacs
          <6> HIDE DEF y
          <6> QED BY <6>1, <6>2 DEF EnqueueInput
        <5>2. /\ List \in Items /\ List \notin Displays
              /\ InfoSource \in Items /\ InfoSource \notin Displays
          BY Sorts DEF Items, Lookups
        <5>3. x.queue \in Seq(Items)
          BY <2>5 DEF Emacs
        <5>4. <<List>> \o x.queue \in Seq(Items)
          BY <5>2, <5>3
        <5>5. /\ y \in Emacs /\ y.queue = <<List>> \o x.queue /\ y.sink = x.sink
              /\ y.pending = x.pending /\ y.open = x.open /\ y.current = x.current
              /\ y.prompting = x.prompting /\ y.running = x.running /\ y.signalled = x.signalled
              /\ y.flush = x.flush /\ y.acc = x.acc /\ y.errors = x.errors /\ y.tty = x.tty
              /\ y.shown = x.shown
          <6> DEFINE q == <<List>> \o x.queue
          <6> HIDE DEF q
          <6>1. y = [x EXCEPT !.queue = q] /\ q \in Seq(Items)
            BY <5>4 DEF q
          <6>2. q = <<List>> \o x.queue
            BY DEF q
          <6> HIDE DEF y
          <6> QED BY <2>5, <6>1, <6>2 DEF Emacs
        <5> HIDE DEF y
        <5>6. Waiting(y) /\ Ordered(y) /\ Queued(y) \cap Displays = Queued(x) \cap Displays
          BY <4>2, <5>2, <5>3, <5>5, PutIs
        <5>7. y.queue \in Seq(Items)
          BY <5>4, <5>5
        <5>8. <<InfoSource>> \o y.queue \in Seq(Items)
          BY <5>2, <5>7
        <5>9. /\ w \in Emacs /\ w.queue = <<InfoSource>> \o y.queue /\ w.sink = y.sink
              /\ w.pending = y.pending /\ w.open = y.open /\ w.current = y.current
              /\ w.prompting = y.prompting /\ w.running = y.running /\ w.signalled = y.signalled
              /\ w.flush = y.flush /\ w.acc = y.acc /\ w.errors = y.errors /\ w.tty = y.tty
              /\ w.shown = y.shown
          <6> DEFINE q == <<InfoSource>> \o y.queue
          <6> HIDE DEF q
          <6>1. w = [y EXCEPT !.queue = q] /\ q \in Seq(Items)
            BY <5>1, <5>8 DEF q
          <6>2. q = <<InfoSource>> \o y.queue
            BY DEF q
          <6> QED BY <5>5, <6>1, <6>2 DEF Emacs
        <5>10. Waiting(w) /\ Ordered(w) /\ Queued(w) \cap Displays = Queued(y) \cap Displays
          BY <5>2, <5>6, <5>7, <5>9, PutIs
        <5> QED BY <2>4, <2>6, <4>1, <5>5, <5>6, <5>9, <5>10
      <4> QED BY <4>3, <4>4
    <3> QED BY <1>2, <3>1, <3>2 DEF Requests
  <2> HIDE DEF u
  <2>8. /\ u \in Emacs /\ ~u.flush
        /\ u.pending = w.pending /\ u.running = w.running /\ u.signalled = w.signalled
        /\ u.open = w.open /\ u.io = w.io /\ u.shown = w.shown /\ u.acc = w.acc
        /\ u.errors = w.errors
        /\ Waiting(u) /\ Blocks(u)
        /\ \A b \in Queued(w) \cap Displays : b \in Queued(u) \/ (Asking(u) /\ u.current = b)
        /\ \/ u.prompting /\ u.queue = <<>> /\ u.tty = <<>> /\ u.sink = "user"
           \/ /\ ~u.prompting /\ u.tty = <<u.current>>
              /\ \/ u.current \in Requests /\ u.sink = "pre-emacs" /\ u.partial = <<>>
                 \/ u.current \in Typed /\ u.sink = "user"
    BY <2>3, <2>7, NextInputIs
  <2>9. ui' = u /\ out' = <<>>
    BY <1>1, <2>1, <2>7, <2>8
  <2>10. Types' /\ Grammar' /\ Steady'
    BY <1>1, <1>2, <2>1, <2>7, <2>8, <2>9, TailIs DEF Inv, Types, Steady
  <2>11. Phase'
    BY <1>1, <1>2, <2>7, <2>8, <2>9 DEF Phase, OwnPhase, UserPhase, Asking
  <2>12. Waiting(ui)' /\ Blocks(ui)'
    BY <1>1, <2>8, <2>9
  <2>13. Fresh'
    <3>1. ui.open \subseteq Displays /\ Kind(out[1]) = "prompt"
      BY <1>2, <1>5, <1>10 DEF Emacs, Names
    <3>2. ~Unknown(out)
      BY <3>1 DEF Unknown
    <3>3. ASSUME NEW b \in ui.open
          PROVE  \/ u.shown[b] = <<Output(b, version)>>
                 \/ b \in Queued(u)
                 \/ Asking(u) /\ u.current = b
      <4>1. CASE b = c
        BY <4>1, <2>7, <2>8, <3>1
      <4>2. CASE b # c
        <5>1. ui.shown[b] = <<Output(b, version)>> \/ b \in Queued(ui)
          BY <4>2, <1>2, <3>2 DEF Fresh
        <5> QED BY <4>2, <5>1, <2>7, <2>8, <3>1
      <4> QED BY <4>1, <4>2
    <3> QED BY <1>1, <1>2, <2>7, <2>8, <2>9, <3>3 DEF Fresh
  <2>14. Shown'
    BY <1>2, <2>7, <2>8, <2>9 DEF Shown
  <2> QED BY <2>10, <2>11, <2>12, <2>13, <2>14 DEF Inv
<1>11. \/ /\ ui.sink = "pre-emacs" /\ ui.partial = <<>> /\ ui.tty = <<>>
          /\ out = <<Tag("post-prompt"), Text(c, version), Tag("pre-prompt"), Tag("prompt")>>
       \/ /\ ui.sink = "emacs" /\ ui.tty = <<>> /\ ui.partial = <<>>
          /\ out = <<Text(c, version), Tag("pre-prompt"), Tag("prompt")>>
       \/ /\ ui.sink = "emacs" /\ ui.tty = <<>> /\ ui.partial = answer
          /\ out = <<Tag("pre-prompt"), Tag("prompt")>>
       \/ /\ ui.sink = "post-emacs" /\ ui.tty = <<>> /\ ui.partial = answer
          /\ out = <<Tag("prompt")>>
  BY <1>1, <1>2 DEF OwnPhase
<1> QED BY <1>7, <1>8, <1>9, <1>10, <1>11, <1>12
-----------------------------------------------------------------------------
(* What GDB writes.                                                        *)

LEMMA TagsAre ==
  ASSUME NEW a, NEW b, NEW c
  PROVE  /\ Tags(<<a>>) = <<Tag(a)>>
         /\ Tags(<<a, b>>) = <<Tag(a), Tag(b)>>
         /\ Tags(<<a>> \o <<b>>) = <<Tag(a), Tag(b)>>
         /\ Tags(<<a, b>> \o <<c>>) = <<Tag(a), Tag(b), Tag(c)>>
<1>1. Tags(<<a>>) = <<Tag(a)>>
  BY DEF Tags
<1>2. Tags(<<a, b>>) = <<Tag(a), Tag(b)>>
  BY DEF Tags
<1>3. Tags(<<a>> \o <<b>>) = <<Tag(a), Tag(b)>>
  BY DEF Tags
<1>4. Tags(<<a, b>> \o <<c>>) = <<Tag(a), Tag(b), Tag(c)>>
  BY DEF Tags
<1> QED BY <1>1, <1>2, <1>3, <1>4

LEMMA FourTags ==
  ASSUME NEW a, NEW b, NEW c, NEW d
  PROVE  Tags(<<a, b, c>> \o <<d>>) = <<Tag(a), Tag(b), Tag(c), Tag(d)>>
BY DEF Tags

LEMMA InitInv == Init => Inv
<1> SUFFICES ASSUME Init PROVE Inv
  OBVIOUS
<1>1. PICK shown \in SUBSET Buffers, located \in BOOLEAN :
       ui = [queue |-> <<>>, prompting |-> TRUE, sink |-> "user", current |-> "set",
             pending |-> {}, running |-> FALSE, flush |-> FALSE, signalled |-> FALSE,
             open |-> shown \cup {Frame, Breakpoints}, partial |-> <<>>, io |-> {},
             shown |-> [b \in Displays |-> IF b \in shown \cup {Frame, Breakpoints}
                                           THEN <<Output(b, 0)>> ELSE <<>>],
             acc |-> <<>>, tty |-> <<>>, errors |-> FALSE, located |-> located]
  BY DEF Init
<1>2. gdb = "prompt" /\ version = 0 /\ out = <<>> /\ separate \in BOOLEAN /\ typed = 0
  BY DEF Init
<1> DEFINE open == shown \cup {Frame, Breakpoints}
<1> DEFINE f == [b \in Displays |-> IF b \in open THEN <<Output(b, 0)>> ELSE <<>>]
<1>3. open \in SUBSET Displays /\ Frame \in open
  BY DEF Displays
<1>4. f \in [Displays -> Seq(Outputs)]
  <2> SUFFICES ASSUME NEW b \in Displays PROVE <<Output(b, 0)>> \in Seq(Outputs) /\ <<>> \in Seq(Outputs)
    OBVIOUS
  <2>1. Output(b, 0) \in Outputs
    BY DEF Output, Outputs, Items
  <2> QED BY <2>1
<1>5. /\ \A b \in open : f[b] = <<Output(b, 0)>>
      /\ \A b \in Displays \ open : f[b] = <<>>
  BY <1>3
<1> HIDE DEF f, open
<1>6. /\ ui.queue = <<>> /\ ui.prompting = TRUE /\ ui.sink = "user" /\ ui.current = "set"
      /\ ui.pending = {} /\ ~ui.running /\ ~ui.flush /\ ~ui.signalled
      /\ ui.open = open /\ ui.shown = f /\ ui.acc = <<>> /\ ui.tty = <<>> /\ ~ui.errors
  BY <1>1 DEF open, f
<1>7. ui \in Emacs
  BY <1>1, <1>3, <1>4 DEF Emacs, Sinks, Items, Typed, Commands, open, f
<1>8. Len(ui.queue) = 0 /\ Len(out) = 0 /\ ~Asking(ui)
  BY <1>2, <1>6 DEF Asking
<1>9. Types
  BY <1>2, <1>7, BoundAssumption DEF Types
<1>10. Grammar /\ Steady
  BY <1>2, <1>6, <1>8 DEF Grammar, Steady
<1>11. Phase
  BY <1>2, <1>6, <1>8 DEF Phase, UserPhase
<1>12. Waiting(ui)
  <2>1. Queued(ui) = {} /\ Answering(ui) = {}
    BY <1>8 DEF Queued, In, Answering
  <2> QED BY <2>1, <1>6, <1>8 DEF Waiting
<1>13. Blocks(ui)
  BY <1>8 DEF Blocks, Ordered
<1>14. Fresh
  BY <1>2, <1>3, <1>5, <1>6 DEF Fresh
<1>15. Shown
  BY <1>5, <1>6, <1>3 DEF Shown
<1> QED BY <1>9, <1>10, <1>11, <1>12, <1>13, <1>14, <1>15 DEF Inv
-----------------------------------------------------------------------------
(* GDB reads a line.                                                       *)

Chain(s) == \A i \in 1 .. Len(s) - 1 : MayFollow(Kind(s[i]), Kind(s[i + 1]))

LEMMA TagIs ==
  /\ \A a \in Names : Tag(a) \in Message /\ Tag(a).tag = a /\ (a # "output" => Kind(Tag(a)) = a)
  /\ \A c \in Items \cup {"program"}, v \in Nat : Text(c, v) \in Message
  /\ \A c \in Items, v \in Nat : Kind(Text(c, v)) = "output"
  /\ \A v \in Nat : Kind(Text("program", v)) = "program"
<1>1. Nothing \in Outputs /\ \A c \in Items \cup {"program"}, v \in Nat : Output(c, v) \in Outputs
  BY DEF Nothing, Output, Outputs
<1>2. "program" \notin Items
  BY Sorts
<1>3. \A a \in Names : Tag(a) \in Message /\ Tag(a).tag = a /\ (a # "output" => Kind(Tag(a)) = a)
  BY <1>1 DEF Tag, Message, Kind
<1>4. \A c \in Items \cup {"program"}, v \in Nat : Text(c, v) \in Message
  BY <1>1 DEF Text, Message, Names
<1>5. \A c \in Items, v \in Nat : Kind(Text(c, v)) = "output"
  BY <1>2 DEF Kind, Text, Output
<1>6. \A v \in Nat : Kind(Text("program", v)) = "program"
  BY DEF Kind, Text, Output
<1> QED BY <1>3, <1>4, <1>5, <1>6

(* GDB reads only when all it wrote was received, and what Emacs sent last.*)
LEMMA WhenRead ==
  ASSUME Inv, ui.tty # <<>>, gdb # "run"
  PROVE  /\ out = <<>> /\ ui.tty = <<ui.current>> /\ ~ui.prompting /\ ~ui.running
         /\ \/ /\ Asking(ui) /\ gdb = "prompt" /\ ui.current \in Requests
               /\ ui.sink = "pre-emacs" /\ ui.partial = <<>>
            \/ /\ ~Asking(ui) /\ ui.sink = "user" /\ ui.current \in Typed
               /\ gdb = "query" => ui.current \in Answers
<1>1. Phase /\ ui \in Emacs
  BY DEF Inv, Types
<1>2. CASE Asking(ui)
  BY <1>1, <1>2 DEF Phase, OwnPhase
<1>3. CASE ~Asking(ui)
  <2>1. UserPhase(ui, out, gdb) /\ ui.sink \in {"user", "inferior"}
    BY <1>1, <1>3 DEF Phase, Emacs, Asking, Sinks
  <2>2. out = <<>>
    BY <2>1 DEF UserPhase
  <2> QED BY <1>3, <2>1, <2>2 DEF UserPhase, Answers, Typed
<1> QED BY <1>2, <1>3

LEMMA ReadsIs ==
  ASSUME Inv, gdb # "run", NEW x, NEW tokens \in Seq(Message), NEW next, NEW v \in Nat,
         Reads(x, tokens, next, v)
  PROVE  /\ x = ui.current /\ out' = tokens /\ gdb' = next /\ version' = v
         /\ UNCHANGED <<separate, typed>>
         /\ ui' \in Emacs /\ ui'.tty = <<>> /\ ui'.sink = ui.sink /\ ui'.current = ui.current
         /\ ui'.queue = ui.queue /\ ui'.prompting = ui.prompting /\ ui'.pending = ui.pending
         /\ ui'.running = ui.running /\ ui'.partial = ui.partial /\ ui'.open = ui.open
         /\ ui'.shown = ui.shown
         /\ Asking(ui') <=> Asking(ui)
         /\ Queued(ui') = Queued(ui)
         /\ Waiting(ui)' /\ Blocks(ui)' /\ Steady' /\ Shown'
<1>1. ui.tty # <<>>
  BY DEF Reads
<1>2. out = <<>> /\ ui.tty = <<ui.current>>
  BY <1>1, WhenRead
<1>3. Head(ui.tty) = ui.current /\ Tail(ui.tty) = <<>>
  BY <1>2
<1>4. /\ x = ui.current /\ ui' = [ui EXCEPT !.tty = <<>>] /\ gdb' = next /\ version' = v
      /\ UNCHANGED <<separate, typed>>
  BY <1>3 DEF Reads
<1>5. out' = tokens
  BY <1>2 DEF Reads
<1>6. ui \in Emacs /\ Steady /\ Waiting(ui) /\ Blocks(ui) /\ Shown
  BY DEF Inv, Types
<1>7. /\ ui' \in Emacs /\ ui'.tty = <<>> /\ ui'.sink = ui.sink /\ ui'.current = ui.current
      /\ ui'.queue = ui.queue /\ ui'.prompting = ui.prompting /\ ui'.pending = ui.pending
      /\ ui'.running = ui.running /\ ui'.partial = ui.partial /\ ui'.open = ui.open
      /\ ui'.shown = ui.shown /\ ui'.errors = ui.errors /\ ui'.flush = ui.flush
      /\ ui'.acc = ui.acc /\ ui'.signalled = ui.signalled
  <2> DEFINE w == [ui EXCEPT !.tty = <<>>]
  <2>1. <<>> \in Seq(Items)
    OBVIOUS
  <2>2. w \in Emacs
    BY <1>6, <2>1 DEF Emacs
  <2>3. /\ w.tty = <<>> /\ w.sink = ui.sink /\ w.current = ui.current
        /\ w.queue = ui.queue /\ w.prompting = ui.prompting /\ w.pending = ui.pending
        /\ w.running = ui.running /\ w.partial = ui.partial /\ w.open = ui.open
        /\ w.shown = ui.shown /\ w.errors = ui.errors /\ w.flush = ui.flush
        /\ w.acc = ui.acc /\ w.signalled = ui.signalled
    BY <1>6 DEF Emacs
  <2> HIDE DEF w
  <2>4. ui' = w
    BY <1>4 DEF w
  <2> QED BY <2>2, <2>3, <2>4
<1>8. Asking(ui') <=> Asking(ui)
  BY <1>7 DEF Asking
<1>9. Waiting(ui') /\ Blocks(ui') /\ Queued(ui') = Queued(ui)
  BY <1>6, <1>7, <1>8, SameQueue
<1>10. Waiting(ui)' /\ Blocks(ui)'
  BY <1>4, <1>9
<1>11. Steady' /\ Shown'
  BY <1>4, <1>6, <1>7 DEF Steady, Shown
<1> QED BY <1>4, <1>5, <1>7, <1>8, <1>9, <1>10, <1>11

(* A line of the user was read: what GDB wrote first is for the user.      *)
LEMMA UserRead ==
  ASSUME Inv, gdb # "run", NEW x, NEW tokens \in Seq(Message), NEW next, NEW v \in Nat,
         Reads(x, tokens, next, v), ~Asking(ui), next \in {"prompt", "query", "run"},
         tokens # <<>>, Chain(tokens), Kind(tokens[Len(tokens)]) = EndOf(next),
         Kind(tokens[1]) \in {"post-prompt", "output", "pre-prompt", "prompt", "query", "starting"},
         \A i \in 1 .. Len(tokens) : Kind(tokens[i]) \notin StopKinds,
         \/ v = version \/ Unknown(tokens) \/ gdb = "query",
         next = "prompt" \/ Unknown(tokens) \/ gdb = "query"
  PROVE  Inv'
<1>1. /\ x = ui.current /\ out' = tokens /\ gdb' = next /\ version' = v
      /\ UNCHANGED <<separate, typed>>
      /\ ui' \in Emacs /\ ui'.tty = <<>> /\ ui'.sink = ui.sink /\ ui'.current = ui.current
      /\ ui'.queue = ui.queue /\ ui'.prompting = ui.prompting /\ ui'.pending = ui.pending
      /\ ui'.running = ui.running /\ ui'.partial = ui.partial /\ ui'.open = ui.open
      /\ ui'.shown = ui.shown
      /\ Asking(ui') <=> Asking(ui)
      /\ Queued(ui') = Queued(ui)
      /\ Waiting(ui)' /\ Blocks(ui)' /\ Steady' /\ Shown'
  BY ReadsIs
<1>2. /\ out = <<>> /\ ~ui.prompting /\ ~ui.running /\ ui.sink = "user"
  <2>1. ui.tty # <<>>
    BY DEF Reads
  <2> QED BY <2>1, WhenRead
<1>3. Types'
  BY <1>1 DEF Inv, Types
<1>4. Grammar'
  BY <1>1 DEF Grammar, Chain, StopKinds
<1>5. Phase'
  <2>1. UserPhase(ui, out, gdb)'
    BY <1>1, <1>2 DEF UserPhase, Heads
  <2> QED BY <2>1, <1>1 DEF Phase
<1>6. Fresh'
  <2>1. Fresh /\ Blocks(ui) /\ Waiting(ui) /\ ~Unknown(out)
    BY <1>2 DEF Inv, Unknown
  <2>2. CASE gdb = "query"
    <3>1. ui.open \subseteq Queued(ui)
      BY <2>1, <2>2 DEF Fresh
    <3> QED BY <1>1, <2>1, <3>1 DEF Fresh
  <2>3. CASE Unknown(tokens)
    <3>1. CASE ui.pending = {}
      BY <1>1, <2>1, <2>3, <3>1 DEF Fresh
    <3>2. CASE ui.pending # {}
      <4>1. \E i \in 1 .. Len(ui.queue) : ui.queue[i] \in Displays
        BY <2>1, <3>2 DEF Waiting, Answering, Queued, In
      <4>2. ui.open \subseteq Queued(ui)
        BY <2>1, <4>1 DEF Blocks
      <4> QED BY <1>1, <2>1, <4>2 DEF Fresh
    <3> QED BY <3>1, <3>2
  <2>4. CASE v = version /\ next = "prompt" /\ ~Unknown(tokens)
    BY <1>1, <2>1, <2>4 DEF Fresh
  <2> QED BY <2>2, <2>3, <2>4
<1> QED BY <1>1, <1>3, <1>4, <1>5, <1>6 DEF Inv

(* The texts GDB writes, one message after the other.                      *)
LEMMA ChainIs ==
  ASSUME NEW a \in Message, NEW b \in Message, NEW c \in Message, NEW d \in Message
  PROVE  /\ <<a>> \in Seq(Message) /\ Chain(<<a>>)
         /\ <<a, b>> \in Seq(Message) /\ (MayFollow(Kind(a), Kind(b)) => Chain(<<a, b>>))
         /\ <<a, b, c>> \in Seq(Message)
         /\ MayFollow(Kind(a), Kind(b)) /\ MayFollow(Kind(b), Kind(c)) => Chain(<<a, b, c>>)
         /\ <<a, b, c, d>> \in Seq(Message)
         /\ (/\ MayFollow(Kind(a), Kind(b)) /\ MayFollow(Kind(b), Kind(c))
             /\ MayFollow(Kind(c), Kind(d))) => Chain(<<a, b, c, d>>)
<1>1. <<a>> \in Seq(Message) /\ Chain(<<a>>)
  BY DEF Chain
<1>2. <<a, b>> \in Seq(Message) /\ (MayFollow(Kind(a), Kind(b)) => Chain(<<a, b>>))
  <2> DEFINE s == <<a, b>>
  <2>1. s \in Seq(Message) /\ Len(s) = 2 /\ s[1] = a /\ s[2] = b
    OBVIOUS
  <2> HIDE DEF s
  <2>2. MayFollow(Kind(a), Kind(b)) => Chain(s)
    BY <2>1 DEF Chain
  <2> QED BY <2>1, <2>2 DEF s
<1>3. /\ <<a, b, c>> \in Seq(Message)
      /\ MayFollow(Kind(a), Kind(b)) /\ MayFollow(Kind(b), Kind(c)) => Chain(<<a, b, c>>)
  <2> DEFINE s == <<a, b, c>>
  <2>1. s \in Seq(Message) /\ Len(s) = 3 /\ s[1] = a /\ s[2] = b /\ s[3] = c
    OBVIOUS
  <2> HIDE DEF s
  <2>2. MayFollow(Kind(a), Kind(b)) /\ MayFollow(Kind(b), Kind(c)) => Chain(s)
    <3>1. \A i \in 1 .. 2 : i = 1 \/ i = 2
      OBVIOUS
    <3> QED BY <2>1, <3>1 DEF Chain
  <2> QED BY <2>1, <2>2 DEF s
<1>4. /\ <<a, b, c, d>> \in Seq(Message)
      /\ (/\ MayFollow(Kind(a), Kind(b)) /\ MayFollow(Kind(b), Kind(c))
          /\ MayFollow(Kind(c), Kind(d))) => Chain(<<a, b, c, d>>)
  <2> DEFINE s == <<a, b, c, d>>
  <2>1. s \in Seq(Message) /\ Len(s) = 4 /\ s[1] = a /\ s[2] = b /\ s[3] = c /\ s[4] = d
    OBVIOUS
  <2> HIDE DEF s
  <2>2. (/\ MayFollow(Kind(a), Kind(b)) /\ MayFollow(Kind(b), Kind(c))
         /\ MayFollow(Kind(c), Kind(d))) => Chain(s)
    <3>1. \A i \in 1 .. 3 : i = 1 \/ i = 2 \/ i = 3
      OBVIOUS
    <3> QED BY <2>1, <3>1 DEF Chain
  <2> QED BY <2>1, <2>2 DEF s
<1> QED BY <1>1, <1>2, <1>3, <1>4

LEMMA ConcatSame ==
  ASSUME NEW S, NEW s \in Seq(S), NEW r \in Seq(S), NEW t \in Seq(S), Len(t) = Len(s) + Len(r),
         \A i \in 1 .. Len(s) : t[i] = s[i],
         \A i \in 1 .. Len(r) : t[Len(s) + i] = r[i]
  PROVE  s \o r = t
<1> DEFINE c == s \o r
<1>1. /\ c \in Seq(S) /\ Len(c) = Len(s) + Len(r) /\ Len(s) \in Nat /\ Len(r) \in Nat
      /\ \A i \in 1 .. Len(s) + Len(r) : c[i] = IF i <= Len(s) THEN s[i] ELSE r[i - Len(s)]
  BY ConcatProperties
<1> HIDE DEF c
<1>2. ASSUME NEW i \in 1 .. Len(c) PROVE c[i] = t[i]
  <2>1. CASE i <= Len(s)
    BY <1>1, <2>1
  <2>2. CASE ~(i <= Len(s))
    <3>1. i - Len(s) \in 1 .. Len(r) /\ Len(s) + (i - Len(s)) = i
      BY <1>1, <2>2
    <3>2. c[i] = r[i - Len(s)]
      BY <1>1, <2>2
    <3>3. t[Len(s) + (i - Len(s))] = r[i - Len(s)]
      BY <3>1
    <3> QED BY <3>1, <3>2, <3>3
  <2> QED BY <2>1, <2>2
<1>3. c = t
  BY <1>1, <1>2, SeqEqual
<1> QED BY <1>3 DEF c

LEMMA Join1And1 ==
  ASSUME NEW a, NEW b
  PROVE  <<a>> \o <<b>> = <<a, b>>
<1> DEFINE S == {a, b}
<1> DEFINE s == <<a>>
<1> DEFINE r == <<b>>
<1> DEFINE t == <<a, b>>
<1>1. /\ s \in Seq(S) /\ Len(s) = 1 /\ s[1] = a
      /\ r \in Seq(S) /\ Len(r) = 1 /\ r[1] = b
      /\ t \in Seq(S) /\ Len(t) = 2 /\ t[1] = a /\ t[2] = b
  OBVIOUS
<1> HIDE DEF s, r, t, S
<1>2. /\ \A i \in 1 .. Len(s) : t[i] = s[i]
      /\ \A i \in 1 .. Len(r) : t[Len(s) + i] = r[i]
  <2>1. \A i \in 1 .. 2 : i = 1 \/ i = 2
    OBVIOUS
  <2> QED BY <1>1, <2>1
<1>3. s \in Seq(S) /\ r \in Seq(S) /\ t \in Seq(S) /\ Len(t) = Len(s) + Len(r)
  BY <1>1
<1>4. s \o r = t
  BY <1>2, <1>3, ConcatSame, Zenon
<1> QED BY <1>4 DEF s, r, t

LEMMA Join1And2 ==
  ASSUME NEW a, NEW b, NEW c
  PROVE  <<a>> \o <<b, c>> = <<a, b, c>>
<1> DEFINE S == {a, b, c}
<1> DEFINE s == <<a>>
<1> DEFINE r == <<b, c>>
<1> DEFINE t == <<a, b, c>>
<1>1. /\ s \in Seq(S) /\ Len(s) = 1 /\ s[1] = a
      /\ r \in Seq(S) /\ Len(r) = 2 /\ r[1] = b /\ r[2] = c
      /\ t \in Seq(S) /\ Len(t) = 3 /\ t[1] = a /\ t[2] = b /\ t[3] = c
  OBVIOUS
<1> HIDE DEF s, r, t, S
<1>2. /\ \A i \in 1 .. Len(s) : t[i] = s[i]
      /\ \A i \in 1 .. Len(r) : t[Len(s) + i] = r[i]
  <2>1. \A i \in 1 .. 2 : i = 1 \/ i = 2
    OBVIOUS
  <2> QED BY <1>1, <2>1
<1>3. s \in Seq(S) /\ r \in Seq(S) /\ t \in Seq(S) /\ Len(t) = Len(s) + Len(r)
  BY <1>1
<1>4. s \o r = t
  BY <1>2, <1>3, ConcatSame, Zenon
<1> QED BY <1>4 DEF s, r, t

LEMMA Join2And1 ==
  ASSUME NEW a, NEW b, NEW c
  PROVE  <<a, b>> \o <<c>> = <<a, b, c>>
<1> DEFINE S == {a, b, c}
<1> DEFINE s == <<a, b>>
<1> DEFINE r == <<c>>
<1> DEFINE t == <<a, b, c>>
<1>1. /\ s \in Seq(S) /\ Len(s) = 2 /\ s[1] = a /\ s[2] = b
      /\ r \in Seq(S) /\ Len(r) = 1 /\ r[1] = c
      /\ t \in Seq(S) /\ Len(t) = 3 /\ t[1] = a /\ t[2] = b /\ t[3] = c
  OBVIOUS
<1> HIDE DEF s, r, t, S
<1>2. /\ \A i \in 1 .. Len(s) : t[i] = s[i]
      /\ \A i \in 1 .. Len(r) : t[Len(s) + i] = r[i]
  <2>1. \A i \in 1 .. 2 : i = 1 \/ i = 2
    OBVIOUS
  <2> QED BY <1>1, <2>1
<1>3. s \in Seq(S) /\ r \in Seq(S) /\ t \in Seq(S) /\ Len(t) = Len(s) + Len(r)
  BY <1>1
<1>4. s \o r = t
  BY <1>2, <1>3, ConcatSame, Zenon
<1> QED BY <1>4 DEF s, r, t

LEMMA Join2And2 ==
  ASSUME NEW a, NEW b, NEW c, NEW d
  PROVE  <<a, b>> \o <<c, d>> = <<a, b, c, d>>
<1> DEFINE S == {a, b, c, d}
<1> DEFINE s == <<a, b>>
<1> DEFINE r == <<c, d>>
<1> DEFINE t == <<a, b, c, d>>
<1>1. /\ s \in Seq(S) /\ Len(s) = 2 /\ s[1] = a /\ s[2] = b
      /\ r \in Seq(S) /\ Len(r) = 2 /\ r[1] = c /\ r[2] = d
      /\ t \in Seq(S) /\ Len(t) = 4 /\ t[1] = a /\ t[2] = b /\ t[3] = c /\ t[4] = d
  OBVIOUS
<1> HIDE DEF s, r, t, S
<1>2. /\ \A i \in 1 .. Len(s) : t[i] = s[i]
      /\ \A i \in 1 .. Len(r) : t[Len(s) + i] = r[i]
  <2>1. \A i \in 1 .. 2 : i = 1 \/ i = 2
    OBVIOUS
  <2> QED BY <1>1, <2>1
<1>3. s \in Seq(S) /\ r \in Seq(S) /\ t \in Seq(S) /\ Len(t) = Len(s) + Len(r)
  BY <1>1
<1>4. s \o r = t
  BY <1>2, <1>3, ConcatSame, Zenon
<1> QED BY <1>4 DEF s, r, t

LEMMA GdbShowsInv == ASSUME Inv, GdbShows PROVE Inv'
<1>1. PICK x \in Displays \cup Lookups \cup {"yes", "text"} :
        Reads(x, Tags(<<"post-prompt">>) \o <<Text(x, version)>> \o AtPrompt, "prompt", version)
  BY DEF GdbShows
<1>2. gdb = "prompt" /\ version \in Nat /\ x \in Items
  BY <1>1 DEF GdbShows, Inv, Types, Items, Typed
<1> DEFINE a == Tag("post-prompt")
<1> DEFINE b == Text(x, version)
<1> DEFINE c == Tag("pre-prompt")
<1> DEFINE d == Tag("prompt")
<1> DEFINE tokens == <<a, b, c, d>>
<1>3. /\ a \in Message /\ b \in Message /\ c \in Message /\ d \in Message
      /\ Kind(a) = "post-prompt" /\ Kind(b) = "output" /\ Kind(c) = "pre-prompt" /\ Kind(d) = "prompt"
  BY <1>2, TagIs DEF Names
<1>4. Tags(<<"post-prompt">>) \o <<b>> \o AtPrompt = tokens
  <2>1. Tags(<<"post-prompt">>) = <<a>> /\ AtPrompt = <<c, d>>
    BY TagsAre DEF AtPrompt
  <2> HIDE DEF a, b, c, d
  <2>2. <<a>> \o <<b>> = <<a, b>>
    BY Join1And1, Zenon
  <2>3. <<a, b>> \o <<c, d>> = <<a, b, c, d>>
    BY Join2And2, Zenon
  <2> QED BY <2>1, <2>2, <2>3
<1>5. Reads(x, tokens, "prompt", version)
  BY <1>1, <1>4
<1> HIDE DEF a, b, c, d
<1>6. tokens \in Seq(Message) /\ Chain(tokens)
  BY <1>3, ChainIs DEF MayFollow
<1>7. /\ Len(tokens) = 4 /\ tokens # <<>> /\ tokens[1] = a /\ tokens[2] = b /\ tokens[3] = c
      /\ tokens[4] = d
  OBVIOUS
<1>8. Kind(tokens[Len(tokens)]) = EndOf("prompt") /\ Kind(tokens[1]) = "post-prompt"
  BY <1>3, <1>7 DEF EndOf
<1>9. \A i \in 1 .. Len(tokens) : Kind(tokens[i]) \notin StopKinds
  <2>1. \A i \in 1 .. 4 : i = 1 \/ i = 2 \/ i = 3 \/ i = 4
    OBVIOUS
  <2> HIDE DEF tokens
  <2> QED BY <1>3, <1>7, <2>1 DEF StopKinds
<1>10. CASE ~Asking(ui)
  <2> HIDE DEF tokens
  <2> QED BY <1>2, <1>5, <1>6, <1>7, <1>8, <1>9, <1>10, UserRead
<1>11. CASE Asking(ui)
  <2>1. /\ x = ui.current /\ out' = tokens /\ gdb' = "prompt" /\ version' = version
        /\ UNCHANGED <<separate, typed>>
        /\ ui' \in Emacs /\ ui'.tty = <<>> /\ ui'.sink = ui.sink /\ ui'.current = ui.current
        /\ ui'.queue = ui.queue /\ ui'.prompting = ui.prompting /\ ui'.pending = ui.pending
        /\ ui'.running = ui.running /\ ui'.partial = ui.partial /\ ui'.open = ui.open
        /\ ui'.shown = ui.shown
        /\ Asking(ui') <=> Asking(ui)
        /\ Queued(ui') = Queued(ui)
        /\ Waiting(ui)' /\ Blocks(ui)' /\ Steady' /\ Shown'
    <3> HIDE DEF tokens
    <3> QED BY <1>2, <1>5, <1>6, ReadsIs
  <2>2. /\ out = <<>> /\ ~ui.prompting /\ ~ui.running /\ ui.current \in Requests
        /\ ui.sink = "pre-emacs" /\ ui.partial = <<>>
    <3>1. ui.tty # <<>>
      BY <1>5 DEF Reads
    <3> QED BY <1>2, <1>11, <3>1, WhenRead
  <2>3. out' = <<Tag("post-prompt"), Text(ui.current, version), Tag("pre-prompt"), Tag("prompt")>>
    BY <2>1 DEF a, b, c, d
  <2> HIDE DEF tokens
  <2>4. Types'
    BY <1>2, <1>6, <2>1 DEF Inv, Types
  <2>5. Grammar'
    BY <1>6, <1>8, <1>9, <2>1 DEF Grammar, Chain, StopKinds
  <2>6. Phase'
    BY <1>11, <2>1, <2>2, <2>3 DEF Phase, OwnPhase
  <2>7. Fresh'
    <3>1. Fresh /\ ~Unknown(out)
      BY <2>2 DEF Inv, Unknown
    <3> QED BY <1>11, <2>1, <3>1 DEF Fresh
  <2> QED BY <2>1, <2>4, <2>5, <2>6, <2>7 DEF Inv
<1> QED BY <1>10, <1>11

(* The lines at which GDB does not only show something.                    *)
LEMMA GdbActsInv == ASSUME Inv, GdbSets \/ GdbAsks \/ GdbRuns PROVE Inv'
<1> DEFINE a == Tag("post-prompt")
<1>1. /\ gdb = "prompt" /\ version \in Nat /\ version + 1 \in Nat
      /\ a \in Message /\ Kind(a) = "post-prompt" /\ Tags(<<"post-prompt">>) = <<a>>
  <2>1. gdb = "prompt" /\ version \in Nat /\ version + 1 \in Nat
    BY DEF GdbSets, GdbAsks, GdbRuns, Inv, Types
  <2>2. a \in Message /\ Kind(a) = "post-prompt" /\ Tags(<<"post-prompt">>) = <<a>>
    BY TagIs, TagsAre DEF Names
  <2> QED BY <2>1, <2>2
<1>2. ASSUME ui.current \in Typed, ui.tty # <<>> PROVE ~Asking(ui)
  <2>1. ui.current \notin Requests
    BY <1>2, Sorts
  <2> QED BY <1>1, <1>2, <2>1, WhenRead
<1>3. ASSUME NEW x \in Typed, NEW tokens \in Seq(Message), NEW next, NEW v, Reads(x, tokens, next, v)
      PROVE  ~Asking(ui)
  <2>1. ui.tty # <<>> /\ Head(ui.tty) = x
    BY <1>3 DEF Reads
  <2>2. ui.tty = <<ui.current>>
    BY <1>1, <2>1, WhenRead
  <2>3. x = ui.current
    BY <2>1, <2>2
  <2> QED BY <1>2, <1>3, <2>1, <2>3
<1> HIDE DEF a
<1>4. CASE GdbSets
  <2> DEFINE c == Tag("pre-prompt")
  <2> DEFINE d == Tag("prompt")
  <2> DEFINE tokens == <<a, c, d>>
  <2>1. /\ c \in Message /\ d \in Message /\ Kind(c) = "pre-prompt" /\ Kind(d) = "prompt"
        /\ AtPrompt = <<c, d>>
    BY TagIs, TagsAre DEF Names, AtPrompt
  <2> HIDE DEF c, d
  <2>2. Tags(<<"post-prompt">>) \o AtPrompt = tokens
    BY <1>1, <2>1, Join1And2, Zenon
  <2>3. Reads("set", tokens, "prompt", version + 1)
    BY <1>4, <2>2 DEF GdbSets
  <2>4. tokens \in Seq(Message) /\ Chain(tokens)
    BY <1>1, <2>1, ChainIs DEF MayFollow
  <2>5. Len(tokens) = 3 /\ tokens # <<>> /\ tokens[1] = a /\ tokens[2] = c /\ tokens[3] = d
    OBVIOUS
  <2> HIDE DEF tokens
  <2>6. \A i \in 1 .. Len(tokens) : Kind(tokens[i]) \notin StopKinds
    <3>1. \A i \in 1 .. 3 : i = 1 \/ i = 2 \/ i = 3
      OBVIOUS
    <3> QED BY <1>1, <2>1, <2>5, <3>1 DEF StopKinds
  <2>7. Kind(tokens[Len(tokens)]) = EndOf("prompt") /\ Unknown(tokens) /\ Kind(tokens[1]) = "post-prompt"
    BY <1>1, <2>1, <2>5 DEF EndOf, Unknown
  <2>8. "set" \in Typed
    BY DEF Typed, Commands
  <2>9. ~Asking(ui)
    BY <1>3, <2>3, <2>4, <2>8
  <2> QED BY <1>1, <2>3, <2>4, <2>5, <2>6, <2>7, <2>9, UserRead
<1>5. CASE GdbAsks
  <2> DEFINE c == Tag("query")
  <2> DEFINE tokens == <<a, c>>
  <2>1. c \in Message /\ Kind(c) = "query" /\ Tags(<<"post-prompt", "query">>) = tokens
    BY TagIs, TagsAre DEF Names, a
  <2> HIDE DEF c
  <2>2. Reads("ask", tokens, "query", version)
    BY <1>5, <2>1 DEF GdbAsks
  <2>3. tokens \in Seq(Message) /\ Chain(tokens)
    BY <1>1, <2>1, ChainIs DEF MayFollow
  <2>4. Len(tokens) = 2 /\ tokens # <<>> /\ tokens[1] = a /\ tokens[2] = c
    OBVIOUS
  <2> HIDE DEF tokens
  <2>5. \A i \in 1 .. Len(tokens) : Kind(tokens[i]) \notin StopKinds
    <3>1. \A i \in 1 .. 2 : i = 1 \/ i = 2
      OBVIOUS
    <3> QED BY <1>1, <2>1, <2>4, <3>1 DEF StopKinds
  <2>6. Kind(tokens[Len(tokens)]) = EndOf("query") /\ Unknown(tokens) /\ Kind(tokens[1]) = "post-prompt"
    BY <1>1, <2>1, <2>4 DEF EndOf, Unknown
  <2>7. "ask" \in Typed
    BY DEF Typed, Commands
  <2>8. ~Asking(ui)
    BY <1>3, <2>2, <2>3, <2>7
  <2> QED BY <1>1, <2>2, <2>3, <2>4, <2>5, <2>6, <2>8, UserRead
<1>6. CASE GdbRuns
  <2> DEFINE c == Tag("starting")
  <2> DEFINE d == Text("program", version)
  <2> DEFINE tokens == <<a, c, d>>
  <2>1. /\ c \in Message /\ d \in Message /\ Kind(c) = "starting" /\ Kind(d) = "program"
        /\ Tags(<<"post-prompt", "starting">>) = <<a, c>>
    BY <1>1, TagIs, TagsAre DEF Names, a
  <2>2. Tags(<<"post-prompt", "starting">>) \o <<d>> = tokens
    <3> HIDE DEF c, d
    <3> QED BY <2>1, Join2And1, Zenon
  <2>3. Reads("go", tokens, "run", version)
    BY <1>6, <2>2 DEF GdbRuns
  <2> HIDE DEF c, d
  <2>4. tokens \in Seq(Message) /\ Chain(tokens)
    BY <1>1, <2>1, ChainIs DEF MayFollow
  <2>5. Len(tokens) = 3 /\ tokens # <<>> /\ tokens[1] = a /\ tokens[2] = c /\ tokens[3] = d
    OBVIOUS
  <2> HIDE DEF tokens
  <2>6. \A i \in 1 .. Len(tokens) : Kind(tokens[i]) \notin StopKinds
    <3>1. \A i \in 1 .. 3 : i = 1 \/ i = 2 \/ i = 3
      OBVIOUS
    <3> QED BY <1>1, <2>1, <2>5, <3>1 DEF StopKinds
  <2>7. Kind(tokens[Len(tokens)]) = EndOf("run") /\ Unknown(tokens) /\ Kind(tokens[1]) = "post-prompt"
    BY <1>1, <2>1, <2>5 DEF EndOf, Unknown
  <2>8. "go" \in Typed
    BY DEF Typed, Commands
  <2>9. ~Asking(ui)
    BY <1>3, <2>3, <2>4, <2>8
  <2> QED BY <1>1, <2>3, <2>4, <2>5, <2>6, <2>7, <2>9, UserRead
<1> QED BY <1>4, <1>5, <1>6

LEMMA GdbIsAnsweredInv == ASSUME Inv, GdbIsAnswered PROVE Inv'
<1>1. gdb = "query" /\ version \in Nat /\ version + 1 \in Nat
  BY DEF GdbIsAnswered, Inv, Types
<1>2. ASSUME ui.tty # <<>> PROVE ~Asking(ui)
  BY <1>1, <1>2, WhenRead
<1>3. CASE Reads("yes", AtPrompt, "prompt", version + 1)
  <2> DEFINE c == Tag("pre-prompt")
  <2> DEFINE d == Tag("prompt")
  <2> DEFINE tokens == <<c, d>>
  <2>1. /\ c \in Message /\ d \in Message /\ Kind(c) = "pre-prompt" /\ Kind(d) = "prompt"
        /\ AtPrompt = tokens
    BY TagIs, TagsAre DEF Names, AtPrompt
  <2> HIDE DEF c, d
  <2>2. Reads("yes", tokens, "prompt", version + 1) /\ ~Asking(ui)
    BY <1>2, <1>3, <2>1 DEF Reads
  <2>3. tokens \in Seq(Message) /\ Chain(tokens)
    BY <2>1, ChainIs DEF MayFollow
  <2>4. Len(tokens) = 2 /\ tokens # <<>> /\ tokens[1] = c /\ tokens[2] = d
    OBVIOUS
  <2> HIDE DEF tokens
  <2>5. \A i \in 1 .. Len(tokens) : Kind(tokens[i]) \notin StopKinds
    <3>1. \A i \in 1 .. 2 : i = 1 \/ i = 2
      OBVIOUS
    <3> QED BY <2>1, <2>4, <3>1 DEF StopKinds
  <2>6. Kind(tokens[Len(tokens)]) = EndOf("prompt") /\ Kind(tokens[1]) = "pre-prompt"
    BY <2>1, <2>4 DEF EndOf
  <2> QED BY <1>1, <2>2, <2>3, <2>4, <2>5, <2>6, UserRead
<1>4. CASE \E x \in Items \ {"yes"} : Reads(x, Tags(<<"query">>), "query", version)
  <2>1. PICK x : Reads(x, Tags(<<"query">>), "query", version)
    BY <1>4
  <2> DEFINE c == Tag("query")
  <2> DEFINE tokens == <<c>>
  <2>2. c \in Message /\ Kind(c) = "query" /\ Tags(<<"query">>) = tokens
    BY TagIs, TagsAre DEF Names
  <2> HIDE DEF c
  <2>3. Reads(x, tokens, "query", version) /\ ~Asking(ui)
    BY <1>2, <2>1, <2>2 DEF Reads
  <2>4. tokens \in Seq(Message) /\ Chain(tokens)
    BY <2>2, ChainIs
  <2>5. Len(tokens) = 1 /\ tokens # <<>> /\ tokens[1] = c
    OBVIOUS
  <2> HIDE DEF tokens
  <2>6. \A i \in 1 .. Len(tokens) : Kind(tokens[i]) \notin StopKinds
    BY <2>2, <2>5 DEF StopKinds
  <2>7. Kind(tokens[Len(tokens)]) = EndOf("query") /\ Kind(tokens[1]) = "query"
    BY <2>2, <2>5 DEF EndOf
  <2> QED BY <1>1, <2>3, <2>4, <2>5, <2>6, <2>7, UserRead
<1> QED BY <1>3, <1>4 DEF GdbIsAnswered
-----------------------------------------------------------------------------
(* The program.                                                            *)

LEMMA ChainConcat ==
  ASSUME NEW s \in Seq(Message), NEW t \in Seq(Message), t # <<>>, Chain(s), Chain(t),
         s # <<>> => MayFollow(Kind(s[Len(s)]), Kind(t[1]))
  PROVE  /\ s \o t \in Seq(Message) /\ s \o t # <<>> /\ Chain(s \o t)
         /\ Kind((s \o t)[Len(s \o t)]) = Kind(t[Len(t)])
         /\ s # <<>> => (s \o t)[1] = s[1]
         /\ s = <<>> => (s \o t)[1] = t[1]
         /\ In(s \o t) = In(s) \cup In(t)
<1> DEFINE c == s \o t
<1>1. /\ c \in Seq(Message) /\ Len(c) = Len(s) + Len(t)
      /\ \A i \in 1 .. Len(s) : c[i] = s[i]
      /\ \A i \in 1 .. Len(t) : c[Len(s) + i] = t[i]
      /\ In(c) = In(s) \cup In(t)
  BY ConcatIs
<1>2. Len(s) \in Nat /\ Len(t) \in Nat \ {0} /\ (s # <<>> => Len(s) \in Nat \ {0}) /\ (s = <<>> => Len(s) = 0)
  BY EmptySeq
<1> HIDE DEF c
<1>3. c # <<>>
  BY <1>1, <1>2
<1>4. Kind(c[Len(c)]) = Kind(t[Len(t)])
  BY <1>1, <1>2
<1>5. /\ s # <<>> => c[1] = s[1]
      /\ s = <<>> => c[1] = t[1]
  <2>1. CASE s # <<>>
    BY <1>1, <1>2, <2>1
  <2>2. CASE s = <<>>
    <3>1. 1 \in 1 .. Len(t) /\ Len(s) + 1 = 1
      BY <1>2, <2>2
    <3> QED BY <1>1, <2>2, <3>1
  <2> QED BY <2>1, <2>2
<1>6. ASSUME NEW i \in 1 .. Len(c) - 1 PROVE MayFollow(Kind(c[i]), Kind(c[i + 1]))
  <2>1. CASE i + 1 <= Len(s)
    <3>1. i \in 1 .. Len(s) - 1 /\ i \in 1 .. Len(s) /\ i + 1 \in 1 .. Len(s)
      BY <1>2, <2>1
    <3>2. c[i] = s[i] /\ c[i + 1] = s[i + 1]
      BY <1>1, <3>1
    <3> QED BY <3>1, <3>2 DEF Chain
  <2>2. CASE i = Len(s)
    <3>1. s # <<>> /\ i \in 1 .. Len(s) /\ 1 \in 1 .. Len(t)
      BY <1>2, <2>2
    <3>2. c[i] = s[i] /\ c[i + 1] = t[1]
      BY <1>1, <2>2, <3>1
    <3> QED BY <2>2, <3>1, <3>2
  <2>3. CASE i > Len(s)
    <3> DEFINE j == i - Len(s)
    <3>1. /\ j \in 1 .. Len(t) - 1 /\ j \in 1 .. Len(t) /\ j + 1 \in 1 .. Len(t)
          /\ Len(s) + j = i /\ Len(s) + (j + 1) = i + 1
      BY <1>1, <1>2, <2>3
    <3> HIDE DEF j
    <3>2. c[Len(s) + j] = t[j] /\ c[Len(s) + (j + 1)] = t[j + 1]
      BY <1>1, <3>1
    <3> QED BY <3>1, <3>2 DEF Chain
  <2> QED BY <1>1, <1>2, <2>1, <2>2, <2>3
<1>7. Chain(c)
  BY <1>6 DEF Chain
<1> QED BY <1>1, <1>3, <1>4, <1>5, <1>7 DEF c

(* The program stops: a refresh follows, or will be begun.                 *)
LEMMA StopsInv ==
  ASSUME Inv, gdb = "run", ui.tty = <<>>, NEW t \in Seq(Message), t # <<>>, Chain(t),
         Kind(t[Len(t)]) = "prompt",
         Kind(t[1]) \in {"breakpoint", "signal", "frame-begin", "exited", "signalled"},
         Kind(t[1]) = "signalled" => ~separate,
         \A m \in In(t) : Kind(m) = "signalled" => ~separate,
         out' = out \o t, gdb' = "prompt", version' = version + 1, UNCHANGED <<ui, separate, typed>>
  PROVE  Inv'
<1>1. /\ ui \in Emacs /\ out \in Seq(Message) /\ version \in Nat /\ Grammar /\ Steady /\ Phase
      /\ Waiting(ui) /\ Blocks(ui) /\ Fresh /\ Shown
  BY DEF Inv, Types
<1>2. ~Asking(ui) /\ UserPhase(ui, out, gdb)
  BY <1>1 DEF Phase
<1>3. /\ ~ui.prompting
      /\ out = <<>> => ui.running /\ (separate => ui.sink = "inferior")
      /\ out # <<>> => Kind(out[1]) \in Heads(ui)
      /\ ui.sink = "inferior" => ui.running /\ separate
  BY <1>2 DEF UserPhase
<1>4. Chain(out) /\ (out # <<>> => Kind(out[Len(out)]) = "program")
  BY <1>1 DEF Grammar, Chain, EndOf
<1>5. /\ out' \in Seq(Message) /\ out' # <<>> /\ Chain(out')
      /\ Kind(out'[Len(out')]) = "prompt"
      /\ out # <<>> => out'[1] = out[1]
      /\ out = <<>> => out'[1] = t[1]
      /\ In(out') = In(out) \cup In(t)
  <2>1. out # <<>> => MayFollow(Kind(out[Len(out)]), Kind(t[1]))
    BY <1>4 DEF MayFollow
  <2>2. /\ out \o t \in Seq(Message) /\ out \o t # <<>> /\ Chain(out \o t)
        /\ Kind((out \o t)[Len(out \o t)]) = Kind(t[Len(t)])
        /\ out # <<>> => (out \o t)[1] = out[1]
        /\ out = <<>> => (out \o t)[1] = t[1]
        /\ In(out \o t) = In(out) \cup In(t)
    BY <1>1, <1>4, <2>1, ChainConcat
  <2> DEFINE c == out \o t
  <2> HIDE DEF c
  <2>3. out' = c
    BY DEF c
  <2> QED BY <2>2, <2>3 DEF c
<1>6. Types'
  BY <1>1, <1>5 DEF Inv, Types
<1>7. Grammar'
  <2>1. \A m \in In(out) : Kind(m) = "signalled" => ~separate
    BY <1>1 DEF Grammar, In
  <2>2. \A m \in In(out') : Kind(m) = "signalled" => ~separate
    BY <1>5, <2>1
  <2>3. \A i \in 1 .. Len(out') : Kind(out'[i]) = "signalled" => ~separate
    BY <2>2 DEF In
  <2> QED BY <1>5, <2>3 DEF Grammar, Chain, EndOf
<1>8. Phase'
  <2>1. Kind(out'[1]) \in Heads(ui)
    <3>1. CASE out # <<>>
      BY <1>3, <1>5, <3>1
    <3>2. CASE out = <<>>
      BY <1>3, <1>5, <3>2 DEF Heads
    <3> QED BY <3>1, <3>2
  <2>2. Heads(ui)' = Heads(ui)
    BY DEF Heads
  <2>3. UserPhase(ui, out, gdb)'
    BY <1>2, <1>3, <1>5, <2>1, <2>2 DEF UserPhase
  <2> QED BY <1>2, <2>3 DEF Phase, Asking
<1>9. Fresh'
  <2>1. CASE ui.open \subseteq Queued(ui)
    BY <1>1, <2>1 DEF Fresh
  <2>2. CASE ~(ui.open \subseteq Queued(ui))
    <3>1. Unknown(out)
      BY <1>1, <2>2 DEF Fresh
    <3>2. Unknown(out')
      BY <1>5, <3>1 DEF Unknown
    <3>3. ui.pending = {}
      <4> SUFFICES ASSUME ui.pending # {} PROVE FALSE
        OBVIOUS
      <4>1. \E i \in 1 .. Len(ui.queue) : ui.queue[i] \in Displays
        BY <1>1, <1>2 DEF Waiting, Answering, Queued, In
      <4> QED BY <1>1, <1>2, <2>2, <4>1 DEF Blocks
    <3> QED BY <1>1, <3>2, <3>3 DEF Fresh
  <2> QED BY <2>1, <2>2
<1>10. Steady' /\ Waiting(ui)' /\ Blocks(ui)' /\ Shown'
  BY <1>1 DEF Steady, Shown
<1> QED BY <1>6, <1>7, <1>8, <1>9, <1>10 DEF Inv

LEMMA ProgramReadsInv == ASSUME Inv, ProgramReads PROVE Inv'
<1>1. PICK x : gdb = "run" /\ Reads(x, <<>>, "run", version)
  BY DEF ProgramReads
<1> DEFINE w == [ui EXCEPT !.tty = Tail(ui.tty)]
<1>2. /\ ui \in Emacs /\ out \in Seq(Message) /\ Grammar /\ Steady /\ Phase
      /\ Waiting(ui) /\ Blocks(ui) /\ Fresh /\ Shown
  BY DEF Inv, Types
<1>3. /\ ui.tty # <<>> /\ ui' = w /\ UNCHANGED <<gdb, version, separate, typed>>
  BY <1>1 DEF Reads
<1>4. out' = out
  BY <1>1, <1>2, ConcatEmptySeq DEF Reads
<1>5. Tail(ui.tty) \in Seq(Items)
  <2>1. ui.tty \in Seq(Items)
    BY <1>2 DEF Emacs
  <2> QED BY <1>3, <2>1, HeadTailProperties
<1>6. w \in Emacs
  BY <1>2, <1>5 DEF Emacs
<1>7. /\ w.sink = ui.sink /\ w.current = ui.current
      /\ w.queue = ui.queue /\ w.prompting = ui.prompting /\ w.pending = ui.pending
      /\ w.running = ui.running /\ w.open = ui.open
      /\ w.shown = ui.shown /\ w.errors = ui.errors /\ w.flush = ui.flush
      /\ w.acc = ui.acc /\ w.signalled = ui.signalled
  BY <1>2 DEF Emacs
<1> HIDE DEF w
<1>8. ~Asking(ui) /\ ~Asking(w) /\ UserPhase(ui, out, gdb)
  BY <1>1, <1>2, <1>7 DEF Phase, Asking
<1>9. Phase'
  <2>1. UserPhase(ui, out, gdb)'
    BY <1>1, <1>3, <1>4, <1>7, <1>8 DEF UserPhase, Heads
  <2> QED BY <1>3, <1>8, <2>1 DEF Phase
<1>10. Waiting(w) /\ Blocks(w) /\ Queued(w) = Queued(ui)
  BY <1>2, <1>7, <1>8, SameQueue
<1>11. Waiting(ui)' /\ Blocks(ui)'
  BY <1>3, <1>10
<1>12. Fresh'
  BY <1>2, <1>3, <1>4, <1>7, <1>8, <1>10 DEF Fresh
<1>13. Types' /\ Grammar' /\ Steady' /\ Shown'
  BY <1>2, <1>3, <1>4, <1>6, <1>7 DEF Inv, Types, Grammar, Steady, Shown
<1> QED BY <1>9, <1>11, <1>12, <1>13 DEF Inv

LEMMA ProgramStopsInv == ASSUME Inv, ProgramStops, Habits PROVE Inv'
<1> DEFINE c == Tag("pre-prompt")
<1> DEFINE d == Tag("prompt")
<1> DEFINE z == Tag("stopped")
<1>1. /\ c \in Message /\ d \in Message /\ z \in Message
      /\ Kind(c) = "pre-prompt" /\ Kind(d) = "prompt" /\ Kind(z) = "stopped"
      /\ AtPrompt = <<c, d>>
  BY TagIs, TagsAre DEF Names, AtPrompt
<1> HIDE DEF c, d, z
<1>2. /\ AtPrompt \in Seq(Message) /\ AtPrompt # <<>> /\ Chain(AtPrompt) /\ Len(AtPrompt) = 2
      /\ AtPrompt[1] = c /\ AtPrompt[2] = d /\ In(AtPrompt) = {c, d}
  <2>1. <<c, d>> \in Seq(Message) /\ Chain(<<c, d>>)
    BY <1>1, ChainIs DEF MayFollow
  <2>2. Len(<<c, d>>) = 2 /\ <<c, d>>[1] = c /\ <<c, d>>[2] = d /\ <<c, d>> # <<>>
    OBVIOUS
  <2>3. In(<<c, d>>) = {c, d}
    BY DEF In
  <2> QED BY <1>1, <2>1, <2>2, <2>3
<1>3. ASSUME NEW names, Stops(names), NEW s \in Seq(Message), Tags(names \o <<"stopped">>) = s,
             s # <<>>, Chain(s), s[Len(s)] = z,
             Kind(s[1]) \in {"breakpoint", "signal", "frame-begin", "exited", "signalled"},
             \A m \in In(s) : Kind(m) = "signalled" => ~separate
      PROVE  Inv'
  <2>1. /\ gdb = "run" /\ ui.tty = <<>> /\ gdb' = "prompt" /\ version' = version + 1
        /\ UNCHANGED <<ui, separate, typed>> /\ out' = out \o s \o AtPrompt
    BY <1>3 DEF Stops, Habits
  <2> DEFINE t == s \o AtPrompt
  <2>2. /\ t \in Seq(Message) /\ t # <<>> /\ Chain(t)
        /\ Kind(t[Len(t)]) = Kind(AtPrompt[Len(AtPrompt)])
        /\ t[1] = s[1]
        /\ In(t) = In(s) \cup In(AtPrompt)
    <3>1. MayFollow(Kind(s[Len(s)]), Kind(AtPrompt[1]))
      BY <1>1, <1>2, <1>3 DEF MayFollow
    <3> QED BY <1>2, <1>3, <3>1, ChainConcat
  <2>3. out \in Seq(Message)
    BY DEF Inv, Types
  <2>4. out' = out \o t
    BY <1>2, <1>3, <2>1, <2>3, ConcatAssociative
  <2> HIDE DEF t
  <2>5. Kind(t[Len(t)]) = "prompt"
    BY <1>1, <1>2, <2>2
  <2>6. \A m \in In(t) : Kind(m) = "signalled" => ~separate
    BY <1>1, <1>2, <1>3, <2>2
  <2>7. Kind(t[1]) = "signalled" => ~separate
    <3>1. s[1] \in In(s)
      <4>1. Len(s) \in Nat \ {0}
        BY <1>3, EmptySeq
      <4> QED BY <4>1 DEF In
    <3> QED BY <1>3, <2>2, <3>1
  <2> QED BY <1>3, <2>1, <2>2, <2>4, <2>5, <2>6, <2>7, StopsInv
<1>4. ASSUME NEW k \in {"breakpoint", "signal"}, Stops(<<k, "frame-begin", "source">>) PROVE Inv'
  <2> DEFINE a == Tag(k)
  <2> DEFINE b == Tag("frame-begin")
  <2> DEFINE e == Tag("source")
  <2> DEFINE s == <<a, b, e, z>>
  <2>1. /\ a \in Message /\ b \in Message /\ e \in Message
        /\ Kind(a) = k /\ Kind(b) = "frame-begin" /\ Kind(e) = "source"
    BY TagIs DEF Names
  <2>2. Tags(<<k, "frame-begin", "source">> \o <<"stopped">>) = s
    BY FourTags, Zenon DEF z
  <2> HIDE DEF a, b, e
  <2>3. s \in Seq(Message) /\ Chain(s)
    BY <1>1, <2>1, ChainIs DEF MayFollow
  <2>4. Len(s) = 4 /\ s # <<>> /\ s[1] = a /\ s[4] = z /\ In(s) = {a, b, e, z}
    <3>1. Len(s) = 4 /\ s # <<>> /\ s[1] = a /\ s[2] = b /\ s[3] = e /\ s[4] = z
      OBVIOUS
    <3>2. \A i \in 1 .. 4 : i = 1 \/ i = 2 \/ i = 3 \/ i = 4
      OBVIOUS
    <3> HIDE DEF s
    <3> QED BY <3>1, <3>2 DEF In
  <2> HIDE DEF s
  <2>5. \A m \in In(s) : Kind(m) # "signalled"
    BY <1>1, <2>1, <2>4
  <2> QED BY <1>3, <1>4, <2>1, <2>2, <2>3, <2>4, <2>5
<1>5. ASSUME Stops(<<"frame-begin", "source">>) PROVE Inv'
  <2> DEFINE b == Tag("frame-begin")
  <2> DEFINE e == Tag("source")
  <2> DEFINE s == <<b, e, z>>
  <2>1. b \in Message /\ e \in Message /\ Kind(b) = "frame-begin" /\ Kind(e) = "source"
    BY TagIs DEF Names
  <2>2. Tags(<<"frame-begin", "source">> \o <<"stopped">>) = s
    BY TagsAre, Zenon DEF z
  <2> HIDE DEF b, e
  <2>3. s \in Seq(Message) /\ Chain(s)
    BY <1>1, <2>1, ChainIs DEF MayFollow
  <2>4. Len(s) = 3 /\ s # <<>> /\ s[1] = b /\ s[3] = z /\ In(s) = {b, e, z}
    <3>1. Len(s) = 3 /\ s # <<>> /\ s[1] = b /\ s[2] = e /\ s[3] = z
      OBVIOUS
    <3>2. \A i \in 1 .. 3 : i = 1 \/ i = 2 \/ i = 3
      OBVIOUS
    <3> HIDE DEF s
    <3> QED BY <3>1, <3>2 DEF In
  <2> HIDE DEF s
  <2>5. \A m \in In(s) : Kind(m) # "signalled"
    BY <1>1, <2>1, <2>4
  <2> QED BY <1>3, <1>5, <2>1, <2>2, <2>3, <2>4, <2>5
<1>6. ASSUME NEW k \in {"exited", "signalled"}, Stops(<<k>>), k = "signalled" => ~separate PROVE Inv'
  <2> DEFINE a == Tag(k)
  <2> DEFINE s == <<a, z>>
  <2>1. a \in Message /\ Kind(a) = k
    BY TagIs DEF Names
  <2>2. Tags(<<k>> \o <<"stopped">>) = s
    BY TagsAre, Zenon DEF z
  <2> HIDE DEF a
  <2>3. s \in Seq(Message) /\ Chain(s)
    BY <1>1, <2>1, ChainIs DEF MayFollow
  <2>4. Len(s) = 2 /\ s # <<>> /\ s[1] = a /\ s[2] = z /\ In(s) = {a, z}
    BY DEF In
  <2> HIDE DEF s
  <2>5. \A m \in In(s) : Kind(m) = "signalled" => ~separate
    BY <1>1, <1>6, <2>1, <2>4
  <2> QED BY <1>3, <1>6, <2>1, <2>2, <2>3, <2>4, <2>5
<1> QED BY <1>4, <1>5, <1>6 DEF ProgramStops, Habits
-----------------------------------------------------------------------------
(* The user.                                                               *)

LEMMA TypeInv == ASSUME Inv, Type, Habits PROVE Inv'
<1>1. PICK c \in Typed :
        /\ typed < MaxTyped /\ MayType(c)
        /\ ui' = (IF ui.running THEN [ui EXCEPT !.tty = Append(@, c)] ELSE EnqueueInput(ui, c))
        /\ typed' = typed + 1 /\ UNCHANGED <<gdb, version, out, separate>>
  BY DEF Type
<1>2. /\ ui \in Emacs /\ out \in Seq(Message) /\ Grammar /\ Steady /\ Phase
      /\ Waiting(ui) /\ Blocks(ui) /\ Fresh /\ Shown /\ gdb \in {"prompt", "query", "run"}
      /\ typed \in Nat /\ typed + 1 \in 0 .. MaxTyped
  BY <1>1, BoundAssumption DEF Inv, Types
<1>3. c \in Items /\ c \notin Displays
  BY Sorts DEF Requests
(* Nothing but what Emacs is at is disturbed by a step that leaves queue   *)
(* and displays alone.                                                     *)
<1>6. ASSUME NEW w \in Emacs, ui' = w, w.queue = ui.queue, w.pending = ui.pending, w.open = ui.open,
             w.shown = ui.shown, ~w.errors, ~w.flush, w.acc = <<>>, w.signalled = ui.signalled,
             ~Asking(ui), ~Asking(w), UserPhase(ui, out, gdb)'
      PROVE  Inv'
  <2>1. Waiting(w) /\ Blocks(w) /\ Queued(w) = Queued(ui)
    BY <1>2, <1>6, SameQueue
  <2>2. Waiting(ui)' /\ Blocks(ui)'
    BY <1>1, <1>6, <2>1
  <2>3. Fresh'
    BY <1>1, <1>2, <1>6, <2>1 DEF Fresh
  <2>4. Phase'
    BY <1>6 DEF Phase
  <2>5. Types' /\ Grammar' /\ Steady' /\ Shown'
    BY <1>1, <1>2, <1>6 DEF Inv, Types, Grammar, Steady, Shown
  <2> QED BY <2>2, <2>3, <2>4, <2>5 DEF Inv
<1>7. CASE ui.running
  <2> DEFINE w == [ui EXCEPT !.tty = Append(ui.tty, c)]
  <2>1. gdb = "run" /\ ~Asking(ui) /\ UserPhase(ui, out, gdb)
    BY <1>1, <1>2, <1>7 DEF MayType, Habits, Phase
  <2>2. Append(ui.tty, c) \in Seq(Items)
    BY <1>2, <1>3 DEF Emacs
  <2>3. w \in Emacs
    BY <1>2, <2>2 DEF Emacs
  <2>4. /\ w.sink = ui.sink /\ w.current = ui.current
        /\ w.queue = ui.queue /\ w.prompting = ui.prompting /\ w.pending = ui.pending
        /\ w.running = ui.running /\ w.open = ui.open
        /\ w.shown = ui.shown /\ w.errors = ui.errors /\ w.flush = ui.flush
        /\ w.acc = ui.acc /\ w.signalled = ui.signalled
    BY <1>2 DEF Emacs
  <2>5. ui' = w
    BY <1>1, <1>7
  <2> HIDE DEF w
  <2>6. ~Asking(w)
    BY <2>1, <2>4 DEF Asking
  <2>7. UserPhase(ui, out, gdb)'
    BY <1>1, <1>7, <2>1, <2>4, <2>5 DEF UserPhase, Heads
  <2>8. ~w.errors /\ ~w.flush /\ w.acc = <<>>
    BY <1>2, <2>4 DEF Steady
  <2> QED BY <1>6, <2>1, <2>3, <2>4, <2>5, <2>6, <2>7, <2>8
<1>8. CASE ~ui.running /\ ui.prompting
  <2> DEFINE v == SendItem(ui, c)
  <2> DEFINE w == [v EXCEPT !.prompting = FALSE]
  <2>1. ui' = w
    BY <1>1, <1>8 DEF EnqueueInput
  <2>2. /\ v \in Emacs
        /\ v.current = c /\ v.tty = Append(ui.tty, c) /\ ~v.flush /\ v.sink = "user"
        /\ v.queue = ui.queue /\ v.pending = ui.pending
        /\ v.running = ui.running /\ v.signalled = ui.signalled /\ v.open = ui.open
        /\ v.shown = ui.shown /\ v.acc = ui.acc /\ v.errors = ui.errors
    BY <1>2, <1>3, SendItemIs
  <2> HIDE DEF v
  <2>3. w \in Emacs
    BY <2>2 DEF Emacs
  <2>4. /\ w.current = c /\ w.tty = Append(ui.tty, c) /\ ~w.flush /\ w.sink = "user"
        /\ w.queue = ui.queue /\ w.pending = ui.pending /\ ~w.prompting
        /\ w.running = ui.running /\ w.signalled = ui.signalled /\ w.open = ui.open
        /\ w.shown = ui.shown /\ w.acc = ui.acc /\ w.errors = ui.errors
    BY <2>2 DEF Emacs
  <2> HIDE DEF w
  <2>5. ~Asking(ui) /\ UserPhase(ui, out, gdb)
    BY <1>2, <1>8 DEF Phase
  <2>6. out = <<>> /\ ui.tty = <<>> /\ gdb \in {"prompt", "query"}
    BY <1>8, <2>5 DEF UserPhase
  <2>7. (gdb = "prompt" /\ c \in Typed) \/ (gdb = "query" /\ c \in Answers)
    BY <1>1, <1>8, <2>6 DEF MayType, Asked, Answers, Typed, Commands
  <2>8. w.tty = <<c>>
    BY <2>4, <2>6
  <2>9. ~Asking(w)
    BY <2>4 DEF Asking
  <2>10. UserPhase(ui, out, gdb)'
    BY <1>1, <1>8, <2>1, <2>4, <2>6, <2>7, <2>8 DEF UserPhase
  <2>11. ~w.errors /\ w.acc = <<>>
    BY <1>2, <2>4 DEF Steady
  <2> QED BY <1>6, <2>1, <2>3, <2>4, <2>5, <2>9, <2>10, <2>11
<1>9. CASE ~ui.running /\ ~ui.prompting
  <2> DEFINE q == <<c>> \o ui.queue
  <2> DEFINE w == [ui EXCEPT !.queue = q]
  <2>1. ui' = w
    BY <1>1, <1>9 DEF EnqueueInput
  <2>2. /\ ui.queue \in Seq(Items) /\ <<c>> \in Seq(Items)
        /\ q \in Seq(Items)
    <3>1. ui.queue \in Seq(Items) /\ <<c>> \in Seq(Items)
      BY <1>2, <1>3, OneIs DEF Emacs
    <3> QED BY <3>1, ConcatIs
  <2>3. q = <<c>> \o ui.queue
    OBVIOUS
  <2> HIDE DEF q
  <2>4. w \in Emacs
    BY <1>2, <2>2 DEF Emacs
  <2>5. /\ w.sink = ui.sink /\ w.current = ui.current /\ w.tty = ui.tty /\ w.partial = ui.partial
        /\ w.queue = q /\ w.prompting = ui.prompting /\ w.pending = ui.pending
        /\ w.running = ui.running /\ w.open = ui.open
        /\ w.shown = ui.shown /\ w.errors = ui.errors /\ w.flush = ui.flush
        /\ w.acc = ui.acc /\ w.signalled = ui.signalled
    BY <1>2 DEF Emacs
  <2> HIDE DEF w
  <2>6. /\ Asking(w) <=> Asking(ui)
        /\ Queued(w) = {c} \cup Queued(ui) /\ Queued(w) \cap Displays = Queued(ui) \cap Displays
        /\ Waiting(w) /\ Blocks(w)
    BY <1>2, <1>3, <2>2, <2>3, <2>5, PutIs
  <2>11. Waiting(ui)' /\ Blocks(ui)'
    BY <1>1, <2>1, <2>6
  <2>12. Fresh'
    BY <1>1, <1>2, <2>1, <2>5, <2>6 DEF Fresh
  <2>13. Phase'
    <3>1. CASE Asking(ui)
      BY <1>1, <1>2, <2>1, <2>5, <2>6, <3>1 DEF Phase, OwnPhase
    <3>2. CASE ~Asking(ui)
      <4>1. UserPhase(ui, out, gdb)
        BY <1>2, <3>2 DEF Phase
      <4>2. UserPhase(ui, out, gdb)'
        BY <1>1, <1>9, <2>1, <2>5, <4>1 DEF UserPhase, Heads
      <4> QED BY <2>1, <2>6, <3>2, <4>2 DEF Phase
    <3> QED BY <3>1, <3>2
  <2>14. Types' /\ Grammar' /\ Steady' /\ Shown'
    BY <1>1, <1>2, <2>1, <2>4, <2>5 DEF Inv, Types, Grammar, Steady, Shown
  <2> QED BY <2>11, <2>12, <2>13, <2>14 DEF Inv
<1> QED BY <1>7, <1>8, <1>9

(* A display is opened while GDB waits and nothing is queued, so that its  *)
(* command is sent at once.                                                *)
LEMMA DisplayInv == ASSUME Inv, Display, Habits PROVE Inv'
<1>1. PICK b \in Buffers :
        /\ ui.prompting /\ gdb = "prompt" /\ typed < MaxTyped
        /\ ui' = CreateBuffer(ui, b)
        /\ typed' = typed + 1 /\ UNCHANGED <<gdb, version, out, separate>>
  BY DEF Display, Habits
<1>2. /\ ui \in Emacs /\ out \in Seq(Message) /\ Grammar /\ Steady /\ Phase
      /\ Waiting(ui) /\ Blocks(ui) /\ Fresh /\ Shown
      /\ typed \in Nat /\ typed + 1 \in 0 .. MaxTyped
  BY <1>1, BoundAssumption DEF Inv, Types
<1>3. ~Asking(ui) /\ UserPhase(ui, out, gdb)
  BY <1>1, <1>2 DEF Phase
<1>4. out = <<>> /\ ui.tty = <<>> /\ ~ui.running /\ ui.queue = <<>>
  BY <1>1, <1>3 DEF UserPhase
<1>5. Queued(ui) = {} /\ ui.pending = {}
  <2>1. Len(ui.queue) = 0
    BY <1>4
  <2>2. Queued(ui) = {}
    BY <2>1 DEF Queued, In
  <2> QED BY <1>2, <1>3, <2>2 DEF Waiting, Answering
<1> DEFINE open == ui.open \cup {b}
<1> DEFINE u == [ui EXCEPT !.open = open]
<1>6. b \in Displays /\ b \in Items /\ b \in Requests /\ b \notin Typed /\ open \in SUBSET Displays
  BY <1>2, Sorts DEF Displays, Items, Requests, Emacs
<1>7. u \in Emacs
  BY <1>2, <1>6 DEF Emacs
<1>8. /\ u.open = open /\ u.pending = {} /\ ~u.running /\ u.prompting /\ u.queue = <<>> /\ u.tty = <<>>
      /\ u.signalled = ui.signalled /\ u.shown = ui.shown /\ u.acc = ui.acc /\ u.errors = ui.errors
  BY <1>1, <1>2, <1>4, <1>5 DEF Emacs
<1> HIDE DEF u
<1> DEFINE v == SendItem(u, b)
<1> DEFINE w == [[v EXCEPT !.prompting = FALSE] EXCEPT !.pending = @ \cup {b}]
<1>9. ui' = w
  <2>1. b \in u.open /\ b \notin u.pending
    BY <1>8
  <2>2. CreateBuffer(ui, b) = Trigger(u, b)
    BY DEF CreateBuffer, u
  <2>3. Trigger(u, b) = w
    BY <1>8, <2>1 DEF Trigger, EnqueueInput
  <2> QED BY <1>1, <2>2, <2>3
<1>10. /\ v \in Emacs
       /\ v.current = b /\ v.tty = Append(u.tty, b) /\ ~v.flush /\ v.sink = "pre-emacs"
       /\ v.partial = <<>> /\ v.queue = u.queue /\ v.pending = u.pending
       /\ v.running = u.running /\ v.signalled = u.signalled /\ v.open = u.open
       /\ v.shown = u.shown /\ v.acc = u.acc /\ v.errors = u.errors
  BY <1>6, <1>7, SendItemIs
<1>11. v.tty = <<b>>
  BY <1>8, <1>10
<1> HIDE DEF v
<1>12. w \in Emacs
  BY <1>6, <1>10 DEF Emacs
<1>13. /\ w.current = b /\ w.tty = <<b>> /\ ~w.flush /\ w.sink = "pre-emacs" /\ w.partial = <<>>
       /\ w.queue = <<>> /\ w.pending = {b} /\ ~w.running /\ ~w.prompting
       /\ w.signalled = ui.signalled /\ w.open = open
       /\ w.shown = ui.shown /\ w.acc = ui.acc /\ w.errors = ui.errors
  BY <1>8, <1>10, <1>11 DEF Emacs
<1> HIDE DEF w, open
<1>14. Asking(w) /\ Queued(w) = {} /\ Len(w.queue) = 0
  BY <1>13 DEF Asking, Queued, In
<1>15. Waiting(w)
  <2>1. Answering(w) = {b}
    BY <1>6, <1>13, <1>14 DEF Answering
  <2> QED BY <1>13, <1>14, <2>1 DEF Waiting, open
<1>16. Blocks(w)
  BY <1>14 DEF Blocks, Ordered
<1>17. Waiting(ui)' /\ Blocks(ui)'
  BY <1>1, <1>9, <1>15, <1>16
<1>18. Phase'
  BY <1>1, <1>4, <1>6, <1>9, <1>13, <1>14 DEF Phase, OwnPhase
<1>19. Fresh'
  <2>1. ASSUME NEW a \in ui.open PROVE ui.shown[a] = <<Output(a, version)>>
    BY <1>2, <1>3, <1>4, <1>5 DEF Fresh, Unknown
  <2>2. \A a \in open : w.shown[a] = <<Output(a, version)>> \/ (Asking(w) /\ w.current = a)
    BY <1>13, <1>14, <2>1 DEF open
  <2>3. Frame \in open
    BY <1>2 DEF open, Fresh
  <2> QED BY <1>1, <1>9, <1>13, <2>2, <2>3 DEF Fresh
<1>20. Types' /\ Grammar' /\ Steady' /\ Shown'
  BY <1>1, <1>2, <1>9, <1>12, <1>13 DEF Inv, Types, Grammar, Steady, Shown
<1> QED BY <1>17, <1>18, <1>19, <1>20 DEF Inv

LEMMA KillBufferInv == ASSUME Inv, KillBuffer, Habits PROVE Inv'
<1>1. PICK b \in Displays \ {Frame} :
        /\ b \in ui.open /\ (b \in NeedsBuffer => b \notin ui.pending)
        /\ ui' = [ui EXCEPT !.open = @ \ {b}, !.shown[b] = <<>>]
  BY DEF KillBuffer, Habits
<1>2. UNCHANGED <<gdb, version, out, separate, typed>>
  BY DEF KillBuffer
<1>3. /\ ui \in Emacs /\ Grammar /\ Steady /\ Phase
      /\ Waiting(ui) /\ Blocks(ui) /\ Fresh /\ Shown
  BY DEF Inv, Types
<1> DEFINE f == [ui.shown EXCEPT ![b] = <<>>]
<1> DEFINE w == [ui EXCEPT !.open = ui.open \ {b}, !.shown = f]
<1>4. f \in [Displays -> Seq(Outputs)] /\ f[b] = <<>> /\ \A a \in Displays \ {b} : f[a] = ui.shown[a]
  <2>1. ui.shown \in [Displays -> Seq(Outputs)] /\ <<>> \in Seq(Outputs)
    BY <1>3 DEF Emacs
  <2> QED BY <2>1
<1>5. ui' = w
  BY <1>1
<1> HIDE DEF f
<1>6. w \in Emacs
  BY <1>3, <1>4 DEF Emacs
<1>7. /\ w.sink = ui.sink /\ w.current = ui.current /\ w.tty = ui.tty /\ w.partial = ui.partial
      /\ w.queue = ui.queue /\ w.prompting = ui.prompting /\ w.pending = ui.pending
      /\ w.running = ui.running /\ w.open = ui.open \ {b}
      /\ w.shown = f /\ w.errors = ui.errors /\ w.flush = ui.flush
      /\ w.acc = ui.acc /\ w.signalled = ui.signalled
  BY <1>3 DEF Emacs
<1> HIDE DEF w
<1>8. (Asking(w) <=> Asking(ui)) /\ Queued(w) = Queued(ui)
  BY <1>7 DEF Asking, Queued
<1>9. Waiting(w)
  BY <1>1, <1>3, <1>7, <1>8 DEF Waiting, Answering
<1>10. Blocks(w)
  <2>1. ASSUME ui.open \subseteq Queued(ui) PROVE w.open \subseteq Queued(w)
    BY <1>7, <1>8, <2>1
  <2>2. Ordered(w)
    BY <1>3, <1>7, <2>1 DEF Blocks, Ordered
  <2> QED BY <1>3, <1>7, <1>8, <2>1, <2>2 DEF Blocks
<1>11. Waiting(ui)' /\ Blocks(ui)'
  BY <1>2, <1>5, <1>9, <1>10
<1>12. Phase'
  <2>1. CASE Asking(ui)
    BY <1>2, <1>3, <1>5, <1>7, <1>8, <2>1 DEF Phase, OwnPhase
  <2>2. CASE ~Asking(ui)
    <3>1. UserPhase(ui, out, gdb)
      BY <1>3, <2>2 DEF Phase
    <3>2. UserPhase(ui, out, gdb)'
      BY <1>2, <1>5, <1>7, <3>1 DEF UserPhase, Heads
    <3> QED BY <1>5, <1>8, <2>2, <3>2 DEF Phase
  <2> QED BY <2>1, <2>2
<1>13. Fresh'
  <2>1. ui.open \subseteq Displays
    BY <1>3 DEF Emacs
  <2> QED BY <1>1, <1>2, <1>3, <1>4, <1>5, <1>7, <1>8, <2>1 DEF Fresh
<1>14. Shown'
  BY <1>3, <1>4, <1>5, <1>7 DEF Shown
<1>15. Types' /\ Grammar' /\ Steady'
  BY <1>2, <1>3, <1>5, <1>6, <1>7 DEF Inv, Types, Grammar, Steady
<1> QED BY <1>11, <1>12, <1>13, <1>14, <1>15 DEF Inv
-----------------------------------------------------------------------------
(* The theorems.                                                           *)

LEMMA StepInv == ASSUME Inv, [Next]_vars, Habits PROVE Inv'
<1>1. CASE Receive
  BY <1>1, UserReceives, AskingReceives
<1>2. CASE Gdb
  BY <1>2, GdbShowsInv, GdbActsInv, GdbIsAnsweredInv DEF Gdb
<1>3. CASE ProgramReads
  BY <1>3, ProgramReadsInv
<1>4. CASE ProgramStops
  BY <1>4, ProgramStopsInv
<1>5. CASE Type
  BY <1>5, TypeInv
<1>6. CASE Display
  BY <1>6, DisplayInv
<1>7. CASE KillBuffer
  BY <1>7, KillBufferInv
<1>8. CASE UNCHANGED vars
  <2>1. UNCHANGED <<ui, gdb, version, out, separate, typed>> /\ Waiting(ui) /\ Blocks(ui)
    BY <1>8 DEF vars, Inv
  <2>2. Types' /\ Grammar' /\ Steady'
    BY <2>1 DEF Inv, Types, Grammar, Steady
  <2>3. Phase'
    BY <2>1 DEF Inv, Phase, OwnPhase, UserPhase, Heads
  <2>4. Fresh' /\ Shown'
    BY <2>1 DEF Inv, Fresh, Shown
  <2> QED BY <2>1, <2>2, <2>3, <2>4 DEF Inv
<1> QED BY <1>1, <1>2, <1>3, <1>4, <1>5, <1>6, <1>7, <1>8 DEF Next

LEMMA Invariance == ASSUME Habits PROVE Spec => []Inv
<1>1. Init => Inv
  BY InitInv
<1>2. Inv /\ [Next]_vars => Inv'
  BY StepInv
<1> QED BY <1>1, <1>2, PTL DEF Spec

(* The queue holds a display at most once, whatever is triggered and       *)
(* whatever the handlers ask for themselves; and output goes to the I/O    *)
(* buffer of the program only when it has one.                             *)
THEOREM TypeInvariant == ASSUME Habits PROVE Spec => []TypeOK
<1>1. ASSUME Inv PROVE TypeOK
  <2>1. /\ ui \in Emacs /\ gdb \in {"prompt", "query", "run"}
        /\ Phase /\ Waiting(ui)
    BY <1>1 DEF Inv, Types
  <2>2. \A i, j \in 1 .. Len(ui.queue) : ui.queue[i] = ui.queue[j] /\ ui.queue[i] \in Displays => i = j
    BY <2>1 DEF Waiting
  <2>3. ui.sink = "inferior" => separate
    BY <2>1 DEF Phase, Asking, UserPhase
  <2>4. /\ ui.queue \in Seq(Items)
        /\ ui.sink \in {"user", "inferior", "pre-emacs", "emacs", "post-emacs"}
        /\ {ui.prompting, ui.running, ui.flush, ui.signalled, ui.errors, ui.located} \subseteq BOOLEAN
        /\ ui.pending \subseteq Displays /\ ui.open \subseteq Displays
        /\ ui.current \in Items
    BY <2>1 DEF Emacs, Sinks
  <2> QED BY <2>1, <2>2, <2>3, <2>4 DEF TypeOK
<1>2. Inv => TypeOK
  BY <1>1
<1> QED BY <1>2, Invariance, PTL

(* The handler of a display gets the output of its own command, all of it  *)
(* and nothing else, however the user's commands fall between those of     *)
(* Emacs, and the program's I/O buffer gets no output of GDB.              *)
THEOREM EachGetsItsOwn == ASSUME Habits PROVE Spec => []OwnOutput
<1>1. ASSUME Inv PROVE OwnOutput
  <2>1. ui.io \subseteq {"program"} /\ Shown
    BY <1>1 DEF Inv, Types, Emacs
  <2>2. ASSUME NEW b \in Displays, NEW v \in Nat, ui.shown[b] = <<Output(b, v)>>
        PROVE  Len(ui.shown[b]) = 1 /\ ui.shown[b][1].cmd = b
    BY <2>2 DEF Output
  <2> QED BY <2>1, <2>2 DEF OwnOutput, Shown
<1>2. Inv => OwnOutput
  BY <1>1
<1> QED BY <1>2, Invariance, PTL

(* No annotation comes in a phase its handler does not expect, so that     *)
(* gdb-resync is never needed; and when Emacs takes GDB to be waiting, GDB *)
(* is: it has read all that was sent, and all it wrote was received.       *)
THEOREM InStep == ASSUME Habits PROVE Spec => []Lockstep
<1>1. Inv => Lockstep
  BY DEF Inv, Types, Steady, Phase, UserPhase, Lockstep
<1> QED BY <1>1, Invariance, PTL

(* When GDB waits at its prompt and nothing is left to send, every open    *)
(* display shows what GDB would print now: no command of the user and no   *)
(* stop of the program slipped between the triggers and the handlers.      *)
THEOREM AlwaysUpToDate == ASSUME Habits PROVE Spec => []UpToDate
<1>1. ASSUME Inv, ui.prompting, gdb = "prompt", ui.queue = <<>>, NEW b \in ui.open
      PROVE  ui.shown[b] = <<Output(b, version)>>
  <2>1. ~Asking(ui) /\ UserPhase(ui, out, gdb) /\ Fresh
    BY <1>1 DEF Inv, Phase
  <2>2. out = <<>> /\ Len(ui.queue) = 0
    BY <1>1, <2>1 DEF UserPhase
  <2>3. Queued(ui) = {} /\ ~Unknown(out)
    BY <2>2 DEF Queued, In, Unknown
  <2> QED BY <2>1, <2>3 DEF Fresh
<1>2. Inv => UpToDate
  BY <1>1 DEF UpToDate
<1> QED BY <1>2, Invariance, PTL
=============================================================================
