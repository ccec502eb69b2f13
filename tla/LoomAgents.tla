------------------------------ MODULE LoomAgents ----------------------------
(***************************************************************************)
(* The agents of loom/agents, the handler they report to (loom/start.py)   *)
(* and the files of loom/runtime through which they pass commits on:       *)
(*                                                                         *)
(*   commits.log --> tester --> handler --test_pass.log--> benchmarker     *)
(*   --bench_done.log, also written by the handler--> critic --> handler   *)
(*                                                                         *)
(* The builder this program starts writes no commit: no task reaches it    *)
(* (LoomArchitect!Deliver).  What commits.log holds was left by a builder  *)
(* that was run on its own, as builder.py:75 allows.                       *)
(*                                                                         *)
(* Each agent has a connection of its own (websockets.py), which can be    *)
(* lost.  An agent keeps its session when it connects again, the handler   *)
(* gets a new one: what it then decodes is an error or some wrong commit.  *)
(* At the end of a run the server stops to accept connections, then main   *)
(* ends the handlers and the agents; the files stay for the next run.      *)
(***************************************************************************)
EXTENDS Integers, Sequences, SequencesExt

CONSTANTS Left,      \* the commits in commits.log
          MaxDrops,  \* bound: connections lost
          Lives      \* bound: runs of the program

ASSUME LoomAssumption == Left \in Seq(Nat) /\ MaxDrops \in Nat /\ Lives \in Nat

Workers == {"tester", "bench", "critic"}

VARIABLES life,       \* the run of the program, from 1
          phase,      \* its server: "up"; "closed", to new connections; "off"
          testPass, benchDone,  \* the log files
          polling,    \* is the agent in its inner loop, or still connecting?
          seen,       \* the commits it has begun with
          lines,      \* what is left of the lines it read last
          wire,       \* the results on their way to the handler, [commit, passed]
          open,       \* does the handler of its connection run?
          used,       \* has its session encoded anything?
          behind,     \* ... and the handler's session not seen all of it?
          drops,      \* how many connections were lost
          begun,      \* history: the commits it ever began with, in any run
          passed,     \* history: the commits a handler noted as passed
          reviewed    \* history: the commits a handler got a verdict for

run     == <<life, phase>>
files   == <<testPass, benchDone>>
links   == <<wire, open, used, behind>>
history == <<begun, passed, reviewed>>
vars    == <<run, files, polling, seen, lines, links, drops, history>>

NoneOpen == [w \in Workers |-> FALSE]
Nothing  == [w \in Workers |-> <<>>]

\* The agents' processes start, with new sessions and no connection.
Fresh ==
  [polling |-> NoneOpen, seen |-> [w \in Workers |-> {}], lines |-> Nothing,
   wire |-> Nothing, open |-> NoneOpen, used |-> NoneOpen, behind |-> NoneOpen]

Init ==
  /\ life = 1 /\ phase = "up" /\ testPass = <<>> /\ benchDone = <<>>
  /\ polling = Fresh.polling /\ seen = Fresh.seen /\ lines = Fresh.lines
  /\ wire = Fresh.wire /\ open = Fresh.open /\ used = Fresh.used /\ behind = Fresh.behind
  /\ drops = 0 /\ begun = Fresh.seen /\ passed = {} /\ reviewed = {}
-----------------------------------------------------------------------------
(***************************************************************************)
(* Tester, benchmarker and critic: connect, read the file, then take the   *)
(* lines one by one, noting a commit as seen before anything is done about *)
(* it.                                                                     *)
(***************************************************************************)
File(w) == CASE w = "tester" -> Left [] w = "bench" -> testPass [] w = "critic" -> benchDone

Reconnect(w) ==
  /\ ~polling[w] /\ phase = "up"
  /\ polling' = [polling EXCEPT ![w] = TRUE]
  /\ open' = [open EXCEPT ![w] = TRUE]
  /\ behind' = [behind EXCEPT ![w] = used[w]]
  /\ UNCHANGED <<run, files, seen, lines, wire, used, drops, history>>

\* Mutant: the file is read once.
PollOnce(w) ==
  /\ polling[w] /\ lines[w] = <<>> /\ seen[w] = {} /\ File(w) # <<>>
  /\ lines' = [lines EXCEPT ![w] = File(w)]
  /\ UNCHANGED <<run, files, polling, seen, links, drops, history>>

Poll(w) ==
  /\ polling[w] /\ lines[w] = <<>> /\ ~(ToSet(File(w)) \subseteq seen[w])
  /\ lines' = [lines EXCEPT ![w] = File(w)]
  /\ UNCHANGED <<run, files, polling, seen, links, drops, history>>

Skip(w) ==
  /\ lines[w] # <<>> /\ Head(lines[w]) \in seen[w]
  /\ lines' = [lines EXCEPT ![w] = Tail(@)]
  /\ UNCHANGED <<run, files, polling, seen, links, drops, history>>

\* The result is sent if the connection is there.  If it is not, the sends of the
\* result and of the status after it may not notice, or raise OSError: then the
\* agent connects again, and reads the file again.  The benchmarker writes its
\* file between the two.
Work(w) ==
  /\ lines[w] # <<>> /\ Head(lines[w]) \notin seen[w]
  /\ LET c == Head(lines[w])
     IN  \E ok \in (IF w = "tester" THEN BOOLEAN ELSE {TRUE}), raised \in BOOLEAN,
            wrote \in BOOLEAN :
           /\ raised => ~open[w]
           /\ w # "bench" => ~wrote
           /\ w = "bench" /\ ~raised => wrote
           /\ seen' = [seen EXCEPT ![w] = @ \cup {c}]
           /\ begun' = [begun EXCEPT ![w] = @ \cup {c}]
           /\ lines' = [lines EXCEPT ![w] = IF raised THEN <<>> ELSE Tail(@)]
           /\ polling' = [polling EXCEPT ![w] = ~raised]
           /\ wire' = IF open[w] THEN [wire EXCEPT ![w] = Append(@, [commit |-> c, passed |-> ok])]
                                 ELSE wire
           /\ benchDone' = IF wrote THEN <<c>> ELSE benchDone
  /\ used' = [used EXCEPT ![w] = TRUE]
  /\ UNCHANGED <<run, testPass, open, behind, drops, passed, reviewed>>
-----------------------------------------------------------------------------
(***************************************************************************)
(* The handler, one per connection.  An exception ends it and closes the   *)
(* connection.                                                             *)
(***************************************************************************)
Close(w) ==
  /\ open' = [open EXCEPT ![w] = FALSE]
  /\ wire' = [wire EXCEPT ![w] = <<>>]

\* Mutant: test_pass.log is written for tests that failed, too.
RecordAnyTest(w, r) ==
  /\ testPass' = IF w = "tester" THEN <<r.commit>> ELSE testPass
  /\ passed' = IF w = "tester" /\ r.passed THEN passed \cup {r.commit} ELSE passed
  /\ benchDone' = IF w = "bench" THEN <<r.commit>> ELSE benchDone
  /\ reviewed' = IF w = "critic" THEN reviewed \cup {r.commit} ELSE reviewed

Record(w, r) ==
  /\ IF w = "tester" /\ r.passed
     THEN testPass' = <<r.commit>> /\ passed' = passed \cup {r.commit}
     ELSE UNCHANGED <<testPass, passed>>
  /\ benchDone' = IF w = "bench" THEN <<r.commit>> ELSE benchDone
  /\ reviewed' = IF w = "critic" THEN reviewed \cup {r.commit} ELSE reviewed

\* What a new session makes of a result that builds on what the old one had seen.
Misread == [commit : ToSet(Left) \cup {0}, passed : BOOLEAN]

HandleResult(w) ==
  /\ wire[w] # <<>>
  /\ \E r \in IF behind[w] THEN Misread ELSE {Head(wire[w])} : Record(w, r)
  /\ wire' = [wire EXCEPT ![w] = Tail(@)]
  /\ UNCHANGED <<run, polling, seen, lines, open, used, behind, drops, begun>>

\* decode raises at a reference its new session does not have.
HandlerRaises(w) ==
  /\ wire[w] # <<>> /\ behind[w]
  /\ Close(w)
  /\ UNCHANGED <<run, files, polling, seen, lines, used, behind, drops, history>>

Drop(w) ==
  /\ drops < MaxDrops /\ open[w]
  /\ drops' = drops + 1
  /\ Close(w)
  /\ UNCHANGED <<run, files, polling, seen, lines, used, behind, history>>
-----------------------------------------------------------------------------
(***************************************************************************)
(* The end of a run.  Connections outlive server.close() for as long as    *)
(* wait_closed waits for them: not at all before Python 3.12.1, and since  *)
(* then, after a timeout, for ever.                                        *)
(***************************************************************************)
ServerCloses ==
  /\ phase = "up" /\ phase' = "closed"
  /\ UNCHANGED <<life, files, polling, seen, lines, links, drops, history>>

\* asyncio.run cancels the handlers; the agents are still there.
HandlersEnd ==
  /\ phase = "closed" /\ phase' = "off"
  /\ open' = NoneOpen /\ wire' = Nothing
  /\ UNCHANGED <<life, files, polling, seen, lines, used, behind, drops, history>>

\* The agents are terminated, the benchmarker perhaps while it writes its file.
NextRun ==
  /\ phase = "off" /\ life < Lives
  /\ life' = life + 1 /\ phase' = "up"
  /\ benchDone' \in {benchDone} \cup (IF lines["bench"] # <<>> \/ seen["bench"] # {} THEN {<<>>} ELSE {})
  /\ polling' = Fresh.polling /\ seen' = Fresh.seen /\ lines' = Fresh.lines
  /\ wire' = Fresh.wire /\ open' = Fresh.open /\ used' = Fresh.used /\ behind' = Fresh.behind
  /\ UNCHANGED <<testPass, drops, history>>
-----------------------------------------------------------------------------
Act(w) == Reconnect(w) \/ Poll(w) \/ Skip(w) \/ Work(w)
Handle(w) == HandleResult(w) \/ HandlerRaises(w)

Next ==
  \/ \E w \in Workers : Act(w) \/ Handle(w) \/ Drop(w)
  \/ ServerCloses \/ HandlersEnd \/ NextRun

\* The agents' loops and the handlers run on for as long as they are let: nothing
\* is fair, and nothing is excluded, about when main stops them.
Fairness == \A w \in Workers : WF_vars(Act(w)) /\ WF_vars(Handle(w))

Spec == Init /\ [][Next]_vars /\ Fairness
-----------------------------------------------------------------------------
\* A verdict is only given for a commit whose tests passed, and a benchmark only
\* run for one, as long as no connection was lost: the files carry no commit past
\* a stage it did not go through, in whatever order the two writers of
\* bench_done.log come and from whichever run the files are.
StagesInOrder ==
  drops = 0 => /\ begun["critic"] \subseteq begun["bench"]
               /\ begun["bench"] \subseteq passed
               /\ passed \subseteq begun["tester"]

\* While the tester has its connection it comes to every commit of the log, also
\* if it lost an earlier connection with lines in hand (main may end it before).
EveryCommitTested ==
  open["tester"] ~> ToSet(Left) \subseteq seen["tester"] \/ ~open["tester"]

\* In a first run, which finds no files of another, the commit whose tests passed
\* last is reviewed if no connection is lost or ended: the files that were
\* overwritten meanwhile do not make a later stage miss it.
LastPassedReviewed ==
  [](life = 1 /\ drops = 0) /\ <>[](\A w \in Workers : open[w])
    => \A c \in ToSet(Left) : <>[](testPass = <<c>>) => <>(c \in reviewed)
=============================================================================
