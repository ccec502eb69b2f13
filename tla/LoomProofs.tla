----------------------------- MODULE LoomProofs ----------------------------
(***************************************************************************)
(* Theorems about the two halves of LOOM.                                  *)
(*                                                                         *)
(* LoomArchitect, for every number of tasks, every budget, any number of   *)
(* starts and both behaviours of wait_closed: what the graph calls done is *)
(* logged, what it calls done is not assigned again, and the time a run    *)
(* has suffices for five tasks and never for a sixth.                      *)
(*                                                                         *)
(* LoomAgents, for whatever commits.log holds and any number of runs:      *)
(* while no connection is lost, no commit is benchmarked before its tests  *)
(* passed or reviewed before it is benchmarked, in whatever order the      *)
(* writers of the files come.                                              *)
(***************************************************************************)
EXTENDS LoomAgents, LoomArchitect, FiniteSetTheorems, WellFoundedInduction, TLAPS

Statuses == {"none", "torn", "pending", "done"}

\* The files agree: what the graph in memory, or in task_graph.json, calls done
\* is logged, and a run does not forget what it read from task_graph.json.
GraphInv ==
  /\ saved \in [Tasks -> Statuses] /\ status \in [Tasks -> Statuses]
  /\ SavedIsLogged
  /\ \A t \in Tasks : status[t] = "done" => t \in logged
  /\ pc # "off" => \A t \in Tasks : saved[t] = "done" => status[t] = "done"

Begun == jobs \cap given   \* what this run had to do and assigned

\* The loop goes through the list once: behind it are the tasks it assigned, at
\* three seconds each, and before it nothing has changed since the start.
TimeInv ==
  /\ jobs \subseteq Tasks /\ next \in Nat
  /\ pc \in {"creating", "starting", "loop", "waiting", "reporting"}
       => ~cancelled /\ clock < TimeLimit
  /\ pc \in {"creating", "starting"} => clock = 0 /\ next = 1 /\ Begun = {}
  /\ pc \in {"loop", "reporting"} => clock = 2 + 3 * Cardinality(Begun)
  /\ pc = "waiting" => clock = 3 * Cardinality(Begun) - 1
  /\ pc = "loop" => Begun = {t \in jobs : t < next}
  /\ pc = "waiting" => next \in Tasks /\ Begun = {t \in jobs : t <= next}
  /\ pc \in {"creating", "starting", "loop"} =>
       \A t \in Tasks : t >= next => (t \in jobs <=> status[t] # "done")
  /\ pc = "waiting" => \A t \in Tasks : t > next => (t \in jobs <=> status[t] # "done")
  /\ pc = "reporting" /\ budget = 0 => jobs \subseteq given
  /\ cancelled => Cardinality(jobs) > 5
-----------------------------------------------------------------------------
\* A set of tasks the loop still has to look at has a first one.
LEMMA FirstTask ==
  ASSUME NEW S \in SUBSET Tasks, S # {}
  PROVE  Min(S) \in S /\ \A y \in S : Min(S) <= y
<1>1. S \in SUBSET Nat
  BY DEF Tasks
<1>2. \E x \in S : \A y \in S : ~(<<y, x>> \in OpToRel(<, Nat))
  BY <1>1, NatLessThanWellFounded, WFMin
<1>3. \A x, y \in S : ~(<<y, x>> \in OpToRel(<, Nat)) => x <= y
  BY <1>1 DEF OpToRel
<1>4. \E x \in S : \A y \in S : x <= y
  BY <1>2, <1>3
<1>5. QED  BY <1>4 DEF Min

\* The seconds of the three sleeps.
LEMMA SleepLemma ==
  /\ DOMAIN Sleep = {"starting", "waiting", "reporting"}
  /\ Sleep["starting"] = 2 /\ Sleep["waiting"] = 3 /\ Sleep["reporting"] = 1
BY DEF Sleep
-----------------------------------------------------------------------------
\* A program that was never started has a graph that agrees with its log.
LEMMA GraphInit == ArchitectInit => GraphInv
<1> SUFFICES ASSUME ArchitectInit PROVE GraphInv
  OBVIOUS
<1>1. saved \in [Tasks -> Statuses] /\ status \in [Tasks -> Statuses]
  BY DEF ArchitectInit, NoGraph, Statuses
<1>2. QED  BY <1>1 DEF ArchitectInit, GraphInv, SavedIsLogged, NoGraph

\* Every step of a run, and its death, keeps the graph and the log in agreement.
LEMMA GraphNext == GraphInv /\ [ArchitectNext]_architectVars => GraphInv'
<1> SUFFICES ASSUME GraphInv, [ArchitectNext]_architectVars PROVE GraphInv'
  OBVIOUS
<1> USE DEF GraphInv, SavedIsLogged
<1>1. CASE Launch
  <2>1. NewGraph \in [Tasks -> Statuses] /\ \A t \in Tasks : NewGraph[t] # "done"
    BY DEF NewGraph, Statuses
  <2>2. TornGraph \in [Tasks -> Statuses] /\ \A t \in Tasks : TornGraph[t] # "done"
    BY DEF TornGraph, Statuses
  <2>3. /\ saved = NoGraph => saved' = TornGraph /\ status' = NewGraph
        /\ saved # NoGraph => saved' = saved /\ status' = saved
        /\ logged' = logged
    BY <1>1 DEF Launch, Resume
  <2>4. QED  BY <2>1, <2>2, <2>3
<1>2. ASSUME Exit, logged' = logged, saved' = saved \/ saved' = status PROVE GraphInv'
  <2>1. NoGraph \in [Tasks -> Statuses] /\ \A t \in Tasks : NoGraph[t] # "done"
    BY DEF NoGraph, Statuses
  <2>2. QED  BY <1>2, <2>1 DEF Exit
<1>3. CASE Judge
  <2>1. saved' = saved /\ pc = "waiting"
    BY <1>3 DEF Judge
  <2>2. CASE latest.test /\ latest.critic
    <3>1. /\ status' = [status EXCEPT ![next] = "done"]
          /\ logged' = logged \cup {next}
      BY <1>3, <2>2 DEF Judge
    <3>2. status' \in [Tasks -> Statuses]
      BY <3>1 DEF Statuses
    <3>3. QED  BY <2>1, <3>1, <3>2
  <2>3. CASE ~(latest.test /\ latest.critic)
    BY <1>3, <2>1, <2>3 DEF Judge
  <2>4. QED  BY <2>2, <2>3
<1>4. CASE Fallback
  <2>1. status' \in [Tasks -> Statuses] /\ \A t \in Tasks : status'[t] = "done"
    BY <1>4 DEF Fallback, Statuses
  <2>2. QED  BY <1>4, <2>1 DEF Fallback
<1>5. ASSUME UNCHANGED <<saved, logged, status>>, pc # "off" PROVE GraphInv'
  BY <1>5
<1>6. CASE Started \/ AssignTask \/ RequestReport \/ Reported \/ TimeOut \/ Closed
  BY <1>5, <1>6, SleepLemma
     DEF Started, AssignTask, RequestReport, Reported, TimeOut, Closed, disk, loop
<1>7. CASE Connect \/ Result \/ Deliver
  BY <1>5, <1>7 DEF Connect, Result, Deliver, Up, disk
<1>8. CASE Crash
  BY <1>2, <1>8 DEF Crash, disk
<1>9. CASE Save
  BY <1>2, <1>9 DEF Save
<1>10. CASE UNCHANGED architectVars \/ LaunchFails
  BY <1>10 DEF architectVars, LaunchFails, disk, loop
<1>11. CASE Create
  BY <1>11 DEF Create, Begin, loop
<1>12. CASE OpenGraph
  <2>1. TornGraph \in [Tasks -> Statuses] /\ \A t \in Tasks : TornGraph[t] # "done"
    BY DEF TornGraph, Statuses
  <2>2. QED  BY <1>12, <2>1 DEF OpenGraph, loop
<1>13. QED
  BY <1>1, <1>3, <1>4, <1>6, <1>7, <1>8, <1>9, <1>10, <1>11, <1>12 DEF ArchitectNext, Step

\* What task_graph.json calls done has its end in progress.jsonl, wherever the
\* program was killed and however often: the log is written before the graph.
THEOREM SavedAreLogged == ArchitectSpec => []SavedIsLogged
<1>1. GraphInv => SavedIsLogged
  BY DEF GraphInv
<1>2. QED  BY <1>1, GraphInit, GraphNext, PTL DEF ArchitectSpec

\* A later run assigns nothing that task_graph.json calls done.
THEOREM DoneStaysDone ==
  ArchitectSpec => DoneNotReassigned
<1> DEFINE Reassigned == \E t \in Tasks : /\ next' = t /\ pc' = "waiting" /\ pc = "loop"
                                          /\ saved[t] = "done"
<1>1. GraphInv /\ [ArchitectNext]_architectVars => ~Reassigned
  <2> SUFFICES ASSUME GraphInv, [ArchitectNext]_architectVars, Reassigned PROVE FALSE
    OBVIOUS
  <2>1. pc = "loop" /\ pc' = "waiting" /\ saved[next'] = "done" /\ next' \in Tasks
    OBVIOUS
  <2>2. AssignTask
    BY <2>1, SleepLemma
       DEF ArchitectNext, Step, Started, Judge, RequestReport, Reported, TimeOut, Closed, Fallback,
           OpenGraph, Save, Launch, LaunchFails, Create, Begin, Crash, Exit, Connect, Result, Deliver, architectVars
  <2>3. next' \in Pending(status)
    BY <2>2, FirstTask DEF AssignTask, Pending
  <2>4. QED  BY <2>1, <2>3 DEF GraphInv, Pending
<1>2. GraphInv /\ [ArchitectNext]_architectVars
        => [\A t \in Tasks : next' = t /\ pc' = "waiting" /\ pc = "loop"
                               => saved[t] # "done"]_architectVars
  BY <1>1
<1>3. QED  BY <1>2, GraphInit, GraphNext, PTL DEF ArchitectSpec, DoneNotReassigned
-----------------------------------------------------------------------------
\* What the run has to do is finite, and so is what it assigned of it.
LEMMA BegunFinite ==
  ASSUME jobs \subseteq Tasks
  PROVE  /\ IsFiniteSet(jobs) /\ IsFiniteSet(Begun)
         /\ Cardinality(jobs) \in Nat /\ Cardinality(Begun) \in Nat
         /\ Cardinality(Begun) <= Cardinality(jobs)
<1>1. IsFiniteSet(Tasks)
  BY ArchitectAssumption, FS_Interval DEF Tasks
<1>2. IsFiniteSet(jobs)
  BY <1>1, FS_Subset
<1>3. IsFiniteSet(Begun) /\ Cardinality(Begun) <= Cardinality(jobs)
  BY <1>2, FS_Subset DEF Begun
<1>4. QED  BY <1>2, <1>3, FS_CardinalityType

\* Nothing has been assigned before the program is started.
LEMMA TimeInit == ArchitectInit => TimeInv
BY DEF ArchitectInit, TimeInv, Begun

\* Assigning takes the first of the tasks that are left.
LEMMA TimeAssign ==
  ASSUME GraphInv, TimeInv, AssignTask
  PROVE  TimeInv'
<1> DEFINE left == {t \in Pending(status) : t >= next}
<1>1. /\ pc = "loop" /\ pc' = "waiting" /\ left # {} /\ next' = Min(left)
      /\ given' = given \cup {next'}
      /\ UNCHANGED <<clock, status, jobs, cancelled>>
  BY DEF AssignTask
<1>2. left \in SUBSET Tasks
  BY DEF Pending
<1>3. next' \in left /\ \A t \in left : next' <= t
  <2> HIDE DEF left
  <2>1. QED  BY <1>1, <1>2, FirstTask
<1>4. next' \in Tasks /\ next' \in Nat /\ next' >= next /\ next \in Nat /\ Tasks \subseteq Nat
  BY <1>3 DEF Pending, Tasks, TimeInv
<1>5. \A t \in Tasks : t >= next => (t \in jobs <=> t \in left)
  BY <1>1 DEF TimeInv, Pending
<1>6. Begun = {t \in jobs : t < next} /\ jobs \subseteq Tasks
  BY <1>1 DEF TimeInv
<1>7. Begun' = Begun \cup {next'} /\ next' \notin Begun
  <2>1. next' \in jobs
    BY <1>3, <1>4, <1>5
  <2>2. QED  BY <1>1, <1>4, <1>6, <2>1 DEF Begun
<1>8. Cardinality(Begun') = Cardinality(Begun) + 1 /\ Cardinality(Begun) \in Nat
  BY <1>6, <1>7, BegunFinite, FS_AddElement
<1>9. Begun' = {t \in jobs : t <= next'}
  <2> HIDE DEF left
  <2>1. \A t \in jobs : t >= next => (t <= next' <=> t = next')
    BY <1>3, <1>4, <1>5, <1>6
  <2>2. \A t \in jobs : t < next => t <= next'
    BY <1>4, <1>6
  <2>3. \A t \in jobs : t < next \/ t >= next
    BY <1>4, <1>6
  <2>4. next' \in jobs
    BY <1>3, <1>4, <1>5
  <2>5. QED  BY <1>6, <1>7, <2>1, <2>2, <2>3, <2>4, <1>4
<1>10. \A t \in Tasks : t > next' => (t \in jobs <=> status[t] # "done")
  BY <1>1, <1>4 DEF TimeInv
<1>11. clock = 2 + 3 * Cardinality(Begun) /\ ~cancelled /\ clock < TimeLimit
  BY <1>1 DEF TimeInv
<1>12. clock' = 3 * Cardinality(Begun') - 1
  <2> HIDE DEF left
  <2>1. QED  BY <1>1, <1>8, <1>11
<1> HIDE DEF left
<1>13. QED
  BY <1>1, <1>4, <1>6, <1>9, <1>10, <1>11, <1>12 DEF TimeInv, Begun

\* The verdict on one task leaves those after it alone.
LEMMA TimeJudge ==
  ASSUME GraphInv, TimeInv, Judge
  PROVE  TimeInv'
<1>1. /\ pc = "waiting" /\ pc' = "loop" /\ next' = next + 1
      /\ clock' = clock + 3 /\ clock' < TimeLimit
      /\ UNCHANGED <<given, jobs, cancelled>>
  BY SleepLemma DEF Judge, Slept
<1>2. \A t \in Tasks : t > next => status'[t] = status[t]
  <2>1. status' = [status EXCEPT ![next] = "done"] \/ status' = status
    BY DEF Judge
  <2>2. next \in Nat /\ Tasks \subseteq Int
    BY DEF TimeInv, Tasks
  <2>3. QED  BY <2>1, <2>2 DEF GraphInv
<1>3. next \in Nat /\ jobs \subseteq Tasks /\ Tasks \subseteq Nat
  BY DEF TimeInv, Tasks
<1>4. Begun = {t \in jobs : t <= next} /\ clock = 3 * Cardinality(Begun) - 1 /\ ~cancelled
  BY <1>1 DEF TimeInv
<1>5. Begun' = Begun /\ Begun' = {t \in jobs : t < next + 1}
  <2>1. Begun' = Begun
    BY <1>1 DEF Begun
  <2>2. \A t \in jobs : t <= next <=> t < next + 1
    BY <1>3
  <2>3. QED  BY <1>4, <2>1, <2>2
<1>6. \A t \in Tasks : t >= next + 1 => (t \in jobs <=> status'[t] # "done")
  BY <1>1, <1>2, <1>3 DEF TimeInv
<1>7. clock' = 2 + 3 * Cardinality(Begun')
  BY <1>1, <1>3, <1>4, <1>5, BegunFinite
<1>8. QED
  BY <1>1, <1>3, <1>4, <1>5, <1>6, <1>7 DEF TimeInv, Begun

\* Every step keeps the account of the seconds; the sixth task is one too many.
LEMMA TimeNext ==
  GraphInv /\ TimeInv /\ [ArchitectNext]_architectVars => TimeInv'
<1> SUFFICES ASSUME GraphInv, TimeInv, [ArchitectNext]_architectVars PROVE TimeInv'
  OBVIOUS
<1>1. /\ jobs \subseteq Tasks /\ next \in Nat
      /\ Cardinality(Begun) \in Nat /\ Cardinality(jobs) \in Nat
      /\ Cardinality(Begun) <= Cardinality(jobs)
  BY BegunFinite DEF TimeInv
<1>2. CASE Launch
  <2>1. /\ jobs' = Pending(status') /\ given' = Tasks \ jobs' /\ next' = 1
        /\ clock' = 0 /\ ~cancelled'
        /\ pc' \in {"creating", "starting"} \/ (pc' = "fallback" /\ portFailed')
    BY <1>2 DEF Launch, Begin
  <2>2. jobs' \subseteq Tasks /\ \A t \in Tasks : t \in jobs' <=> status'[t] # "done"
    BY <2>1 DEF Pending
  <2>3. QED  BY <2>1, <2>2 DEF TimeInv, Begun, TimeLimit
<1>3. CASE Started
  <2>1. /\ pc = "starting" /\ pc' = "loop" /\ clock' = clock + 2
        /\ UNCHANGED <<budget, loop, record>>
    BY <1>3, SleepLemma DEF Started, Slept
  <2>2. clock = 0 /\ next = 1 /\ Begun = {} /\ ~cancelled
    BY <2>1 DEF TimeInv
  <2>3. Cardinality(Begun) = 0
    BY <2>2, FS_EmptySet
  <2>4. Begun' = Begun /\ next' = next /\ jobs' = jobs /\ status' = status /\ ~cancelled'
    BY <2>1, <2>2 DEF Begun, loop, record
  <2>5. {t \in jobs : t < 1} = {}
    <3>1. \A t \in jobs : ~(t < 1)
      BY <1>1 DEF Tasks
    <3>2. QED  BY <3>1
  <2>6. QED
    BY <1>1, <2>1, <2>2, <2>3, <2>4, <2>5 DEF TimeInv, TimeLimit
<1>4. CASE RequestReport
  <2>1. /\ pc = "loop" /\ pc' = "reporting"
        /\ UNCHANGED <<budget, clock, next, jobs, given, cancelled>>
    BY <1>4 DEF RequestReport, record
  <2>2. Begun' = Begun /\ Begun = {t \in jobs : t < next}
    BY <2>1 DEF Begun, TimeInv
  <2>3. budget = 0 => jobs \subseteq given
    <3> SUFFICES ASSUME budget = 0 PROVE jobs \subseteq given
      OBVIOUS
    <3>1. {t \in Pending(status) : t >= next} = {}
      BY <1>4 DEF RequestReport, BudgetSpent
    <3>2. \A t \in jobs : ~(t >= next)
      BY <1>1, <2>1, <3>1 DEF TimeInv, Pending
    <3>3. \A t \in jobs : t \in Nat
      BY <1>1 DEF Tasks
    <3>4. \A t \in jobs : t < next
      BY <1>1, <3>2, <3>3
    <3>5. QED  BY <2>2, <3>4 DEF Begun
  <2>4. QED  BY <1>1, <2>1, <2>2, <2>3 DEF TimeInv
<1>5. CASE Reported
  <2>1. pc = "reporting" /\ pc' = "closing" /\ UNCHANGED <<next, jobs, cancelled>>
    BY <1>5 DEF Reported, loop, record
  <2>2. QED  BY <1>1, <2>1 DEF TimeInv
<1>6. CASE TimeOut
  <2>1. /\ pc \in DOMAIN Sleep /\ clock + Sleep[pc] >= 20 /\ pc' = "closing"
        /\ UNCHANGED <<next, jobs>>
    BY <1>6 DEF TimeOut, record, TimeLimit
  <2>2. Cardinality(jobs) > 5
    <3>1. CASE pc = "starting"
      BY <2>1, <3>1, SleepLemma DEF TimeInv
    <3>2. CASE pc = "waiting"
      <4>1. clock = 3 * Cardinality(Begun) - 1 /\ clock + 3 >= 20
        BY <2>1, <3>2, SleepLemma DEF TimeInv
      <4>2. QED  BY <1>1, <4>1
    <3>3. CASE pc = "reporting"
      <4>1. clock = 2 + 3 * Cardinality(Begun) /\ clock + 1 >= 20
        BY <2>1, <3>3, SleepLemma DEF TimeInv
      <4>2. QED  BY <1>1, <4>1
    <3>4. QED  BY <2>1, <3>1, <3>2, <3>3, SleepLemma
  <2>3. QED  BY <1>1, <2>1, <2>2 DEF TimeInv
<1>7. CASE Closed
  <2>1. /\ pc' \in {"fallback", "saving"}
        /\ UNCHANGED <<next, jobs, cancelled>>
    BY <1>7 DEF Closed, loop, record
  <2>2. QED  BY <1>1, <2>1 DEF TimeInv
<1>8. CASE Fallback
  <2>1. pc' = "saving" /\ UNCHANGED <<next, jobs, cancelled>>
    BY <1>8 DEF Fallback, record
  <2>2. QED  BY <1>1, <2>1 DEF TimeInv
<1>9. ASSUME Exit, jobs' = jobs PROVE TimeInv'
  BY <1>1, <1>9 DEF Exit, TimeInv
<1>10. ASSUME UNCHANGED <<pc, clock, budget, status, next, cancelled, record>> PROVE TimeInv'
  <2>1. Begun' = Begun /\ UNCHANGED <<jobs, given, portFailed>>
    BY <1>10 DEF Begun, record
  <2>2. QED  BY <1>10, <2>1 DEF TimeInv
<1>11. CASE Connect \/ Result \/ Deliver
  BY <1>10, <1>11 DEF Connect, Result, Deliver
<1>12. CASE Crash \/ Save
  BY <1>9, <1>12 DEF Crash, Save, record
<1>13. CASE UNCHANGED architectVars
  BY <1>10, <1>13 DEF architectVars, loop
<1>14. CASE LaunchFails
  BY <1>10, <1>14 DEF LaunchFails, loop
<1>15. CASE Create
  <2>1. /\ pc = "creating" /\ UNCHANGED <<clock, budget, status, next, cancelled, record>>
        /\ pc' = "starting" \/ (pc' = "fallback" /\ portFailed')
    BY <1>15 DEF Create, Begin, loop, record
  <2>2. Begun' = Begun /\ UNCHANGED <<jobs, given, portFailed>>
    BY <2>1 DEF Begun, record
  <2>3. QED  BY <2>1, <2>2 DEF TimeInv
<1>16. CASE OpenGraph
  <2>1. pc' = "writing" /\ UNCHANGED <<next, jobs, cancelled>>
    BY <1>16 DEF OpenGraph, loop, record
  <2>2. QED  BY <1>1, <2>1 DEF TimeInv
<1>17. QED
  BY <1>2, <1>3, <1>4, <1>5, <1>6, <1>7, <1>8, <1>11, <1>12, <1>13, <1>14, <1>15, <1>16,
     TimeAssign, TimeJudge
     DEF ArchitectNext, Step

\* The loop runs out of time only with six tasks or more to do, and reaches each
\* of fewer: the 20 seconds of wait_for are exactly enough for five.
THEOREM TimeIsForFive ==
  ArchitectSpec => []TimeForFive
<1>1. TimeInv => TimeForFive
  <2> SUFFICES ASSUME TimeInv PROVE TimeForFive
    OBVIOUS
  <2>1. /\ Cardinality(Begun) \in Nat /\ jobs \subseteq Tasks
    BY BegunFinite DEF TimeInv
  <2>2. ASSUME pc = "reporting", budget = 0
        PROVE  jobs \subseteq given /\ Cardinality(jobs) <= 5
    <3>1. /\ jobs \subseteq given /\ clock = 2 + 3 * Cardinality(Begun)
          /\ clock < 20
      BY <2>2 DEF TimeInv, TimeLimit
    <3>2. Begun = jobs
      BY <3>1 DEF Begun
    <3>3. QED  BY <2>1, <3>1, <3>2
  <2>3. QED  BY <2>2 DEF TimeInv, TimeForFive
<1>2. QED  BY <1>1, GraphInit, GraphNext, TimeInit, TimeNext, PTL DEF ArchitectSpec
-----------------------------------------------------------------------------
\* The commits that may be in the file a worker reads.
Source(w) ==
  CASE w = "tester" -> Nat [] w = "bench" -> passed [] w = "critic" -> begun["bench"]

\* A worker's results are about commits it has begun with.
Results(w) == [commit : begun[w], passed : BOOLEAN]

TypeInv ==
  /\ drops \in Nat
  /\ testPass \in Seq(Nat) /\ benchDone \in Seq(Nat)
  /\ passed \in SUBSET Nat /\ begun \in [Workers -> SUBSET Nat]
  /\ lines \in [Workers -> Seq(Nat)]
  /\ wire \in [Workers -> Seq([commit : Nat, passed : BOOLEAN])]
  /\ polling \in [Workers -> BOOLEAN] /\ open \in [Workers -> BOOLEAN]
  /\ used \in [Workers -> BOOLEAN] /\ behind \in [Workers -> BOOLEAN]

\* Without a lost connection, an agent that comes to the handler comes with a session
\* that was not used, so that nothing is misread.
LinksInv ==
  \A w \in Workers :
    /\ ~behind[w]
    /\ lines[w] # <<>> => polling[w]
    /\ phase # "off" => (polling[w] => open[w]) /\ (used[w] => polling[w])

\* Every commit on its way from one stage to the next, in a file, in what was read
\* of one or in a result, has gone through the stage it comes from.
StagesInv ==
  /\ passed \subseteq begun["tester"]
  /\ \A w \in Workers :
       /\ File(w) \in Seq(Source(w)) /\ lines[w] \in Seq(Source(w)) /\ begun[w] \subseteq Source(w)
       /\ wire[w] \in Seq(Results(w))

\* Each of the three workers.
LEMMA WorkerLemma ==
  /\ \A w \in Workers : w \in {"tester", "bench", "critic"}
  /\ "tester" \in Workers /\ "bench" \in Workers /\ "critic" \in Workers
BY DEF Workers

\* Agents that were just started have begun with nothing.
LEMMA FreshLemma ==
  /\ Fresh.polling = NoneOpen /\ Fresh.open = NoneOpen /\ Fresh.used = NoneOpen
  /\ Fresh.behind = NoneOpen /\ Fresh.lines = Nothing /\ Fresh.wire = Nothing
  /\ Fresh.seen = [w \in Workers |-> {}]
  /\ NoneOpen \in [Workers -> BOOLEAN] /\ \A w \in Workers : ~NoneOpen[w]
  /\ \A S : Nothing \in [Workers -> Seq(S)]
  /\ \A w \in Workers : Nothing[w] = <<>>
BY DEF Fresh, NoneOpen, Nothing

\* A first run begins with no file but commits.log.
LEMMA StagesInit == Init => TypeInv /\ LinksInv /\ StagesInv
<1> SUFFICES ASSUME Init PROVE TypeInv /\ LinksInv /\ StagesInv
  OBVIOUS
<1>1. \A S : <<>> \in Seq(S)
  OBVIOUS
<1>2. Left \in Seq(Nat)
  BY LoomAssumption
<1>3. TypeInv
  BY <1>1, FreshLemma DEF Init, TypeInv
<1>4. LinksInv
  BY FreshLemma DEF Init, LinksInv
<1>5. StagesInv
  <2>1. /\ begun = [w \in Workers |-> {}] /\ passed = {} /\ testPass = <<>> /\ benchDone = <<>>
        /\ \A w \in Workers : lines[w] = <<>> /\ wire[w] = <<>>
    BY FreshLemma DEF Init
  <2>2. \A w \in Workers : File(w) \in Seq(Source(w))
    BY <1>1, <1>2, <2>1, WorkerLemma DEF File, Source
  <2>3. QED  BY <1>1, <2>1, <2>2, WorkerLemma DEF StagesInv
<1>6. QED  BY <1>3, <1>4, <1>5

\* What may be in a file only grows.
LEMMA SourceLemma ==
  ASSUME passed \subseteq passed', begun["bench"] \subseteq begun'["bench"], NEW w \in Workers
  PROVE  /\ Source(w) \subseteq Source(w)'
         /\ Seq(Source(w)) \subseteq Seq(Source(w)')
<1>1. Source(w) \subseteq Source(w)'
  BY WorkerLemma DEF Source
<1>2. QED  BY <1>1

\* What is left of a read, and of the results on their way, has the type of the whole.
LEMMA SeqLemma == \A S : \A q \in Seq(S) : q # <<>> => Head(q) \in S /\ Tail(q) \in Seq(S)
OBVIOUS

\* The file of a worker is a sequence of commits, and so is what may be misread.
LEMMA FileLemma ==
  ASSUME TypeInv
  PROVE  /\ \A w \in Workers : File(w) \in Seq(Nat)
         /\ Misread \subseteq [commit : Nat, passed : BOOLEAN]
<1>1. Left \in Seq(Nat)
  BY LoomAssumption
<1>2. \A w \in Workers : File(w) \in Seq(Nat)
  BY <1>1, WorkerLemma DEF File, TypeInv
<1>3. ToSet(Left) \subseteq Nat
  BY <1>1 DEF ToSet
<1>4. QED  BY <1>2, <1>3 DEF Misread
-----------------------------------------------------------------------------
\* The choices of a step in which an agent takes up a commit.
WorkStep(w, c, ok, raised, wrote) ==
  /\ raised => ~open[w]
  /\ wrote => w = "bench"
  /\ begun' = [begun EXCEPT ![w] = @ \cup {c}]
  /\ lines' = [lines EXCEPT ![w] = IF raised THEN <<>> ELSE Tail(@)]
  /\ polling' = [polling EXCEPT ![w] = ~raised]
  /\ wire' = IF open[w] THEN [wire EXCEPT ![w] = Append(@, [commit |-> c, passed |-> ok])]
                        ELSE wire
  /\ benchDone' = IF wrote THEN <<c>> ELSE benchDone
  /\ used' = [used EXCEPT ![w] = TRUE]
  /\ UNCHANGED <<run, testPass, open, behind, drops, passed>>

\* Work is such a step, for the first line in hand.
LEMMA WorkLemma ==
  ASSUME NEW w \in Workers, Work(w)
  PROVE  /\ lines[w] # <<>>
         /\ \E ok, raised, wrote \in BOOLEAN : WorkStep(w, Head(lines[w]), ok, raised, wrote)
<1>1. PICK ok \in BOOLEAN, raised \in BOOLEAN, wrote \in BOOLEAN :
        /\ raised => ~open[w]
        /\ w # "bench" => ~wrote
        /\ begun' = [begun EXCEPT ![w] = @ \cup {Head(lines[w])}]
        /\ lines' = [lines EXCEPT ![w] = IF raised THEN <<>> ELSE Tail(@)]
        /\ polling' = [polling EXCEPT ![w] = ~raised]
        /\ wire' = IF open[w]
                   THEN [wire EXCEPT ![w] = Append(@, [commit |-> Head(lines[w]), passed |-> ok])]
                   ELSE wire
        /\ benchDone' = IF wrote THEN <<Head(lines[w])>> ELSE benchDone
  BY DEF Work
<1>2. /\ lines[w] # <<>> /\ used' = [used EXCEPT ![w] = TRUE]
      /\ UNCHANGED <<run, testPass, open, behind, drops, passed>>
  BY DEF Work
<1>3. WorkStep(w, Head(lines[w]), ok, raised, wrote)
  BY <1>1, <1>2 DEF WorkStep
<1>4. QED  BY <1>2, <1>3

\* The values of the variables keep their types: nothing here depends on links.
LEMMA TypeNext == TypeInv /\ [Next]_vars => TypeInv'
<1> SUFFICES ASSUME TypeInv, [Next]_vars PROVE TypeInv'
  OBVIOUS
<1> USE DEF TypeInv
<1>1. ASSUME NEW w \in Workers, Reconnect(w) PROVE TypeInv'
  <2>1. /\ behind' \in [Workers -> BOOLEAN] /\ open' \in [Workers -> BOOLEAN]
        /\ polling' \in [Workers -> BOOLEAN]
    BY <1>1 DEF Reconnect
  <2>2. QED  BY <1>1, <2>1 DEF Reconnect, files, history
<1>2. ASSUME NEW w \in Workers, Poll(w) PROVE TypeInv'
  <2>1. lines' \in [Workers -> Seq(Nat)]
    BY <1>2, FileLemma DEF Poll
  <2>2. QED  BY <1>2, <2>1 DEF Poll, files, links, history
<1>3. ASSUME NEW w \in Workers, Skip(w) PROVE TypeInv'
  <2>1. Tail(lines[w]) \in Seq(Nat)
    BY <1>3, SeqLemma DEF Skip
  <2>2. lines' \in [Workers -> Seq(Nat)]
    BY <1>3, <2>1 DEF Skip
  <2>3. QED  BY <1>3, <2>2 DEF Skip, files, links, history
<1>4. ASSUME NEW w \in Workers, Work(w) PROVE TypeInv'
  <2> DEFINE c == Head(lines[w])
  <2>1. c \in Nat /\ Tail(lines[w]) \in Seq(Nat)
    BY <1>4, WorkLemma, SeqLemma
  <2>2. PICK ok \in BOOLEAN, raised \in BOOLEAN, wrote \in BOOLEAN :
          WorkStep(w, c, ok, raised, wrote)
    BY <1>4, WorkLemma
  <2> HIDE DEF c
  <2> USE DEF WorkStep
  <2>3. begun' \in [Workers -> SUBSET Nat] /\ lines' \in [Workers -> Seq(Nat)]
    BY <2>1, <2>2
  <2>4. benchDone' \in Seq(Nat)
    BY <2>1, <2>2
  <2>5. wire' \in [Workers -> Seq([commit : Nat, passed : BOOLEAN])]
    <3>1. [commit |-> c, passed |-> ok] \in [commit : Nat, passed : BOOLEAN]
      BY <2>1, <2>2
    <3>2. QED  BY <2>2, <3>1
  <2>6. polling' \in [Workers -> BOOLEAN] /\ used' \in [Workers -> BOOLEAN]
    <3>1. \A x \in BOOLEAN : [polling EXCEPT ![w] = ~x] \in [Workers -> BOOLEAN]
      OBVIOUS
    <3>2. QED  BY <2>2, <3>1
  <2>7. UNCHANGED <<testPass, open, behind, drops, passed>>
    BY <2>2
  <2>8. QED  BY <2>3, <2>4, <2>5, <2>6, <2>7
<1>5. ASSUME NEW w \in Workers, Close(w)
      PROVE  /\ wire' \in [Workers -> Seq([commit : Nat, passed : BOOLEAN])]
             /\ open' \in [Workers -> BOOLEAN]
  BY <1>5 DEF Close
<1>6. ASSUME NEW w \in Workers, HandleResult(w) PROVE TypeInv'
  <2>1. /\ Head(wire[w]) \in [commit : Nat, passed : BOOLEAN]
        /\ Tail(wire[w]) \in Seq([commit : Nat, passed : BOOLEAN])
    BY <1>6, SeqLemma DEF HandleResult
  <2>2. PICK r \in [commit : Nat, passed : BOOLEAN] : Record(w, r)
    BY <1>6, <2>1, FileLemma DEF HandleResult
  <2>3. /\ testPass' \in Seq(Nat) /\ passed' \in SUBSET Nat /\ benchDone' \in Seq(Nat)
    <3>1. r.commit \in Nat /\ \A x \in Nat : <<x>> \in Seq(Nat)
      BY <2>2
    <3>2. testPass' = testPass \/ testPass' = <<r.commit>>
      BY <2>2 DEF Record
    <3>3. benchDone' = benchDone \/ benchDone' = <<r.commit>>
      BY <2>2 DEF Record
    <3>4. passed' \in SUBSET Nat
      BY <2>2, <3>1 DEF Record
    <3>5. QED  BY <3>1, <3>2, <3>3, <3>4
  <2>4. wire' \in [Workers -> Seq([commit : Nat, passed : BOOLEAN])]
    BY <1>6, <2>1 DEF HandleResult
  <2>5. QED  BY <1>6, <2>3, <2>4 DEF HandleResult
<1>7. ASSUME NEW w \in Workers, HandlerRaises(w) PROVE TypeInv'
  BY <1>5, <1>7 DEF HandlerRaises, files, history
<1>8. ASSUME NEW w \in Workers, Drop(w) PROVE TypeInv'
  BY <1>5, <1>8 DEF Drop, files, history
<1>9. CASE ServerCloses
  BY <1>9 DEF ServerCloses, files, links, history
<1>10. CASE HandlersEnd
  BY <1>10, FreshLemma DEF HandlersEnd, files, history
<1>11. CASE NextRun
  <2>1. benchDone' = benchDone \/ benchDone' = <<>>
    BY <1>11 DEF NextRun
  <2>2. benchDone' \in Seq(Nat)
    <3>1. \A S : <<>> \in Seq(S)
      OBVIOUS
    <3>2. QED  BY <2>1, <3>1
  <2>3. /\ polling' = NoneOpen /\ open' = NoneOpen /\ used' = NoneOpen /\ behind' = NoneOpen
        /\ lines' = Nothing /\ wire' = Nothing
    BY <1>11, FreshLemma DEF NextRun
  <2>4. UNCHANGED <<testPass, drops, begun, passed>>
    BY <1>11 DEF NextRun, history
  <2>5. QED  BY <2>2, <2>3, <2>4, FreshLemma
<1>12. CASE UNCHANGED vars
  BY <1>12 DEF vars, files, links, history
<1>13. QED
  BY <1>1, <1>2, <1>3, <1>4, <1>6, <1>7, <1>8, <1>9, <1>10, <1>11, <1>12 DEF Next, Act, Handle
-----------------------------------------------------------------------------
\* While no connection is lost none is misread, in any run.
LEMMA LinksNext ==
  ASSUME TypeInv, LinksInv, [Next]_vars, drops' = 0
  PROVE  LinksInv'
<1> USE DEF TypeInv, LinksInv
<1>1. ASSUME NEW w \in Workers, Reconnect(w) PROVE LinksInv'
  <2>1. phase = "up" /\ ~polling[w] /\ UNCHANGED <<phase, lines, used>>
    BY <1>1 DEF Reconnect, run
  <2>2. ~used[w]
    BY <2>1
  <2>3. \A v \in Workers : ~behind'[v]
    BY <1>1, <2>2 DEF Reconnect
  <2>4. \A v \in Workers : /\ polling'[v] <=> v = w \/ polling[v]
                           /\ open'[v] <=> v = w \/ open[v]
    BY <1>1 DEF Reconnect
  <2>5. QED  BY <2>1, <2>3, <2>4
<1>2. ASSUME NEW w \in Workers, Poll(w) PROVE LinksInv'
  <2>1. polling[w] /\ UNCHANGED <<phase, polling, used, open, behind>>
    BY <1>2 DEF Poll, run, links
  <2>2. \A v \in Workers : v # w => lines'[v] = lines[v]
    BY <1>2 DEF Poll
  <2>3. QED  BY <2>1, <2>2
<1>3. ASSUME NEW w \in Workers, Skip(w) PROVE LinksInv'
  <2>1. lines[w] # <<>> /\ UNCHANGED <<phase, polling, used, open, behind>>
    BY <1>3 DEF Skip, run, links
  <2>2. \A v \in Workers : v # w => lines'[v] = lines[v]
    BY <1>3 DEF Skip
  <2>3. QED  BY <2>1, <2>2
<1>4. ASSUME NEW w \in Workers, Work(w) PROVE LinksInv'
  <2>1. polling[w]
    BY <1>4, WorkLemma
  <2>2. PICK ok \in BOOLEAN, raised \in BOOLEAN, wrote \in BOOLEAN :
          WorkStep(w, Head(lines[w]), ok, raised, wrote)
    BY <1>4, WorkLemma
  <2>3. UNCHANGED <<phase, open, behind>>
    BY <2>2 DEF WorkStep, run
  <2>4. \A v \in Workers : v # w => /\ lines'[v] = lines[v]
                                    /\ polling'[v] <=> polling[v]
                                    /\ used'[v] <=> used[v]
    BY <2>2 DEF WorkStep
  <2>5. CASE raised
    <3>1. ~open[w] /\ phase = "off" /\ lines'[w] = <<>>
      BY <2>1, <2>2, <2>5 DEF WorkStep
    <3>2. QED  BY <2>3, <2>4, <3>1
  <2>6. CASE ~raised
    <3>1. polling'[w]
      BY <2>2, <2>6 DEF WorkStep
    <3>2. QED  BY <2>1, <2>3, <2>4, <3>1
  <2>7. QED  BY <2>5, <2>6
<1>5. ASSUME NEW w \in Workers, HandleResult(w) PROVE LinksInv'
  BY <1>5 DEF HandleResult, run
<1>6. ASSUME NEW w \in Workers, HandlerRaises(w) PROVE LinksInv'
  BY <1>6 DEF HandlerRaises
<1>7. ASSUME NEW w \in Workers, Drop(w) PROVE LinksInv'
  BY <1>7 DEF Drop
<1>8. CASE ServerCloses
  BY <1>8 DEF ServerCloses, links
<1>9. CASE HandlersEnd
  BY <1>9 DEF HandlersEnd
<1>10. CASE NextRun
  BY <1>10, FreshLemma DEF NextRun
<1>11. CASE UNCHANGED vars
  BY <1>11 DEF vars, run, links
<1>12. QED
  BY <1>1, <1>2, <1>3, <1>4, <1>5, <1>6, <1>7, <1>8, <1>9, <1>10, <1>11 DEF Next, Act, Handle

\* Without a lost connection every step takes commits on one stage at most, and
\* only those that are through the one before.
LEMMA StagesNext ==
  ASSUME TypeInv, LinksInv, StagesInv, [Next]_vars, drops' = 0
  PROVE  StagesInv'
<1>1. ASSUME UNCHANGED <<testPass, begun, passed>>, benchDone' = benchDone \/ benchDone' = <<>>,
             \A w \in Workers : lines'[w] = lines[w] \/ lines'[w] = <<>>,
             \A w \in Workers : wire'[w] = wire[w] \/ wire'[w] = <<>>
      PROVE  StagesInv'
  <2>1. \A w \in Workers : Source(w)' = Source(w) /\ Results(w)' = Results(w)
    BY <1>1 DEF Source, Results
  <2>2. \A S : <<>> \in Seq(S)
    OBVIOUS
  <2>3. \A w \in Workers : File(w)' = File(w) \/ File(w)' = <<>>
    BY <1>1, WorkerLemma DEF File
  <2>4. \A w \in Workers : File(w)' \in Seq(Source(w))
    BY <2>2, <2>3 DEF StagesInv
  <2>5. \A w \in Workers : lines'[w] \in Seq(Source(w)) /\ wire'[w] \in Seq(Results(w))
    BY <1>1, <2>2 DEF StagesInv
  <2>6. QED  BY <1>1, <2>1, <2>4, <2>5 DEF StagesInv
<1>2. ASSUME NEW w \in Workers, Reconnect(w) PROVE StagesInv'
  BY <1>1, <1>2 DEF Reconnect, files, history
<1>3. CASE UNCHANGED vars
  BY <1>1, <1>3 DEF vars, files, links, history
<1>4. CASE ServerCloses
  BY <1>1, <1>4 DEF ServerCloses, files, links, history
<1>5. CASE HandlersEnd
  BY <1>1, <1>5, FreshLemma DEF HandlersEnd, files, history
<1>6. CASE NextRun
  <2>1. benchDone' = benchDone \/ benchDone' = <<>>
    BY <1>6 DEF NextRun
  <2>2. QED  BY <1>1, <1>6, <2>1, FreshLemma DEF NextRun, history
<1>7. ASSUME NEW w \in Workers, Poll(w) \/ Skip(w) PROVE StagesInv'
  <2>1. /\ UNCHANGED <<files, begun, passed, wire>>
        /\ lines' = [lines EXCEPT ![w] = File(w)]
           \/ (lines[w] # <<>> /\ lines' = [lines EXCEPT ![w] = Tail(@)])
    BY <1>7 DEF Poll, Skip, links, history
  <2>2. \A v \in Workers : File(v)' = File(v) /\ Source(v)' = Source(v) /\ Results(v)' = Results(v)
    BY <2>1 DEF File, Source, Results, files
  <2>3. \A v \in Workers : lines'[v] \in Seq(Source(v))
    <3> SUFFICES ASSUME NEW v \in Workers PROVE lines'[v] \in Seq(Source(v))
      OBVIOUS
    <3>1. File(v) \in Seq(Source(v)) /\ lines[v] \in Seq(Source(v))
      BY DEF StagesInv
    <3>2. lines[v] # <<>> => Tail(lines[v]) \in Seq(Source(v))
      BY <3>1, SeqLemma
    <3>3. lines'[v] = lines[v] \/ lines'[v] = File(v)
          \/ (lines[v] # <<>> /\ lines'[v] = Tail(lines[v]))
      BY <2>1 DEF TypeInv
    <3>4. QED  BY <3>1, <3>2, <3>3
  <2>4. QED  BY <2>1, <2>2, <2>3 DEF StagesInv
<1>8. ASSUME NEW w \in Workers, Work(w) PROVE StagesInv'
  <2> DEFINE c == Head(lines[w])
  <2>1. c \in Source(w) /\ Tail(lines[w]) \in Seq(Source(w))
    <3>1. lines[w] # <<>> /\ lines[w] \in Seq(Source(w))
      BY <1>8, WorkLemma DEF StagesInv
    <3>2. QED  BY <3>1, SeqLemma
  <2>2. PICK ok \in BOOLEAN, raised \in BOOLEAN, wrote \in BOOLEAN :
          WorkStep(w, c, ok, raised, wrote)
    BY <1>8, WorkLemma
  <2> HIDE DEF c
  <2>3. /\ UNCHANGED <<testPass, passed>>
        /\ begun' = [begun EXCEPT ![w] = @ \cup {c}]
        /\ benchDone' = benchDone \/ (w = "bench" /\ benchDone' = <<c>>)
    BY <2>2 DEF WorkStep
  <2>4. /\ \A v \in Workers : begun[v] \subseteq begun'[v] /\ (v # w => begun'[v] = begun[v])
        /\ begun'[w] = begun[w] \cup {c}
    BY <2>3 DEF TypeInv
  <2>5. \A v \in Workers : /\ Source(v) \subseteq Source(v)'
                           /\ Seq(Source(v)) \subseteq Seq(Source(v)')
    BY <2>3, <2>4, SourceLemma, WorkerLemma
  <2>6. \A v \in Workers : File(v)' \in Seq(Source(v)')
    <3> SUFFICES ASSUME NEW v \in Workers PROVE File(v)' \in Seq(Source(v)')
      OBVIOUS
    <3>1. CASE File(v)' = File(v)
      BY <2>5, <3>1 DEF StagesInv
    <3>2. CASE File(v)' # File(v)
      <4>1. v = "critic" /\ w = "bench" /\ File(v)' = <<c>>
        BY <2>3, <3>2, WorkerLemma DEF File
      <4>2. c \in Source(v)'
        BY <2>4, <4>1 DEF Source
      <4>3. \A S, x : x \in S => <<x>> \in Seq(S)
        OBVIOUS
      <4>4. QED  BY <4>1, <4>2, <4>3
    <3>3. QED  BY <3>1, <3>2
  <2>7. \A v \in Workers : lines'[v] \in Seq(Source(v)')
    <3>1. \A v \in Workers : lines'[v] = lines[v] \/ lines'[v] = <<>>
                             \/ (v = w /\ lines'[v] = Tail(lines[v]))
      BY <2>2 DEF WorkStep, TypeInv
    <3>2. \A S : <<>> \in Seq(S)
      OBVIOUS
    <3>3. QED  BY <2>1, <2>5, <3>1, <3>2 DEF StagesInv
  <2>8. \A v \in Workers : begun'[v] \subseteq Source(v)'
    BY <2>1, <2>4, <2>5 DEF StagesInv
  <2>9. \A v \in Workers : wire'[v] \in Seq(Results(v)')
    <3> SUFFICES ASSUME NEW v \in Workers PROVE wire'[v] \in Seq(Results(v)')
      OBVIOUS
    <3>1. wire[v] \in Seq(Results(v)')
      <4>1. Results(v) \subseteq Results(v)'
        BY <2>4 DEF Results
      <4>2. QED  BY <4>1 DEF StagesInv
    <3>2. wire'[v] = wire[v]
          \/ (v = w /\ wire'[v] = Append(wire[v], [commit |-> c, passed |-> ok]))
      BY <2>2 DEF WorkStep, TypeInv
    <3>3. v = w => [commit |-> c, passed |-> ok] \in Results(v)'
      BY <2>2, <2>4 DEF Results
    <3>4. QED  BY <3>1, <3>2, <3>3
  <2>10. passed' \subseteq begun'["tester"]
    BY <2>3, <2>4, WorkerLemma DEF StagesInv
  <2>11. QED  BY <2>6, <2>7, <2>8, <2>9, <2>10 DEF StagesInv
<1>9. ASSUME NEW w \in Workers, HandleResult(w) PROVE StagesInv'
  <2> DEFINE r == Head(wire[w])
  <2>1. r \in Results(w) /\ Tail(wire[w]) \in Seq(Results(w)) /\ ~behind[w]
    <3>1. wire[w] # <<>> /\ wire[w] \in Seq(Results(w))
      BY <1>9 DEF HandleResult, StagesInv
    <3>2. QED  BY <3>1, SeqLemma DEF LinksInv
  <2>2. Record(w, r)
    BY <1>9, <2>1 DEF HandleResult
  <2>3. r.commit \in begun[w]
    BY <2>1 DEF Results
  <2> HIDE DEF r
  <2>4. /\ UNCHANGED <<lines, begun>>
        /\ wire' = [wire EXCEPT ![w] = Tail(@)]
    BY <1>9 DEF HandleResult
  <2>5. passed \subseteq passed' /\ passed' \subseteq begun["tester"]
    BY <2>2, <2>3 DEF Record, StagesInv
  <2>6. \A v \in Workers : /\ Source(v) \subseteq Source(v)'
                           /\ Seq(Source(v)) \subseteq Seq(Source(v)')
    BY <2>4, <2>5, SourceLemma
  <2>7. testPass' \in Seq(passed') /\ benchDone' \in Seq(begun["bench"])
    <3>1. testPass \in Seq(passed) /\ benchDone \in Seq(begun["bench"])
      BY WorkerLemma DEF StagesInv, File, Source
    <3>2. testPass \in Seq(passed')
      BY <2>5, <3>1
    <3>3. testPass' = testPass \/ (testPass' = <<r.commit>> /\ r.commit \in passed')
      BY <2>2 DEF Record
    <3>4. benchDone' = benchDone \/ (benchDone' = <<r.commit>> /\ r.commit \in begun["bench"])
      BY <2>2, <2>3 DEF Record
    <3>5. \A S, x : x \in S => <<x>> \in Seq(S)
      OBVIOUS
    <3>6. QED  BY <3>1, <3>2, <3>3, <3>4, <3>5
  <2>8. \A v \in Workers : File(v)' \in Seq(Source(v)')
    <3>1. File("tester") \in Seq(Source("tester"))
      BY WorkerLemma DEF StagesInv
    <3>2. QED  BY <2>4, <2>7, <3>1, WorkerLemma DEF File, Source
  <2>9. \A v \in Workers : Results(v)' = Results(v) /\ wire'[v] \in Seq(Results(v))
    BY <2>1, <2>4 DEF StagesInv, Results, TypeInv
  <2>10. \A v \in Workers : lines'[v] \in Seq(Source(v)') /\ begun'[v] \subseteq Source(v)'
    BY <2>4, <2>6 DEF StagesInv
  <2>11. QED  BY <2>4, <2>5, <2>8, <2>9, <2>10 DEF StagesInv
<1>10. ASSUME NEW w \in Workers, HandlerRaises(w) PROVE StagesInv'
  BY <1>10 DEF HandlerRaises, LinksInv
<1>11. ASSUME NEW w \in Workers, Drop(w) PROVE StagesInv'
  BY <1>11 DEF Drop, TypeInv
<1>12. QED
  BY <1>2, <1>3, <1>4, <1>5, <1>6, <1>7, <1>8, <1>9, <1>10, <1>11 DEF Next, Act, Handle

\* A connection that was lost stays counted.
LEMMA DropsStay == TypeInv /\ [Next]_vars /\ drops' = 0 => drops = 0
<1> SUFFICES ASSUME TypeInv, [Next]_vars PROVE drops' = drops \/ drops' = drops + 1
  BY DEF TypeInv
<1>1. CASE UNCHANGED vars
  BY <1>1 DEF vars
<1>2. CASE ServerCloses \/ HandlersEnd \/ NextRun
  BY <1>2 DEF ServerCloses, HandlersEnd, NextRun
<1>3. ASSUME NEW w \in Workers, Act(w) PROVE drops' = drops
  BY <1>3 DEF Act, Poll, Skip, Work, Reconnect
<1>4. ASSUME NEW w \in Workers, Handle(w) PROVE drops' = drops
  BY <1>4 DEF Handle, HandleResult, HandlerRaises
<1>5. ASSUME NEW w \in Workers, Drop(w) PROVE drops' = drops + 1
  BY <1>5 DEF Drop
<1>6. QED  BY <1>1, <1>2, <1>3, <1>4, <1>5 DEF Next

\* A verdict is only given for a commit that was benchmarked, and a benchmark only
\* run for one whose tests passed, as long as no connection was lost.
THEOREM StagesKeepOrder == Spec => []StagesInOrder
<1> DEFINE Inv == TypeInv /\ (drops = 0 => LinksInv /\ StagesInv)
<1>1. Init => Inv
  BY StagesInit
<1>2. Inv /\ [Next]_vars => Inv'
  BY TypeNext, LinksNext, StagesNext, DropsStay
<1>3. Inv => StagesInOrder
  BY WorkerLemma DEF StagesInv, StagesInOrder, Source
<1>4. QED  BY <1>1, <1>2, <1>3, PTL DEF Spec
=============================================================================
