---------------------------- MODULE LoomArchitect ---------------------------
(***************************************************************************)
(* The orchestrator of loom/start.py: main takes the task graph from       *)
(* task_graph.json or makes a new one, starts the agents, runs             *)
(* architect_loop for at most TimeLimit seconds and writes the graph back. *)
(* It may be killed at any point, between the truncation of a file it      *)
(* writes and the write too, and run again.  The clock moves when the loop *)
(* sleeps; all else takes no time, but a little: a sleep that would end at *)
(* TimeLimit exactly is overtaken by the timeout.                          *)
(*                                                                         *)
(* The loop sends its tasks and its request over connections to its own    *)
(* server, whose handler has no branch for either: see Deliver.  What the  *)
(* agents report is in LoomAgents; here it may be anything, any time.      *)
(***************************************************************************)
EXTENDS Integers, FiniteSetsExt

CONSTANTS NumTasks,         \* tasks of a new graph (10 in the code)
          Budgets,          \* the values of --token-budget, 0 if not given
          MaxRuns           \* bound: how often the program is started

ASSUME ArchitectAssumption == NumTasks \in Nat \ {0}

Tasks      == 1..NumTasks
TimeLimit  == 20
SleepLong  == [starting |-> 2, waiting |-> 4, reporting |-> 1]   \* Mutant: 4 s a task
Sleep      == [starting |-> 2, waiting |-> 3, reporting |-> 1]
NoGraph    == [t \in Tasks |-> "none"]
TornGraph  == [t \in Tasks |-> "torn"]   \* a file json.loads raises on

VARIABLES pc, clock, runs, budget,
          saved,      \* task_graph.json
          logged,     \* the tasks with a cycle_complete event in progress.jsonl
          built,      \* did the builder write the project's files in this run?
          report,     \* did the reporter write loom_report.md in this run?
          status,     \* the tasks' status in memory
          next,       \* the loop's position in the task list
          latest,     \* the handler's last results: are they good? No task is kept with them
          connected,  \* do agents hold connections to the server?
          mail,       \* the messages on their way to the handler, the builder and the
                      \* reporter; one assignment is like another
          cancelled,  \* has wait_for cancelled the loop?
          waits,      \* does asyncio's Server.wait_closed wait for the open connections
                      \* (Python 3.12.1 and later) or return at once? Never changes
          given,      \* history: the tasks this run assigned or did not have to do
          jobs,       \* history: the tasks this run had to do
          portFailed  \* history: could this run's server not start?

disk == <<saved, logged, built, report>>
loop == <<status, next, latest, connected, mail, cancelled>>
record == <<waits, given, jobs, portFailed>>
architectVars == <<pc, clock, runs, budget, disk, loop, record>>

TokenUsed == 0   \* token_used += in the handler is local to it, and would raise
NoLatest  == [test |-> FALSE, critic |-> FALSE]
NoMail    == [handler |-> {}, builder |-> {}, reporter |-> {}]

\* A graph may be there already, with some of its first tasks done.
ArchitectInit ==
  /\ pc = "off" /\ clock = 0 /\ runs = 0 /\ budget = 0
  /\ \/ saved = NoGraph
     \/ \E n \in 0..NumTasks : saved = [t \in Tasks |-> IF t <= n THEN "done" ELSE "pending"]
  /\ logged = {t \in Tasks : saved[t] = "done"} /\ built = FALSE /\ report = FALSE
  /\ status = NoGraph /\ next = 1 /\ latest = NoLatest /\ connected = FALSE
  /\ mail = NoMail /\ cancelled = FALSE
  /\ waits \in BOOLEAN /\ given = {} /\ jobs = {} /\ portFailed = FALSE
-----------------------------------------------------------------------------
NewGraph    == [t \in Tasks |-> "pending"]
ResumeAnew  == NewGraph   \* Mutant: the graph is made anew in every run
Resume      == IF saved = NoGraph THEN NewGraph ELSE saved
Pending(st) == {t \in Tasks : st[t] # "done"}

\* A port in use fails serve, outside of the try: straight to the fallback.
Begin == IF portFailed THEN "fallback" ELSE "starting"

\* write_text truncates the new file first.
Launch ==
  /\ pc = "off" /\ runs < MaxRuns /\ saved # TornGraph
  /\ runs' = runs + 1 /\ budget' \in Budgets
  /\ portFailed' \in BOOLEAN
  /\ IF saved = NoGraph THEN pc' = "creating" /\ saved' = TornGraph
                        ELSE pc' = Begin' /\ UNCHANGED saved
  /\ status' = Resume /\ jobs' = Pending(status') /\ given' = Tasks \ jobs'
  /\ clock' = 0 /\ next' = 1 /\ latest' = NoLatest /\ connected' = FALSE
  /\ mail' = NoMail /\ cancelled' = FALSE /\ built' = FALSE /\ report' = FALSE
  /\ UNCHANGED <<waits, logged>>

\* ensure_task_graph raises, outside of any try.
LaunchFails ==
  /\ pc = "off" /\ runs < MaxRuns /\ saved = TornGraph
  /\ runs' = runs + 1
  /\ UNCHANGED <<pc, clock, budget, disk, loop, record>>

Create ==
  /\ pc = "creating" /\ pc' = Begin
  /\ saved' = status
  /\ UNCHANGED <<clock, runs, budget, logged, built, report, loop, record>>

\* What was in memory is gone.
Exit ==
  /\ pc' = "off" /\ clock' = 0
  /\ status' = NoGraph /\ next' = 1 /\ latest' = NoLatest /\ connected' = FALSE
  /\ mail' = NoMail /\ cancelled' = FALSE

\* The program is killed: the files stay as they are.
Crash ==
  /\ pc # "off" /\ Exit
  /\ UNCHANGED <<budget, runs, disk, record>>
-----------------------------------------------------------------------------
BudgetSpent == budget > 0 /\ TokenUsed >= (budget * 95) \div 100

Slept(d)  == pc \in DOMAIN d /\ clock + d[pc] < TimeLimit /\ clock' = clock + d[pc]
Post(op)  == mail' = [mail EXCEPT !.handler = @ \cup {op}]

Started ==
  /\ pc = "starting" /\ Slept(Sleep) /\ pc' = "loop"
  /\ UNCHANGED <<budget, runs, disk, loop, record>>

AssignTask ==
  LET left == {t \in Pending(status) : t >= next}
  IN  /\ pc = "loop" /\ left # {} /\ ~BudgetSpent
      /\ next' = Min(left) /\ given' = given \cup {next'}
      /\ Post("TASK_ASSIGN")
      /\ pc' = "waiting"
      /\ UNCHANGED <<budget, clock, runs, disk, status, latest, connected, cancelled, waits, jobs,
                     portFailed>>

Judge ==
  /\ pc = "waiting" /\ Slept(Sleep)
  /\ IF latest.test /\ latest.critic
     THEN /\ status' = [status EXCEPT ![next] = "done"]
          /\ logged' = logged \cup {next}
     ELSE UNCHANGED <<status, logged>>
  /\ next' = next + 1 /\ pc' = "loop"
  /\ UNCHANGED <<budget, runs, saved, built, report, latest, connected, mail, cancelled, waits, given,
                 jobs, portFailed>>

RequestReport ==
  /\ pc = "loop" /\ ({t \in Pending(status) : t >= next} = {} \/ BudgetSpent)
  /\ Post("REPORT_REQUEST") /\ pc' = "reporting"
  /\ UNCHANGED <<budget, clock, runs, disk, status, next, latest, connected, cancelled, record>>

Reported ==
  /\ pc = "reporting" /\ Slept(Sleep) /\ pc' = "closing"
  /\ UNCHANGED <<budget, runs, disk, loop, record>>

TimeOut ==
  /\ pc \in DOMAIN Sleep /\ clock + Sleep[pc] >= TimeLimit
  /\ clock' = TimeLimit /\ cancelled' = TRUE /\ pc' = "closing"
  /\ UNCHANGED <<budget, runs, disk, status, next, latest, connected, mail, record>>

\* wait_closed may wait for connections that the agents keep. Time ends that in a
\* loop that was not cancelled yet, with an exception; in one that was, nothing does.
Blocked == waits /\ connected
Hangs   == pc = "closing" /\ Blocked /\ cancelled

Closed ==
  /\ pc = "closing" /\ ~Hangs
  /\ pc' = IF cancelled \/ Blocked THEN "fallback" ELSE "saving"
  /\ UNCHANGED <<budget, clock, runs, disk, loop, record>>
-----------------------------------------------------------------------------
\* The server is up: agents connect and send results, the handlers read them.
Up == pc \in {"starting", "loop", "waiting", "reporting"}

Connect ==
  /\ Up /\ ~connected /\ connected' = TRUE
  /\ UNCHANGED <<pc, clock, runs, budget, disk, status, next, latest, mail, cancelled, record>>

\* A BUILD_RESULT ends its handler, and a BENCH_RESULT is for nobody here.
Result ==
  /\ Up /\ connected
  /\ \E k \in DOMAIN latest, good \in BOOLEAN : latest' = [latest EXCEPT ![k] = good]
  /\ UNCHANGED <<pc, clock, runs, budget, disk, status, next, connected, mail, cancelled, record>>

\* What the builder and the reporter would do, had anything been sent over the
\* connections at which they wait.
Builds(to, op)  == to = "builder" /\ op = "TASK_ASSIGN"
Reports(to, op) == to = "reporter" /\ op = "REPORT_REQUEST"

\* The handler has no branch for what the loop sends.
Deliver ==
  \E to \in DOMAIN mail : \E op \in mail[to] :
    /\ Up /\ mail' = [mail EXCEPT ![to] = @ \ {op}]
    /\ built' = (built \/ Builds(to, op))
    /\ report' = (report \/ Reports(to, op))
    /\ UNCHANGED <<pc, clock, runs, budget, saved, logged, status, next, latest, connected,
                   cancelled, record>>
-----------------------------------------------------------------------------
\* Mutant: the fallback logs nothing.
FallbackUnlogged ==
  /\ pc = "fallback" /\ pc' = "saving"
  /\ status' = [t \in Tasks |-> "done"]
  /\ UNCHANGED <<budget, clock, runs, disk, next, latest, connected, mail, cancelled, record>>

Fallback ==
  /\ pc = "fallback" /\ pc' = "saving"
  /\ status' = [t \in Tasks |-> "done"] /\ logged' = Tasks
  /\ UNCHANGED <<budget, clock, runs, saved, built, report, next, latest, connected, mail, cancelled,
                 record>>

\* Mutant: main joins its agents without a terminate, and they run for ever.
JoinAgents ==
  /\ pc = "saving" /\ ~connected /\ pc' = "writing"
  /\ saved' = TornGraph
  /\ UNCHANGED <<budget, clock, runs, logged, built, report, loop, record>>

\* The agents are terminated, and task_graph.json opened, which truncates it.
OpenGraph ==
  /\ pc = "saving" /\ pc' = "writing"
  /\ saved' = TornGraph
  /\ UNCHANGED <<budget, clock, runs, logged, built, report, loop, record>>

\* The end of the program.
Save ==
  /\ pc = "writing" /\ Exit
  /\ saved' = status
  /\ UNCHANGED <<budget, runs, logged, built, report, record>>

Step ==
  \/ Create \/ Started \/ AssignTask \/ Judge \/ RequestReport \/ Reported \/ TimeOut
  \/ Closed \/ Fallback \/ OpenGraph \/ Save

ArchitectNext == Step \/ Launch \/ LaunchFails \/ Crash \/ Connect \/ Result \/ Deliver

\* The program runs on; nothing has to start or kill it, or report to it.
ArchitectSpec == ArchitectInit /\ [][ArchitectNext]_architectVars /\ WF_architectVars(Step)
-----------------------------------------------------------------------------
\* The graph says done only of tasks whose end is in progress.jsonl, in whatever
\* run that was and wherever the program was killed.
SavedIsLogged == \A t \in Tasks : saved[t] = "done" => t \in logged

\* What task_graph.json says is done is not assigned again by a later run.
DoneNotReassigned == [][\A t \in Tasks : next' = t /\ pc' = "waiting" /\ pc = "loop"
                                            => saved[t] # "done"]_architectVars

\* The loop is cancelled only if it had six tasks or more to do, and with fewer
\* it reaches each of them (no budget given).
TimeForFive ==
  /\ cancelled => Cardinality(jobs) > 5
  /\ pc = "reporting" /\ budget = 0 => jobs \subseteq given /\ Cardinality(jobs) <= 5

\* A run that is not killed ends, and leaves its graph in task_graph.json; but one
\* that was cancelled hangs from Python 3.12.1 on, in wait_closed, with agents
\* connected, and only there.
MainEnds == pc # "off" ~> pc = "off" \/ Hangs

\* When the loop has gone through its tasks and what it sent has arrived, a builder
\* that is connected has written the project of the tasks assigned: LoomTaskLost.
\* loom/README.md:7 "materializes project artifacts for assigned tasks".
TasksBuilt ==
  pc = "reporting" /\ connected /\ mail = NoMail /\ jobs \cap given # {} => built
=============================================================================
