----------------------------- MODULE DemoRunner -----------------------------
(***************************************************************************)
(* DemoTestsService: it runs one Playwright suite at a time as a child     *)
(* process and keeps the last few runs in memory.                          *)
(*                                                                         *)
(* Nothing here awaits: start, cancel, the timer and each event of the     *)
(* child are callbacks that the event loop runs whole, in any order.  What *)
(* is asynchronous is the child: SIGKILL is sent to the npx process, and   *)
(* "close" comes when everything npx has started has let go of its output. *)
(***************************************************************************)
EXTENDS Naturals, Sequences

CONSTANTS
  Runs,       \* run ids, numbered as they are drawn; as many as can be started (bound)
  Keep,       \* finished runs kept in memory
  MaxLines,   \* lines of output kept of a run
  NoRun       \* activeRunId = null

ASSUME RunnerAssumption ==
  Runs \subseteq Nat /\ NoRun \notin Runs /\ Keep \in Nat \ {0} /\ MaxLines \in Nat \ {0}

VARIABLES
  run,      \* run[r]: status, child process, timer and length of the log
  kept,     \* the runs in memory, oldest first
  active    \* activeRunId

runnerVars == <<run, kept, active>>

Verdicts == {"passed", "failed", "cancelled", "timeout"}
Children == {"none", "alive", "killed", "gone"}

NotStarted == [status |-> "new", child |-> "none", timer |-> FALSE, lines |-> 0]

\* One more line: the last one that is kept says that the rest is cut off.
PushedPast(n) == n + 1                                    \* mutant
Pushed(n) == IF n <= MaxLines THEN n + 1 ELSE n

Kept(r) == \E i \in DOMAIN kept : kept[i] = r

\* A run has ended: its timer is cleared, the mutex is given back if the run
\* has it, and of too many runs the oldest is forgotten unless it is running.
EvictedLate(s, oldest) ==                                 \* mutant
  IF Len(s) > Keep + 1 /\ oldest.status # "running" THEN Tail(s) ELSE s
Evicted(s, oldest) ==
  IF Len(s) > Keep /\ oldest.status # "running" THEN Tail(s) ELSE s

Ended(r, runs, verdict, child) ==
  [runs EXCEPT ![r] = [@ EXCEPT !.status = verdict, !.timer = FALSE, !.child = child]]

Logged(runs, r) == [runs EXCEPT ![r].lines = Pushed(@)]

Finish(r, runs, s, verdict, child) ==
  /\ run' = Ended(r, runs, verdict, child)
  /\ active' = IF active = r THEN NoRun ELSE active
  /\ kept' = Evicted(s, run'[s[1]])

-----------------------------------------------------------------------------
(* start.                                                                  *)

\* A run as start registers it, with n lines in its log.
Running(child, timer, n) ==
  [status |-> "running", child |-> child, timer |-> timer, lines |-> n]

Banner == Pushed(Pushed(0))
LaunchedUntimed(n) == Running("alive", FALSE, n)          \* mutant
Launched(n) == Running("alive", TRUE, n)

\* The mutex, and a fresh id.
Fresh(r) == \A s \in Runs : run[s].status = "new" <=> s >= r
FreeAnyway(r) == Fresh(r)                                 \* mutant
Free(r) == active = NoRun /\ Fresh(r)

Start(r) ==
  /\ Free(r)
  /\ run' = [run EXCEPT ![r] = Launched(Banner)]
  /\ kept' = Append(kept, r)
  /\ active' = r

\* The child cannot be spawned: its "error" event comes before any other
\* callback, and the "close" that may follow finds the run ended.
StartUnspawned(r) ==
  /\ Free(r)
  /\ LET failed == Launched(Pushed(Pushed(Banner)))
     IN  Finish(r, [run EXCEPT ![r] = failed], Append(kept, r), "failed", "none")

\* playwright.config.ts is not found: start throws after it has registered the
\* run and taken the mutex, and before there is a child or a timer.
StartThrows(r) ==
  /\ Free(r)
  /\ run' = [run EXCEPT ![r] = Running("none", FALSE, Pushed(0))]
  /\ kept' = Append(kept, r)
  /\ active' = r

-----------------------------------------------------------------------------
(* The callbacks of a run.                                                 *)

HasTree(r) == run[r].child \in {"alive", "killed"}

\* A line of output, also after the end of the run.
Output(r) ==
  /\ HasTree(r)
  /\ run' = Logged(run, r)
  /\ UNCHANGED <<kept, active>>

\* Whatever process there is gets a signal.
Signalled(r) == IF run[r].child = "alive" THEN "killed" ELSE run[r].child

Cancel(r) ==
  /\ Kept(r)
  /\ run[r].status = "running"
  /\ Finish(r, Logged(run, r), kept, "cancelled", Signalled(r))

Timeout(r) ==
  /\ run[r].timer
  /\ run[r].status = "running"
  /\ Finish(r, Logged(run, r), kept, "timeout", Signalled(r))

\* "close", with exit code 0 or another.
CloseUnguarded(r, verdict) ==                             \* mutant
  /\ HasTree(r)
  /\ Finish(r, run, kept, verdict, "gone")
Close(r, verdict) ==
  /\ HasTree(r)
  /\ IF run[r].status = "running"
     THEN Finish(r, run, kept, verdict, "gone")
     ELSE /\ run' = [run EXCEPT ![r].child = "gone"]
          /\ UNCHANGED <<kept, active>>

-----------------------------------------------------------------------------
RunnerInit ==
  /\ run = [r \in Runs |-> NotStarted]
  /\ kept = << >>
  /\ active = NoRun

RunnerNext ==
  \E r \in Runs :
    \/ Start(r) \/ StartUnspawned(r) \/ StartThrows(r)
    \/ Output(r) \/ Cancel(r) \/ Timeout(r)
    \/ \E verdict \in {"passed", "failed"} : Close(r, verdict)

RunnerSpec == RunnerInit /\ [][RunnerNext]_runnerVars

-----------------------------------------------------------------------------
(* The properties.                                                         *)

RunRows ==
  [status : {"new", "running"} \union Verdicts, child : Children,
   timer : BOOLEAN, lines : 0 .. MaxLines + 1]

RunnerTypeOK ==
  /\ run \in [Runs -> RunRows]
  /\ kept \in Seq(Runs)
  /\ active \in Runs \union {NoRun}

\* The run that has the mutex is the one that is running, and it can be found
\* to be cancelled; nothing else is running.  Four callbacks end a run and each
\* gives the mutex back by itself; a start that throws keeps it.
Mutex ==
  /\ \A r \in Runs : run[r].status = "running" <=> active = r
  /\ active # NoRun => Kept(active)

\* Memory holds at most Keep finished runs, and the one that is running: the
\* eviction looks at the oldest run alone, which must never be the running one
\* while there are too many.
MemoryBounded == Len(kept) <= Keep + (IF active = NoRun THEN 0 ELSE 1)

\* A run ends once, whichever of cancel, timer and "close" comes first.
VerdictFinal ==
  [][\A r \in Runs : run[r].status \in Verdicts => run'[r].status = run[r].status]_runnerVars

\* At most one suite touches the shared ledger at a time.
OneSuite == \A r, s \in Runs : HasTree(r) /\ HasTree(s) => r = s

=============================================================================
