----------------------------- MODULE DemoProofs -----------------------------
(***************************************************************************)
(* The mutex and the memory of the test runner, for any number of runs,    *)
(* panels and presses of a button.                                         *)
(***************************************************************************)
EXTENDS DemoPanel, TLAPS

RunnerInv == RunnerTypeOK /\ Mutex /\ MemoryBounded

-----------------------------------------------------------------------------
(* The operators.                                                          *)

LEMMA PushedType == ASSUME NEW n \in 0 .. MaxLines + 1 PROVE Pushed(n) \in 0 .. MaxLines + 1
  BY RunnerAssumption DEF Pushed

\* Nothing is running when nothing has the mutex.
LEMMA Quiet == ASSUME RunnerInv, active = NoRun, NEW r \in Runs PROVE run[r].status # "running"
  BY RunnerAssumption DEF RunnerInv, Mutex

\* Forgetting the oldest keeps the type and makes room.
LEMMA EvictedShape ==
  ASSUME NEW s \in Seq(Runs), s # << >>, Len(s) <= Keep + 1, NEW row, row.status # "running"
  PROVE  Evicted(s, row) \in Seq(Runs) /\ Len(Evicted(s, row)) <= Keep
  BY RunnerAssumption DEF Evicted

\* A run that has the mutex, or has just been started and failed, ends.
LEMMA FinishInv ==
  ASSUME RunnerInv, NEW r \in Runs, active \in {r, NoRun},
         NEW runs \in [Runs -> RunRows], \A t \in Runs \ {r} : runs[t] = run[t],
         NEW s \in Seq(Runs), s # << >>, Len(s) <= Keep + 1,
         NEW verdict \in Verdicts, NEW child \in Children,
         Finish(r, runs, s, verdict, child)
  PROVE  RunnerInv'
<1>1. run' \in [Runs -> RunRows] /\ run'[r].status = verdict
  BY DEF Finish, Ended, RunRows
<1>2. \A t \in Runs : run'[t].status # "running"
  <2> SUFFICES ASSUME NEW t \in Runs PROVE run'[t].status # "running"
    OBVIOUS
  <2>1. CASE t = r
    BY <1>1, <2>1 DEF Verdicts
  <2>2. CASE t # r
    <3>1. run'[t] = run[t]
      BY <2>2 DEF Finish, Ended
    <3>2. active # t
      BY <2>2, RunnerAssumption
    <3> QED
      BY <3>1, <3>2 DEF RunnerInv, Mutex
  <2> QED
    BY <2>1, <2>2
<1>3. active' = NoRun
  BY DEF Finish
<1>4. s[1] \in Runs
  OBVIOUS
<1>5. kept' \in Seq(Runs) /\ Len(kept') <= Keep
  BY <1>2, <1>4, EvictedShape DEF Finish
<1>6. RunnerTypeOK'
  BY <1>1, <1>3, <1>5 DEF RunnerTypeOK
<1>7. Mutex'
  BY <1>2, <1>3, RunnerAssumption DEF Mutex
<1>8. MemoryBounded'
  BY <1>3, <1>5, RunnerAssumption DEF MemoryBounded
<1> QED
  BY <1>6, <1>7, <1>8 DEF RunnerInv

\* The running run is in memory, so memory is not empty.
LEMMA RunningKept ==
  ASSUME RunnerInv, NEW r \in Runs, run[r].status = "running"
  PROVE  active = r /\ kept \in Seq(Runs) /\ kept # << >> /\ Len(kept) <= Keep + 1
<1>1. active = r /\ Kept(r)
  BY RunnerAssumption DEF RunnerInv, Mutex
<1>2. kept \in Seq(Runs) /\ kept # << >>
  BY <1>1 DEF Kept, RunnerInv, RunnerTypeOK
<1>3. Len(kept) <= Keep + 1
  BY <1>1, <1>2, RunnerAssumption DEF RunnerInv, MemoryBounded
<1> QED
  BY <1>1, <1>2, <1>3

-----------------------------------------------------------------------------
(* The steps.                                                              *)

\* A run takes the mutex.
LEMMA TakeInv ==
  ASSUME RunnerInv, NEW r \in Runs, active = NoRun,
         NEW row \in RunRows, row.status = "running",
         run' = [run EXCEPT ![r] = row], kept' = Append(kept, r), active' = r
  PROVE  RunnerInv'
<1>1. kept' \in Seq(Runs) /\ Len(kept') = Len(kept) + 1 /\ kept'[Len(kept) + 1] = r
  BY DEF RunnerInv, RunnerTypeOK
<1>2. run' \in [Runs -> RunRows] /\ run'[r] = row /\ \A t \in Runs \ {r} : run'[t] = run[t]
  BY DEF RunnerInv, RunnerTypeOK
<1>3. RunnerTypeOK'
  BY <1>1, <1>2 DEF RunnerTypeOK
<1>4. \A t \in Runs : run'[t].status = "running" <=> active' = t
  BY <1>2, Quiet
<1>5. Kept(r)'
  BY <1>1 DEF Kept, RunnerInv, RunnerTypeOK
<1>6. Mutex'
  BY <1>4, <1>5 DEF Mutex
<1>7. Len(kept) <= Keep
  BY RunnerAssumption DEF RunnerInv, MemoryBounded
<1>8. MemoryBounded'
  BY <1>1, <1>7, RunnerAssumption DEF MemoryBounded, RunnerInv, RunnerTypeOK
<1> QED
  BY <1>3, <1>6, <1>8 DEF RunnerInv

LEMMA BannerType == Pushed(0) \in 0 .. MaxLines + 1 /\ Banner \in 0 .. MaxLines + 1
<1>1. Pushed(0) \in 0 .. MaxLines + 1
  BY PushedType, RunnerAssumption
<1> QED
  BY <1>1, PushedType DEF Banner

LEMMA RunningType ==
  ASSUME NEW child \in Children, NEW timer \in BOOLEAN, NEW n \in 0 .. MaxLines + 1
  PROVE  Running(child, timer, n) \in RunRows /\ Running(child, timer, n).status = "running"
  BY DEF Running, RunRows

LEMMA StartInv == ASSUME RunnerInv, NEW r \in Runs, Start(r) PROVE RunnerInv'
<1>1. Launched(Banner) \in RunRows /\ Launched(Banner).status = "running"
  BY BannerType, RunningType DEF Launched, Children
<1> QED
  BY <1>1, TakeInv DEF Start, Free

LEMMA ThrowsInv == ASSUME RunnerInv, NEW r \in Runs, StartThrows(r) PROVE RunnerInv'
<1> DEFINE row == Running("none", FALSE, Pushed(0))
<1>1. row \in RunRows /\ row.status = "running"
  BY BannerType, RunningType DEF Children
<1> QED
  BY <1>1, TakeInv DEF StartThrows, Free

LEMMA UnspawnedInv == ASSUME RunnerInv, NEW r \in Runs, StartUnspawned(r) PROVE RunnerInv'
<1> DEFINE row == Launched(Pushed(Pushed(Banner)))
           runs == [run EXCEPT ![r] = row]
           s == Append(kept, r)
<1>1. row \in RunRows
  <2>1. Pushed(Banner) \in 0 .. MaxLines + 1
    BY BannerType, PushedType
  <2>2. Pushed(Pushed(Banner)) \in 0 .. MaxLines + 1
    BY <2>1, PushedType
  <2> QED
    BY <2>2, RunningType DEF Launched, Children
<1>2. runs \in [Runs -> RunRows] /\ \A t \in Runs \ {r} : runs[t] = run[t]
  BY <1>1 DEF RunnerInv, RunnerTypeOK
<1>3. active = NoRun /\ Finish(r, runs, s, "failed", "none")
  BY DEF StartUnspawned, Free
<1>4. Len(kept) <= Keep /\ kept \in Seq(Runs)
  BY <1>3, RunnerAssumption DEF RunnerInv, RunnerTypeOK, MemoryBounded
<1>5. s \in Seq(Runs) /\ s # << >> /\ Len(s) <= Keep + 1
  BY <1>4, RunnerAssumption
<1> HIDE DEF runs, s
<1> QED
  BY <1>2, <1>3, <1>5, FinishInv DEF Verdicts, Children

\* A longer log, or a child that is gone, of a run that keeps its status.
LEMMA SameStatusInv ==
  ASSUME RunnerInv, NEW r \in Runs, NEW row \in RunRows, row.status = run[r].status,
         run' = [run EXCEPT ![r] = row], UNCHANGED <<kept, active>>
  PROVE  RunnerInv'
<1>1. run' \in [Runs -> RunRows] /\ \A t \in Runs : run'[t].status = run[t].status
  BY DEF RunnerInv, RunnerTypeOK
<1> QED
  BY <1>1 DEF RunnerInv, RunnerTypeOK, Mutex, Kept, MemoryBounded

LEMMA LoggedShape ==
  ASSUME RunnerInv, NEW r \in Runs
  PROVE  /\ [run[r] EXCEPT !.lines = Pushed(@)] \in RunRows
         /\ Logged(run, r) = [run EXCEPT ![r] = [run[r] EXCEPT !.lines = Pushed(@)]]
         /\ Logged(run, r) \in [Runs -> RunRows]
         /\ \A t \in Runs \ {r} : Logged(run, r)[t] = run[t]
<1>1. run[r] \in RunRows /\ Pushed(run[r].lines) \in 0 .. MaxLines + 1
  BY PushedType DEF RunnerInv, RunnerTypeOK, RunRows
<1>2. [run[r] EXCEPT !.lines = Pushed(@)] \in RunRows
  BY <1>1 DEF RunRows
<1> QED
  BY <1>2 DEF Logged, RunnerInv, RunnerTypeOK

LEMMA OutputInv == ASSUME RunnerInv, NEW r \in Runs, Output(r) PROVE RunnerInv'
<1> DEFINE row == [run[r] EXCEPT !.lines = Pushed(@)]
<1>1. row \in RunRows /\ run' = [run EXCEPT ![r] = row]
  BY LoggedShape DEF Output
<1>2. row.status = run[r].status
  BY DEF RunnerInv, RunnerTypeOK, RunRows
<1> HIDE DEF row
<1> QED
  BY <1>1, <1>2, SameStatusInv DEF Output

LEMMA KillInv ==
  ASSUME RunnerInv, NEW r \in Runs, run[r].status = "running", NEW verdict \in Verdicts,
         Finish(r, Logged(run, r), kept, verdict, Signalled(r))
  PROVE  RunnerInv'
<1>1. Signalled(r) \in Children
  BY DEF Signalled, Children, RunnerInv, RunnerTypeOK, RunRows
<1> QED
  BY <1>1, LoggedShape, RunningKept, FinishInv

LEMMA CloseInv ==
  ASSUME RunnerInv, NEW r \in Runs, NEW verdict \in {"passed", "failed"}, Close(r, verdict)
  PROVE  RunnerInv'
<1>1. CASE run[r].status = "running"
  <2>1. Finish(r, run, kept, verdict, "gone")
    BY <1>1 DEF Close
  <2>2. run \in [Runs -> RunRows]
    BY DEF RunnerInv, RunnerTypeOK
  <2> QED
    BY <1>1, <2>1, <2>2, RunningKept, FinishInv DEF Verdicts, Children
<1>2. CASE run[r].status # "running"
  <2> DEFINE row == [run[r] EXCEPT !.child = "gone"]
  <2>1. row \in RunRows /\ row.status = run[r].status
    BY DEF RunnerInv, RunnerTypeOK, RunRows, Children
  <2>2. run' = [run EXCEPT ![r] = row] /\ UNCHANGED <<kept, active>>
    BY <1>2 DEF Close
  <2> HIDE DEF row
  <2> QED
    BY <2>1, <2>2, SameStatusInv
<1> QED
  BY <1>1, <1>2

\* Every step of the composition is a step of the runner, or leaves it alone.
LEMMA PanelStep == [Next]_vars => [RunnerNext]_runnerVars
  BY DEF Next, vars, runnerVars, RunnerNext, Click, Accepted, Broken, Refused, Open, Receive,
         Lose, Reload, EndByCancel, EndByTimeout, Prints, ChildCloses

LEMMA RunnerStep == RunnerInv /\ [RunnerNext]_runnerVars => RunnerInv'
<1> SUFFICES ASSUME RunnerInv, [RunnerNext]_runnerVars PROVE RunnerInv'
  OBVIOUS
<1>1. CASE UNCHANGED runnerVars
  BY <1>1 DEF runnerVars, RunnerInv, RunnerTypeOK, Mutex, Kept, MemoryBounded
<1>2. CASE RunnerNext
  <2> PICK r \in Runs :
        \/ Start(r) \/ StartUnspawned(r) \/ StartThrows(r)
        \/ Output(r) \/ Cancel(r) \/ Timeout(r)
        \/ \E verdict \in {"passed", "failed"} : Close(r, verdict)
    BY <1>2 DEF RunnerNext
  <2>1. CASE Cancel(r) \/ Timeout(r)
    BY <2>1, KillInv DEF Cancel, Timeout, Verdicts
  <2> QED
    BY <2>1, StartInv, UnspawnedInv, ThrowsInv, OutputInv, CloseInv
<1> QED
  BY <1>1, <1>2

LEMMA RunnerStarts == RunnerInit => RunnerInv
  BY RunnerAssumption DEF RunnerInit, NotStarted, RunnerInv, RunnerTypeOK, RunRows, Children,
                          Mutex, MemoryBounded

LEMMA RunnerAlways == Spec => []RunnerInv
<1>1. Init => RunnerInv
  BY RunnerStarts DEF Init
<1>2. RunnerInv /\ [Next]_vars => RunnerInv'
  BY RunnerStep, PanelStep
<1> QED
  BY <1>1, <1>2, PTL DEF Spec

-----------------------------------------------------------------------------
(* Verdicts.                                                               *)

LEMMA FinishEnds ==
  ASSUME NEW r \in Runs, NEW runs \in [Runs -> RunRows],
         NEW s, NEW verdict \in Verdicts, NEW child \in Children, Finish(r, runs, s, verdict, child)
  PROVE  run'[r].status = verdict /\ \A t \in Runs \ {r} : run'[t] = runs[t]
  BY DEF Finish, Ended, RunRows

\* The callbacks that end a run, with the verdict they emit.
LEMMA KillEnds ==
  ASSUME RunnerInv, NEW r \in Runs, NEW verdict \in Verdicts,
         Finish(r, Logged(run, r), kept, verdict, Signalled(r))
  PROVE  run'[r].status = verdict /\ \A t \in Runs \ {r} : run'[t] = run[t]
<1>1. Signalled(r) \in Children
  BY DEF Signalled, Children, RunnerInv, RunnerTypeOK, RunRows
<1> DEFINE runs == Logged(run, r)
<1>2. runs \in [Runs -> RunRows] /\ \A t \in Runs \ {r} : runs[t] = run[t]
  BY LoggedShape
<1>3. Finish(r, runs, kept, verdict, Signalled(r))
  OBVIOUS
<1> HIDE DEF runs
<1>4. run'[r].status = verdict /\ \A t \in Runs \ {r} : run'[t] = runs[t]
  BY <1>1, <1>2, <1>3, FinishEnds
<1> QED
  BY <1>2, <1>4

LEMMA CloseEnds ==
  ASSUME RunnerInv, NEW r \in Runs, NEW verdict \in {"passed", "failed"}, Close(r, verdict)
  PROVE  /\ run[r].status = "running" => run'[r].status = verdict
         /\ run[r].status # "running" => run'[r].status = run[r].status
         /\ \A t \in Runs \ {r} : run'[t] = run[t]
<1>1. run \in [Runs -> RunRows]
  BY DEF RunnerInv, RunnerTypeOK
<1>2. CASE run[r].status = "running"
  <2>1. Finish(r, run, kept, verdict, "gone")
    BY <1>2 DEF Close
  <2> QED
    BY <1>1, <1>2, <2>1, FinishEnds DEF Verdicts, Children
<1>3. CASE run[r].status # "running"
  BY <1>1, <1>3 DEF Close, RunRows
<1> QED
  BY <1>2, <1>3

\* A start takes a run that is new.
LEMMA StartsNew ==
  ASSUME RunnerInv, NEW r \in Runs, Start(r) \/ StartUnspawned(r) \/ StartThrows(r)
  PROVE  run[r].status = "new" /\ \A t \in Runs \ {r} : run'[t] = run[t]
<1>1. Free(r)
  BY DEF Start, StartUnspawned, StartThrows
<1>2. run[r].status = "new"
  BY <1>1, RunnerAssumption DEF Free, Fresh
<1>3. run \in [Runs -> RunRows]
  BY DEF RunnerInv, RunnerTypeOK
<1>4. \A t \in Runs \ {r} : run'[t] = run[t]
  BY <1>3 DEF Start, StartUnspawned, StartThrows, Finish, Ended
<1> QED
  BY <1>2, <1>4

LEMMA VerdictKept ==
  ASSUME RunnerInv, [RunnerNext]_runnerVars, NEW s \in Runs, run[s].status \in Verdicts
  PROVE  run'[s].status = run[s].status
<1>0. run[s].status # "running" /\ run[s].status # "new"
  BY DEF Verdicts
<1>1. CASE UNCHANGED runnerVars
  BY <1>1 DEF runnerVars
<1>2. CASE RunnerNext
  <2> PICK r \in Runs :
        \/ Start(r) \/ StartUnspawned(r) \/ StartThrows(r)
        \/ Output(r) \/ Cancel(r) \/ Timeout(r)
        \/ \E verdict \in {"passed", "failed"} : Close(r, verdict)
    BY <1>2 DEF RunnerNext
  <2>1. CASE Start(r) \/ StartUnspawned(r) \/ StartThrows(r)
    BY <1>0, <2>1, StartsNew
  <2>2. CASE Output(r)
    BY <2>2 DEF Output, Logged, RunnerInv, RunnerTypeOK, RunRows
  <2>3. CASE Cancel(r) \/ Timeout(r)
    BY <1>0, <2>3, KillEnds DEF Cancel, Timeout, Verdicts
  <2>4. CASE \E verdict \in {"passed", "failed"} : Close(r, verdict)
    BY <1>0, <2>4, CloseEnds
  <2> QED
    BY <2>1, <2>2, <2>3, <2>4
<1> QED
  BY <1>1, <1>2

-----------------------------------------------------------------------------
(* The panels.                                                             *)

PanelRows ==
  [at : {"idle", "posting", "opening", "streaming"}, on : Runs \union {NoRun},
   shows : {"idle", "running"} \union Verdicts, inbox : {""} \union Verdicts]

\* A panel that is not idle shows "running", has something in its inbox only
\* while it is streaming, and then it is the verdict of its run.
Following(p) ==
  /\ panel[p].at # "idle" => panel[p].shows = "running"
  /\ panel[p].inbox # "" => /\ panel[p].at = "streaming" /\ panel[p].on \in Runs
                            /\ run[panel[p].on].status = panel[p].inbox
  /\ panel[p].shows \in Verdicts \ {"failed"} =>
       panel[p].on \in Runs /\ run[panel[p].on].status = panel[p].shows

PanelInv == RunnerInv /\ TypeOK /\ \A p \in Panels : Following(p)

\* A panel that is left alone still follows its run.
LEMMA FollowingKept ==
  ASSUME PanelInv, NEW p \in Panels, panel'[p] = panel[p],
         \A s \in Runs : run[s].status \in Verdicts => run'[s].status = run[s].status
  PROVE  Following(p)'
<1>1. panel[p].inbox \in {""} \union Verdicts /\ Following(p)
  BY DEF PanelInv, TypeOK
<1> QED
  BY <1>1 DEF Following

\* A panel gets a row.
LEMMA OnePanel ==
  ASSUME PanelInv, NEW p \in Panels, NEW row \in PanelRows, panel' = [panel EXCEPT ![p] = row],
         RunnerInv', clicks' \in 0 .. MaxClicks,
         \A s \in Runs : run[s].status \in Verdicts => run'[s].status = run[s].status,
         row.at # "idle" => row.shows = "running",
         row.inbox = "",
         row.shows \in Verdicts \ {"failed"} => row.on \in Runs /\ run'[row.on].status = row.shows
  PROVE  PanelInv'
<1>1. panel \in [Panels -> PanelRows]
  BY DEF PanelInv, TypeOK, PanelRows
<1>2. panel' \in [Panels -> PanelRows] /\ panel'[p] = row
      /\ \A q \in Panels \ {p} : panel'[q] = panel[q]
  BY <1>1
<1>3. TypeOK'
  BY <1>2 DEF RunnerInv, TypeOK, PanelRows
<1>4. Following(p)'
  BY <1>2 DEF Following
<1>5. \A q \in Panels \ {p} : Following(q)'
  BY <1>2, FollowingKept
<1> QED
  BY <1>3, <1>4, <1>5 DEF PanelInv

\* A run ends, and those who are subscribed to it are told.
LEMMA ToldInv ==
  ASSUME PanelInv, RunnerInv', NEW r \in Runs, NEW verdict \in Verdicts,
         Emit(r, verdict), clicks' = clicks, run'[r].status = verdict,
         \A s \in Runs : run[s].status \in Verdicts => run'[s].status = run[s].status
  PROVE  PanelInv'
<1>1. panel \in [Panels -> PanelRows]
  BY DEF PanelInv, TypeOK, PanelRows
<1>2. \A p \in Panels :
        panel'[p] = IF Subscribed(p, r) THEN [panel[p] EXCEPT !.inbox = verdict] ELSE panel[p]
  BY DEF Emit, Emitted
<1>3. DOMAIN panel' = Panels /\ panel' = [p \in Panels |-> panel'[p]]
  BY DEF Emit, Emitted
<1>4. ASSUME NEW p \in Panels PROVE panel'[p] \in PanelRows /\ Following(p)'
  <2>1. CASE Subscribed(p, r)
    <3>1. /\ panel'[p].at = "streaming" /\ panel'[p].on = r /\ panel'[p].shows = "running"
          /\ panel'[p].inbox = verdict /\ panel'[p] \in PanelRows
      BY <1>1, <1>2, <2>1 DEF Subscribed, PanelInv, Following, PanelRows
    <3> QED
      BY <3>1 DEF Following, Verdicts
  <2>2. CASE ~Subscribed(p, r)
    BY <1>1, <1>2, <2>2, FollowingKept
  <2> QED
    BY <2>1, <2>2
<1>5. TypeOK'
  BY <1>3, <1>4 DEF RunnerInv, PanelInv, TypeOK, PanelRows
<1> QED
  BY <1>4, <1>5 DEF PanelInv

LEMMA PanelNext == PanelInv /\ [Next]_vars => PanelInv'
<1> SUFFICES ASSUME PanelInv, [Next]_vars PROVE PanelInv'
  OBVIOUS
<1>0. RunnerInv /\ RunnerInv' /\ \A s \in Runs : run[s].status \in Verdicts => run'[s].status = run[s].status
  BY PanelStep, RunnerStep, VerdictKept DEF PanelInv
<1>1. panel \in [Panels -> PanelRows] /\ clicks \in 0 .. MaxClicks /\ MaxClicks \in Nat
      /\ \A p \in Panels : Following(p)
  BY PanelAssumption DEF PanelInv, TypeOK, PanelRows
<1>2. CASE UNCHANGED vars
  <2>1. panel' = panel /\ clicks' = clicks
    BY <1>2 DEF vars
  <2> QED
    BY <1>0, <2>1, FollowingKept DEF PanelInv, RunnerInv, TypeOK
<1>3. ASSUME NEW p \in Panels, Click(p) PROVE PanelInv'
  <2> DEFINE row == [panel[p] EXCEPT !.at = "posting", !.shows = "running"]
  <2>1. row \in PanelRows /\ row.shows = "running" /\ row.inbox = ""
    BY <1>1, <1>3 DEF Click, PanelRows, Following
  <2>2. panel' = [panel EXCEPT ![p] = row] /\ clicks' \in 0 .. MaxClicks
    BY <1>1, <1>3 DEF Click
  <2> HIDE DEF row
  <2> QED
    BY <1>0, <2>1, <2>2, OnePanel DEF Verdicts
<1>4. ASSUME NEW p \in Panels, Accepted(p) PROVE PanelInv'
  <2>1. PICK r \in Runs : panel' = [panel EXCEPT ![p] = [@ EXCEPT !.at = "opening", !.on = r]]
    BY <1>4 DEF Accepted
  <2> DEFINE row == [panel[p] EXCEPT !.at = "opening", !.on = r]
  <2>2. row \in PanelRows /\ row.shows = "running" /\ row.inbox = ""
    BY <1>1, <1>4 DEF Accepted, PanelRows, Following
  <2>3. panel' = [panel EXCEPT ![p] = row] /\ clicks' \in 0 .. MaxClicks
    BY <1>1, <1>4, <2>1 DEF Accepted
  <2> HIDE DEF row
  <2> QED
    BY <1>0, <2>2, <2>3, OnePanel DEF Verdicts
<1>5. ASSUME NEW p \in Panels, Open(p), panel'[p].at = "streaming" PROVE PanelInv'
  <2> DEFINE row == [panel[p] EXCEPT !.at = "streaming"]
  <2>1. row \in PanelRows /\ row.shows = "running" /\ row.inbox = ""
    BY <1>1, <1>5 DEF Open, PanelRows, Following
  <2>2. panel' = [panel EXCEPT ![p] = row] /\ clicks' \in 0 .. MaxClicks
    BY <1>1, <1>5 DEF Open, Show, PanelRows
  <2> HIDE DEF row
  <2> QED
    BY <1>0, <2>1, <2>2, OnePanel DEF Verdicts
<1>6. ASSUME NEW p \in Panels, NEW status \in Verdicts, Show(p, status), clicks' = clicks,
             status # "failed" => panel[p].on \in Runs /\ run'[panel[p].on].status = status
      PROVE  PanelInv'
  <2> DEFINE row == [panel[p] EXCEPT !.at = "idle", !.shows = status, !.inbox = ""]
  <2>1. row \in PanelRows /\ row.at = "idle" /\ row.inbox = "" /\ row.shows = status /\ row.on = panel[p].on
    BY <1>1 DEF PanelRows
  <2>2. panel' = [panel EXCEPT ![p] = row] /\ clicks' \in 0 .. MaxClicks
    BY <1>1, <1>6 DEF Show
  <2> HIDE DEF row
  <2> QED
    BY <1>0, <1>6, <2>1, <2>2, OnePanel
<1>7. ASSUME NEW p \in Panels, Broken(p) \/ Refused(p) \/ Lose(p) \/ (Open(p) /\ panel'[p].at # "streaming")
      PROVE  PanelInv'
  <2>1. Show(p, "failed") /\ clicks' = clicks
    BY <1>1, <1>7 DEF Broken, Refused, Lose, Open, PanelRows
  <2> QED
    BY <1>6, <2>1 DEF Verdicts
<1>8. ASSUME NEW p \in Panels, Receive(p) PROVE PanelInv'
  <2>1. panel[p].inbox \in Verdicts /\ panel[p].on \in Runs /\ run[panel[p].on].status = panel[p].inbox
    BY <1>1, <1>8 DEF Receive, PanelRows, Following
  <2>2. run'[panel[p].on].status = panel[p].inbox
    BY <1>0, <2>1
  <2> QED
    BY <1>6, <1>8, <2>1, <2>2 DEF Receive
<1>9. ASSUME NEW p \in Panels, Reload(p) PROVE PanelInv'
  <2>1. NewPanel \in PanelRows /\ NewPanel.at = "idle" /\ NewPanel.inbox = "" /\ NewPanel.shows \notin Verdicts
    BY DEF NewPanel, PanelRows, Verdicts
  <2> QED
    BY <1>0, <1>1, <1>9, <2>1, OnePanel DEF Reload
<1>10. ASSUME NEW r \in Runs, EndByCancel(r) \/ EndByTimeout(r) PROVE PanelInv'
  <2>1. PICK verdict \in Verdicts :
          /\ Finish(r, Logged(run, r), kept, verdict, Signalled(r))
          /\ Emit(r, verdict) /\ clicks' = clicks
    BY <1>10 DEF EndByCancel, EndByTimeout, Cancel, Timeout, Verdicts
  <2> QED
    BY <1>0, <2>1, KillEnds, ToldInv
<1>11. ASSUME NEW r \in Runs, NEW verdict \in {"passed", "failed"}, ChildCloses(r, verdict)
       PROVE  PanelInv'
  <2>1. CASE run[r].status = "running"
    <3>1. run'[r].status = verdict /\ Emit(r, verdict) /\ clicks' = clicks /\ verdict \in Verdicts
      BY <1>0, <1>11, <2>1, CloseEnds DEF ChildCloses, Verdicts
    <3> QED
      BY <1>0, <3>1, ToldInv
  <2>2. CASE run[r].status # "running"
    <3>1. panel' = panel /\ clicks' = clicks
      BY <1>11, <2>2 DEF ChildCloses
    <3> QED
      BY <1>0, <3>1, FollowingKept DEF PanelInv, RunnerInv, TypeOK
  <2> QED
    BY <2>1, <2>2
<1>12. ASSUME NEW r \in Runs, Prints(r) PROVE PanelInv'
  <2>1. panel' = panel /\ clicks' = clicks
    BY <1>12 DEF Prints
  <2> QED
    BY <1>0, <2>1, FollowingKept DEF PanelInv, RunnerInv, TypeOK
<1> QED
  BY <1>2, <1>3, <1>4, <1>5, <1>7, <1>8, <1>9, <1>10, <1>11, <1>12 DEF Next

LEMMA PanelAlways == Spec => []PanelInv
<1>1. Init => PanelInv
  <2> SUFFICES ASSUME Init PROVE PanelInv
    OBVIOUS
  <2>1. RunnerInv
    BY RunnerStarts DEF Init
  <2>2. NewPanel \in PanelRows /\ NewPanel.at = "idle" /\ NewPanel.inbox = "" /\ NewPanel.shows \notin Verdicts
    BY DEF NewPanel, PanelRows, Verdicts
  <2>3. TypeOK
    <3>1. panel = [p \in Panels |-> NewPanel]
      BY DEF Init
    <3>2. panel \in [Panels -> PanelRows]
      BY <2>2, <3>1
    <3>3. clicks \in 0 .. MaxClicks
      BY PanelAssumption DEF Init
    <3> QED
      BY <2>1, <3>2, <3>3 DEF TypeOK, RunnerInv, PanelRows
  <2>4. \A p \in Panels : Following(p)
    BY <2>2 DEF Init, Following
  <2> QED
    BY <2>1, <2>3, <2>4 DEF PanelInv
<1>2. PanelInv /\ [Next]_vars => PanelInv'
  BY PanelNext
<1> QED
  BY <1>1, <1>2, PTL DEF Spec

-----------------------------------------------------------------------------
(* The theorems.                                                           *)

\* The run that has activeRunId is the one that is running, and is in memory:
\* cancel, timer, "close", a failed spawn and a start that throws, in any order.
THEOREM MutexHeld == Spec => []Mutex
<1>1. RunnerInv => Mutex
  BY DEF RunnerInv
<1> QED
  BY <1>1, RunnerAlways, PTL

\* finish forgets at most one run, the oldest, and that is enough to keep at
\* most Keep runs besides the running one.
THEOREM MemoryStaysBounded == Spec => []MemoryBounded
<1>1. RunnerInv => MemoryBounded
  BY DEF RunnerInv
<1> QED
  BY <1>1, RunnerAlways, PTL

\* A run ends once: a later callback of the same run leaves its verdict alone.
THEOREM VerdictStays == Spec => VerdictFinal
<1>1. RunnerInv /\ [Next]_vars =>
        [\A r \in Runs : run[r].status \in Verdicts => run'[r].status = run[r].status]_runnerVars
  BY PanelStep, VerdictKept
<1> QED
  BY <1>1, RunnerAlways, PTL DEF Spec, VerdictFinal

\* Types of the runner and of the panels that follow it.
THEOREM TypeCorrect == Spec => []TypeOK
<1>1. PanelInv => TypeOK
  BY DEF PanelInv
<1> QED
  BY <1>1, PanelAlways, PTL

\* A verdict that a panel shows is the one its run ended with, though the stream
\* has no replay, pages come and go, and others cancel.
THEOREM PanelsTellTheTruth == Spec => []PanelTruthful
<1>1. PanelInv => PanelTruthful
  BY DEF PanelInv, Following, PanelTruthful
<1> QED
  BY <1>1, PanelAlways, PTL

=============================================================================
