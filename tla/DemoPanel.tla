------------------------------ MODULE DemoPanel ------------------------------
(***************************************************************************)
(* The panels (one per open login page) that start runs of DemoRunner and  *)
(* follow them over a server-sent event stream.                            *)
(*                                                                         *)
(* The stream is a Subject without replay: a panel receives what is        *)
(* emitted after the server has subscribed it.  Lines of output are left   *)
(* out; what counts is the one "done" event.  Anybody may cancel any run.  *)
(***************************************************************************)
EXTENDS DemoRunner

CONSTANTS
  Panels,      \* open login pages
  MaxClicks    \* how often a button is pressed (bound)

ASSUME PanelAssumption == MaxClicks \in Nat

VARIABLES
  panel,       \* panel[p]: where it is, its run, what it shows, its inbox
  clicks       \* presses so far (bounded by MaxClicks)

vars == <<runnerVars, panel, clicks>>

\* at: "posting" the request, "opening" the stream, "streaming".  Button and
\* badge follow shows.  inbox is the done event on its way, or "".
NewPanel == [at |-> "idle", on |-> NoRun, shows |-> "idle", inbox |-> ""]

Show(p, status) == panel' = [panel EXCEPT ![p] = [@ EXCEPT !.at = "idle", !.shows = status, !.inbox = ""]]

\* The done event goes to the panels that are subscribed to the run.
Subscribed(p, r) == panel[p].at = "streaming" /\ panel[p].on = r /\ panel[p].inbox = ""
EmittedUnlessTimeout(r, verdict) ==                       \* mutant
  [p \in Panels |-> IF Subscribed(p, r) /\ verdict # "timeout"
                    THEN [panel[p] EXCEPT !.inbox = verdict] ELSE panel[p]]
Emitted(r, verdict) ==
  [p \in Panels |-> IF Subscribed(p, r)
                    THEN [panel[p] EXCEPT !.inbox = verdict] ELSE panel[p]]
Emit(r, verdict) == panel' = Emitted(r, verdict)

-----------------------------------------------------------------------------
(* The panel.                                                              *)

Click(p) ==
  /\ clicks < MaxClicks
  /\ panel[p].shows # "running"
  /\ panel' = [panel EXCEPT ![p] = [@ EXCEPT !.at = "posting", !.shows = "running"]]
  /\ clicks' = clicks + 1
  /\ UNCHANGED runnerVars

\* The server starts a run and the panel learns its id ...
Accepted(p) ==
  /\ panel[p].at = "posting"
  /\ \E r \in Runs :
       /\ Start(r) \/ StartUnspawned(r)
       /\ panel' = [panel EXCEPT ![p] = [@ EXCEPT !.at = "opening", !.on = r]]
  /\ UNCHANGED clicks

\* ... or throws, and the panel knows no id to cancel ...
Broken(p) ==
  /\ panel[p].at = "posting"
  /\ \E r \in Runs : StartThrows(r)
  /\ Show(p, "failed")
  /\ UNCHANGED clicks

\* ... or refuses, or cannot be reached.
Refused(p) ==
  /\ panel[p].at = "posting"
  /\ Show(p, "failed")
  /\ UNCHANGED <<runnerVars, clicks>>

\* The stream is opened.  Of a run that has ended it is closed at once, and of
\* a run that has been forgotten it is refused: onerror, in either case.
Open(p) ==
  /\ panel[p].at = "opening"
  /\ IF Kept(panel[p].on) /\ run[panel[p].on].status = "running"
     THEN panel' = [panel EXCEPT ![p].at = "streaming"]
     ELSE Show(p, "failed")
  /\ UNCHANGED <<runnerVars, clicks>>

Receive(p) ==
  /\ panel[p].inbox # ""
  /\ Show(p, panel[p].inbox)
  /\ UNCHANGED <<runnerVars, clicks>>

\* The connection is lost, with what was on its way.
Lose(p) ==
  /\ panel[p].at \in {"opening", "streaming"}
  /\ Show(p, "failed")
  /\ UNCHANGED <<runnerVars, clicks>>

\* The page is left or reloaded.
Reload(p) ==
  /\ panel[p].at # "posting"
  /\ panel[p] # NewPanel
  /\ panel' = [panel EXCEPT ![p] = NewPanel]
  /\ UNCHANGED <<runnerVars, clicks>>

-----------------------------------------------------------------------------
(* The runner, with what it emits.                                         *)

EndByCancel(r) == Cancel(r) /\ Emit(r, "cancelled") /\ UNCHANGED clicks
EndByTimeout(r) == Timeout(r) /\ Emit(r, "timeout") /\ UNCHANGED clicks
ChildCloses(r, verdict) ==
  /\ Close(r, verdict)
  /\ IF run[r].status = "running" THEN Emit(r, verdict) ELSE UNCHANGED panel
  /\ UNCHANGED clicks
Prints(r) == Output(r) /\ UNCHANGED <<panel, clicks>>

Init ==
  /\ RunnerInit
  /\ panel = [p \in Panels |-> NewPanel]
  /\ clicks = 0

Next ==
  \/ \E p \in Panels :
       \/ Click(p) \/ Accepted(p) \/ Broken(p) \/ Refused(p)
       \/ Open(p) \/ Receive(p) \/ Lose(p) \/ Reload(p)
  \/ \E r \in Runs :
       \/ EndByCancel(r) \/ EndByTimeout(r) \/ Prints(r)
       \/ \E verdict \in {"passed", "failed"} : ChildCloses(r, verdict)

\* The timer fires, a request is answered, a stream opened, and what is sent
\* arrives or is lost.
Spec ==
  /\ Init /\ [][Next]_vars
  /\ \A r \in Runs : WF_vars(EndByTimeout(r))
  /\ \A p \in Panels :
       WF_vars(Accepted(p) \/ Broken(p) \/ Refused(p)) /\ WF_vars(Open(p)) /\ WF_vars(Receive(p))

-----------------------------------------------------------------------------
(* The properties.                                                         *)

TypeOK ==
  /\ RunnerTypeOK
  /\ panel \in [Panels -> [at : {"idle", "posting", "opening", "streaming"},
                           on : Runs \union {NoRun},
                           shows : {"idle", "running"} \union Verdicts,
                           inbox : {""} \union Verdicts]]
  /\ clicks \in 0 .. MaxClicks

\* A verdict other than "failed" on a panel is the verdict of its run, whatever
\* was cancelled, timed out or forgotten meanwhile; "failed" may also mean that
\* the stream was lost or opened too late.
PanelTruthful ==
  \A p \in Panels :
    panel[p].shows \in Verdicts \ {"failed"} => run[panel[p].on].status = panel[p].shows

\* A launched run ends and gives the mutex back, whatever its child does.
MutexReleased ==
  \A r \in Runs : (active = r /\ run[r].child # "none") ~> active # r

\* No panel shows "running" forever.
PanelSettles == \A p \in Panels : (panel[p].shows = "running") ~> (panel[p].shows # "running")

=============================================================================
