---------------------------- MODULE SessionProofs ----------------------------
(***************************************************************************)
(* Whose session it is and whose answer a dialog shows, for any number of  *)
(* tabs, users and requests in flight: requests carry the token of the     *)
(* user the pages show, what the pages show of him is his, and what a      *)
(* dialog shows is about the payment or the preset it was opened for.  And *)
(* what everything holds is of its kind, and the cooling period is kept    *)
(* where one browser is a maker's.                                         *)
(***************************************************************************)
EXTENDS DeskProofs, FiniteSetTheorems, SequenceTheorems

\* The requests that put a user in, or write about him, are sent by one page each.
KindsOf(at) ==
  CASE at = "login" -> {"login"}
    [] at = "forgot" -> {"askreset", "reset", "resend"}
    [] at = "unlock" -> {"askunlock", "unlock"}
    [] at = "profile" -> {"profile"}
    [] at = "initiate" -> {"initiate", "confirm", "submit", "resend"}
    [] at = "modify" -> {"confirm", "submit", "update", "remove"}
    [] at = "console" -> {"score"}
    [] OTHER -> {"release", "reject", "create", "edit", "fetch", "activate", "refuse", "erase",
                 "report", "watch", "askreset", "resettxn", "change"}

Shapes ==
  /\ DOMAIN page = Tabs /\ DOMAIN token = Tabs /\ DOMAIN store = Tabs /\ DOMAIN contact = Tabs
  /\ DOMAIN over = Tabs /\ DOMAIN calls = Slots
  /\ \A t \in Tabs : "at" \in DOMAIN page[t] /\
                     (page[t].at \in Public => "busy" \in DOMAIN page[t])
CallShapes ==
  \A c \in Slots : DOMAIN calls[c] = CallFields /\ calls[c].tab \in Tabs \union {NoTab}

\* A request whose page is still mounted is one of that page.
Homed ==
  \A c \in Slots : calls[c].tab \in Tabs /\ calls[c].live =>
    calls[c].kind \in KindsOf(page[calls[c].tab].at)

\* A page without a session waits for one request at a time, but for resends.
Alone(t, c) == calls[c].tab = t /\ calls[c].live /\ calls[c].kind # "resend"
OneAtATime ==
  \A t \in Tabs : page[t].at \in Public => \A c \in Slots : Alone(t, c) =>
    page[t].busy /\ \A d \in Slots : Alone(t, d) => d = c

\* Of a user who waits, every request but a resend is one of the page he is on.
Awaited ==
  \A c \in Slots : calls[c].tab \in Tabs /\ ~over[calls[c].tab] /\ calls[c].kind # "resend" =>
    calls[c].live

\* His profile is saved with his own token, and the answer is about him.
OwnProfile ==
  \A c \in Slots : LET t == calls[c].tab IN
    t \in Tabs /\ ~over[t] /\ calls[c].kind = "profile" =>
      /\ calls[c].as \in {NoUser, store[t]}
      /\ calls[c].ans.is = "done" => calls[c].ans.got = store[t]

Inv == Shapes /\ CallShapes /\ Homed /\ OneAtATime /\ Awaited /\ OwnProfile /\ ActsAsShown

LEMMA MountedAt ==
  ASSUME NEW at
  PROVE  /\ Mounted(at).at = at /\ "at" \in DOMAIN Mounted(at)
         /\ at \in Public => "busy" \in DOMAIN Mounted(at)
  BY DEF Mounted, Public, Wizard, Dialogs, Maintenance, EventForm

LEMMA InvInit == Init => Inv
<1> SUFFICES ASSUME Init PROVE Inv
  OBVIOUS
<1>1. Shapes
  BY BrowserAssumption, MountedAt DEF Init, Shapes
<1>2. /\ CallShapes /\ Homed /\ OneAtATime /\ Awaited /\ OwnProfile
  BY BrowserAssumption DEF Init, CallShapes, Homed, OneAtATime, Alone, Awaited, OwnProfile, NoCall, CallFields
<1>3. ActsAsShown
  BY DEF Init, ActsAsShown
<1> QED
  BY <1>1, <1>2, <1>3 DEF Inv

-----------------------------------------------------------------------------
(* What a page may do: change, ask, and be left.                           *)

Heeded == DOMAIN over' = Tabs /\ \A t \in Tabs : over[t] => over'[t]

LEMMA AbandonHeeds ==
  ASSUME Inv, NEW t \in Tabs, Abandon(t)
  PROVE  Heeded /\ (~over'[t] => ~InFlight(t)) /\ \A u \in Tabs : u # t => over'[u] = over[u]
  BY DEF Inv, Shapes, Abandon, Heeded

LEMMA StayHeeds == Inv /\ UNCHANGED over => Heeded
  BY DEF Inv, Shapes, Heeded

\* A page that has a session changes.
LEMMA TurnStep ==
  ASSUME Inv, NEW t \in Tabs, NEW pg, Turn(t, pg), Heeded,
         page[t].at \notin Public, pg.at = page[t].at, "at" \in DOMAIN pg
  PROVE  Inv'
<1>1. /\ DOMAIN page' = Tabs /\ page'[t] = pg /\ \A u \in Tabs : u # t => page'[u] = page[u]
      /\ UNCHANGED <<calls, token, store, contact>>
  BY DEF Turn, Inv, Shapes, sessionVars
<1>2. Shapes' /\ CallShapes'
  BY <1>1 DEF Heeded, Inv, Shapes, CallShapes
<1>3. Homed'
  BY <1>1 DEF Inv, Homed
<1>4. OneAtATime'
  BY <1>1 DEF Inv, OneAtATime, Alone
<1>5. Awaited' /\ OwnProfile'
  BY <1>1 DEF Inv, Heeded, Awaited, OwnProfile
<1>6. ActsAsShown'
  BY <1>1 DEF Inv, Heeded, ActsAsShown
<1> QED
  BY <1>2, <1>3, <1>4, <1>5, <1>6 DEF Inv

\* A page sends a request of its kind.
LEMMA AskStep ==
  ASSUME Inv, NEW t \in Tabs, NEW pg, NEW kind, NEW on, NEW with, Ask(t, pg, kind, on, with), Heeded,
         kind \in KindsOf(page[t].at), pg.at = page[t].at, "at" \in DOMAIN pg,
         page[t].at \in Public => /\ "busy" \in DOMAIN pg
                                  /\ \/ ~page[t].busy /\ pg.busy
                                     \/ kind = "resend" /\ pg.busy = page[t].busy
  PROVE  Inv'
<1> DEFINE new == [tab |-> t, kind |-> kind, on |-> on, with |-> with,
                   as |-> token[t], live |-> TRUE, ans |-> Waiting]
<1>1. /\ DOMAIN page' = Tabs /\ page'[t] = pg /\ \A u \in Tabs : u # t => page'[u] = page[u]
      /\ UNCHANGED <<token, store, contact>>
  BY DEF Ask, Inv, Shapes, sessionVars
<1>2. PICK x : calls' = [calls EXCEPT ![x] = new]
  BY DEF Ask
<1>3. /\ DOMAIN new = CallFields /\ new.tab = t /\ new.kind = kind /\ new.as = token[t] /\ new.live
      /\ new.ans.is # "done"
  BY DEF CallFields, Waiting
<1> HIDE DEF new
<1>4. DOMAIN calls' = Slots /\ \A c \in Slots : calls'[c] = calls[c] \/ (c = x /\ calls'[c] = new)
  BY <1>2 DEF Inv, Shapes
<1>5. Shapes' /\ CallShapes'
  BY <1>1, <1>3, <1>4 DEF Heeded, Inv, Shapes, CallShapes
<1>6. Homed'
  BY <1>1, <1>3, <1>4 DEF Inv, Homed
<1>7. OneAtATime'
  <2> SUFFICES ASSUME NEW u \in Tabs, page'[u].at \in Public, NEW c \in Slots, Alone(u, c)'
               PROVE  page'[u].busy /\ \A d \in Slots : Alone(u, d)' => d = c
    BY DEF OneAtATime
  <2>1. CASE u # t
    BY <1>1, <1>3, <1>4, <2>1 DEF Inv, OneAtATime, Alone
  <2>2. CASE u = t /\ kind = "resend"
    BY <1>1, <1>3, <1>4, <2>2 DEF Inv, OneAtATime, Alone
  <2>3. CASE u = t /\ kind # "resend"
    BY <1>1, <1>3, <1>4, <2>3 DEF Inv, OneAtATime, Alone
  <2> QED
    BY <2>1, <2>2, <2>3
<1>8. Awaited'
  BY <1>1, <1>3, <1>4 DEF Inv, Heeded, Awaited
<1>9. OwnProfile'
  BY <1>1, <1>3, <1>4 DEF Inv, Heeded, OwnProfile, ActsAsShown
<1>10. ActsAsShown'
  BY <1>1 DEF Inv, Heeded, ActsAsShown
<1> QED
  BY <1>5, <1>6, <1>7, <1>8, <1>9, <1>10 DEF Inv

\* The page is another one, and nobody waits for what it has asked.  Its user
\* turns away, or has no request of his own in flight.
LEMMA PushStep ==
  ASSUME Inv, NEW t \in Tabs, NEW at, Heeded,
         page' = [page EXCEPT ![t] = Mounted(at)],
         DOMAIN calls' = Slots, \A c \in Slots : DOMAIN calls'[c] = CallFields,
         \A c \in Slots :
           \/ calls[c].tab # t /\ calls'[c] = calls[c]
           \/ calls'[c].tab = NoTab
           \/ calls'[c].tab = t /\ ~calls'[c].live /\ (~over'[t] => calls'[c].kind = "resend"),
         NEW u, UNCHANGED <<token, store, contact>> \/ SetSession(t, u)
  PROVE  Inv'
<1>1. /\ DOMAIN page' = Tabs /\ page'[t] = Mounted(at)
      /\ \A v \in Tabs : v # t => page'[v] = page[v]
      /\ DOMAIN token' = Tabs /\ DOMAIN store' = Tabs /\ DOMAIN contact' = Tabs
      /\ \A v \in Tabs : v # t =>
           token'[v] = token[v] /\ store'[v] = store[v] /\ contact'[v] = contact[v]
      /\ ActsAsShown'
  BY DEF Inv, Shapes, ActsAsShown, Heeded, SetSession
<1>2. Shapes' /\ CallShapes'
  BY <1>1, MountedAt, BrowserAssumption DEF Heeded, Inv, Shapes, CallShapes
<1>3. Homed'
  BY <1>1, BrowserAssumption DEF Inv, Homed
<1>4. OneAtATime'
  BY <1>1, BrowserAssumption DEF Inv, OneAtATime, Alone
<1>5. Awaited' /\ OwnProfile'
  BY <1>1, BrowserAssumption DEF Inv, Heeded, Awaited, OwnProfile
<1> QED
  BY <1>1, <1>2, <1>3, <1>4, <1>5 DEF Inv

LEMMA UnmountedShape ==
  ASSUME NEW t \in Tabs, NEW all, DOMAIN all = Slots, \A c \in Slots : DOMAIN all[c] = CallFields
  PROVE  /\ DOMAIN Unmounted(t, all) = Slots
         /\ \A c \in Slots :
              /\ DOMAIN Unmounted(t, all)[c] = CallFields
              /\ all[c].tab # t => Unmounted(t, all)[c] = all[c]
              /\ all[c].tab = t =>
                   /\ Unmounted(t, all)[c].tab = t /\ ~Unmounted(t, all)[c].live
                   /\ Unmounted(t, all)[c].kind = all[c].kind
<1>1. DOMAIN Unmounted(t, all) = Slots
  BY DEF Unmounted
<1>2. ASSUME NEW c \in Slots, all[c].tab = t
      PROVE  Unmounted(t, all)[c] = [all[c] EXCEPT !.live = FALSE]
  BY <1>2 DEF Unmounted
<1>3. ASSUME NEW c \in Slots, all[c].tab # t
      PROVE  Unmounted(t, all)[c] = all[c]
  BY <1>3 DEF Unmounted
<1> QED
  BY <1>1, <1>2, <1>3 DEF CallFields

\* A link, the sidebar or the logout.
LEMMA LeaveStep ==
  ASSUME Inv, NEW t \in Tabs, NEW at, Push(t, at),
         UNCHANGED sessionVars \/ SetSession(t, NoUser)
  PROVE  Inv'
<1>1. Heeded /\ (~over'[t] => ~InFlight(t))
  BY AbandonHeeds DEF Push
<1>2. \A c \in Slots : calls[c].tab = t /\ ~over'[t] => calls[c].kind = "resend"
  BY <1>1 DEF Inv, Heeded, InFlight, Awaited
<1>3. /\ page' = [page EXCEPT ![t] = Mounted(at)]
      /\ DOMAIN calls' = Slots
      /\ \A c \in Slots :
           /\ DOMAIN calls'[c] = CallFields
           /\ calls[c].tab # t => calls'[c] = calls[c]
           /\ calls[c].tab = t =>
                calls'[c].tab = t /\ ~calls'[c].live /\ calls'[c].kind = calls[c].kind
  BY UnmountedShape DEF Push, Inv, Shapes, CallShapes
<1>4. UNCHANGED <<token, store, contact>> \/ SetSession(t, NoUser)
  BY DEF sessionVars
<1> QED
  BY <1>1, <1>2, <1>3, <1>4, PushStep

LEMMA GoneShape ==
  ASSUME NEW k, DOMAIN k = CallFields
  PROVE  DOMAIN Gone(k) = CallFields /\ Gone(k).tab = NoTab
<1>1. CASE k.ans = Waiting
  <2>1. Gone(k) = [k EXCEPT !.tab = NoTab, !.live = FALSE]
    BY <1>1 DEF Gone
  <2> QED
    BY <2>1 DEF CallFields
<1>2. CASE k.ans # Waiting
  BY <1>2 DEF Gone, NoCall, CallFields
<1> QED
  BY <1>1, <1>2

\* A new document: nothing of the old one is waited for.
LEMMA ReloadStep ==
  ASSUME Inv, NEW t \in Tabs, NEW at, Reload(t, at), UNCHANGED <<store, contact>>,
         UNCHANGED token \/ token' = [token EXCEPT ![t] = NoUser]
  PROVE  Inv'
<1>1. Heeded
  BY AbandonHeeds DEF Reload
<1>2. /\ DOMAIN page' = Tabs /\ page'[t] = Mounted(at) /\ \A u \in Tabs : u # t => page'[u] = page[u]
      /\ DOMAIN token' = Tabs /\ ActsAsShown'
  BY <1>1 DEF Reload, Inv, Shapes, ActsAsShown, Heeded
<1>3. /\ DOMAIN calls' = Slots
      /\ \A c \in Slots : calls[c].tab # t => calls'[c] = calls[c]
      /\ \A c \in Slots : calls[c].tab = t => calls'[c] = Gone(calls[c])
  BY DEF Reload, Discarded
<1>4. \A c \in Slots : calls[c].tab = t =>
        DOMAIN calls'[c] = CallFields /\ calls'[c].tab = NoTab
  BY <1>3, GoneShape DEF Inv, CallShapes
<1>5. Shapes' /\ CallShapes'
  BY <1>1, <1>2, <1>3, <1>4, MountedAt DEF Heeded, Inv, Shapes, CallShapes
<1>6. Homed'
  BY <1>2, <1>3, <1>4, BrowserAssumption DEF Inv, Homed
<1>7. OneAtATime'
  BY <1>2, <1>3, <1>4, BrowserAssumption DEF Inv, OneAtATime, Alone
<1>8. Awaited' /\ OwnProfile'
  BY <1>1, <1>2, <1>3, <1>4, BrowserAssumption DEF Inv, Heeded, Awaited, OwnProfile
<1> QED
  BY <1>2, <1>5, <1>6, <1>7, <1>8 DEF Inv

LEMMA MoveSteps ==
  ASSUME Inv, NEW t \in Tabs, Moves(t)
  PROVE  Inv'
<1>1. ASSUME NEW at, Visit(t, at) PROVE Inv'
  BY <1>1, LeaveStep DEF Visit
<1>2. ASSUME NEW at, OpenUrl(t, at) PROVE Inv'
  BY <1>2, ReloadStep DEF OpenUrl, sessionVars
<1>3. CASE Logout(t)
  BY <1>3, LeaveStep DEF Logout, SetSession
<1>4. ASSUME token' = [token EXCEPT ![t] = NoUser] \/ UNCHANGED token,
             UNCHANGED <<calls, page, store, contact, over>>
      PROVE  Inv'
  BY <1>4 DEF Inv, Shapes, CallShapes, Homed, OneAtATime, Alone, Awaited, OwnProfile, ActsAsShown
<1>5. CASE Expire(t)
  BY <1>4, <1>5 DEF Expire
<1>6. CASE Refresh(t)
  BY <1>4, <1>6, ReloadStep DEF Refresh, Bounce, sessionVars
<1> QED
  BY <1>1, <1>2, <1>3, <1>5, <1>6 DEF Moves

-----------------------------------------------------------------------------
(* The server.                                                             *)

LEMMA ReplyStep ==
  ASSUME Inv, NEW c \in Slots, NEW a, Reply(c, a), UNCHANGED tabVars,
         calls[c].kind = "profile" /\ a.is = "done" => calls[c].as # NoUser /\ a.got = calls[c].as
  PROVE  Inv'
<1>1. UNCHANGED <<page, token, store, contact, over>>
  BY DEF tabVars, sessionVars
<1>2. DOMAIN calls' = Slots /\ \A d \in Slots : d # c => calls'[d] = calls[d]
  BY DEF Reply, Inv, Shapes
<1>3. CASE calls[c].tab = NoTab
  <2>1. calls'[c] = NoCall
    BY <1>3 DEF Reply, Inv, Shapes
  <2>2. DOMAIN calls'[c] = CallFields /\ calls'[c].tab = NoTab
    BY <2>1, BrowserAssumption DEF NoCall, CallFields
  <2> QED
    BY <1>1, <1>2, <2>2, BrowserAssumption DEF Inv, Shapes, CallShapes, Homed, OneAtATime, Alone, Awaited, OwnProfile, ActsAsShown
<1>4. CASE calls[c].tab # NoTab
  <2>1. calls'[c] = [calls[c] EXCEPT !.ans = a]
    BY <1>4 DEF Reply, Inv, Shapes
  <2>2. /\ DOMAIN calls'[c] = CallFields /\ calls'[c].tab = calls[c].tab /\ calls'[c].kind = calls[c].kind
        /\ calls'[c].live = calls[c].live /\ calls'[c].as = calls[c].as /\ calls'[c].ans = a
    BY <2>1 DEF CallFields, Inv, CallShapes
  <2>3. Shapes' /\ CallShapes' /\ Homed' /\ Awaited' /\ ActsAsShown'
    BY <1>1, <1>2, <2>2, BrowserAssumption DEF Inv, Shapes, CallShapes, Homed, Awaited, ActsAsShown
  <2>4. OneAtATime'
    BY <1>1, <1>2, <2>2 DEF Inv, OneAtATime, Alone
  <2>5. OwnProfile'
    BY <1>1, <1>2, <2>2 DEF Inv, OwnProfile
  <2> QED
    BY <2>3, <2>4, <2>5 DEF Inv
<1> QED
  BY <1>3, <1>4

LEMMA ServeStep ==
  ASSUME Inv, NEW c \in Slots, Serve(c)
  PROVE  Inv'
<1>1. ServeCall(c) /\ UNCHANGED tabVars
  BY DEF Serve
<1>2. CASE Reply(c, Unauthorized)
  BY <1>1, <1>2, ReplyStep DEF Unauthorized
<1>3. CASE Handle(c) /\ calls[c].kind # "profile"
  BY <1>1, <1>3, HandleReplies, ReplyStep
<1>4. CASE Handle(c) /\ calls[c].kind = "profile" /\ calls[c].as # NoUser
  <2>1. Reply(c, Refusal) \/ Reply(c, Done(calls[c].as))
    BY <1>4 DEF Handle, ChangeOwn
  <2> QED
    BY <1>1, <1>4, <2>1, ReplyStep DEF Refusal, Done
<1> QED
  BY <1>1, <1>2, <1>3, <1>4 DEF ServeCall, Unguarded

-----------------------------------------------------------------------------
(* Answers.                                                                *)

\* A page stays what it is, and on a page without a session a resend leaves
\* the buttons alone.
LEMMA AfterKeeps ==
  ASSUME NEW pg, NEW k, "at" \in DOMAIN pg, pg.at \in Public => "busy" \in DOMAIN pg
  PROVE  /\ "at" \in DOMAIN After(pg, k) /\ After(pg, k).at = pg.at
         /\ pg.at \in Public => "busy" \in DOMAIN After(pg, k)
         /\ pg.at \in {"forgot", "unlock"} /\ k.kind = "resend" => After(pg, k).busy = pg.busy
<1>1. CASE pg.at = "initiate"
  <2>0. pg.at \notin Public /\ pg.at \notin {"forgot", "unlock"}
    BY <1>1 DEF Public
  <2>1. After(pg, k) = WizardAfter(pg, k)
    BY <1>1 DEF After, Recovering
  <2>2. CASE k.kind = "resend"
    BY <2>0, <2>1, <2>2 DEF WizardAfter
  <2>3. CASE k.kind # "resend" /\ ~Ok(k)
    BY <2>0, <2>1, <2>3 DEF WizardAfter
  <2>4. CASE k.kind \in {"initiate", "submit"} /\ Ok(k)
    BY <2>0, <2>1, <2>4 DEF WizardAfter
  <2>5. CASE k.kind \notin {"resend", "initiate", "submit"} /\ Ok(k)
    BY <2>0, <2>1, <2>5 DEF WizardAfter
  <2> QED
    BY <2>2, <2>3, <2>4, <2>5
<1>2. CASE pg.at = "modify"
  <2>0. pg.at \notin Public /\ pg.at \notin {"forgot", "unlock"}
    BY <1>2 DEF Public
  <2>1. After(pg, k) = ModifyAfter(pg, k)
    BY <1>2 DEF After, Recovering
  <2>2. CASE k.kind \in {"remove", "update", "submit"}
    BY <2>0, <2>1, <2>2 DEF ModifyAfter
  <2>3. CASE k.kind \notin {"remove", "update", "submit"}
    BY <2>0, <2>1, <2>3 DEF ModifyAfter
  <2> QED
    BY <2>2, <2>3
<1>3. CASE pg.at = "maintenance"
  <2>0. pg.at \notin Public /\ pg.at \notin {"forgot", "unlock"}
    BY <1>3 DEF Public
  <2>1. After(pg, k) = MaintenanceAfter(pg, k)
    BY <1>3 DEF After, Recovering
  <2> QED
    BY <1>3, <2>0, <2>1 DEF MaintenanceAfter, Maintenance
<1>4. CASE pg.at \in {"activate", "delete", "console", "command", "report"}
  BY <1>4 DEF After, ListAfter, ConsoleAfter, CommandAfter, ReportAfter, Public, Recovering
<1>5. CASE pg.at \in Recovering
  <2>1. After(pg, k) = RecoverAfter(pg, k)
    BY <1>5 DEF After, Recovering
  <2>2. CASE k.kind = "resend"
    BY <2>1, <2>2 DEF RecoverAfter
  <2>3. CASE k.kind \in {"profile", "resettxn"}
    BY <2>1, <2>3 DEF RecoverAfter
  <2>4. CASE k.kind \notin {"resend", "profile", "resettxn"}
    BY <2>1, <2>4 DEF RecoverAfter
  <2> QED
    BY <2>2, <2>3, <2>4
<1>6. CASE pg.at \notin {"initiate", "modify", "maintenance", "activate", "delete",
                          "console", "command", "report"} \union Recovering
  <2>1. After(pg, k) = [pg EXCEPT !.busy = FALSE]
    BY <1>6 DEF After
  <2> QED
    BY <1>6, <2>1 DEF Recovering
<1> QED
  BY <1>1, <1>2, <1>3, <1>4, <1>5, <1>6

\* The continuation of a request, whose slot is then empty, or holds the next
\* one of the loop.
LEMMA ContinueStep ==
  ASSUME Inv, NEW c \in Slots, NEW t \in Tabs, NEW k, NEW rest, Continue(t, c, k, rest), Heeded,
         calls[c].tab = t, DOMAIN k = CallFields,
         k.tab = t, k.kind = calls[c].kind, k.live = calls[c].live,
         DOMAIN rest = Slots, \A d \in Slots : d # c => rest[d] = calls[d],
         DOMAIN rest[c] = CallFields, rest[c].tab = NoTab,
         Ok(k) /\ k.kind = "profile" /\ ~over'[t] => k.ans.got = store[t]
  PROVE  Inv'
<1>1. \A d \in Slots : DOMAIN rest[d] = CallFields
  BY DEF Inv, CallShapes
<1>2. CASE Ok(k) /\ k.kind \in {"login", "reset", "unlock"}
  <2>1. PICK at : page' = [page EXCEPT ![t] = Mounted(at)]
    BY <1>2 DEF Continue
  <2>2. calls' = Unmounted(t, rest)
    BY <1>2 DEF Continue
  <2>3. /\ DOMAIN calls' = Slots
        /\ \A d \in Slots :
             /\ DOMAIN calls'[d] = CallFields
             /\ rest[d].tab # t => calls'[d] = rest[d]
             /\ rest[d].tab = t =>
                  calls'[d].tab = t /\ ~calls'[d].live /\ calls'[d].kind = rest[d].kind
    BY <1>1, <2>2, UnmountedShape
  <2>4. ASSUME NEW d \in Slots, d # c, calls[d].tab = t, ~over'[t] PROVE calls[d].kind = "resend"
    <3>1. SUFFICES ASSUME calls[d].kind # "resend" PROVE FALSE
      OBVIOUS
    <3>2. ~over[t] /\ calls[c].live /\ calls[d].live /\ calls[c].kind \in KindsOf(page[t].at)
      BY <1>2, <2>4, <3>1 DEF Inv, Heeded, Awaited, Homed
    <3>3. page[t].at \in Public
      BY <1>2, <3>2 DEF KindsOf, Public
    <3> QED
      BY <1>2, <2>4, <3>1, <3>2, <3>3 DEF Inv, OneAtATime, Alone
  <2>5. UNCHANGED <<token, store, contact>> \/ SetSession(t, k.ans.got)
    BY <1>2 DEF Continue, Ok, Unauthorized
  <2>6. \A d \in Slots :
          \/ calls[d].tab # t /\ calls'[d] = calls[d]
          \/ calls'[d].tab = NoTab
          \/ calls'[d].tab = t /\ ~calls'[d].live /\ (~over'[t] => calls'[d].kind = "resend")
    BY <2>3, <2>4
  <2> QED
    BY <2>1, <2>3, <2>5, <2>6, PushStep
<1>3. CASE ~(Ok(k) /\ k.kind \in {"login", "reset", "unlock"})
  <2> DEFINE again == [k EXCEPT !.with = @ + 1, !.as = token[t], !.ans = Waiting]
  <2>1. page' = [page EXCEPT ![t] = IF k.live THEN After(page[t], k) ELSE page[t]]
    BY <1>3 DEF Continue
  <2>2. calls' = rest \/ (k.kind = "watch" /\ calls' = [rest EXCEPT ![c] = again])
    BY <1>3 DEF Continue
  <2>3. DOMAIN again = CallFields /\ again.tab = t /\ again.kind = k.kind /\ again.live = k.live
    BY DEF CallFields
  <2> HIDE DEF again
  <2>4. /\ DOMAIN calls' = Slots
        /\ \A d \in Slots : d # c => calls'[d] = calls[d]
        /\ DOMAIN calls'[c] = CallFields
        /\ \/ calls'[c].tab = NoTab
           \/ /\ calls'[c].tab = t /\ calls'[c].kind = "watch" /\ calls[c].kind = "watch"
              /\ calls'[c].live = calls[c].live
    BY <2>2, <2>3
  <2>5. /\ DOMAIN page' = Tabs /\ \A v \in Tabs : v # t => page'[v] = page[v]
        /\ "at" \in DOMAIN page'[t] /\ page'[t].at = page[t].at
        /\ page[t].at \in Public => "busy" \in DOMAIN page'[t]
        /\ k.live \/ page'[t] = page[t]
        /\ page[t].at \in {"forgot", "unlock"} /\ k.kind = "resend" => page'[t].busy = page[t].busy
    BY <2>1, AfterKeeps DEF Inv, Shapes
  <2>6. /\ DOMAIN token' = Tabs /\ DOMAIN store' = Tabs /\ DOMAIN contact' = Tabs
        /\ UNCHANGED store /\ ActsAsShown'
    <3>1. CASE k.kind = "profile" /\ Ok(k)
      BY <1>3, <3>1 DEF Continue, UpdateUser, Inv, Shapes, ActsAsShown, Heeded
    <3>2. CASE ~(k.kind = "profile" /\ Ok(k))
      <4>1. /\ token' = IF k.ans = Unauthorized THEN [token EXCEPT ![t] = NoUser] ELSE token
            /\ UNCHANGED <<store, contact>>
        BY <1>3, <3>2 DEF Continue
      <4> QED
        BY <4>1 DEF Inv, Shapes, ActsAsShown, Heeded
    <3> QED
      BY <3>1, <3>2
  <2>7. Shapes' /\ CallShapes'
    BY <2>4, <2>5, <2>6 DEF Inv, Shapes, CallShapes, Heeded
  <2>8. Homed'
    BY <2>4, <2>5, BrowserAssumption DEF Inv, Homed
  <2>9. OneAtATime'
    <3> SUFFICES ASSUME NEW v \in Tabs, page'[v].at \in Public, NEW d \in Slots, Alone(v, d)'
                 PROVE  page'[v].busy /\ \A e \in Slots : Alone(v, e)' => e = d
      BY DEF OneAtATime
    <3>1. CASE v # t
      BY <2>4, <2>5, <3>1, BrowserAssumption DEF Inv, OneAtATime, Alone
    <3>2. CASE v = t
      <4>1. k.live => calls[c].kind \in KindsOf(page[t].at)
        BY DEF Inv, Homed
      <4>2. calls'[c].tab = t => ~calls'[c].live
        BY <2>4, <2>5, <3>2, <4>1, BrowserAssumption DEF KindsOf, Public
      <4>3. d # c /\ Alone(t, d) /\ \A e \in Slots : Alone(t, e)' => Alone(t, e)
        BY <2>4, <3>2, <4>2, BrowserAssumption DEF Alone
      <4>4. page[t].busy /\ \A e \in Slots : Alone(t, e) => e = d
        BY <2>5, <3>2, <4>3 DEF Inv, OneAtATime
      <4>5. k.live => k.kind = "resend"
        BY <4>3, <4>4 DEF Alone
      <4>6. k.live => page[t].at \in {"forgot", "unlock"}
        BY <2>5, <3>2, <4>1, <4>5 DEF KindsOf, Public
      <4> QED
        BY <2>5, <3>2, <4>3, <4>4, <4>5, <4>6
    <3> QED
      BY <3>1, <3>2
  <2>10. Awaited' /\ OwnProfile'
    BY <2>4, <2>6, BrowserAssumption DEF Inv, Heeded, Awaited, OwnProfile
  <2> QED
    BY <2>6, <2>7, <2>8, <2>9, <2>10 DEF Inv
<1> QED
  BY <1>2, <1>3

LEMMA NoCallShape == DOMAIN NoCall = CallFields /\ NoCall.tab = NoTab
  BY DEF NoCall, CallFields

LEMMA AnswerStep ==
  ASSUME Inv, NEW c \in Slots, Answer(c)
  PROVE  Inv'
<1> DEFINE k == calls[c]  t == calls[c].tab
<1>1. t \in Tabs /\ DOMAIN k = CallFields
  BY DEF Answer, Inv, CallShapes
<1>2. CASE Bounce(t)
  BY <1>1, <1>2, ReloadStep DEF Bounce
<1>3. CASE Continue(t, c, k, [calls EXCEPT ![c] = NoCall]) /\ UNCHANGED over
  <2> DEFINE rest == [calls EXCEPT ![c] = NoCall]
  <2>1. /\ DOMAIN rest = Slots /\ \A d \in Slots : d # c => rest[d] = calls[d]
        /\ DOMAIN rest[c] = CallFields /\ rest[c].tab = NoTab
    BY NoCallShape DEF Inv, Shapes
  <2>2. Ok(k) /\ k.kind = "profile" /\ ~over'[t] => k.ans.got = store[t]
    BY <1>1, <1>3 DEF Ok, Inv, OwnProfile
  <2> HIDE DEF k, t, rest
  <2>3. k.tab = t /\ k.kind = calls[c].kind /\ k.live = calls[c].live /\ calls[c].tab = t
    BY DEF k, t
  <2>4. Continue(t, c, k, rest)
    BY <1>3 DEF rest
  <2> QED
    BY <1>1, <1>3, <2>1, <2>2, <2>3, <2>4, ContinueStep, StayHeeds
<1> QED
  BY <1>2, <1>3 DEF Answer

LEMMA BreakStep ==
  ASSUME Inv, NEW c \in Slots, Break(c)
  PROVE  Inv'
<1> DEFINE t == calls[c].tab
           k == [calls[c] EXCEPT !.ans = Refusal]
           rest == [calls EXCEPT ![c] = Gone(calls[c])]
<1>1. t \in Tabs /\ DOMAIN calls[c] = CallFields
  BY DEF Break, Inv, CallShapes
<1>2. /\ DOMAIN k = CallFields /\ k.tab = t /\ k.kind = calls[c].kind /\ k.live = calls[c].live
      /\ ~Ok(k)
  BY <1>1 DEF CallFields, Refusal, Ok
<1>3. /\ DOMAIN rest = Slots /\ \A d \in Slots : d # c => rest[d] = calls[d]
      /\ DOMAIN rest[c] = CallFields /\ rest[c].tab = NoTab
  BY <1>1, GoneShape DEF Inv, Shapes
<1>4. Continue(t, c, k, rest) /\ Abandon(t)
  BY DEF Break
<1> HIDE DEF t, k, rest
<1>5. calls[c].tab = t
  BY DEF t
<1> QED
  BY <1>1, <1>2, <1>3, <1>4, <1>5, ContinueStep, AbandonHeeds

LEMMA VanishStep ==
  ASSUME Inv, NEW c \in Slots, Vanish(c)
  PROVE  Inv'
<1>1. /\ DOMAIN calls' = Slots /\ \A d \in Slots : d # c => calls'[d] = calls[d]
      /\ DOMAIN calls'[c] = CallFields /\ calls'[c].tab = NoTab
      /\ UNCHANGED <<page, token, store, contact, over>>
  BY NoCallShape DEF Vanish, tabVars, sessionVars, Inv, Shapes
<1> QED
  BY <1>1, BrowserAssumption
  DEF Inv, Shapes, CallShapes, Homed, OneAtATime, Alone, Awaited, OwnProfile, ActsAsShown

-----------------------------------------------------------------------------
(* The user.                                                               *)

LEMMA WizardSteps ==
  ASSUME Inv, NEW t \in Tabs, Wizards(t)
  PROVE  Inv'
<1>1. "at" \in DOMAIN page[t]
  BY DEF Inv, Shapes
<1>2. CASE PickMode(t)
  BY <1>1, <1>2, TurnStep, StayHeeds DEF PickMode, Public
<1>3. CASE LeaveMode(t)
  BY <1>1, <1>3, TurnStep, AbandonHeeds DEF LeaveMode, OnWizard, Emptied, Public
<1>4. CASE CancelForm(t)
  BY <1>1, <1>4, TurnStep, AbandonHeeds DEF CancelForm, OnWizard, Emptied, Public
<1>5. CASE PressNext(t)
  BY <1>1, <1>5, AskStep, AbandonHeeds DEF PressNext, OnWizard, Public, KindsOf
<1>6. CASE BackToForm(t)
  BY <1>1, <1>6, TurnStep, StayHeeds DEF BackToForm, OnWizard, Public
<1>7. CASE PressConfirm(t)
  BY <1>1, <1>7, AskStep, StayHeeds DEF PressConfirm, OnWizard, Public, KindsOf
<1>8. CASE PressSubmit(t)
  BY <1>1, <1>8, AskStep, StayHeeds DEF PressSubmit, Public, KindsOf
<1>9. CASE PressResend(t)
  BY <1>1, <1>9, AskStep, StayHeeds DEF PressResend, Public, KindsOf
<1>10. CASE CloseModal(t)
  BY <1>1, <1>10, TurnStep, StayHeeds DEF CloseModal, Public
<1> QED
  BY <1>2, <1>3, <1>4, <1>5, <1>6, <1>7, <1>8, <1>9, <1>10 DEF Wizards

LEMMA ModifySteps ==
  ASSUME Inv, NEW t \in Tabs, Modifies(t)
  PROVE  Inv'
<1>1. "at" \in DOMAIN page[t]
  BY DEF Inv, Shapes
<1>2. ASSUME NEW p, OpenSend(t, p) PROVE Inv'
  <2> DEFINE pg == [page[t] EXCEPT !.send = p, !.conf = NoConf, !.done = NoShown, !.busy = TRUE]
  <2>1. page[t].at = "modify" /\ "at" \in DOMAIN pg /\ pg.at = page[t].at
    BY <1>1, <1>2 DEF OpenSend, OnRows
  <2>2. Ask(t, pg, "confirm", p, Nothing) /\ Heeded
    BY <1>2, StayHeeds DEF OpenSend
  <2> HIDE DEF pg
  <2> QED
    BY <2>1, <2>2, AskStep DEF Public, KindsOf
<1>3. ASSUME NEW p, OpenEdit(t, p) \/ OpenDelete(t, p) PROVE Inv'
  BY <1>1, <1>3, TurnStep, StayHeeds DEF OpenEdit, OpenDelete, OnRows, Public
<1>4. CASE SubmitSend(t)
  BY <1>1, <1>4, AskStep, StayHeeds DEF SubmitSend, Public, KindsOf
<1>5. CASE SaveEdit(t)
  BY <1>1, <1>5, AskStep, StayHeeds DEF SaveEdit, Public, KindsOf
<1>6. CASE PressDelete(t)
  BY <1>1, <1>6, AskStep, StayHeeds DEF PressDelete, Public, KindsOf
<1>7. CASE CloseSend(t)
  BY <1>1, <1>7, TurnStep, AbandonHeeds DEF CloseSend, Public
<1>8. CASE CloseEdit(t)
  BY <1>1, <1>8, TurnStep, AbandonHeeds DEF CloseEdit, Public
<1>9. CASE CloseDelete(t)
  BY <1>1, <1>9, TurnStep, AbandonHeeds DEF CloseDelete, Public
<1> QED
  BY <1>2, <1>3, <1>4, <1>5, <1>6, <1>7, <1>8, <1>9 DEF Modifies

LEMMA PayeeSteps ==
  ASSUME Inv, NEW t \in Tabs, Payeeing(t)
  PROVE  Inv'
<1>1. "at" \in DOMAIN page[t]
  BY DEF Inv, Shapes
<1>2. CASE StartAdd(t)
  BY <1>1, <1>2, TurnStep, StayHeeds DEF StartAdd, Maintenance, Public
<1>3. CASE StartEdit(t)
  BY <1>1, <1>3, TurnStep, StayHeeds DEF StartEdit, Maintenance, Public
<1>4. CASE CancelPayee(t)
  BY <1>1, <1>4, TurnStep, AbandonHeeds DEF CancelPayee, Maintenance, Public
<1>5. CASE PressFetch(t)
  BY <1>1, <1>5, AskStep, StayHeeds DEF PressFetch, OnForm, Public, KindsOf
<1>6. CASE TypeInto(t)
  BY <1>1, <1>6, TurnStep, StayHeeds DEF TypeInto, OnForm, Public
<1>7. CASE FormNext(t) \/ FormBack(t)
  BY <1>1, <1>7, TurnStep, StayHeeds DEF FormNext, FormBack, OnForm, Public
<1>8. CASE SubmitForm(t)
  BY <1>1, <1>8, AskStep, StayHeeds DEF SubmitForm, OnForm, Public, KindsOf
<1>9. CASE Toggle(t)
  BY <1>1, <1>9, TurnStep, StayHeeds DEF Toggle, Public
<1>10. CASE OpenErase(t)
  BY <1>1, <1>10, TurnStep, StayHeeds DEF OpenErase, Public
<1>11. CASE PressErase(t)
  BY <1>1, <1>11, AskStep, StayHeeds DEF PressErase, Public, KindsOf
<1>12. CASE CloseErase(t)
  BY <1>1, <1>12, TurnStep, AbandonHeeds DEF CloseErase, Public
<1>13. ASSUME NEW kind \in {"activate", "refuse"}, PressActivate(t, kind) PROVE Inv'
  BY <1>1, <1>13, AskStep, StayHeeds DEF PressActivate, Public, KindsOf
<1> QED
  BY <1>2, <1>3, <1>4, <1>5, <1>6, <1>7, <1>8, <1>9, <1>10, <1>11, <1>12, <1>13 DEF Payeeing

LEMMA IdentitySteps ==
  ASSUME Inv, NEW t \in Tabs, Identity(t)
  PROVE  Inv'
<1>1. "at" \in DOMAIN page[t] /\ (page[t].at \in Public => "busy" \in DOMAIN page[t])
  BY DEF Inv, Shapes
<1>2. CASE RequestCode(t)
  BY <1>1, <1>2, AskStep, StayHeeds DEF RequestCode, OnRecovery, Public, KindsOf
<1>3. CASE UseCode(t)
  BY <1>1, <1>3, AskStep, StayHeeds DEF UseCode, OnRecovery, Public, KindsOf
<1>4. CASE ResendCode(t)
  BY <1>1, <1>4, AskStep, StayHeeds DEF ResendCode, OnRecovery, Public, KindsOf
<1>5. CASE ChangePassword(t)
  BY <1>1, <1>5, AskStep, StayHeeds DEF ChangePassword, Public, KindsOf
<1>6. CASE Generate(t) \/ ResetWithOtp(t)
  BY <1>1, <1>6, AskStep, StayHeeds DEF Generate, ResetWithOtp, Public, KindsOf
<1>7. CASE EditContact(t) \/ RequestSave(t)
  BY <1>1, <1>7, TurnStep, StayHeeds DEF EditContact, RequestSave, Public
<1>8. CASE CancelContact(t)
  BY <1>1, <1>8, TurnStep, AbandonHeeds DEF CancelContact, Public
<1>9. CASE CloseConfirm(t)
  BY <1>1, <1>9, TurnStep, AbandonHeeds DEF CloseConfirm, Public
<1>10. CASE SaveContact(t)
  BY <1>1, <1>10, AskStep, StayHeeds DEF SaveContact, Public, KindsOf
<1> QED
  BY <1>2, <1>3, <1>4, <1>5, <1>6, <1>7, <1>8, <1>9, <1>10 DEF Identity

LEMMA OtherSteps ==
  ASSUME Inv, NEW t \in Tabs, Others(t)
  PROVE  Inv'
<1>1. "at" \in DOMAIN page[t] /\ (page[t].at \in Public => "busy" \in DOMAIN page[t])
  BY DEF Inv, Shapes
<1>2. ASSUME NEW p, NEW kind \in {"release", "reject"}, PressReview(t, p, kind) PROVE Inv'
  BY <1>1, <1>2, AskStep, StayHeeds DEF PressReview, Public, KindsOf
<1>3. CASE ApplyPreset(t)
  BY <1>1, <1>3, TurnStep, AbandonHeeds DEF ApplyPreset, Public
<1>4. CASE PressScore(t)
  BY <1>1, <1>4, AskStep, StayHeeds DEF PressScore, Public, KindsOf
<1>5. CASE RunAll(t)
  <2> DEFINE pg == [page[t] EXCEPT !.busy = TRUE, !.results = {}]
  <2>1. page[t].at = "command" /\ "at" \in DOMAIN pg /\ pg.at = page[t].at
    BY <1>1, <1>5 DEF RunAll
  <2>2. Ask(t, pg, "watch", Nothing, 1) /\ Heeded
    BY <1>5, StayHeeds DEF RunAll
  <2> HIDE DEF pg
  <2> QED
    BY <2>1, <2>2, AskStep DEF Public, KindsOf
<1>6. CASE PressReport(t)
  BY <1>1, <1>6, AskStep, StayHeeds DEF PressReport, Public, KindsOf
<1>7. CASE PressLogin(t)
  BY <1>1, <1>7, AskStep, StayHeeds DEF PressLogin, Public, KindsOf
<1> QED
  BY <1>2, <1>3, <1>4, <1>5, <1>6, <1>7 DEF Others

-----------------------------------------------------------------------------
LEMMA InvNext == Inv /\ [Next]_vars => Inv'
<1> SUFFICES ASSUME Inv, [Next]_vars PROVE Inv'
  OBVIOUS
<1>1. ASSUME NEW b \in Payees, Age(b) PROVE Inv'
  BY <1>1 DEF Age, tabVars, sessionVars,
     Inv, Shapes, CallShapes, Homed, OneAtATime, Alone, Awaited, OwnProfile, ActsAsShown
<1>2. CASE UNCHANGED vars
  BY <1>2 DEF vars, tabVars, sessionVars,
     Inv, Shapes, CallShapes, Homed, OneAtATime, Alone, Awaited, OwnProfile, ActsAsShown
<1> QED
  BY <1>1, <1>2, WizardSteps, ModifySteps, PayeeSteps, IdentitySteps, OtherSteps, MoveSteps,
     ServeStep, AnswerStep, BreakStep, VanishStep DEF Next

\* ActsAsShown (the interceptor's token, and the store's user and contact
\* details), for any numbers of browsers, users, requests and scenes.
THEOREM RequestsActAsShown == Spec => []ActsAsShown
<1>1. Inv => ActsAsShown
  BY DEF Inv
<1> QED
  BY <1>1, InvInit, InvNext, PTL DEF Spec

-----------------------------------------------------------------------------
(* Whose answer a dialog shows, while its user waits for each.             *)

Challenges == [pay : Payments \union {NoPay}, used : BOOLEAN]
OtpTyped == otp \in Seq(Challenges)

\* Of the challenges O: n is one for p; and the confirmation is of p.
For(O, n, p) == n \in DOMAIN O /\ O[n].pay = p
Owns(O, conf, p) ==
  /\ conf # NoConf => conf.of = p
  /\ conf.otp # 0 => For(O, conf.otp, p)

\* What an answer is about.
Fitting(O, k) ==
  Ok(k) => /\ k.kind = "confirm" => k.ans.got.otp = 0 \/ For(O, k.ans.got.otp, k.on)
           /\ k.kind \in {"resend", "score"} => k.ans.got = k.with

PageOwns(O, pg) ==
  /\ pg.at = "initiate" =>
       /\ DOMAIN pg.conf = DOMAIN NoConf
       /\ pg.open => Owns(O, pg.conf, pg.draft)
       /\ pg.step = 2 => pg.final.of = pg.draft
  /\ pg.at = "modify" => Owns(O, pg.conf, pg.send) /\ (pg.done # NoShown => pg.done.of = pg.send)
  /\ pg.at = "console" => DOMAIN pg = DOMAIN EventForm /\ pg.result \in {0, pg.preset}

\* A request the page pg still waits for.
Sole(kind) == kind \in {"initiate", "confirm", "submit"}
Asks(O, pg, k) ==
  /\ pg.at \in {"initiate", "modify"} /\ Sole(k.kind) => pg.busy
  /\ pg.at = "initiate" =>
       /\ k.kind \in {"initiate", "confirm"} => ~pg.open
       /\ k.kind \in {"confirm", "submit"} => k.on = pg.draft
       /\ k.kind = "resend" => k.with = 0 \/ For(O, k.with, pg.draft)
  /\ pg.at = "modify" =>
       /\ k.kind \in {"confirm", "submit"} => k.on = pg.send
       /\ k.kind = "confirm" => pg.conf = NoConf /\ pg.done = NoShown
  /\ pg.at = "console" /\ k.kind = "score" => k.with = pg.preset

Mine(t, c) == calls[c].tab = t /\ calls[c].live

\* A payment is initiated, confirmed or submitted by one request at a time, and
\* while it is initiated nothing else is asked.
InTurn(t) ==
  \A c \in Slots, d \in Slots : Mine(t, c) /\ Mine(t, d) =>
    /\ Sole(calls[c].kind) /\ Sole(calls[d].kind) => c = d
    /\ calls[c].kind = "initiate" => c = d

Dialog(t) ==
  /\ PageOwns(otp, page[t])
  /\ \A c \in Slots : Mine(t, c) => Asks(otp, page[t], calls[c])
  /\ InTurn(t)

Ownership ==
  /\ OtpTyped
  /\ \A c \in Slots : Fitting(otp, calls[c])
  /\ \A t \in Tabs : ~over[t] => Dialog(t)

\* The facts the steps below start from.
All == Inv /\ Truth /\ Ownership

LEMMA OneSubmit ==
  ASSUME All, NEW t \in Tabs, ~over[t]
  PROVE  Cardinality({c \in Slots : calls[c].tab = t /\ calls[c].kind = "submit"}) <= 1
<1> DEFINE S == {c \in Slots : calls[c].tab = t /\ calls[c].kind = "submit"}
<1>1. \A c \in S, d \in S : c = d
  BY BrowserAssumption DEF All, Inv, Awaited, Ownership, Dialog, InTurn, Mine, Sole
<1>2. SUFFICES Cardinality(S) <= 1
  OBVIOUS
<1> HIDE DEF S
<1>3. CASE S = {}
  <2>1. Cardinality(S) = 0
    BY <1>3, FS_EmptySet
  <2> QED
    BY <2>1
<1>4. ASSUME NEW c \in S PROVE Cardinality(S) <= 1
  <2>1. S = {c}
    BY <1>1, <1>4
  <2>2. Cardinality(S) = 1
    BY <2>1, FS_Singleton
  <2> QED
    BY <2>2
<1> QED
  BY <1>3, <1>4

LEMMA OwnershipShows == All => DialogOwnsAnswers
<1> SUFFICES ASSUME All, NEW t \in Tabs, ~over[t]
             PROVE  LET pg == page[t]
                        Own(p) == /\ pg.conf # NoConf => pg.conf.of = p
                                  /\ pg.conf.otp # 0 => otp[pg.conf.otp].pay = p
                    IN
                    /\ pg.at = "initiate" /\ pg.open => Own(pg.draft)
                    /\ pg.at = "initiate" /\ pg.step = 2 => pg.final.of = pg.draft
                    /\ pg.at = "modify" => Own(pg.send) /\ (pg.done # NoShown => pg.done.of = pg.send)
                    /\ pg.at = "console" => pg.result \in {0, pg.preset}
                    /\ Cardinality({c \in Slots : calls[c].tab = t /\ calls[c].kind = "submit"}) <= 1
  BY DEF DialogOwnsAnswers
<1>1. PageOwns(otp, page[t])
  BY DEF All, Ownership, Dialog
<1> QED
  BY <1>1, OneSubmit DEF PageOwns, Owns, For

LEMMA MountedOwns ==
  ASSUME NEW O, NEW at
  PROVE  PageOwns(O, Mounted(at))
<1>1. CASE at = "initiate"
  BY <1>1 DEF Mounted, Wizard, PageOwns
<1>2. CASE at = "modify"
  BY <1>2 DEF Mounted, Dialogs, PageOwns, Owns, NoConf
<1>3. CASE at = "console"
  BY <1>3 DEF Mounted, EventForm, PageOwns
<1>4. CASE at \notin {"initiate", "modify", "console"}
  BY <1>4, MountedAt DEF PageOwns
<1> QED
  BY <1>1, <1>2, <1>3, <1>4

LEMMA NoCallFitting ==
  ASSUME NEW O
  PROVE  Fitting(O, NoCall)
  BY DEF Fitting, NoCall, Ok

LEMMA OwnershipInit == Init => Ownership
<1> SUFFICES ASSUME Init PROVE Ownership
  OBVIOUS
<1>1. OtpTyped
  BY DEF Init, OtpTyped
<1>2. \A c \in Slots : calls[c] = NoCall
  BY DEF Init
<1>3. \A t \in Tabs, c \in Slots : ~Mine(t, c)
  BY <1>2, BrowserAssumption DEF Mine, NoCall
<1>4. \A t \in Tabs : PageOwns(otp, page[t])
  BY MountedOwns DEF Init
<1> QED
  BY <1>1, <1>2, <1>3, <1>4, NoCallFitting DEF Ownership, Dialog, InTurn

-----------------------------------------------------------------------------
(* The server.                                                             *)

\* Challenges are added and used; whose they are does not change.
Grown ==
  /\ OtpTyped'
  /\ \A n \in DOMAIN otp : n \in DOMAIN otp' /\ otp'[n].pay = otp[n].pay

LEMMA AppendGrows ==
  ASSUME OtpTyped, NEW p \in Payments \union {NoPay}, otp' = Append(otp, [pay |-> p, used |-> FALSE])
  PROVE  Grown /\ For(otp', Len(otp) + 1, p)
<1> DEFINE entry == [pay |-> p, used |-> FALSE]
<1>1. entry \in Challenges /\ entry.pay = p
  BY DEF Challenges
<1> HIDE DEF entry
<1>2. otp' = Append(otp, entry)
  BY DEF entry
<1>3. /\ otp' \in Seq(Challenges) /\ Len(otp) \in Nat /\ DOMAIN otp = 1 .. Len(otp)
      /\ DOMAIN otp' = 1 .. Len(otp) + 1 /\ otp'[Len(otp) + 1] = entry
      /\ \A n \in 1 .. Len(otp) : otp'[n] = otp[n]
  BY <1>1, <1>2 DEF OtpTyped
<1> QED
  BY <1>1, <1>3 DEF Grown, OtpTyped, For

LEMMA UseGrows ==
  ASSUME OtpTyped, NEW n \in DOMAIN otp, otp' = [otp EXCEPT ![n].used = TRUE]
  PROVE  Grown
<1>1. otp[n] \in Challenges
  BY DEF OtpTyped
<1> DEFINE entry == [otp[n] EXCEPT !.used = TRUE]
<1>2. entry \in Challenges /\ entry.pay = otp[n].pay
  BY <1>1 DEF Challenges
<1>3. otp' = [otp EXCEPT ![n] = entry]
  OBVIOUS
<1> HIDE DEF entry
<1>4. otp' \in Seq(Challenges) /\ DOMAIN otp' = DOMAIN otp /\ otp'[n] = entry
  <2>1. n \in 1 .. Len(otp) /\ DOMAIN otp = 1 .. Len(otp)
    BY DEF OtpTyped
  <2>2. [otp EXCEPT ![n] = entry] \in Seq(Challenges)
    BY <1>2, <2>1, ExceptSeq DEF OtpTyped
  <2> QED
    BY <1>3, <2>2
<1>5. \A m \in DOMAIN otp : m # n => otp'[m] = otp[m]
  BY <1>3
<1> QED
  BY <1>2, <1>4, <1>5 DEF Grown, OtpTyped

LEMMA SameGrows ==
  ASSUME OtpTyped, UNCHANGED otp
  PROVE  Grown
  BY DEF OtpTyped, Grown

LEMMA HandleGrows ==
  ASSUME All, NEW c \in Slots, Handle(c)
  PROVE  Grown
<1>0. OtpTyped /\ Honest(pay, suspended, calls[c])
  BY DEF All, Ownership, Truth, CallsHonest
<1>1. CASE UNCHANGED otp
  BY <1>0, <1>1, SameGrows
<1>2. ASSUME NEW p \in Payments \union {NoPay}, otp' = Append(otp, [pay |-> p, used |-> FALSE])
      PROVE  Grown
  BY <1>0, <1>2, AppendGrows
<1>3. ASSUME NEW n \in DOMAIN otp, otp' = [otp EXCEPT ![n].used = TRUE]
      PROVE  Grown
  BY <1>0, <1>3, UseGrows
<1>4. CASE calls[c].kind = "confirm" /\ Confirm(c)
  <2>1. calls[c].on \in Payments
    BY <1>0, <1>4 DEF Honest
  <2> QED
    BY <1>1, <1>2, <1>4, <2>1 DEF Confirm, Challenge, Refuse, bankVars, paymentVars
<1>5. CASE Submit(c) \/ Recover(c)
  BY <1>1, <1>3, <1>5 DEF Submit, Recover, Refuse, bankVars, paymentVars
<1>6. CASE SendCode(c)
  BY <1>1, <1>2, <1>6 DEF SendCode, bankVars, paymentVars
<1>7. CASE \/ Initiate(c) \/ Update(c) \/ Remove(c) \/ Review(c) \/ KeepPayee(c) \/ ChangePayees(c)
           \/ Resend(c) \/ FetchName(c) \/ Report(c) \/ Score1(c) \/ ChangeOwn(c) \/ SignIn(c)
  <2>1. UNCHANGED otp
    BY <1>7 DEF Initiate, Update, Remove, Review, KeepPayee, ChangePayees, Resend, FetchName, Report,
       Score1, ChangeOwn, SignIn, Refuse, bankVars, paymentVars
  <2> QED
    BY <1>1, <2>1
<1> QED
  BY <1>4, <1>5, <1>6, <1>7 DEF Handle

\* An answer names the challenge that was issued for it, or what it was asked.
Suits(O, kind, on, with, a) ==
  a.is = "done" => /\ kind = "confirm" => a.got.otp = 0 \/ For(O, a.got.otp, on)
                   /\ kind \in {"resend", "score"} => a.got = with

LEMMA ConfirmSuits ==
  ASSUME All, NEW c, NEW p \in Payments, calls[c].on = p, Confirm(c), NEW with
  PROVE  \E a : Reply(c, a) /\ Suits(otp', "confirm", p, with, a)
<1>1. CASE Reply(c, Refusal)
  BY <1>1 DEF Suits, Refusal
<1>2. ASSUME NEW outcome, Verdict(c, outcome)
      PROVE  \E a : Reply(c, a) /\ Suits(otp', "confirm", p, with, a)
  <2> DEFINE a == Done([outcome |-> outcome, otp |-> 0])
  <2>1. Reply(c, a) /\ a.got.otp = 0
    BY <1>2 DEF Verdict, Done
  <2> HIDE DEF a
  <2> QED
    BY <2>1 DEF Suits
<1>3. ASSUME NEW outcome, Challenge(c, p, outcome)
      PROVE  \E a : Reply(c, a) /\ Suits(otp', "confirm", p, with, a)
  <2> DEFINE a == Done([outcome |-> outcome, otp |-> Len(otp) + 1])
  <2>1. Reply(c, a) /\ a.got.otp = Len(otp) + 1
    BY <1>3 DEF Challenge, Done
  <2>2. For(otp', Len(otp) + 1, p)
    BY <1>3, AppendGrows DEF Challenge, All, Ownership
  <2> HIDE DEF a
  <2> QED
    BY <2>1, <2>2 DEF Suits
<1> QED
  BY <1>1, <1>2, <1>3 DEF Confirm, Refuse

LEMMA HandleSuits ==
  ASSUME All, NEW c \in Slots, Handle(c)
  PROVE  \E a : Reply(c, a) /\ Suits(otp', calls[c].kind, calls[c].on, calls[c].with, a)
<1>1. CASE calls[c].kind = "confirm"
  <2>1. Confirm(c) /\ calls[c].on \in Payments
    BY <1>1 DEF Handle, All, Truth, CallsHonest, Honest
  <2> QED
    BY <1>1, <2>1, ConfirmSuits
<1>2. CASE calls[c].kind \in {"resend", "score"}
  <2>1. PICK a : Reply(c, a) /\ (a \in {Refusal, Unauthorized} \/ a = Done(calls[c].with))
    BY <1>2 DEF Handle, Resend, Score1
  <2>2. Suits(otp', calls[c].kind, calls[c].on, calls[c].with, a)
    BY <1>2, <2>1 DEF Suits, Refusal, Unauthorized, Done
  <2> QED
    BY <2>1, <2>2
<1>3. CASE calls[c].kind \notin {"confirm", "resend", "score"}
  BY <1>3, HandleReplies DEF Suits
<1> QED
  BY <1>1, <1>2, <1>3

\* While challenges are added, what was owned is.
LEMMA ForGrows ==
  ASSUME Grown, NEW n, NEW p, For(otp, n, p)
  PROVE  For(otp', n, p)
  BY DEF Grown, For

LEMMA FittingGrows ==
  ASSUME Grown, NEW k, Fitting(otp, k)
  PROVE  Fitting(otp', k)
  BY ForGrows DEF Fitting

LEMMA PageGrows ==
  ASSUME Grown, NEW pg, PageOwns(otp, pg)
  PROVE  PageOwns(otp', pg)
  BY ForGrows DEF PageOwns, Owns

LEMMA AsksGrows ==
  ASSUME Grown, NEW pg, NEW k, Asks(otp, pg, k)
  PROVE  Asks(otp', pg, k)
  BY ForGrows DEF Asks

\* Asks and InTurn look at these fields of a request only.
LEMMA AsksAlike ==
  ASSUME NEW O, NEW pg, NEW k, NEW j, Asks(O, pg, k),
         j.kind = k.kind, j.on = k.on, j.with = k.with
  PROVE  Asks(O, pg, j)
  BY DEF Asks

LEMMA ServeOwns ==
  ASSUME All, NEW c \in Slots, Serve(c)
  PROVE  Ownership'
<1> DEFINE k == calls[c]
<1>0. UNCHANGED <<page, over>> /\ DOMAIN k = CallFields /\ DOMAIN calls = Slots
  BY DEF Serve, tabVars, All, Inv, CallShapes, Shapes
<1>1. Grown
  <2>1. CASE UNCHANGED bankVars
    BY <2>1, SameGrows DEF bankVars, paymentVars, All, Ownership
  <2> QED
    BY <2>1, HandleGrows DEF Serve, ServeCall
<1>2. PICK a : Reply(c, a) /\ Suits(otp', k.kind, k.on, k.with, a)
  <2>1. CASE Reply(c, Unauthorized)
    BY <2>1 DEF Suits, Unauthorized
  <2> QED
    BY <2>1, HandleSuits DEF Serve, ServeCall
<1>3. DOMAIN calls' = Slots /\ \A d \in Slots : d # c => calls'[d] = calls[d]
  BY <1>0, <1>2 DEF Reply
<1>4. /\ Fitting(otp', calls'[c])
      /\ \/ calls'[c].tab = NoTab
         \/ /\ calls'[c].tab = k.tab /\ calls'[c].live = k.live /\ calls'[c].kind = k.kind
            /\ calls'[c].on = k.on /\ calls'[c].with = k.with
  <2>1. CASE k.tab = NoTab
    <3>1. calls'[c] = NoCall
      BY <1>0, <1>2, <2>1 DEF Reply
    <3> QED
      BY <3>1, NoCallFitting, NoCallShape
  <2>2. CASE k.tab # NoTab
    <3>1. calls'[c] = [k EXCEPT !.ans = a]
      BY <1>0, <1>2, <2>2 DEF Reply
    <3>2. /\ calls'[c].tab = k.tab /\ calls'[c].live = k.live /\ calls'[c].kind = k.kind
          /\ calls'[c].on = k.on /\ calls'[c].with = k.with /\ calls'[c].ans = a
      BY <1>0, <3>1 DEF CallFields
    <3> QED
      BY <1>2, <3>2 DEF Fitting, Suits, Ok
  <2> QED
    BY <2>1, <2>2
<1> HIDE DEF k
<1>5. \A d \in Slots : Fitting(otp', calls'[d])
  BY <1>1, <1>3, <1>4, FittingGrows DEF All, Ownership
<1>6. ASSUME NEW t \in Tabs, ~over'[t] PROVE Dialog(t)'
  <2>1. Dialog(t)
    BY <1>0, <1>6 DEF All, Ownership
  <2>2. \A d \in Slots : Mine(t, d)' =>
          /\ Mine(t, d) /\ calls'[d].kind = calls[d].kind /\ calls'[d].on = calls[d].on
          /\ calls'[d].with = calls[d].with
    BY <1>3, <1>4, BrowserAssumption DEF Mine, k
  <2>3. InTurn(t)'
    BY <2>1, <2>2 DEF Dialog, InTurn
  <2>4. \A d \in Slots : Mine(t, d)' => Asks(otp', page[t], calls'[d])
    BY <1>1, <2>1, <2>2, AsksGrows, AsksAlike DEF Dialog
  <2>5. PageOwns(otp', page[t])
    BY <1>1, <2>1, PageGrows DEF Dialog
  <2> QED
    BY <1>0, <2>3, <2>4, <2>5 DEF Dialog
<1> QED
  BY <1>1, <1>5, <1>6 DEF Ownership, Grown

-----------------------------------------------------------------------------
(* The user, while he waits or after he has turned away.                   *)

LEMMA TurnOwns ==
  ASSUME All, NEW t \in Tabs, NEW pg, Turn(t, pg), Heeded,
         ~over'[t] => /\ PageOwns(otp, pg)
                      /\ \A c \in Slots : Mine(t, c) => Asks(otp, pg, calls[c])
  PROVE  Ownership'
<1>1. /\ DOMAIN page' = Tabs /\ page'[t] = pg /\ \A u \in Tabs : u # t => page'[u] = page[u]
      /\ UNCHANGED <<otp, calls>>
  BY DEF Turn, All, Inv, Shapes, bankVars, paymentVars
<1>2. ASSUME NEW u \in Tabs, ~over'[u] PROVE Dialog(u)'
  <2>1. Dialog(u)
    BY <1>2 DEF Heeded, All, Ownership
  <2> QED
    BY <1>1, <1>2, <2>1 DEF Dialog, InTurn, Mine
<1> QED
  BY <1>1, <1>2 DEF All, Ownership, OtpTyped

Asked(kind, on, with) == [kind |-> kind, on |-> on, with |-> with]

LEMMA AskOwns ==
  ASSUME All, NEW t \in Tabs, NEW pg, NEW kind, NEW on, NEW with, Ask(t, pg, kind, on, with), Heeded,
         ~over'[t] =>
           /\ PageOwns(otp, pg) /\ Asks(otp, pg, Asked(kind, on, with))
           /\ \A c \in Slots : Mine(t, c) =>
                /\ Asks(otp, pg, calls[c]) /\ calls[c].kind # "initiate" /\ kind # "initiate"
                /\ ~(Sole(kind) /\ Sole(calls[c].kind))
  PROVE  Ownership'
<1> DEFINE new == [tab |-> t, kind |-> kind, on |-> on, with |-> with,
                   as |-> token[t], live |-> TRUE, ans |-> Waiting]
<1>1. /\ DOMAIN page' = Tabs /\ page'[t] = pg /\ \A u \in Tabs : u # t => page'[u] = page[u]
      /\ UNCHANGED otp
  BY DEF Ask, All, Inv, Shapes, bankVars, paymentVars
<1>2. PICK x : calls' = [calls EXCEPT ![x] = new]
  BY DEF Ask
<1>3. Fitting(otp, new) /\ new.tab = t /\ new.kind = kind /\ new.on = on /\ new.with = with
  BY DEF Fitting, Ok, Waiting
<1> HIDE DEF new
<1>4. /\ DOMAIN calls' = Slots /\ \A c \in Slots : c # x => calls'[c] = calls[c]
      /\ x \in Slots => calls'[x] = new
  BY <1>2 DEF All, Inv, Shapes
<1>5. \A c \in Slots : Fitting(otp', calls'[c])
  BY <1>1, <1>3, <1>4 DEF All, Ownership
<1>6. ASSUME NEW u \in Tabs, ~over'[u] PROVE Dialog(u)'
  <2>1. Dialog(u)
    BY <1>6 DEF Heeded, All, Ownership
  <2>2. CASE u # t
    <3>1. \A c \in Slots : Mine(u, c)' => Mine(u, c) /\ calls'[c] = calls[c]
      BY <1>3, <1>4, <2>2 DEF Mine
    <3> QED
      BY <1>1, <2>1, <2>2, <3>1 DEF Dialog, InTurn
  <2>3. CASE u = t
    <3>1. \A c \in Slots : Mine(t, c)' =>
            (c = x /\ calls'[c] = new) \/ (c # x /\ Mine(t, c) /\ calls'[c] = calls[c])
      BY <1>4 DEF Mine
    <3>2. InTurn(t)'
      BY <1>3, <1>6, <2>1, <2>3, <3>1 DEF Dialog, InTurn
    <3>3. Asks(otp, pg, new)
      BY <1>3, <1>6, <2>3, AsksAlike DEF Asked
    <3>4. \A c \in Slots : Mine(t, c)' => Asks(otp, pg, calls'[c])
      BY <1>6, <2>3, <3>1, <3>3
    <3> QED
      BY <1>1, <1>6, <2>3, <3>2, <3>4 DEF Dialog
  <2> QED
    BY <2>2, <2>3
<1> QED
  BY <1>1, <1>5, <1>6 DEF All, Ownership, OtpTyped

\* A page without a dialog.
LEMMA TurnAside ==
  ASSUME All, NEW t \in Tabs, NEW pg, Turn(t, pg), Heeded, pg.at = page[t].at,
         page[t].at \notin {"initiate", "modify", "console"}
  PROVE  Ownership'
  BY TurnOwns DEF PageOwns, Asks

LEMMA AskAside ==
  ASSUME All, NEW t \in Tabs, NEW pg, NEW kind, NEW on, NEW with, Ask(t, pg, kind, on, with), Heeded,
         pg.at = page[t].at, page[t].at \notin {"initiate", "modify", "console"}, ~Sole(kind)
  PROVE  Ownership'
<1>1. \A c \in Slots : Mine(t, c) => ~Sole(calls[c].kind)
  BY DEF All, Inv, Homed, Mine, KindsOf, Sole
<1>2. PageOwns(otp, pg) /\ \A k : Asks(otp, pg, k)
  BY DEF PageOwns, Asks
<1> QED
  BY <1>1, <1>2, AskOwns DEF Sole

LEMMA Abandoned ==
  ASSUME All, NEW t \in Tabs, Abandon(t)
  PROVE  Heeded /\ (~over'[t] => \A c \in Slots : ~Mine(t, c))
  BY AbandonHeeds DEF All, InFlight, Mine

LEMMA WizardOwns ==
  ASSUME All, NEW t \in Tabs, Wizards(t)
  PROVE  Ownership'
<1> DEFINE pg == page[t]
<1>1. CASE pg.at # "initiate"
  BY <1>1 DEF Wizards, PickMode, LeaveMode, CancelForm, PressNext, BackToForm, PressConfirm,
     PressSubmit, PressResend, CloseModal, OnWizard
<1>2. CASE pg.at = "initiate"
  <2>1. DOMAIN pg = DOMAIN Wizard
    BY <1>2 DEF All, Truth, PagesSound, Sound
  <2>2. ~over[t] =>
          /\ DOMAIN pg.conf = DOMAIN NoConf
          /\ pg.open => Owns(otp, pg.conf, pg.draft)
          /\ pg.step = 2 => pg.final.of = pg.draft
          /\ \A c \in Slots : Mine(t, c) => Asks(otp, pg, calls[c])
    BY <1>2 DEF All, Ownership, Dialog, PageOwns
  <2>3. Heeded => (over[t] => over'[t])
    BY DEF Heeded
  <2>4. ASSUME NEW q, Turn(t, q), UNCHANGED over, DOMAIN q = DOMAIN Wizard, q.at = "initiate",
               q.draft = pg.draft, q.conf = pg.conf, q.final = pg.final, pg.busy => q.busy,
               q.open => pg.open, q.step \in {pg.step, 0}
        PROVE  Ownership'
    <3>1. Heeded
      BY <2>4, StayHeeds DEF All
    <3>2. ~over'[t] => PageOwns(otp, q) /\ \A c \in Slots : Mine(t, c) => Asks(otp, q, calls[c])
      BY <1>2, <2>2, <2>4 DEF PageOwns, Asks
    <3> HIDE DEF pg
    <3> QED
      BY <2>4, <3>1, <3>2, TurnOwns
  <2>5. CASE PickMode(t) \/ BackToForm(t) \/ CloseModal(t)
    BY <1>2, <2>1, <2>4, <2>5 DEF PickMode, BackToForm, CloseModal, Wizard
  <2>6. ASSUME NEW q, Turn(t, q), Abandon(t), q.at = "initiate", q.conf = NoConf, ~q.open, q.step = 0
        PROVE  Ownership'
    <3>1. PageOwns(otp, q)
      BY <2>6 DEF PageOwns
    <3> QED
      BY <2>6, <3>1, TurnOwns, Abandoned
  <2>17. ASSUME NEW q, DOMAIN q = DOMAIN Wizard, q.at = "initiate", ~q.open
        PROVE  /\ Emptied(q).at = "initiate" /\ Emptied(q).conf = NoConf
               /\ ~Emptied(q).open /\ Emptied(q).step = 0
    <3>1. Emptied(q).open = q.open
      BY <2>17 DEF Emptied, Wizard
    <3> QED
      BY <2>17, <3>1 DEF Emptied, Wizard
  <2>7. CASE LeaveMode(t)
    <3> DEFINE q == [pg EXCEPT !.mode = FALSE]
    <3>1. ~pg.open /\ Turn(t, Emptied(q)) /\ Abandon(t)
      BY <2>7 DEF LeaveMode, OnWizard
    <3>2. DOMAIN q = DOMAIN Wizard /\ q.at = "initiate" /\ q.open = pg.open
      BY <1>2, <2>1 DEF Wizard
    <3> HIDE DEF q
    <3> QED
      BY <2>6, <2>17, <3>1, <3>2
  <2>8. CASE CancelForm(t)
    BY <1>2, <2>1, <2>6, <2>17, <2>8 DEF CancelForm, OnWizard
  <2> DEFINE q == [pg EXCEPT !.busy = TRUE]
  <2>9. /\ q.at = "initiate" /\ q.draft = pg.draft /\ q.conf = pg.conf /\ q.final = pg.final
        /\ q.busy /\ q.open = pg.open /\ q.step = pg.step
    BY <1>2, <2>1 DEF Wizard
  <2> HIDE DEF q
  <2>10. ~over[t] => PageOwns(otp, q) /\ \A c \in Slots : Mine(t, c) => Asks(otp, q, calls[c])
    BY <1>2, <2>2, <2>9 DEF PageOwns, Asks
  <2>11. ~over[t] /\ ~pg.busy => \A c \in Slots : Mine(t, c) => ~Sole(calls[c].kind)
    BY <1>2, <2>2 DEF Asks
  <2>12. CASE PressNext(t)
    <3>1. PICK p, with : Ask(t, q, "initiate", p, with)
      BY <2>12 DEF PressNext, q
    <3>2. Asks(otp, q, Asked("initiate", p, with))
      BY <2>9, <2>12 DEF PressNext, OnWizard, Asks, Asked
    <3>3. Heeded /\ (~over'[t] => ~over[t] /\ \A c \in Slots : ~Mine(t, c))
      BY <2>3, <2>12, Abandoned DEF PressNext
    <3> QED
      BY <2>10, <3>1, <3>2, <3>3, AskOwns
  <2>13. ASSUME NEW kind \in {"confirm", "submit"}, NEW with, Ask(t, q, kind, pg.draft, with),
                ~pg.busy, kind = "confirm" => ~pg.open, UNCHANGED over
         PROVE  Ownership'
    <3>1. Asks(otp, q, Asked(kind, pg.draft, with))
      BY <2>9, <2>13 DEF Asks, Asked
    <3>2. Heeded /\ (~over'[t] => ~over[t])
      BY <2>13, StayHeeds DEF All
    <3> HIDE DEF pg
    <3> QED
      BY <2>10, <2>11, <2>13, <3>1, <3>2, AskOwns DEF Sole
  <2>14. CASE PressConfirm(t)
    BY <2>13, <2>14 DEF PressConfirm, OnWizard, q
  <2>15. CASE PressSubmit(t)
    BY <2>13, <2>15 DEF PressSubmit, q
  <2>16. CASE PressResend(t)
    <3>1. Ask(t, pg, "resend", Nothing, pg.conf.otp) /\ pg.open
      BY <2>16 DEF PressResend
    <3>2. Heeded /\ (~over'[t] => ~over[t])
      BY <2>16, StayHeeds DEF PressResend, All
    <3>3. ~over[t] => /\ PageOwns(otp, pg) /\ Asks(otp, pg, Asked("resend", Nothing, pg.conf.otp))
                      /\ \A c \in Slots : Mine(t, c) => calls[c].kind # "initiate"
      BY <1>2, <2>2, <3>1 DEF PageOwns, Owns, Asks, Asked, Sole
    <3> HIDE DEF pg
    <3> QED
      BY <2>2, <3>1, <3>2, <3>3, AskOwns DEF Sole
  <2> QED
    BY <2>5, <2>7, <2>8, <2>12, <2>14, <2>15, <2>16 DEF Wizards
<1> QED
  BY <1>1, <1>2

LEMMA ModifyOwns ==
  ASSUME All, NEW t \in Tabs, Modifies(t)
  PROVE  Ownership'
<1> DEFINE pg == page[t]
<1>1. CASE pg.at # "modify"
  BY <1>1 DEF Modifies, OpenSend, OpenEdit, OpenDelete, SubmitSend, CloseSend, SaveEdit, CloseEdit,
     PressDelete, CloseDelete, OnRows
<1>2. CASE pg.at = "modify"
  <2>1. DOMAIN pg = DOMAIN Dialogs
    BY <1>2 DEF All, Truth, PagesSound, Sound
  <2>2. ~over[t] =>
          /\ Owns(otp, pg.conf, pg.send) /\ (pg.done # NoShown => pg.done.of = pg.send)
          /\ \A c \in Slots : Mine(t, c) => Asks(otp, pg, calls[c])
    BY <1>2 DEF All, Ownership, Dialog, PageOwns
  <2>3. \A c \in Slots : Mine(t, c) =>
          /\ calls[c].kind \in {"confirm", "submit", "update", "remove"}
          /\ calls[c].kind \in {"confirm", "submit"} => calls[c].on \in Payments
    BY <1>2 DEF All, Inv, Homed, Mine, KindsOf, Truth, CallsHonest, Honest
  <2>4. UNCHANGED over => Heeded /\ (~over'[t] => ~over[t])
    BY StayHeeds DEF All
  <2>5. ASSUME NEW q, q.at = "modify", q.send = pg.send, q.conf = pg.conf, q.done = pg.done,
               pg.busy => q.busy, ~over[t]
        PROVE  PageOwns(otp, q) /\ \A c \in Slots : Mine(t, c) => Asks(otp, q, calls[c])
    BY <1>2, <2>2, <2>5 DEF PageOwns, Asks
  <2>6. ASSUME NEW q, Turn(t, q), UNCHANGED over, q.at = "modify", q.send = pg.send,
               q.conf = pg.conf, q.done = pg.done, pg.busy => q.busy
        PROVE  Ownership'
    <3> HIDE DEF pg
    <3> QED
      BY <2>4, <2>5, <2>6, TurnOwns
  <2>7. ASSUME NEW q, NEW kind \in {"update", "remove"}, NEW on, NEW with, Ask(t, q, kind, on, with),
               UNCHANGED over, q.at = "modify", q.send = pg.send,
               q.conf = pg.conf, q.done = pg.done, pg.busy => q.busy
        PROVE  Ownership'
    <3>1. Asks(otp, q, Asked(kind, on, with)) /\ ~Sole(kind) /\ kind # "initiate"
      BY <2>7 DEF Asks, Asked, Sole
    <3> HIDE DEF pg
    <3> QED
      BY <2>3, <2>4, <2>5, <2>7, <3>1, AskOwns
  <2>8. ASSUME NEW p, OpenEdit(t, p) \/ OpenDelete(t, p) PROVE Ownership'
    BY <1>2, <2>1, <2>6, <2>8 DEF OpenEdit, OpenDelete, Dialogs
  <2>9. CASE SaveEdit(t)
    BY <1>2, <2>1, <2>7, <2>9 DEF SaveEdit, Dialogs
  <2>10. CASE PressDelete(t)
    BY <1>2, <2>7, <2>10 DEF PressDelete
  <2>11. ASSUME NEW q, Turn(t, q), Abandon(t), q.at = "modify",
                \/ q.send = NoPay /\ q.conf = NoConf /\ q.done = NoShown
                \/ q.send = pg.send /\ q.conf = pg.conf /\ q.done = pg.done
         PROVE  Ownership'
    <3>1. ~over[t] => PageOwns(otp, q)
      BY <2>2, <2>11 DEF PageOwns, Owns, NoConf
    <3>2. Heeded /\ (~over'[t] => ~over[t] /\ \A c \in Slots : ~Mine(t, c))
      BY <2>11, Abandoned DEF Heeded
    <3> HIDE DEF pg
    <3> QED
      BY <2>11, <3>1, <3>2, TurnOwns
  <2>12. CASE CloseSend(t)
    BY <1>2, <2>1, <2>11, <2>12 DEF CloseSend, Dialogs
  <2>13. CASE CloseEdit(t) \/ CloseDelete(t)
    BY <1>2, <2>1, <2>11, <2>13 DEF CloseEdit, CloseDelete, Dialogs
  <2>14. ASSUME NEW p \in Payments, OpenSend(t, p) PROVE Ownership'
    <3> DEFINE q == [pg EXCEPT !.send = p, !.conf = NoConf, !.done = NoShown, !.busy = TRUE]
    <3>1. q.at = "modify" /\ q.send = p /\ q.conf = NoConf /\ q.done = NoShown /\ q.busy
      BY <1>2, <2>1 DEF Dialogs
    <3>2. Ask(t, q, "confirm", p, Nothing) /\ UNCHANGED over /\ pg.send = NoPay
      BY <1>2, <2>14 DEF OpenSend, OnRows, Covered
    <3> HIDE DEF q
    <3>3. PageOwns(otp, q) /\ Asks(otp, q, Asked("confirm", p, Nothing))
      BY <3>1 DEF PageOwns, Owns, NoConf, Asks, Asked
    <3>4. ~over[t] => \A c \in Slots : Mine(t, c) => calls[c].kind \in {"update", "remove"}
      BY <1>2, <2>2, <2>3, <3>2, BankAssumption DEF Asks
    <3>5. ~over[t] => \A c \in Slots : Mine(t, c) => Asks(otp, q, calls[c]) /\ ~Sole(calls[c].kind)
      BY <3>1, <3>4 DEF Asks, Sole
    <3> HIDE DEF pg
    <3> QED
      BY <2>4, <3>2, <3>3, <3>5, AskOwns DEF Sole
  <2>15. CASE SubmitSend(t)
    <3> DEFINE q == [pg EXCEPT !.busy = TRUE]
    <3>1. /\ q.at = "modify" /\ q.send = pg.send /\ q.conf = pg.conf /\ q.done = pg.done /\ q.busy
      BY <1>2, <2>1 DEF Dialogs
    <3>2. Ask(t, q, "submit", pg.send, Submission(pg)) /\ UNCHANGED over /\ ~pg.busy
      BY <2>15 DEF SubmitSend
    <3> HIDE DEF q
    <3>3. Asks(otp, q, Asked("submit", pg.send, Submission(pg)))
      BY <3>1 DEF Asks, Asked
    <3>4. ~over[t] => \A c \in Slots : Mine(t, c) => ~Sole(calls[c].kind)
      BY <1>2, <2>2, <3>2 DEF Asks
    <3>5. ~over[t] => PageOwns(otp, q) /\ \A c \in Slots : Mine(t, c) => Asks(otp, q, calls[c])
      BY <2>5, <3>1
    <3> HIDE DEF pg
    <3> QED
      BY <2>4, <3>2, <3>3, <3>4, <3>5, AskOwns DEF Sole
  <2> QED
    BY <2>8, <2>9, <2>10, <2>12, <2>13, <2>14, <2>15 DEF Modifies
<1> QED
  BY <1>1, <1>2

LEMMA PayeeOwns ==
  ASSUME All, NEW t \in Tabs, Payeeing(t)
  PROVE  Ownership'
<1>1. "at" \in DOMAIN page[t] /\ (UNCHANGED over => Heeded) /\ (Abandon(t) => Heeded)
  BY StayHeeds, AbandonHeeds DEF All, Inv, Shapes
<1>2. CASE StartAdd(t) \/ StartEdit(t) \/ CancelPayee(t)
  BY <1>1, <1>2, TurnAside DEF StartAdd, StartEdit, CancelPayee, Maintenance
<1>3. CASE PressFetch(t) \/ SubmitForm(t)
  BY <1>1, <1>3, AskAside DEF PressFetch, SubmitForm, OnForm, Sole
<1>4. CASE TypeInto(t) \/ FormNext(t) \/ FormBack(t)
  BY <1>1, <1>4, TurnAside DEF TypeInto, FormNext, FormBack, OnForm
<1>5. CASE Toggle(t) \/ OpenErase(t) \/ CloseErase(t)
  BY <1>1, <1>5, TurnAside DEF Toggle, OpenErase, CloseErase
<1>6. CASE PressErase(t)
  BY <1>1, <1>6, AskAside DEF PressErase, Sole
<1>7. ASSUME NEW kind \in {"activate", "refuse"}, PressActivate(t, kind) PROVE Ownership'
  BY <1>1, <1>7, AskAside DEF PressActivate, Sole
<1> QED
  BY <1>2, <1>3, <1>4, <1>5, <1>6, <1>7 DEF Payeeing

LEMMA IdentityOwns ==
  ASSUME All, NEW t \in Tabs, Identity(t)
  PROVE  Ownership'
<1>1. "at" \in DOMAIN page[t] /\ (UNCHANGED over => Heeded) /\ (Abandon(t) => Heeded)
  BY StayHeeds, AbandonHeeds DEF All, Inv, Shapes
<1>2. CASE RequestCode(t) \/ UseCode(t) \/ ResendCode(t)
  BY <1>1, <1>2, AskAside DEF RequestCode, UseCode, ResendCode, OnRecovery, Sole
<1>3. CASE ChangePassword(t) \/ Generate(t) \/ ResetWithOtp(t) \/ SaveContact(t)
  BY <1>1, <1>3, AskAside DEF ChangePassword, Generate, ResetWithOtp, SaveContact, Sole
<1>4. CASE EditContact(t) \/ CancelContact(t) \/ RequestSave(t) \/ CloseConfirm(t)
  BY <1>1, <1>4, TurnAside DEF EditContact, CancelContact, RequestSave, CloseConfirm
<1> QED
  BY <1>2, <1>3, <1>4 DEF Identity

LEMMA OtherOwns ==
  ASSUME All, NEW t \in Tabs, Others(t)
  PROVE  Ownership'
<1>1. "at" \in DOMAIN page[t] /\ (UNCHANGED over => Heeded) /\ (Abandon(t) => Heeded)
  BY StayHeeds, AbandonHeeds DEF All, Inv, Shapes
<1>2. ASSUME NEW p, NEW kind \in {"release", "reject"}, PressReview(t, p, kind) PROVE Ownership'
  BY <1>1, <1>2, AskAside DEF PressReview, Sole
<1>3. CASE RunAll(t)
  <2> DEFINE q == [page[t] EXCEPT !.busy = TRUE, !.results = {}]
  <2>1. page[t].at = "command" /\ q.at = page[t].at
    BY <1>1, <1>3 DEF RunAll
  <2>2. Ask(t, q, "watch", Nothing, 1)
    BY <1>3 DEF RunAll
  <2> HIDE DEF q
  <2> QED
    BY <1>1, <1>3, <2>1, <2>2, AskAside DEF RunAll, Sole
<1>4. CASE PressReport(t) \/ PressLogin(t)
  BY <1>1, <1>4, AskAside DEF PressReport, PressLogin, Sole
<1>5. CASE ApplyPreset(t)
  <2>1. PICK i : Turn(t, [page[t] EXCEPT !.preset = i, !.result = 0])
    BY <1>5 DEF ApplyPreset
  <2> DEFINE q == [page[t] EXCEPT !.preset = i, !.result = 0]
  <2>2. page[t].at = "console" /\ Abandon(t)
    BY <1>5 DEF ApplyPreset
  <2>3. Heeded /\ (~over'[t] => ~over[t] /\ \A c \in Slots : ~Mine(t, c))
    BY <2>2, Abandoned DEF Heeded
  <2>4. ~over[t] => DOMAIN page[t] = DOMAIN EventForm
    BY <2>2 DEF All, Ownership, Dialog, PageOwns
  <2>5. ~over[t] => DOMAIN q = DOMAIN EventForm /\ q.at = "console" /\ q.result = 0
    BY <2>2, <2>4 DEF EventForm
  <2> HIDE DEF q
  <2>6. ~over[t] => PageOwns(otp, q)
    BY <2>5 DEF PageOwns
  <2>7. Turn(t, q)
    BY <2>1 DEF q
  <2> QED
    BY <2>3, <2>6, <2>7, TurnOwns
<1>6. CASE PressScore(t)
  <2> DEFINE q == [page[t] EXCEPT !.busy = TRUE]
  <2>1. page[t].at = "console" /\ Ask(t, q, "score", Nothing, page[t].preset) /\ Heeded
    BY <1>1, <1>6 DEF PressScore
  <2>2. ~over'[t] => ~over[t]
    BY <1>6 DEF PressScore
  <2>3. ~over[t] => /\ DOMAIN page[t] = DOMAIN EventForm /\ page[t].result \in {0, page[t].preset}
                    /\ \A c \in Slots : Mine(t, c) => Asks(otp, page[t], calls[c])
    BY <2>1 DEF All, Ownership, Dialog, PageOwns
  <2>4. ~over[t] => /\ DOMAIN q = DOMAIN EventForm /\ q.at = "console" /\ q.result = page[t].result
                    /\ q.preset = page[t].preset
    BY <2>1, <2>3 DEF EventForm
  <2>5. \A c \in Slots : Mine(t, c) => calls[c].kind = "score"
    BY <2>1 DEF All, Inv, Homed, Mine, KindsOf
  <2> HIDE DEF q
  <2>6. ~over[t] => /\ PageOwns(otp, q) /\ Asks(otp, q, Asked("score", Nothing, page[t].preset))
                    /\ \A c \in Slots : Mine(t, c) => Asks(otp, q, calls[c])
    BY <2>1, <2>3, <2>4 DEF PageOwns, Asks, Asked
  <2> QED
    BY <2>1, <2>2, <2>5, <2>6, AskOwns DEF Sole
<1> QED
  BY <1>2, <1>3, <1>4, <1>5, <1>6 DEF Others

-----------------------------------------------------------------------------
(* Moving between pages: what a page has asked for is not the next one's.  *)

LEMMA MountOwns ==
  ASSUME All, NEW t \in Tabs, NEW at, page' = [page EXCEPT ![t] = Mounted(at)],
         UNCHANGED otp, Heeded, DOMAIN calls' = Slots,
         \A c \in Slots :
           \/ calls[c].tab # t /\ calls'[c] = calls[c]
           \/ Fitting(otp, calls'[c]) /\ (calls'[c].tab = NoTab \/ (calls'[c].tab = t /\ ~calls'[c].live))
  PROVE  Ownership'
<1>1. /\ DOMAIN page' = Tabs /\ page'[t] = Mounted(at)
      /\ \A u \in Tabs : u # t => page'[u] = page[u]
  BY DEF All, Inv, Shapes
<1>2. \A c \in Slots : Fitting(otp', calls'[c])
  BY DEF All, Ownership
<1>3. ASSUME NEW u \in Tabs, ~over'[u] PROVE Dialog(u)'
  <2>1. Dialog(u)
    BY <1>3 DEF Heeded, All, Ownership
  <2>2. CASE u # t
    <3>1. \A c \in Slots : Mine(u, c)' => Mine(u, c) /\ calls'[c] = calls[c]
      BY <2>2, BrowserAssumption DEF Mine
    <3> QED
      BY <1>1, <2>1, <2>2, <3>1 DEF Dialog, InTurn
  <2>3. CASE u = t
    <3>1. \A c \in Slots : ~Mine(t, c)'
      BY BrowserAssumption DEF Mine
    <3> QED
      BY <1>1, <2>3, <3>1, MountedOwns DEF Dialog, InTurn
  <2> QED
    BY <2>2, <2>3
<1> QED
  BY <1>2, <1>3 DEF All, Ownership, OtpTyped

LEMMA UnmountedFitting ==
  ASSUME NEW O, NEW t \in Tabs, NEW all,
         \A c \in Slots : DOMAIN all[c] = CallFields /\ Fitting(O, all[c])
  PROVE  /\ DOMAIN Unmounted(t, all) = Slots
         /\ \A c \in Slots :
              \/ all[c].tab # t /\ Unmounted(t, all)[c] = all[c]
              \/ /\ Fitting(O, Unmounted(t, all)[c])
                 /\ Unmounted(t, all)[c].tab = t /\ ~Unmounted(t, all)[c].live
<1>1. ASSUME NEW c \in Slots, all[c].tab = t
      PROVE  /\ Fitting(O, Unmounted(t, all)[c])
             /\ Unmounted(t, all)[c].tab = t /\ ~Unmounted(t, all)[c].live
  <2> DEFINE k == [all[c] EXCEPT !.live = FALSE]
  <2>1. Unmounted(t, all)[c] = k
    BY <1>1 DEF Unmounted
  <2>2. /\ k.kind = all[c].kind /\ k.on = all[c].on /\ k.with = all[c].with /\ k.ans = all[c].ans
        /\ k.tab = t /\ ~k.live
    BY <1>1 DEF CallFields
  <2> HIDE DEF k
  <2> QED
    BY <2>1, <2>2 DEF Fitting, Ok
<1> QED
  BY <1>1 DEF Unmounted

LEMMA GoneFitting ==
  ASSUME NEW O, NEW k, DOMAIN k = CallFields
  PROVE  Fitting(O, Gone(k)) /\ Gone(k).tab = NoTab
<1>1. CASE k.ans = Waiting
  <2> DEFINE g == [k EXCEPT !.tab = NoTab, !.live = FALSE]
  <2>1. Gone(k) = g
    BY <1>1 DEF Gone
  <2>2. g.ans.is = "waiting" /\ g.tab = NoTab
    BY <1>1 DEF CallFields, Waiting
  <2> HIDE DEF g
  <2> QED
    BY <2>1, <2>2 DEF Fitting, Ok
<1>2. CASE k.ans # Waiting
  BY <1>2, NoCallFitting DEF Gone, NoCall
<1> QED
  BY <1>1, <1>2

LEMMA PushOwns ==
  ASSUME All, NEW t \in Tabs, NEW at, Push(t, at)
  PROVE  Ownership'
<1>1. /\ page' = [page EXCEPT ![t] = Mounted(at)] /\ calls' = Unmounted(t, calls)
      /\ UNCHANGED otp /\ Heeded
  BY Abandoned DEF Push, bankVars, paymentVars
<1>2. \A c \in Slots : DOMAIN calls[c] = CallFields /\ Fitting(otp, calls[c])
  BY DEF All, Inv, CallShapes, Ownership
<1>3. /\ DOMAIN calls' = Slots
      /\ \A c \in Slots :
           \/ calls[c].tab # t /\ calls'[c] = calls[c]
           \/ Fitting(otp, calls'[c]) /\ calls'[c].tab = t /\ ~calls'[c].live
  BY <1>1, <1>2, UnmountedFitting
<1> QED
  BY <1>1, <1>3, MountOwns

LEMMA ReloadOwns ==
  ASSUME All, NEW t \in Tabs, NEW at, Reload(t, at)
  PROVE  Ownership'
<1>1. /\ page' = [page EXCEPT ![t] = Mounted(at)] /\ UNCHANGED otp /\ Heeded
      /\ DOMAIN calls' = Slots
      /\ \A c \in Slots : calls[c].tab # t => calls'[c] = calls[c]
      /\ \A c \in Slots : calls[c].tab = t => calls'[c] = Gone(calls[c])
  BY Abandoned DEF Reload, Discarded, bankVars, paymentVars
<1>2. ASSUME NEW c \in Slots
      PROVE  \/ calls[c].tab # t /\ calls'[c] = calls[c]
             \/ /\ Fitting(otp, calls'[c])
                /\ calls'[c].tab = NoTab \/ (calls'[c].tab = t /\ ~calls'[c].live)
  <2>1. CASE calls[c].tab # t
    BY <1>1, <2>1
  <2>2. CASE calls[c].tab = t
    <3>1. calls'[c] = Gone(calls[c])
      BY <1>1, <2>2
    <3>2. Fitting(otp, Gone(calls[c])) /\ Gone(calls[c]).tab = NoTab
      BY GoneFitting DEF All, Inv, CallShapes
    <3> QED
      BY <3>1, <3>2
  <2> QED
    BY <2>1, <2>2
<1>3. /\ page' = [page EXCEPT ![t] = Mounted(at)] /\ UNCHANGED otp /\ Heeded
      /\ DOMAIN calls' = Slots
  BY <1>1
<1> QED
  BY <1>2, <1>3, MountOwns

\* Nothing that Ownership looks at changes.
LEMMA OwnershipStays ==
  ASSUME All, UNCHANGED <<otp, calls, page, over>>
  PROVE  Ownership'
<1>1. \A t \in Tabs : Dialog(t) => Dialog(t)'
  BY DEF Dialog, InTurn, Mine
<1> QED
  BY <1>1 DEF All, Ownership, OtpTyped

LEMMA MoveOwns ==
  ASSUME All, NEW t \in Tabs, Moves(t)
  PROVE  Ownership'
<1>1. CASE UNCHANGED <<bankVars, calls, page, over>>
  BY <1>1, OwnershipStays DEF bankVars, paymentVars
<1> QED
  BY <1>1, PushOwns, ReloadOwns DEF Moves, Visit, OpenUrl, Logout, Expire, Refresh, Bounce

-----------------------------------------------------------------------------
(* Answers: what a page makes of one that is its own.                      *)

\* Of the page pg, the request k that is answered, and another one, j.
Apart(k, j) == k.kind # "initiate" /\ j.kind # "initiate" /\ ~(Sole(k.kind) /\ Sole(j.kind))

LEMMA WizardTakes ==
  ASSUME NEW O, NEW pg, NEW k, pg.at = "initiate", DOMAIN pg = DOMAIN Wizard,
         k.kind \in KindsOf("initiate"), PageOwns(O, pg), Asks(O, pg, k), Fitting(O, k)
  PROVE  /\ PageOwns(O, WizardAfter(pg, k))
         /\ \A j : Asks(O, pg, j) /\ Apart(k, j) => Asks(O, WizardAfter(pg, k), j)
<1> DEFINE q == WizardAfter(pg, k)
<1>1. /\ DOMAIN pg.conf = DOMAIN NoConf
      /\ pg.open => Owns(O, pg.conf, pg.draft)
      /\ pg.step = 2 => pg.final.of = pg.draft
  BY DEF PageOwns
<1>2. k.kind \in {"initiate", "confirm", "submit", "resend"}
  BY DEF KindsOf
<1>3. CASE k.kind = "resend" /\ Ok(k) /\ pg.conf # NoConf
  <2> DEFINE conf == [pg.conf EXCEPT !.otp = k.ans.got]
  <2>1. q = [pg EXCEPT !.conf = conf]
    BY <1>3 DEF WizardAfter
  <2>2. /\ q.at = "initiate" /\ q.conf = conf /\ q.draft = pg.draft /\ q.final = pg.final
        /\ q.step = pg.step /\ q.open = pg.open /\ q.busy = pg.busy
    BY <2>1 DEF Wizard
  <2>3. DOMAIN conf = DOMAIN NoConf /\ conf.of = pg.conf.of /\ conf.otp = k.with
    BY <1>1, <1>3 DEF NoConf, Fitting
  <2> HIDE DEF conf, q
  <2>4. k.with = 0 \/ For(O, k.with, pg.draft)
    BY <1>3 DEF Asks
  <2>5. pg.open => Owns(O, conf, pg.draft)
    BY <1>1, <1>3, <2>3, <2>4 DEF Owns
  <2>6. PageOwns(O, q)
    BY <1>1, <2>2, <2>3, <2>5 DEF PageOwns
  <2>7. \A j : Asks(O, pg, j) => Asks(O, q, j)
    BY <2>2 DEF Asks
  <2> QED
    BY <2>6, <2>7 DEF q
<1>4. CASE k.kind = "resend" /\ ~(Ok(k) /\ pg.conf # NoConf)
  <2>1. q = pg
    BY <1>4 DEF WizardAfter
  <2> QED
    BY <2>1
<1>5. CASE k.kind # "resend"
  <2> DEFINE free == [pg EXCEPT !.busy = FALSE]
  <2>1. /\ DOMAIN free = DOMAIN Wizard /\ free.at = "initiate" /\ free.conf = pg.conf
        /\ free.draft = pg.draft /\ free.final = pg.final /\ free.step = pg.step
        /\ free.open = pg.open
    BY DEF Wizard
  <2>2. \/ ~Ok(k) /\ q = free
        \/ Ok(k) /\ k.kind = "initiate" /\ q = [free EXCEPT !.draft = k.on, !.step = 1]
        \/ /\ Ok(k) /\ k.kind = "submit"
           /\ q = [free EXCEPT !.final = ShownAfter(k), !.open = FALSE, !.step = 2]
        \/ Ok(k) /\ k.kind = "confirm" /\ q = [free EXCEPT !.conf = ConfOf(k), !.open = TRUE]
        \/ /\ Ok(k) /\ k.kind = "confirm"
           /\ q = [free EXCEPT !.conf = ConfOf(k), !.final = ShownOf(k), !.step = 2]
    BY <1>2, <1>5 DEF WizardAfter
  <2>3. k.kind \in {"confirm", "submit"} => k.on = pg.draft
    BY DEF Asks
  <2>4. Ok(k) /\ k.kind = "confirm" => DOMAIN ConfOf(k) = DOMAIN NoConf /\ Owns(O, ConfOf(k), pg.draft)
    BY <2>3 DEF ConfOf, NoConf, Owns, Fitting
  <2> HIDE DEF free, q
  <2>5. q.at = "initiate"
    BY <2>1, <2>2 DEF Wizard
  <2>6. CASE ~Ok(k) /\ q = free
    <3>1. PageOwns(O, q)
      BY <1>1, <2>1, <2>6 DEF PageOwns
    <3>2. \A j : Asks(O, pg, j) /\ Apart(k, j) => Asks(O, q, j)
      BY <1>2, <1>5, <2>1, <2>6 DEF Asks, Apart, Sole
    <3> QED
      BY <3>1, <3>2 DEF q
  <2>7. CASE Ok(k) /\ k.kind = "initiate" /\ q = [free EXCEPT !.draft = k.on, !.step = 1]
    <3>1. q.conf = pg.conf /\ q.draft = k.on /\ q.step = 1 /\ q.open = pg.open
      BY <2>1, <2>7 DEF Wizard
    <3>2. ~q.open
      BY <2>7, <3>1 DEF Asks
    <3>3. PageOwns(O, q)
      BY <1>1, <2>5, <3>1, <3>2 DEF PageOwns
    <3> QED
      BY <2>7, <3>3 DEF q, Apart
  <2>8. CASE /\ Ok(k) /\ k.kind = "submit"
             /\ q = [free EXCEPT !.final = ShownAfter(k), !.open = FALSE, !.step = 2]
    <3>1. q.conf = pg.conf /\ q.draft = pg.draft /\ q.step = 2 /\ ~q.open /\ q.final.of = k.on
      BY <2>1, <2>8 DEF Wizard, ShownAfter
    <3>2. PageOwns(O, q)
      BY <1>1, <2>3, <2>5, <2>8, <3>1 DEF PageOwns
    <3>3. \A j : Asks(O, pg, j) /\ Apart(k, j) => Asks(O, q, j)
      BY <2>5, <2>8, <3>1 DEF Asks, Apart, Sole
    <3> QED
      BY <3>2, <3>3 DEF q
  <2>9. CASE Ok(k) /\ k.kind = "confirm" /\ q = [free EXCEPT !.conf = ConfOf(k), !.open = TRUE]
    <3>1. q.conf = ConfOf(k) /\ q.draft = pg.draft /\ q.step = pg.step /\ q.final = pg.final
      BY <2>1, <2>9 DEF Wizard
    <3>2. PageOwns(O, q)
      BY <1>1, <2>4, <2>5, <2>9, <3>1 DEF PageOwns
    <3>3. \A j : Asks(O, pg, j) /\ Apart(k, j) => Asks(O, q, j)
      BY <2>5, <2>9, <3>1 DEF Asks, Apart, Sole
    <3> QED
      BY <3>2, <3>3 DEF q
  <2>10. CASE /\ Ok(k) /\ k.kind = "confirm"
              /\ q = [free EXCEPT !.conf = ConfOf(k), !.final = ShownOf(k), !.step = 2]
    <3>1. q.conf = ConfOf(k) /\ q.draft = pg.draft /\ q.step = 2 /\ q.final.of = k.on
      BY <2>1, <2>10 DEF Wizard, ShownOf
    <3>2. PageOwns(O, q)
      BY <2>3, <2>4, <2>5, <2>10, <3>1 DEF PageOwns
    <3>3. \A j : Asks(O, pg, j) /\ Apart(k, j) => Asks(O, q, j)
      BY <2>5, <2>10, <3>1 DEF Asks, Apart, Sole
    <3> QED
      BY <3>2, <3>3 DEF q
  <2> QED
    BY <2>2, <2>6, <2>7, <2>8, <2>9, <2>10
<1> QED
  BY <1>3, <1>4, <1>5

LEMMA ModifyTakes ==
  ASSUME NEW O, NEW pg, NEW k, pg.at = "modify", DOMAIN pg = DOMAIN Dialogs,
         k.kind \in KindsOf("modify"), PageOwns(O, pg), Asks(O, pg, k), Fitting(O, k)
  PROVE  /\ PageOwns(O, ModifyAfter(pg, k))
         /\ \A j : Asks(O, pg, j) /\ Apart(k, j) => Asks(O, ModifyAfter(pg, k), j)
<1> DEFINE q == ModifyAfter(pg, k)
<1>1. Owns(O, pg.conf, pg.send) /\ (pg.done # NoShown => pg.done.of = pg.send)
  BY DEF PageOwns
<1>2. k.kind \in {"confirm", "submit", "update", "remove"}
  BY DEF KindsOf
<1>3. CASE k.kind = "remove"
  <2>1. q = pg \/ q = [pg EXCEPT !.del = NoPay]
    BY <1>3 DEF ModifyAfter
  <2>2. /\ q.at = "modify" /\ q.conf = pg.conf /\ q.send = pg.send /\ q.done = pg.done
        /\ q.busy = pg.busy
    BY <2>1 DEF Dialogs
  <2> HIDE DEF q
  <2> QED
    BY <1>1, <2>2 DEF q, PageOwns, Asks
<1>4. CASE k.kind = "update"
  <2>1. q = [pg EXCEPT !.saving = FALSE, !.edit = IF Ok(k) THEN NoPay ELSE @]
    BY <1>4 DEF ModifyAfter
  <2>2. /\ q.at = "modify" /\ q.conf = pg.conf /\ q.send = pg.send /\ q.done = pg.done
        /\ q.busy = pg.busy
    BY <2>1 DEF Dialogs
  <2> HIDE DEF q
  <2> QED
    BY <1>1, <2>2 DEF q, PageOwns, Asks
<1>5. CASE k.kind \in {"confirm", "submit"}
  <2>1. /\ k.on = pg.send
        /\ k.kind = "confirm" => pg.conf = NoConf /\ pg.done = NoShown
    BY <1>5 DEF Asks
  <2>2. SUFFICES q.at = "modify" /\ PageOwns(O, q)
    BY <1>5 DEF Asks, Apart, Sole
  <2>3. CASE k.kind = "submit"
    <3>1. q = [pg EXCEPT !.busy = FALSE, !.done = IF Ok(k) THEN ShownOf(k) ELSE @]
      BY <2>3 DEF ModifyAfter
    <3>2. /\ q.at = "modify" /\ q.conf = pg.conf /\ q.send = pg.send
          /\ q.done = IF Ok(k) THEN ShownOf(k) ELSE pg.done
      BY <3>1 DEF Dialogs
    <3> HIDE DEF q
    <3> QED
      BY <1>1, <2>1, <3>2 DEF PageOwns, ShownOf
  <2>4. CASE k.kind = "confirm" /\ ~Ok(k)
    <3>1. q = [pg EXCEPT !.busy = FALSE, !.send = NoPay]
      BY <2>4 DEF ModifyAfter
    <3>2. q.at = "modify" /\ q.conf = NoConf /\ q.done = NoShown
      BY <2>1, <2>4, <3>1 DEF Dialogs
    <3> HIDE DEF q
    <3> QED
      BY <3>2 DEF PageOwns, Owns, NoConf
  <2>5. CASE k.kind = "confirm" /\ Ok(k)
    <3>1. q = [pg EXCEPT !.busy = FALSE, !.conf = ConfOf(k),
                         !.done = IF Challenged(k.ans.got.outcome) THEN @ ELSE ShownOf(k)]
      BY <2>5 DEF ModifyAfter
    <3>2. /\ q.at = "modify" /\ q.conf = ConfOf(k) /\ q.send = pg.send
          /\ q.done = IF Challenged(k.ans.got.outcome) THEN pg.done ELSE ShownOf(k)
      BY <3>1 DEF Dialogs
    <3> HIDE DEF q
    <3>3. Owns(O, ConfOf(k), pg.send)
      BY <2>1, <2>5 DEF ConfOf, Owns, Fitting
    <3> QED
      BY <1>1, <2>1, <3>2, <3>3 DEF PageOwns, ShownOf
  <2> QED
    BY <1>5, <2>3, <2>4, <2>5
<1> QED
  BY <1>2, <1>3, <1>4, <1>5

LEMMA ConsoleTakes ==
  ASSUME NEW O, NEW pg, NEW k, pg.at = "console", k.kind \in KindsOf("console"),
         PageOwns(O, pg), Asks(O, pg, k), Fitting(O, k)
  PROVE  /\ PageOwns(O, ConsoleAfter(pg, k))
         /\ \A j : Asks(O, pg, j) => Asks(O, ConsoleAfter(pg, k), j)
<1> DEFINE q == ConsoleAfter(pg, k)
<1>1. DOMAIN pg = DOMAIN EventForm /\ k.kind = "score" /\ k.with = pg.preset
  BY DEF PageOwns, Asks, KindsOf
<1>2. /\ DOMAIN q = DOMAIN EventForm /\ q.at = "console" /\ q.preset = pg.preset
      /\ q.result = IF Ok(k) THEN k.ans.got ELSE 0
  BY <1>1 DEF ConsoleAfter, EventForm
<1>3. Ok(k) => k.ans.got = k.with
  BY <1>1 DEF Fitting
<1> HIDE DEF q
<1> QED
  BY <1>1, <1>2, <1>3 DEF q, PageOwns, Asks

LEMMA AfterTakes ==
  ASSUME All, NEW t \in Tabs, NEW k, Asks(otp, page[t], k), Fitting(otp, k), PageOwns(otp, page[t]),
         k.kind \in KindsOf(page[t].at)
  PROVE  /\ PageOwns(otp, After(page[t], k))
         /\ \A j : Asks(otp, page[t], j) /\ Apart(k, j) => Asks(otp, After(page[t], k), j)
<1> DEFINE pg == page[t]
<1>1. Sound(pay, suspended, pg)
  BY DEF All, Truth, PagesSound
<1>2. CASE pg.at = "initiate"
  <2>1. After(pg, k) = WizardAfter(pg, k) /\ DOMAIN pg = DOMAIN Wizard
    BY <1>1, <1>2 DEF After, Recovering, Sound
  <2> QED
    BY <1>2, <2>1, WizardTakes
<1>3. CASE pg.at = "modify"
  <2>1. After(pg, k) = ModifyAfter(pg, k) /\ DOMAIN pg = DOMAIN Dialogs
    BY <1>1, <1>3 DEF After, Recovering, Sound
  <2> QED
    BY <1>3, <2>1, ModifyTakes
<1>4. CASE pg.at = "console"
  <2>1. After(pg, k) = ConsoleAfter(pg, k)
    BY <1>4 DEF After, Recovering
  <2> QED
    BY <1>4, <2>1, ConsoleTakes
<1>5. CASE pg.at \notin {"initiate", "modify", "console"}
  <2>1. After(pg, k).at = pg.at
    BY AfterKeeps DEF All, Inv, Shapes
  <2> QED
    BY <1>5, <2>1 DEF PageOwns, Asks
<1> QED
  BY <1>2, <1>3, <1>4, <1>5

\* The answer k of request c, whose slot is then empty, or holds the next one
\* of the loop.
LEMMA ContinueOwns ==
  ASSUME All, NEW c \in Slots, NEW t \in Tabs, NEW k, NEW rest, Continue(t, c, k, rest), Heeded,
         calls[c].tab = t, DOMAIN k = CallFields, k.tab = t, k.kind = calls[c].kind,
         k.on = calls[c].on, k.with = calls[c].with, k.live = calls[c].live, Fitting(otp, k),
         DOMAIN rest = Slots, \A d \in Slots : d # c => rest[d] = calls[d],
         DOMAIN rest[c] = CallFields, Fitting(otp, rest[c]), rest[c].tab = NoTab
  PROVE  Ownership'
<1>0. UNCHANGED otp
  BY DEF Continue, bankVars, paymentVars
<1>1. \A d \in Slots : DOMAIN rest[d] = CallFields /\ Fitting(otp, rest[d])
  BY DEF All, Inv, CallShapes, Ownership
<1>2. CASE Ok(k) /\ k.kind \in {"login", "reset", "unlock"}
  <2>1. PICK at : page' = [page EXCEPT ![t] = Mounted(at)]
    BY <1>2 DEF Continue
  <2>2. calls' = Unmounted(t, rest)
    BY <1>2 DEF Continue
  <2>3. /\ DOMAIN calls' = Slots
        /\ \A d \in Slots :
             \/ rest[d].tab # t /\ calls'[d] = rest[d]
             \/ Fitting(otp, calls'[d]) /\ calls'[d].tab = t /\ ~calls'[d].live
    <3>1. /\ DOMAIN Unmounted(t, rest) = Slots
          /\ \A d \in Slots :
               \/ rest[d].tab # t /\ Unmounted(t, rest)[d] = rest[d]
               \/ /\ Fitting(otp, Unmounted(t, rest)[d])
                  /\ Unmounted(t, rest)[d].tab = t /\ ~Unmounted(t, rest)[d].live
      BY <1>1, UnmountedFitting
    <3> QED
      BY <2>2, <3>1
  <2>4. \A d \in Slots :
          \/ calls[d].tab # t /\ calls'[d] = calls[d]
          \/ Fitting(otp, calls'[d]) /\ (calls'[d].tab = NoTab \/ (calls'[d].tab = t /\ ~calls'[d].live))
    <3>1. ASSUME NEW d \in Slots
          PROVE  \/ calls[d].tab # t /\ calls'[d] = calls[d]
                 \/ Fitting(otp, calls'[d]) /\ (calls'[d].tab = NoTab \/ (calls'[d].tab = t /\ ~calls'[d].live))
      <4>1. \/ rest[d].tab # t /\ calls'[d] = rest[d]
            \/ Fitting(otp, calls'[d]) /\ calls'[d].tab = t /\ ~calls'[d].live
        BY <2>3
      <4>2. CASE d = c
        <5>1. Fitting(otp, rest[d]) /\ rest[d].tab = NoTab
          BY <4>2
        <5> QED
          BY <4>1, <5>1
      <4>3. CASE d # c
        <5>1. rest[d] = calls[d]
          BY <4>3
        <5> QED
          BY <4>1, <5>1
      <4> QED
        BY <4>2, <4>3
    <3> QED
      BY <3>1
  <2> QED
    BY <1>0, <2>1, <2>3, <2>4, MountOwns
<1>3. CASE ~(Ok(k) /\ k.kind \in {"login", "reset", "unlock"})
  <2> DEFINE again == [k EXCEPT !.with = @ + 1, !.as = token[t], !.ans = Waiting]
  <2>1. page' = [page EXCEPT ![t] = IF k.live THEN After(page[t], k) ELSE page[t]]
    BY <1>3 DEF Continue
  <2>2. calls' = rest \/ (k.kind = "watch" /\ calls' = [rest EXCEPT ![c] = again])
    BY <1>3 DEF Continue
  <2>3. again.tab = t /\ again.kind = k.kind /\ again.live = k.live /\ again.ans.is # "done"
    BY DEF CallFields, Waiting
  <2> HIDE DEF again
  <2>4. /\ DOMAIN calls' = Slots /\ \A d \in Slots : d # c => calls'[d] = calls[d]
        /\ Fitting(otp, calls'[c])
        /\ \/ calls'[c].tab = NoTab
           \/ /\ calls'[c].tab = t /\ calls'[c].kind = "watch" /\ k.kind = "watch"
              /\ calls'[c].live = calls[c].live
    BY <2>2, <2>3 DEF Fitting, Ok
  <2>5. /\ DOMAIN page' = Tabs /\ \A u \in Tabs : u # t => page'[u] = page[u]
        /\ page'[t] = IF k.live THEN After(page[t], k) ELSE page[t]
    BY <2>1 DEF All, Inv, Shapes
  <2>6. ASSUME NEW u \in Tabs, ~over'[u] PROVE Dialog(u)'
    <3>1. Dialog(u)
      BY <2>6 DEF Heeded, All, Ownership
    <3>2. CASE u # t
      <4>1. \A d \in Slots : Mine(u, d)' => Mine(u, d) /\ calls'[d] = calls[d]
        BY <2>4, <3>2, BrowserAssumption DEF Mine
      <4> QED
        BY <1>0, <2>5, <3>1, <3>2, <4>1 DEF Dialog, InTurn
    <3>3. CASE u = t
      <4>1. \A d \in Slots : Mine(t, d)' =>
              \/ d # c /\ Mine(t, d) /\ calls'[d] = calls[d]
              \/ d = c /\ calls'[d].kind = "watch" /\ k.kind = "watch" /\ Mine(t, c)
        BY <2>4, BrowserAssumption DEF Mine
      <4>2. InTurn(t)'
        BY <3>1, <3>3, <4>1 DEF Dialog, InTurn, Sole
      <4>3. CASE ~k.live
        <5>1. \A d \in Slots : Mine(t, d)' => Mine(t, d) /\ calls'[d] = calls[d]
          BY <4>1, <4>3 DEF Mine
        <5> QED
          BY <1>0, <2>5, <3>1, <3>3, <4>2, <4>3, <5>1 DEF Dialog
      <4>4. CASE k.live
        <5>1. Mine(t, c) /\ k.kind \in KindsOf(page[t].at)
          BY <4>4 DEF Mine, All, Inv, Homed
        <5>2. Asks(otp, page[t], k) /\ PageOwns(otp, page[t])
          BY <3>1, <3>3, <5>1, AsksAlike DEF Dialog
        <5>3. /\ PageOwns(otp, After(page[t], k))
              /\ \A j : Asks(otp, page[t], j) /\ Apart(k, j) => Asks(otp, After(page[t], k), j)
          BY <5>1, <5>2, AfterTakes
        <5>4. \A d \in Slots : d # c /\ Mine(t, d) =>
                Asks(otp, page[t], calls[d]) /\ Apart(k, calls[d])
          BY <3>1, <3>3, <5>1 DEF Dialog, InTurn, Apart
        <5>5. ASSUME k.kind = "watch", NEW j, j.kind = "watch"
              PROVE  Asks(otp, After(page[t], k), j)
          <6>1. After(page[t], k).at = page[t].at
            BY AfterKeeps DEF All, Inv, Shapes
          <6>2. page[t].at \notin {"initiate", "modify", "console"}
            BY <5>1, <5>5 DEF KindsOf
          <6> QED
            BY <6>1, <6>2 DEF Asks
        <5>6. \A d \in Slots : Mine(t, d)' => Asks(otp, After(page[t], k), calls'[d])
          BY <4>1, <5>3, <5>4, <5>5
        <5> QED
          BY <1>0, <2>5, <3>3, <4>2, <4>4, <5>3, <5>6 DEF Dialog
      <4> QED
        BY <4>3, <4>4
    <3> QED
      BY <3>2, <3>3
  <2>7. \A d \in Slots : Fitting(otp', calls'[d])
    BY <1>0, <2>4 DEF All, Ownership
  <2> QED
    BY <1>0, <2>6, <2>7 DEF All, Ownership, OtpTyped
<1> QED
  BY <1>2, <1>3

LEMMA AnswerOwns ==
  ASSUME All, NEW c \in Slots, Answer(c)
  PROVE  Ownership'
<1> DEFINE k == calls[c]
           t == calls[c].tab
           rest == [calls EXCEPT ![c] = NoCall]
<1>1. t \in Tabs /\ DOMAIN k = CallFields /\ Fitting(otp, k)
  BY DEF Answer, All, Inv, CallShapes, Ownership
<1>2. CASE Bounce(t)
  BY <1>1, <1>2, ReloadOwns DEF Bounce
<1>3. CASE Continue(t, c, k, rest) /\ UNCHANGED over
  <2>1. /\ DOMAIN rest = Slots /\ \A d \in Slots : d # c => rest[d] = calls[d]
        /\ rest[c] = NoCall
    BY DEF All, Inv, Shapes
  <2>2. Fitting(otp, rest[c]) /\ DOMAIN rest[c] = CallFields /\ rest[c].tab = NoTab
    BY <2>1, NoCallFitting, NoCallShape
  <2>3. /\ k.tab = t /\ k.kind = calls[c].kind /\ k.on = calls[c].on /\ k.with = calls[c].with
        /\ k.live = calls[c].live /\ calls[c].tab = t
    OBVIOUS
  <2>4. Heeded
    BY <1>3, StayHeeds DEF All
  <2> HIDE DEF k, t, rest
  <2> QED
    BY <1>1, <1>3, <2>1, <2>2, <2>3, <2>4, ContinueOwns
<1> QED
  BY <1>2, <1>3 DEF Answer

LEMMA BreakOwns ==
  ASSUME All, NEW c \in Slots, Break(c)
  PROVE  Ownership'
<1> DEFINE t == calls[c].tab
           k == [calls[c] EXCEPT !.ans = Refusal]
           rest == [calls EXCEPT ![c] = Gone(calls[c])]
<1>1. t \in Tabs /\ DOMAIN calls[c] = CallFields /\ DOMAIN calls = Slots
  BY DEF Break, All, Inv, CallShapes, Shapes
<1>2. /\ DOMAIN k = CallFields /\ k.tab = t /\ k.kind = calls[c].kind /\ k.on = calls[c].on
      /\ k.with = calls[c].with /\ k.live = calls[c].live /\ k.ans = Refusal
  BY <1>1 DEF CallFields
<1>3. DOMAIN rest = Slots /\ (\A d \in Slots : d # c => rest[d] = calls[d]) /\ rest[c] = Gone(calls[c])
  BY <1>1
<1>4. Continue(t, c, k, rest) /\ Heeded /\ calls[c].tab = t
  BY <1>1, Abandoned DEF Break
<1> HIDE DEF t, k, rest
<1>5. Fitting(otp, k)
  BY <1>2 DEF Fitting, Ok, Refusal
<1>6. Fitting(otp, rest[c]) /\ rest[c].tab = NoTab /\ DOMAIN rest[c] = CallFields
  BY <1>1, <1>3, GoneFitting, GoneShape
<1> QED
  BY <1>1, <1>2, <1>3, <1>4, <1>5, <1>6, ContinueOwns

LEMMA VanishOwns ==
  ASSUME All, NEW c \in Slots, Vanish(c)
  PROVE  Ownership'
<1>1. /\ DOMAIN calls' = Slots /\ \A d \in Slots : d # c => calls'[d] = calls[d]
      /\ calls'[c] = NoCall /\ UNCHANGED <<page, over, otp>>
  BY DEF Vanish, tabVars, bankVars, paymentVars, All, Inv, Shapes
<1>2. ASSUME NEW t \in Tabs, ~over'[t] PROVE Dialog(t)'
  <2>1. Dialog(t)
    BY <1>1, <1>2 DEF All, Ownership
  <2>2. \A d \in Slots : Mine(t, d)' => Mine(t, d) /\ calls'[d] = calls[d]
    BY <1>1, NoCallShape, BrowserAssumption DEF Mine
  <2> QED
    BY <1>1, <2>1, <2>2 DEF Dialog, InTurn
<1>3. \A d \in Slots : Fitting(otp', calls'[d])
  BY <1>1, NoCallFitting DEF All, Ownership
<1> QED
  BY <1>1, <1>2, <1>3 DEF All, Ownership, OtpTyped

LEMMA OwnershipNext == All /\ [Next]_vars => Ownership'
<1> SUFFICES ASSUME All, [Next]_vars PROVE Ownership'
  OBVIOUS
<1>1. ASSUME NEW b \in Payees, Age(b) PROVE Ownership'
  BY <1>1, OwnershipStays DEF Age, paymentVars, tabVars
<1>2. CASE UNCHANGED vars
  BY <1>2, OwnershipStays DEF vars, bankVars, paymentVars, tabVars
<1>3. ASSUME NEW t \in Tabs,
             Wizards(t) \/ Modifies(t) \/ Payeeing(t) \/ Identity(t) \/ Others(t) \/ Moves(t)
      PROVE  Ownership'
  BY <1>3, WizardOwns, ModifyOwns, PayeeOwns, IdentityOwns, OtherOwns, MoveOwns
<1>4. ASSUME NEW c \in Slots, Serve(c) \/ Answer(c) \/ Break(c) \/ Vanish(c) PROVE Ownership'
  BY <1>4, ServeOwns, AnswerOwns, BreakOwns, VanishOwns
<1> QED
  BY <1>1, <1>2, <1>3, <1>4 DEF Next

\* What a dialog shows is about its own payment or preset, and no payment is
\* submitted twice at the same time, as long as its user waits for each answer:
\* whatever the users of other browsers do.
THEOREM DialogsOwnTheirAnswers == Spec => []DialogOwnsAnswers
<1>1. Spec => [](RowsVetted /\ Truth)
  BY RowsInit, RowsNext, TruthInit, TruthNext, PTL DEF Spec
<1>2. Init => All
  BY InvInit, TruthInit, OwnershipInit DEF All
<1>3. All /\ RowsVetted /\ [Next]_vars => All'
  BY InvNext, TruthNext, OwnershipNext DEF All
<1>4. Spec => []All
  BY <1>1, <1>2, <1>3, PTL DEF Spec
<1> QED
  BY <1>4, OwnershipShows, PTL

-----------------------------------------------------------------------------
(* Every variable holds values of its kind.                                *)

Anyone == Users \union {NoUser}
AnyName == Names \union {NoName}

\* A payee has a number and a name that somebody has filled in.
Filled == \A b \in Payees : payee[b].status # "ABSENT" =>
            payee[b].number \in Numbers /\ payee[b].name \in Names

RowsTyped == PayeesTyped /\ Filled /\ pay \in [Payments -> PaymentRows] /\ suspended \in BOOLEAN

\* What a request carries, and what it is answered with.
CallTyped(k) ==
  /\ k.as \in Anyone
  /\ k.kind = "initiate" => k.with.amount \in Amounts
  /\ k.kind = "update" => k.with \in Amounts
  /\ k.kind \in {"create", "edit"} =>
       k.with.number \in Numbers /\ k.with.name \in Names /\ k.with.fetched \in AnyName
  /\ k.kind = "fetch" => k.with \in Numbers /\ (Ok(k) => k.ans.got \in Names)
  /\ k.kind = "login" => k.with \in Users /\ (Ok(k) => k.ans.got \in Users)
  /\ k.kind = "profile" /\ Ok(k) => k.ans.got \in Anyone

FormTyped(pg) ==
  pg.at = "maintenance" =>
    /\ DOMAIN pg = DOMAIN Maintenance /\ pg.fetched \in AnyName
    /\ pg.view = "form" => pg.number \in Numbers /\ pg.name \in Names

ListTyped(list) ==
  DOMAIN list = Lists /\ \A row \in list.maintenance :
    row.was.number \in Numbers /\ row.was.name \in Names /\ row.was.fetched \in AnyName

Reachable(t) == scene.reach[t] \union {"login", "dashboard"}

TabsTyped ==
  /\ over \in [Tabs -> BOOLEAN] /\ {token, store, contact} \subseteq [Tabs -> Anyone]
  /\ \A t \in Tabs : FormTyped(page[t]) /\ page[t].at \in Reachable(t)
  /\ DOMAIN cache = Tabs /\ \A t \in Tabs : ListTyped(cache[t])

CallsTyped == \A c \in Slots : CallTyped(calls[c])

Typed == scene \in Scenes /\ RowsTyped /\ TabsTyped /\ CallsTyped

\* Nothing is left of a scene but what it says of the pages.
LEMMA SceneTyped ==
  ASSUME scene \in Scenes
  PROVE  scene.amounts \subseteq Amounts /\ scene.numbers \subseteq Numbers /\ scene.names \subseteq Names
  BY SceneAssumption

LEMMA MountedTyped ==
  ASSUME NEW at
  PROVE  FormTyped(Mounted(at))
<1>1. CASE at = "maintenance"
  BY <1>1, MountedAt DEF Mounted, Maintenance, FormTyped, AnyName
<1>2. CASE at # "maintenance"
  BY <1>2, MountedAt DEF FormTyped
<1> QED
  BY <1>1, <1>2

LEMMA NoCallTyped == CallTyped(NoCall)
  BY DEF NoCall, CallTyped, Anyone

LEMMA UnloadedTyped == ListTyped(Unloaded)
  BY DEF Unloaded, ListTyped, Lists

LEMMA TypedInit == Init => Typed
<1> SUFFICES ASSUME Init PROVE Typed
  OBVIOUS
<1>1. /\ scene \in Scenes /\ scene.start.payee \in [Payees -> PayeeRows]
      /\ scene.start.pay \in [Payments -> PaymentRows]
      /\ \A b \in Payees : scene.start.payee[b].status # "ABSENT" =>
           scene.start.payee[b].number \in Numbers /\ scene.start.payee[b].name \in Names
      /\ scene.who \in [Tabs -> Users \union {NoUser}]
  BY SceneAssumption, BrowserAssumption DEF Init
<1>2. Filled
  BY <1>1 DEF Init, Filled
<1>3. vetted \in [Payees -> SUBSET Numbers]
  BY <1>1 DEF Init, PayeeRows
<1>4. RowsTyped
  BY <1>1, <1>2, <1>3 DEF Init, RowsTyped, PayeesTyped
<1>5. CallsTyped
  BY NoCallTyped DEF Init, CallsTyped
<1>6. \A t \in Tabs : FormTyped(page[t]) /\ page[t].at \in Reachable(t)
  BY MountedTyped, MountedAt DEF Init, Reachable
<1>7. TabsTyped
  BY <1>1, <1>6, UnloadedTyped DEF Init, TabsTyped, Anyone
<1> QED
  BY <1>1, <1>4, <1>5, <1>7 DEF Typed

-----------------------------------------------------------------------------
(* The rows.                                                               *)

LEMMA CreateTyped ==
  ASSUME PayeesTyped, Filled, NEW b \in Payees, NEW number \in Numbers, NEW name \in Names,
         NEW fetched \in AnyName, CreatePayee(b, number, name, fetched)
  PROVE  PayeesTyped' /\ Filled'
<1> DEFINE row == [status |-> "PENDING", number |-> number, name |-> name,
                   fetched |-> IF fetched = NoName THEN HolderOf[number] ELSE fetched,
                   age |-> "never"]
<1>1. row \in PayeeRows /\ row.number \in Numbers /\ row.name \in Names
  BY HolderAssumption DEF AnyName, PayeeRows, PayeeStatuses, PayeeAges
<1>2. payee' = [payee EXCEPT ![b] = row] /\ vetted' = vetted
  BY DEF CreatePayee
<1> HIDE DEF row
<1> QED
  BY <1>1, <1>2 DEF PayeesTyped, Filled

LEMMA UpdateTyped ==
  ASSUME PayeesTyped, Filled, NEW b \in Payees, NEW number \in Numbers, NEW name \in Names,
         UpdatePayee(b, number, name)
  PROVE  PayeesTyped' /\ Filled'
<1> DEFINE row == [payee[b] EXCEPT !.status = "PENDING", !.number = number, !.name = name]
<1>1. payee[b] \in PayeeRows
  BY DEF PayeesTyped
<1>2. row \in PayeeRows /\ row.number \in Numbers /\ row.name \in Names
  BY <1>1 DEF PayeeRows, PayeeStatuses
<1>3. payee' = [payee EXCEPT ![b] = row] /\ vetted' = vetted
  BY DEF UpdatePayee, PayeesTyped
<1> HIDE DEF row
<1> QED
  BY <1>2, <1>3 DEF PayeesTyped, Filled

\* What leaves the number and the name of every row, and opens none.
LEMMA RestTyped ==
  ASSUME PayeesTyped, Filled, DOMAIN payee' = Payees, payee' = [b \in Payees |-> payee'[b]],
         vetted' \in [Payees -> SUBSET Numbers],
         \A b \in Payees : \/ payee'[b] = payee[b]
                           \/ /\ payee[b].status # "ABSENT" /\ payee'[b] \in PayeeRows
                              /\ payee'[b].number = payee[b].number /\ payee'[b].name = payee[b].name
  PROVE  PayeesTyped' /\ Filled'
<1>1. \A b \in Payees : payee'[b] \in PayeeRows
  BY DEF PayeesTyped
<1>2. PayeesTyped'
  BY <1>1 DEF PayeesTyped
<1>3. Filled'
  BY DEF Filled
<1> QED
  BY <1>2, <1>3

LEMMA ActivateTyped ==
  ASSUME PayeesTyped, Filled, NEW B, ActivatePayees(B)
  PROVE  PayeesTyped' /\ Filled'
<1> DEFINE hit == B \intersect PendingPayees
<1>1. /\ payee' = [d \in Payees |->
            IF d \in hit THEN [payee[d] EXCEPT !.status = "ACTIVE", !.age = "new"] ELSE payee[d]]
      /\ vetted' = [d \in Payees |->
            IF d \in hit THEN vetted[d] \union {payee[d].number} ELSE vetted[d]]
  BY DEF ActivatePayees
<1>2. \A d \in hit : d \in Payees /\ payee[d].status = "PENDING"
  BY DEF PendingPayees
<1> HIDE DEF hit
<1>3. \A d \in Payees : payee[d] \in PayeeRows /\ vetted[d] \subseteq Numbers
  BY DEF PayeesTyped
<1>4. \A d \in Payees : vetted'[d] \subseteq Numbers
  BY <1>1, <1>2, <1>3 DEF Filled
<1>5. vetted' \in [Payees -> SUBSET Numbers]
  BY <1>1, <1>4
<1>6. ASSUME NEW d \in Payees
      PROVE  \/ payee'[d] = payee[d]
             \/ /\ payee[d].status # "ABSENT" /\ payee'[d] \in PayeeRows
                /\ payee'[d].number = payee[d].number /\ payee'[d].name = payee[d].name
  <2>1. "ACTIVE" \in PayeeStatuses /\ "new" \in PayeeAges
    BY DEF PayeeStatuses, PayeeAges
  <2>2. CASE d \in hit
    <3>1. payee'[d] = [payee[d] EXCEPT !.status = "ACTIVE", !.age = "new"]
      BY <1>1, <2>2
    <3>2. payee[d] \in PayeeRows /\ payee[d].status # "ABSENT"
      BY <1>2, <1>3, <2>2
    <3> QED
      BY <2>1, <3>1, <3>2 DEF PayeeRows
  <2>3. CASE d \notin hit
    BY <1>1, <2>3
  <2> QED
    BY <2>2, <2>3
<1>7. DOMAIN payee' = Payees /\ payee' = [b \in Payees |-> payee'[b]]
  BY <1>1
<1> QED
  BY <1>5, <1>6, <1>7, RestTyped

LEMMA RejectTyped ==
  ASSUME PayeesTyped, Filled, NEW B, RejectPayees(B) \/ RemovePayees(B)
  PROVE  PayeesTyped' /\ Filled'
<1>1. /\ DOMAIN payee' = Payees /\ payee' = [b \in Payees |-> payee'[b]] /\ vetted' = vetted
      /\ \A d \in Payees : \/ payee'[d] = payee[d]
                           \/ /\ payee[d].status # "ABSENT"
                              /\ \/ payee'[d] = [payee[d] EXCEPT !.status = "REJECTED"]
                                 \/ payee'[d] = [payee[d] EXCEPT !.status = "DELETED"]
  BY DEF RejectPayees, RemovePayees, PendingPayees, ListedPayees
<1>2. \A d \in Payees : payee[d] \in PayeeRows
  BY DEF PayeesTyped
<1>3. {"REJECTED", "DELETED"} \subseteq PayeeStatuses /\ "new" \in PayeeAges
  BY DEF PayeeStatuses, PayeeAges
<1>4. ASSUME NEW d \in Payees, payee'[d] # payee[d]
      PROVE  /\ payee[d].status # "ABSENT" /\ payee'[d] \in PayeeRows
             /\ payee'[d].number = payee[d].number /\ payee'[d].name = payee[d].name
  <2>1. payee[d].status # "ABSENT"
    BY <1>1, <1>4
  <2>2. PICK s \in PayeeStatuses : payee'[d] = [payee[d] EXCEPT !.status = s]
    BY <1>1, <1>3, <1>4
  <2> QED
    BY <1>2, <2>1, <2>2 DEF PayeeRows
<1> QED
  BY <1>1, <1>4, RestTyped DEF PayeesTyped

LEMMA RipenTyped ==
  ASSUME PayeesTyped, Filled, NEW b \in Payees, Ripen(b)
  PROVE  PayeesTyped' /\ Filled'
<1>1. payee' = [payee EXCEPT ![b] = [payee[b] EXCEPT !.age = "aged"]] /\ vetted' = vetted
  BY DEF Ripen
<1>2. payee[b] \in PayeeRows /\ "aged" \in PayeeAges /\ "ACTIVE" \in PayeeStatuses
  BY DEF PayeesTyped, PayeeAges, PayeeStatuses
<1> DEFINE row == [payee[b] EXCEPT !.age = "aged"]
<1>3. row \in PayeeRows /\ row.number = payee[b].number /\ row.name = payee[b].name
      /\ row.status = payee[b].status
  BY <1>2 DEF PayeeRows
<1>4. payee' = [payee EXCEPT ![b] = row]
  BY <1>1
<1> HIDE DEF row
<1> QED
  BY <1>1, <1>3, <1>4 DEF PayeesTyped, Filled

\* The operations on payees, one by one.
LEMMA PayeeNextTyped ==
  ASSUME PayeesTyped, Filled, PayeeNext \/ UNCHANGED payeeVars
  PROVE  PayeesTyped' /\ Filled'
<1>1. CASE UNCHANGED payeeVars
  BY <1>1 DEF payeeVars, PayeesTyped, Filled
<1> QED
  BY <1>1, CreateTyped, UpdateTyped, ActivateTyped, RejectTyped, RipenTyped DEF PayeeNext, AnyName

\* What confirm, submit, an edit, a removal and a review write.
LEMMA FieldsTyped ==
  ASSUME NEW row \in PaymentRows, NEW s \in Statuses, NEW x \in BOOLEAN, NEW a \in Amounts,
         NEW number \in Numbers \union {NoNumber}
  PROVE  /\ [row EXCEPT !.status = s, !.cool = x] \in PaymentRows
         /\ [row EXCEPT !.status = s, !.paid = number] \in PaymentRows
         /\ [row EXCEPT !.amount = a, !.approved = FALSE, !.cool = x] \in PaymentRows
         /\ [row EXCEPT !.status = s, !.approved = TRUE] \in PaymentRows
         /\ [row EXCEPT !.status = s] \in PaymentRows
  BY DEF PaymentRows

LEMMA WriteTyped ==
  ASSUME RowsTyped, NEW p \in Payments, NEW row \in PaymentRows, pay' = [pay EXCEPT ![p] = row],
         suspended' \in BOOLEAN, UNCHANGED payeeVars
  PROVE  RowsTyped'
  BY DEF RowsTyped, PayeesTyped, Filled, payeeVars

LEMMA StayTyped ==
  ASSUME RowsTyped, UNCHANGED pay, suspended' \in BOOLEAN, UNCHANGED payeeVars
  PROVE  RowsTyped'
  BY DEF RowsTyped, PayeesTyped, Filled, payeeVars

LEMMA InitiateTyped ==
  ASSUME RowsTyped, NEW c, calls[c].on \in Payments, calls[c].with.amount \in Amounts, Initiate(c)
  PROVE  RowsTyped'
<1>1. CASE UNCHANGED bankVars
  BY <1>1, StayTyped DEF bankVars, paymentVars, RowsTyped
<1> DEFINE k == calls[c]
           row == [NoPayment EXCEPT !.status = "NEW", !.amount = k.with.amount, !.to = k.with.to,
                                    !.named = payee[k.with.to].number]
<1>2. CASE /\ k.with.to \in ActivePayees
           /\ pay' = [pay EXCEPT ![k.on] = row]
           /\ UNCHANGED <<payeeVars, suspended>>
  <2>1. k.with.to \in Payees /\ payee[k.with.to].number \in Numbers
    BY <1>2 DEF ActivePayees, RowsTyped, Filled
  <2>2. row \in PaymentRows
    BY <2>1 DEF NoPayment, PaymentRows, Statuses
  <2> HIDE DEF row
  <2> QED
    BY <1>2, <2>2, WriteTyped DEF RowsTyped
<1> QED
  BY <1>1, <1>2 DEF Initiate, Refuse

LEMMA CoolTyped ==
  ASSUME NEW p, NEW a, NEW v
  PROVE  StillCooling(p, a, v) \in BOOLEAN
  BY DEF StillCooling

LEMMA ConfirmTyped ==
  ASSUME RowsTyped, NEW c, calls[c].on \in Payments, Confirm(c)
  PROVE  RowsTyped'
<1> DEFINE p == calls[c].on
<1>1. CASE UNCHANGED <<payeeVars, pay, suspended>>
  BY <1>1, StayTyped DEF RowsTyped
<1>2. pay[p] \in PaymentRows
  BY DEF RowsTyped
<1>3. ASSUME NEW status \in Statuses, NEW cool \in BOOLEAN, UNCHANGED payeeVars,
             pay' = [pay EXCEPT ![p] = [@ EXCEPT !.status = status, !.cool = cool]],
             UNCHANGED suspended \/ suspended' = TRUE
      PROVE  RowsTyped'
  <2> DEFINE row == [pay[p] EXCEPT !.status = status, !.cool = cool]
  <2>1. row \in PaymentRows
    BY <1>2 DEF PaymentRows
  <2>2. pay' = [pay EXCEPT ![p] = row]
    BY <1>3
  <2> HIDE DEF row
  <2>3. suspended' \in BOOLEAN
    BY <1>3 DEF RowsTyped
  <2> QED
    BY <1>3, <2>1, <2>2, <2>3, WriteTyped
<1>4. ASSUME pay[p].status \in Editable, ~pay[p].approved, NEW v \in Assessments(p, pay[p].amount),
             NEW status \in Editable \union {"CHALLENGED", "BLOCKED"},
             UNCHANGED payeeVars, UNCHANGED suspended \/ suspended' = TRUE,
             pay' = [pay EXCEPT ![p] =
               [@ EXCEPT !.status = status, !.cool = StillCooling(p, pay[p].amount, v)]]
      PROVE  RowsTyped'
  <2>1. StillCooling(p, pay[p].amount, v) \in BOOLEAN
    BY CoolTyped
  <2>2. status \in Statuses
    BY DEF Editable, Statuses
  <2> QED
    BY <1>3, <1>4, <2>1, <2>2
<1>5. CASE pay[p].status \in Editable /\ ~pay[p].approved
  BY <1>4, <1>5 DEF Confirm, Editable
<1> QED
  BY <1>1, <1>5 DEF Confirm, Refuse, bankVars, paymentVars, Challenge, Reply

LEMMA SubmitTyped ==
  ASSUME RowsTyped, RowsVetted, NEW c, calls[c].on \in Payments, Submit(c)
  PROVE  RowsTyped'
<1> DEFINE p == calls[c].on
<1>1. CASE UNCHANGED <<payeeVars, pay, suspended>>
  BY <1>1, StayTyped DEF RowsTyped
<1>2. ASSUME NEW status \in {"HELD", "COMPLETED", "PROCESSING"}, pay[p].status \in Submittable,
             UNCHANGED <<payeeVars, suspended>>, Settled(p, status)
      PROVE  RowsTyped'
  <2> DEFINE paid == IF status = "COMPLETED" THEN payee[pay[p].to].number ELSE pay[p].paid
             row == [pay[p] EXCEPT !.status = status, !.paid = paid]
  <2>1. pay[p] \in PaymentRows /\ pay[p].to \in Payees
    BY <1>2 DEF RowsTyped, RowsVetted, NamedIsVetted, Submittable
  <2>2. payee[pay[p].to] \in PayeeRows
    BY <2>1 DEF RowsTyped, PayeesTyped
  <2>3. paid \in Numbers \union {NoNumber} /\ status \in Statuses
    BY <2>1, <2>2 DEF PayeeRows, PaymentRows, Statuses
  <2>4. pay' = [pay EXCEPT ![p] = row]
    BY <1>2 DEF Settled
  <2> HIDE DEF paid
  <2>5. row \in PaymentRows
    BY <2>1, <2>3 DEF PaymentRows
  <2> HIDE DEF row
  <2> QED
    BY <1>2, <2>4, <2>5, WriteTyped DEF RowsTyped
<1> QED
  BY <1>1, <1>2 DEF Submit, Refuse, bankVars, paymentVars

LEMMA EditTyped ==
  ASSUME RowsTyped, NEW c, calls[c].with \in Amounts, Update(c)
  PROVE  RowsTyped'
<1> DEFINE p == calls[c].on  a == calls[c].with
<1>1. CASE UNCHANGED bankVars
  BY <1>1, StayTyped DEF bankVars, paymentVars, RowsTyped
<1>2. ASSUME NEW cool \in BOOLEAN, UNCHANGED <<payeeVars, suspended>>,
             \/ pay' = [pay EXCEPT ![p] = [@ EXCEPT !.amount = a, !.approved = FALSE, !.cool = cool]]
             \/ pay' = [pay EXCEPT ![p] = [@ EXCEPT !.amount = a, !.cool = cool]]
      PROVE  RowsTyped'
  <2>1. CASE p \in Payments
    <3>1. pay[p] \in PaymentRows
      BY <2>1 DEF RowsTyped
    <3>2. PICK row \in PaymentRows : pay' = [pay EXCEPT ![p] = row]
      BY <1>2, <3>1 DEF PaymentRows
    <3> QED
      BY <1>2, <2>1, <3>2, WriteTyped DEF RowsTyped
  <2>2. CASE p \notin Payments
    <3>1. pay' = pay
      BY <1>2, <2>2 DEF RowsTyped
    <3> QED
      BY <1>2, <3>1, StayTyped DEF RowsTyped
  <2> QED
    BY <2>1, <2>2
<1>3. CASE pay[p].status \in Editable
  <2>1. PICK v : /\ UNCHANGED <<payeeVars, suspended>>
                 /\ \/ pay' = [pay EXCEPT ![p] = [@ EXCEPT !.amount = a, !.approved = FALSE,
                                                           !.cool = StillCooling(p, a, v)]]
                    \/ pay' = [pay EXCEPT ![p] = [@ EXCEPT !.amount = a, !.cool = StillCooling(p, a, v)]]
    BY <1>3 DEF Update
  <2>2. StillCooling(p, a, v) \in BOOLEAN
    BY CoolTyped
  <2> QED
    BY <1>2, <2>1, <2>2
<1> QED
  BY <1>1, <1>3 DEF Update, Refuse

LEMMA CloseTyped ==
  ASSUME RowsTyped, NEW c, Remove(c) \/ Review(c)
  PROVE  RowsTyped'
<1> DEFINE p == calls[c].on
<1>1. CASE UNCHANGED bankVars
  BY <1>1, StayTyped DEF bankVars, paymentVars, RowsTyped
<1>2. ASSUME NEW s \in {"DELETED", "REJECTED", "NEW"}, UNCHANGED <<payeeVars, suspended>>,
             \/ pay' = [pay EXCEPT ![p] = [@ EXCEPT !.status = s]]
             \/ pay' = [pay EXCEPT ![p] = [@ EXCEPT !.status = s, !.approved = TRUE]]
      PROVE  RowsTyped'
  <2>1. CASE p \in Payments
    <3>1. pay[p] \in PaymentRows /\ s \in Statuses
      BY <2>1 DEF RowsTyped, Statuses
    <3>2. PICK row \in PaymentRows : pay' = [pay EXCEPT ![p] = row]
      BY <1>2, <3>1 DEF PaymentRows
    <3> QED
      BY <1>2, <2>1, <3>2, WriteTyped DEF RowsTyped
  <2>2. CASE p \notin Payments
    <3>1. pay' = pay
      BY <1>2, <2>2 DEF RowsTyped
    <3> QED
      BY <1>2, <3>1, StayTyped DEF RowsTyped
  <2> QED
    BY <2>1, <2>2
<1>4. CASE Remove(c)
  BY <1>1, <1>2, <1>4 DEF Remove, Refuse
<1>5. CASE Review(c)
  BY <1>1, <1>2, <1>5 DEF Review, Refuse
<1> QED
  BY <1>4, <1>5

\* A form about a payee is handed to the service with what it carries.
LEMMA KeepIsNext ==
  ASSUME RowsTyped, NEW c, KeepPayee(c), calls[c].with.number \in Numbers,
         calls[c].with.name \in Names, calls[c].with.fetched \in AnyName
  PROVE  (PayeeNext \/ UNCHANGED payeeVars) /\ UNCHANGED <<pay, suspended>>
<1> DEFINE k == calls[c]
<1>1. CASE Refuse(c)
  BY <1>1 DEF Refuse, bankVars, paymentVars
<1>2. CASE /\ \/ CreatePayee(k.on, k.with.number, k.with.name, k.with.fetched)
              \/ UpdatePayee(k.on, k.with.number, k.with.name)
           /\ UNCHANGED paymentVars
  <2>1. CASE k.on \in Payees
    BY <1>2, <2>1 DEF PayeeNext, AnyName, paymentVars
  <2>2. CASE k.on \notin Payees
    <3>1. payee' = payee /\ vetted' = vetted
      BY <1>2, <2>2 DEF CreatePayee, UpdatePayee, RowsTyped, PayeesTyped
    <3> QED
      BY <1>2, <3>1 DEF payeeVars, paymentVars
  <2> QED
    BY <2>1, <2>2
<1> QED
  BY <1>1, <1>2 DEF KeepPayee

\* The three updateMany, of any list of codes.
LEMMA ChangeIsNext ==
  ASSUME NEW c, ChangePayees(c)
  PROVE  PayeeNext /\ UNCHANGED <<pay, suspended>>
<1> DEFINE B == calls[c].on \intersect Payees
<1>1. \A S : S \subseteq Payees => calls[c].on \intersect S = B \intersect S
  OBVIOUS
<1>2. PendingPayees \subseteq Payees /\ ListedPayees \subseteq Payees
  BY DEF PendingPayees, ListedPayees
<1>3. B \in SUBSET Payees
  OBVIOUS
<1> HIDE DEF B
<1>4. /\ calls[c].on \intersect PendingPayees = B \intersect PendingPayees
      /\ calls[c].on \intersect ListedPayees = B \intersect ListedPayees
  BY <1>1, <1>2
<1>5. /\ ActivatePayees(calls[c].on) => ActivatePayees(B)
      /\ RejectPayees(calls[c].on) => RejectPayees(B)
      /\ RemovePayees(calls[c].on) => RemovePayees(B)
  BY <1>4 DEF ActivatePayees, RejectPayees, RemovePayees
<1>6. ActivatePayees(B) \/ RejectPayees(B) \/ RemovePayees(B)
  BY <1>5 DEF ChangePayees
<1> QED
  BY <1>3, <1>6 DEF PayeeNext, ChangePayees, paymentVars

LEMMA HandleTyped ==
  ASSUME RowsTyped, RowsVetted, NEW c, CallTyped(calls[c]), Honest(pay, suspended, calls[c]), Handle(c)
  PROVE  RowsTyped' /\ (PayeeNext \/ UNCHANGED payeeVars)
<1>1. CASE calls[c].kind = "initiate"
  <2>1. Initiate(c) /\ calls[c].on \in Payments /\ calls[c].with.amount \in Amounts
    BY <1>1 DEF Handle, CallTyped, Honest
  <2> QED
    BY <2>1, InitiateTyped DEF Initiate, Refuse, bankVars
<1>2. CASE calls[c].kind = "confirm"
  <2>1. Confirm(c) /\ calls[c].on \in Payments
    BY <1>2 DEF Handle, Honest
  <2> QED
    BY <2>1, ConfirmTyped DEF Confirm, Refuse, bankVars
<1>3. CASE calls[c].kind = "submit"
  <2>1. Submit(c) /\ calls[c].on \in Payments
    BY <1>3 DEF Handle, Honest
  <2> QED
    BY <2>1, SubmitTyped DEF Submit, Refuse, bankVars
<1>4. CASE calls[c].kind = "update"
  <2>1. Update(c) /\ calls[c].with \in Amounts
    BY <1>4 DEF Handle, CallTyped
  <2> QED
    BY <2>1, EditTyped DEF Update, Refuse, bankVars
<1>5. CASE Remove(c) \/ Review(c)
  BY <1>5, CloseTyped DEF Remove, Review, Refuse, bankVars
<1>6. CASE KeepPayee(c) /\ calls[c].kind \in {"create", "edit"}
  <2>1. (PayeeNext \/ UNCHANGED payeeVars) /\ UNCHANGED <<pay, suspended>>
    BY <1>6, KeepIsNext DEF CallTyped
  <2>2. PayeesTyped' /\ Filled'
    BY <2>1, PayeeNextTyped DEF RowsTyped
  <2> QED
    BY <2>1, <2>2 DEF RowsTyped
<1>7. CASE ChangePayees(c)
  <2>1. PayeeNext /\ UNCHANGED <<pay, suspended>>
    BY <1>7, ChangeIsNext
  <2>2. PayeesTyped' /\ Filled'
    BY <2>1, PayeeNextTyped DEF RowsTyped
  <2> QED
    BY <2>1, <2>2 DEF RowsTyped
<1>8. CASE \/ Resend(c) \/ FetchName(c) \/ Report(c) \/ Score1(c) \/ SendCode(c) \/ Recover(c)
           \/ ChangeOwn(c) \/ SignIn(c)
  <2>1. UNCHANGED <<payeeVars, pay>> /\ (UNCHANGED suspended \/ suspended' = TRUE)
    BY <1>8 DEF Resend, FetchName, Report, Score1, SendCode, Recover, ChangeOwn, SignIn, Refuse,
       bankVars, paymentVars
  <2>2. suspended' \in BOOLEAN
    BY <2>1 DEF RowsTyped
  <2> QED
    BY <2>1, <2>2, StayTyped
<1> QED
  BY <1>1, <1>2, <1>3, <1>4, <1>5, <1>6, <1>7, <1>8 DEF Handle

-----------------------------------------------------------------------------
(* The server.                                                             *)

\* What the request k may be answered with.
Given(k, a) ==
  a.is = "done" => /\ k.kind = "fetch" => a.got \in Names
                   /\ k.kind = "login" => a.got \in Users
                   /\ k.kind = "profile" => a.got \in Anyone

LEMMA AnsweredTyped ==
  ASSUME NEW k, DOMAIN k = CallFields, CallTyped(k), NEW a, Given(k, a)
  PROVE  CallTyped([k EXCEPT !.ans = a])
<1> DEFINE j == [k EXCEPT !.ans = a]
<1>1. j.ans = a /\ j.kind = k.kind /\ j.with = k.with /\ j.as = k.as
  BY DEF CallFields
<1> HIDE DEF j
<1>2. CallTyped(j)
  BY <1>1 DEF CallTyped, Given, Ok
<1> QED
  BY <1>2 DEF j

LEMMA HandleGives ==
  ASSUME NEW c, CallTyped(calls[c]), Handle(c)
  PROVE  \E a : Reply(c, a) /\ Given(calls[c], a)
<1>1. CASE calls[c].kind \notin {"fetch", "login", "profile"}
  BY <1>1, HandleReplies DEF Given
<1>2. CASE calls[c].kind = "fetch"
  <2>1. Reply(c, Done(HolderOf[calls[c].with])) /\ calls[c].with \in Numbers
    BY <1>2 DEF Handle, FetchName, CallTyped
  <2>2. HolderOf[calls[c].with] \in Names
    BY <2>1, HolderAssumption
  <2> QED
    BY <1>2, <2>1, <2>2 DEF Given, Done
<1>3. CASE calls[c].kind = "login"
  <2>1. \/ Reply(c, Done(calls[c].with)) \/ Reply(c, Unauthorized) \/ Reply(c, Refusal)
    BY <1>3 DEF Handle, SignIn
  <2> QED
    BY <1>3, <2>1 DEF Given, Done, Unauthorized, Refusal, CallTyped
<1>4. CASE calls[c].kind = "profile"
  <2>1. Reply(c, Refusal) \/ Reply(c, Done(calls[c].as))
    BY <1>4 DEF Handle, ChangeOwn
  <2> QED
    BY <1>4, <2>1 DEF Given, Done, Refusal, CallTyped
<1> QED
  BY <1>1, <1>2, <1>3, <1>4

LEMMA ServeTyped ==
  ASSUME Typed, RowsVetted, Truth, Inv, NEW c \in Slots, Serve(c)
  PROVE  Typed' /\ (PayeeNext \/ UNCHANGED payeeVars)
<1> DEFINE k == calls[c]
<1>1. /\ DOMAIN k = CallFields /\ CallTyped(k) /\ Honest(pay, suspended, k)
      /\ DOMAIN calls = Slots /\ RowsTyped
  BY DEF Typed, CallsTyped, Truth, CallsHonest, Inv, Shapes, CallShapes
<1>2. RowsTyped' /\ (PayeeNext \/ UNCHANGED payeeVars)
  <2>1. CASE UNCHANGED bankVars
    BY <1>1, <2>1, StayTyped DEF bankVars, paymentVars, RowsTyped
  <2> QED
    BY <1>1, <2>1, HandleTyped DEF Serve, ServeCall
<1>3. PICK a : Reply(c, a) /\ Given(k, a)
  <2>1. CASE Reply(c, Unauthorized)
    BY <2>1 DEF Given, Unauthorized
  <2> QED
    BY <1>1, <2>1, HandleGives DEF Serve, ServeCall
<1>4. CallTyped(calls'[c]) /\ \A d \in Slots : d # c => calls'[d] = calls[d]
  <2>1. CASE k.tab = NoTab
    BY <1>1, <1>3, <2>1, NoCallTyped DEF Reply
  <2>2. CASE k.tab # NoTab
    <3>1. calls'[c] = [k EXCEPT !.ans = a] /\ \A d \in Slots : d # c => calls'[d] = calls[d]
      BY <1>1, <1>3, <2>2 DEF Reply
    <3>2. CallTyped([k EXCEPT !.ans = a])
      BY <1>1, <1>3, AnsweredTyped
    <3> QED
      BY <3>1, <3>2
  <2> QED
    BY <2>1, <2>2
<1>5. CallsTyped'
  BY <1>4 DEF Typed, CallsTyped
<1>6. UNCHANGED <<page, cache, token, store, contact, over, scene>>
  BY DEF Serve, tabVars, sessionVars
<1>7. TabsTyped'
  BY <1>6 DEF Typed, TabsTyped, Reachable
<1> QED
  BY <1>2, <1>5, <1>6, <1>7 DEF Typed

-----------------------------------------------------------------------------
(* The pages.                                                              *)

LEMMA OverTyped ==
  ASSUME Typed, NEW t \in Tabs, Abandon(t) \/ UNCHANGED over
  PROVE  over' \in [Tabs -> BOOLEAN]
<1>1. InFlight(t) \in BOOLEAN
  BY DEF InFlight
<1>2. over \in [Tabs -> BOOLEAN]
  BY DEF Typed, TabsTyped
<1>3. (over[t] \/ InFlight(t)) \in BOOLEAN
  BY <1>1, <1>2
<1> QED
  BY <1>2, <1>3 DEF Abandon

\* A step of the tab t that leaves the rows alone.
LEMMA TabTyped ==
  ASSUME Typed, Inv, NEW t \in Tabs, NEW pg, UNCHANGED <<bankVars, scene>>,
         page' = [page EXCEPT ![t] = pg], FormTyped(pg), pg.at \in Reachable(t),
         over' \in [Tabs -> BOOLEAN], {token', store', contact'} \subseteq [Tabs -> Anyone],
         DOMAIN cache' = Tabs, \A u \in Tabs : ListTyped(cache'[u]), CallsTyped'
  PROVE  Typed'
<1>1. RowsTyped'
  BY StayTyped DEF Typed, RowsTyped, bankVars, paymentVars
<1>2. page'[t] = pg /\ \A u \in Tabs : u # t => page'[u] = page[u]
  BY DEF Inv, Shapes
<1>3. \A u \in Tabs : Reachable(u)' = Reachable(u)
  BY DEF Reachable
<1>4. \A u \in Tabs : FormTyped(page'[u]) /\ page'[u].at \in Reachable(u)'
  BY <1>2, <1>3 DEF Typed, TabsTyped
<1>5. TabsTyped'
  BY <1>4 DEF TabsTyped
<1> QED
  BY <1>1, <1>5 DEF Typed

LEMMA TurnTyped ==
  ASSUME Typed, Inv, NEW t \in Tabs, NEW pg, Turn(t, pg), Abandon(t) \/ UNCHANGED over,
         pg.at = page[t].at, FormTyped(pg)
  PROVE  Typed'
<1>1. CallsTyped'
  BY DEF Turn, Typed, CallsTyped
<1>2. pg.at \in Reachable(t)
  BY DEF Typed, TabsTyped
<1>3. UNCHANGED <<bankVars, scene, token, store, contact, cache>> /\ page' = [page EXCEPT ![t] = pg]
  BY DEF Turn, sessionVars
<1>4. /\ {token', store', contact'} \subseteq [Tabs -> Anyone]
      /\ DOMAIN cache' = Tabs /\ \A u \in Tabs : ListTyped(cache'[u])
  BY <1>3 DEF Typed, TabsTyped
<1> QED
  BY <1>1, <1>2, <1>3, <1>4, OverTyped, TabTyped

\* What a page sends.
Sendable(kind, with) ==
  /\ kind = "initiate" => with.amount \in Amounts
  /\ kind = "update" => with \in Amounts
  /\ kind \in {"create", "edit"} =>
       with.number \in Numbers /\ with.name \in Names /\ with.fetched \in AnyName
  /\ kind = "fetch" => with \in Numbers
  /\ kind = "login" => with \in Users

LEMMA AskTyped ==
  ASSUME Typed, Inv, NEW t \in Tabs, NEW pg, NEW kind, NEW on, NEW with,
         Ask(t, pg, kind, on, with), Abandon(t) \/ UNCHANGED over,
         pg.at = page[t].at, FormTyped(pg), Sendable(kind, with)
  PROVE  Typed'
<1> DEFINE new == [tab |-> t, kind |-> kind, on |-> on, with |-> with,
                   as |-> token[t], live |-> TRUE, ans |-> Waiting]
<1>1. PICK x : calls' = [calls EXCEPT ![x] = new]
  BY DEF Ask
<1>2. new.as \in Anyone /\ new.kind = kind /\ new.with = with /\ ~Ok(new)
  BY DEF Typed, TabsTyped, Ok, Waiting
<1> HIDE DEF new
<1>3. CallTyped(new)
  BY <1>2 DEF CallTyped, Sendable
<1>4. CallsTyped'
  BY <1>1, <1>3 DEF Typed, CallsTyped, Inv, Shapes
<1>5. pg.at \in Reachable(t)
  BY DEF Typed, TabsTyped
<1>6. UNCHANGED <<bankVars, scene, token, store, contact, cache>> /\ page' = [page EXCEPT ![t] = pg]
  BY DEF Ask, sessionVars
<1>7. /\ {token', store', contact'} \subseteq [Tabs -> Anyone]
      /\ DOMAIN cache' = Tabs /\ \A u \in Tabs : ListTyped(cache'[u])
  BY <1>6 DEF Typed, TabsTyped
<1> QED
  BY <1>4, <1>5, <1>6, <1>7, OverTyped, TabTyped

\* A page without a form about a payee, and a request that carries no value.
LEMMA TurnPlain ==
  ASSUME Typed, Inv, NEW t \in Tabs, NEW pg, Turn(t, pg), Abandon(t) \/ UNCHANGED over,
         pg.at = page[t].at, page[t].at # "maintenance"
  PROVE  Typed'
  BY TurnTyped DEF FormTyped

LEMMA AskPlain ==
  ASSUME Typed, Inv, NEW t \in Tabs, NEW pg, NEW kind, NEW on, NEW with,
         Ask(t, pg, kind, on, with), Abandon(t) \/ UNCHANGED over,
         pg.at = page[t].at, page[t].at # "maintenance",
         kind \notin {"initiate", "update", "create", "edit", "fetch", "login"}
  PROVE  Typed'
  BY AskTyped DEF FormTyped, Sendable

LEMMA WizardTyped ==
  ASSUME Typed, Inv, NEW t \in Tabs, Wizards(t)
  PROVE  Typed'
<1>1. "at" \in DOMAIN page[t]
  BY DEF Inv, Shapes
<1>2. CASE PickMode(t) \/ BackToForm(t) \/ CloseModal(t)
  BY <1>1, <1>2, TurnPlain DEF PickMode, BackToForm, CloseModal, OnWizard
<1>3. CASE LeaveMode(t) \/ CancelForm(t)
  BY <1>1, <1>3, TurnPlain DEF LeaveMode, CancelForm, OnWizard, Emptied
<1>4. CASE PressNext(t)
  <2> DEFINE pg == [page[t] EXCEPT !.busy = TRUE]
  <2>1. PICK p \in Payments, b \in cache[t].initiate, a \in scene.amounts :
          Ask(t, pg, "initiate", p, [to |-> b, amount |-> a])
    BY <1>4 DEF PressNext
  <2>2. page[t].at = "initiate" /\ pg.at = page[t].at /\ Abandon(t)
    BY <1>1, <1>4 DEF PressNext, OnWizard
  <2>3. a \in Amounts
    BY SceneTyped DEF Typed
  <2> HIDE DEF pg
  <2> QED
    BY <2>1, <2>2, <2>3, AskTyped DEF FormTyped, Sendable
<1>5. CASE PressConfirm(t)
  BY <1>1, <1>5, AskPlain DEF PressConfirm, OnWizard
<1>6. CASE PressSubmit(t)
  BY <1>1, <1>6, AskPlain DEF PressSubmit
<1>7. CASE PressResend(t)
  BY <1>1, <1>7, AskPlain DEF PressResend
<1> QED
  BY <1>2, <1>3, <1>4, <1>5, <1>6, <1>7 DEF Wizards

LEMMA ModifyTyped ==
  ASSUME Typed, Inv, NEW t \in Tabs, Modifies(t)
  PROVE  Typed'
<1>1. "at" \in DOMAIN page[t]
  BY DEF Inv, Shapes
<1>2. ASSUME NEW p, OpenSend(t, p) PROVE Typed'
  <2> DEFINE pg == [page[t] EXCEPT !.send = p, !.conf = NoConf, !.done = NoShown, !.busy = TRUE]
  <2>1. page[t].at = "modify" /\ pg.at = page[t].at
    BY <1>1, <1>2 DEF OpenSend, OnRows
  <2>2. Ask(t, pg, "confirm", p, Nothing) /\ UNCHANGED over
    BY <1>2 DEF OpenSend
  <2> HIDE DEF pg
  <2> QED
    BY <2>1, <2>2, AskPlain
<1>3. ASSUME NEW p, OpenEdit(t, p) \/ OpenDelete(t, p) PROVE Typed'
  BY <1>1, <1>3, TurnPlain DEF OpenEdit, OpenDelete, OnRows
<1>4. CASE SubmitSend(t)
  BY <1>1, <1>4, AskPlain DEF SubmitSend
<1>5. CASE SaveEdit(t)
  <2> DEFINE pg == [page[t] EXCEPT !.saving = TRUE]
  <2>1. PICK a \in scene.amounts : Ask(t, pg, "update", page[t].edit, a)
    BY <1>5 DEF SaveEdit
  <2>2. page[t].at = "modify" /\ pg.at = page[t].at /\ UNCHANGED over
    BY <1>1, <1>5 DEF SaveEdit
  <2>3. a \in Amounts
    BY SceneTyped DEF Typed
  <2> HIDE DEF pg
  <2> QED
    BY <2>1, <2>2, <2>3, AskTyped DEF FormTyped, Sendable
<1>6. CASE PressDelete(t)
  BY <1>1, <1>6, AskPlain DEF PressDelete
<1>7. CASE CloseSend(t) \/ CloseEdit(t) \/ CloseDelete(t)
  BY <1>1, <1>7, TurnPlain DEF CloseSend, CloseEdit, CloseDelete
<1> QED
  BY <1>2, <1>3, <1>4, <1>5, <1>6, <1>7 DEF Modifies

LEMMA PayeeingTyped ==
  ASSUME Typed, Inv, NEW t \in Tabs, Payeeing(t)
  PROVE  Typed'
<1>1. /\ "at" \in DOMAIN page[t] /\ FormTyped(page[t]) /\ ListTyped(cache[t])
      /\ scene.numbers \subseteq Numbers /\ scene.names \subseteq Names
  BY SceneTyped DEF Inv, Shapes, Typed, TabsTyped
<1>2. CASE StartAdd(t)
  <2>1. PICK b \in Payees, number \in scene.numbers, name \in scene.names :
          Turn(t, [Maintenance EXCEPT !.view = "form", !.row = b, !.number = number,
                                      !.name = name, !.busy = page[t].busy])
    BY <1>2 DEF StartAdd
  <2> DEFINE pg == [Maintenance EXCEPT !.view = "form", !.row = b, !.number = number,
                                       !.name = name, !.busy = page[t].busy]
  <2>2. FormTyped(pg) /\ pg.at = "maintenance"
    BY <1>1 DEF Maintenance, FormTyped, AnyName
  <2>3. page[t].at = "maintenance" /\ UNCHANGED over /\ Turn(t, pg)
    BY <1>2, <2>1 DEF StartAdd
  <2> HIDE DEF pg
  <2> QED
    BY <2>2, <2>3, TurnTyped
<1>3. CASE StartEdit(t)
  <2>1. PICK row \in cache[t].maintenance :
          Turn(t, [Maintenance EXCEPT !.view = "form", !.row = row.of, !.editing = TRUE,
                     !.number = row.was.number, !.name = row.was.name,
                     !.fetched = row.was.fetched, !.busy = page[t].busy])
    BY <1>3 DEF StartEdit
  <2> DEFINE pg == [Maintenance EXCEPT !.view = "form", !.row = row.of, !.editing = TRUE,
                      !.number = row.was.number, !.name = row.was.name,
                      !.fetched = row.was.fetched, !.busy = page[t].busy]
  <2>2. row.was.number \in Numbers /\ row.was.name \in Names /\ row.was.fetched \in AnyName
    BY <1>1 DEF ListTyped
  <2>3. FormTyped(pg) /\ pg.at = "maintenance"
    BY <2>2 DEF Maintenance, FormTyped
  <2>4. page[t].at = "maintenance" /\ UNCHANGED over /\ Turn(t, pg)
    BY <1>3, <2>1 DEF StartEdit
  <2> HIDE DEF pg
  <2> QED
    BY <2>3, <2>4, TurnTyped
<1>4. CASE PressFetch(t)
  <2>1. /\ Ask(t, page[t], "fetch", Nothing, page[t].number) /\ UNCHANGED over
        /\ page[t].number \in Numbers
    BY <1>1, <1>4 DEF PressFetch, OnForm, FormTyped
  <2> QED
    BY <1>1, <2>1, AskTyped DEF Sendable
<1>5. CASE TypeInto(t)
  <2>1. ASSUME NEW number \in Numbers, Turn(t, [page[t] EXCEPT !.number = number]),
               page[t].at = "maintenance", UNCHANGED over
        PROVE  Typed'
    <3>1. FormTyped([page[t] EXCEPT !.number = number]) /\ [page[t] EXCEPT !.number = number].at = page[t].at
      BY <1>1, <2>1 DEF FormTyped, Maintenance
    <3> QED
      BY <2>1, <3>1, TurnTyped
  <2>2. ASSUME NEW name \in Names, Turn(t, [page[t] EXCEPT !.name = name]),
               page[t].at = "maintenance", UNCHANGED over
        PROVE  Typed'
    <3>1. FormTyped([page[t] EXCEPT !.name = name]) /\ [page[t] EXCEPT !.name = name].at = page[t].at
      BY <1>1, <2>2 DEF FormTyped, Maintenance
    <3> QED
      BY <2>2, <3>1, TurnTyped
  <2> QED
    BY <1>1, <1>5, <2>1, <2>2 DEF TypeInto, OnForm
<1>6. CASE FormNext(t) \/ FormBack(t)
  <2>1. PICK step : Turn(t, [page[t] EXCEPT !.step = step])
    BY <1>6 DEF FormNext, FormBack
  <2>2. page[t].at = "maintenance" /\ UNCHANGED over
    BY <1>6 DEF FormNext, FormBack, OnForm
  <2>3. FormTyped([page[t] EXCEPT !.step = step]) /\ [page[t] EXCEPT !.step = step].at = page[t].at
    BY <1>1, <2>2 DEF FormTyped, Maintenance
  <2> QED
    BY <2>1, <2>2, <2>3, TurnTyped
<1>7. CASE SubmitForm(t)
  <2> DEFINE pg == [page[t] EXCEPT !.busy = TRUE]
             with == [number |-> page[t].number, name |-> page[t].name, fetched |-> page[t].fetched]
  <2>1. page[t].at = "maintenance" /\ page[t].view = "form" /\ UNCHANGED over
    BY <1>7 DEF SubmitForm, OnForm
  <2>2. PICK kind \in {"create", "edit"} : Ask(t, pg, kind, page[t].row, with)
    BY <1>7 DEF SubmitForm
  <2>3. FormTyped(pg) /\ pg.at = page[t].at
    BY <1>1, <2>1 DEF FormTyped, Maintenance
  <2>4. with.number \in Numbers /\ with.name \in Names /\ with.fetched \in AnyName
    BY <1>1, <2>1 DEF FormTyped
  <2> HIDE DEF pg, with
  <2> QED
    BY <2>1, <2>2, <2>3, <2>4, AskTyped DEF Sendable
<1>8. CASE CancelPayee(t)
  <2>1. /\ page[t].at = "maintenance" /\ Abandon(t)
        /\ Turn(t, [Maintenance EXCEPT !.busy = page[t].busy])
    BY <1>8 DEF CancelPayee
  <2>2. /\ FormTyped([Maintenance EXCEPT !.busy = page[t].busy])
        /\ [Maintenance EXCEPT !.busy = page[t].busy].at = "maintenance"
    BY DEF FormTyped, Maintenance, AnyName
  <2> QED
    BY <2>1, <2>2, TurnTyped
<1>9. CASE Toggle(t) \/ OpenErase(t) \/ CloseErase(t)
  BY <1>1, <1>9, TurnPlain DEF Toggle, OpenErase, CloseErase
<1>10. CASE PressErase(t)
  BY <1>1, <1>10, AskPlain DEF PressErase
<1>11. ASSUME NEW kind \in {"activate", "refuse"}, PressActivate(t, kind) PROVE Typed'
  BY <1>1, <1>11, AskPlain DEF PressActivate
<1> QED
  BY <1>2, <1>3, <1>4, <1>5, <1>6, <1>7, <1>8, <1>9, <1>10, <1>11 DEF Payeeing

LEMMA IdentityTyped ==
  ASSUME Typed, Inv, NEW t \in Tabs, Identity(t)
  PROVE  Typed'
<1>1. "at" \in DOMAIN page[t]
  BY DEF Inv, Shapes
<1>2. CASE RequestCode(t) \/ UseCode(t) \/ ResendCode(t)
  BY <1>1, <1>2, AskPlain DEF RequestCode, UseCode, ResendCode, OnRecovery
<1>3. CASE ChangePassword(t) \/ Generate(t) \/ ResetWithOtp(t) \/ SaveContact(t)
  BY <1>1, <1>3, AskPlain DEF ChangePassword, Generate, ResetWithOtp, SaveContact
<1>4. CASE EditContact(t) \/ CancelContact(t) \/ RequestSave(t) \/ CloseConfirm(t)
  BY <1>1, <1>4, TurnPlain DEF EditContact, CancelContact, RequestSave, CloseConfirm
<1> QED
  BY <1>2, <1>3, <1>4 DEF Identity

LEMMA OtherTyped ==
  ASSUME Typed, Inv, NEW t \in Tabs, Others(t)
  PROVE  Typed'
<1>1. "at" \in DOMAIN page[t]
  BY DEF Inv, Shapes
<1>2. ASSUME NEW p, NEW kind \in {"release", "reject"}, PressReview(t, p, kind) PROVE Typed'
  BY <1>1, <1>2, AskPlain DEF PressReview
<1>3. CASE ApplyPreset(t)
  BY <1>1, <1>3, TurnPlain DEF ApplyPreset
<1>4. CASE PressScore(t) \/ PressReport(t)
  BY <1>1, <1>4, AskPlain DEF PressScore, PressReport
<1>5. CASE RunAll(t)
  <2> DEFINE pg == [page[t] EXCEPT !.busy = TRUE, !.results = {}]
  <2>1. page[t].at = "command" /\ pg.at = page[t].at
    BY <1>1, <1>5 DEF RunAll
  <2>2. Ask(t, pg, "watch", Nothing, 1) /\ UNCHANGED over
    BY <1>5 DEF RunAll
  <2> HIDE DEF pg
  <2> QED
    BY <2>1, <2>2, AskPlain
<1>6. CASE PressLogin(t)
  <2> DEFINE pg == [page[t] EXCEPT !.busy = TRUE]
  <2>1. PICK u \in Users : Ask(t, pg, "login", Nothing, u)
    BY <1>6 DEF PressLogin
  <2>2. page[t].at = "login" /\ pg.at = page[t].at /\ UNCHANGED over
    BY <1>1, <1>6 DEF PressLogin
  <2> HIDE DEF pg
  <2> QED
    BY <2>1, <2>2, AskTyped DEF FormTyped, Sendable
<1> QED
  BY <1>2, <1>3, <1>4, <1>5, <1>6 DEF Others

-----------------------------------------------------------------------------
(* Moving between pages.                                                   *)

LEMMA LeftTyped ==
  ASSUME NEW k, DOMAIN k = CallFields, CallTyped(k)
  PROVE  CallTyped([k EXCEPT !.live = FALSE]) /\ CallTyped(Gone(k))
<1> DEFINE j == [k EXCEPT !.live = FALSE]  g == [k EXCEPT !.tab = NoTab, !.live = FALSE]
<1>1. /\ j.kind = k.kind /\ j.with = k.with /\ j.as = k.as /\ j.ans = k.ans
      /\ g.kind = k.kind /\ g.with = k.with /\ g.as = k.as /\ g.ans = k.ans
  BY DEF CallFields
<1> HIDE DEF j, g
<1>2. CallTyped(j) /\ CallTyped(g)
  BY <1>1 DEF CallTyped, Ok
<1>3. CallTyped(Gone(k))
  BY <1>2, NoCallTyped DEF Gone, g
<1> QED
  BY <1>2, <1>3 DEF j

LEMMA UnmountedTyped ==
  ASSUME NEW t, NEW all, \A c \in Slots : DOMAIN all[c] = CallFields /\ CallTyped(all[c])
  PROVE  \A c \in Slots : CallTyped(Unmounted(t, all)[c])
<1>1. ASSUME NEW c \in Slots PROVE CallTyped(Unmounted(t, all)[c])
  <2>1. CallTyped([all[c] EXCEPT !.live = FALSE]) /\ CallTyped(all[c])
    BY LeftTyped
  <2> QED
    BY <2>1 DEF Unmounted
<1> QED
  BY <1>1

LEMMA PushTyped ==
  ASSUME Typed, Inv, NEW t \in Tabs, NEW at \in Reachable(t), Push(t, at),
         {token', store', contact'} \subseteq [Tabs -> Anyone]
  PROVE  Typed'
<1>1. /\ page' = [page EXCEPT ![t] = Mounted(at)] /\ calls' = Unmounted(t, calls) /\ Abandon(t)
      /\ UNCHANGED <<bankVars, cache, scene>>
  BY DEF Push
<1>2. CallsTyped'
  BY <1>1, UnmountedTyped DEF CallsTyped, Typed, Inv, CallShapes
<1>3. DOMAIN cache' = Tabs /\ \A u \in Tabs : ListTyped(cache'[u])
  BY <1>1 DEF Typed, TabsTyped
<1>4. FormTyped(Mounted(at)) /\ Mounted(at).at \in Reachable(t)
  BY MountedTyped, MountedAt
<1> QED
  BY <1>1, <1>2, <1>3, <1>4, OverTyped, TabTyped

LEMMA ReloadTyped ==
  ASSUME Typed, Inv, NEW t \in Tabs, NEW at \in Reachable(t), Reload(t, at),
         {token', store', contact'} \subseteq [Tabs -> Anyone]
  PROVE  Typed'
<1>1. /\ page' = [page EXCEPT ![t] = Mounted(at)] /\ calls' = Discarded(t) /\ Abandon(t)
      /\ cache' = [cache EXCEPT ![t] = Unloaded] /\ UNCHANGED <<bankVars, scene>>
  BY DEF Reload
<1>2. ASSUME NEW c \in Slots PROVE CallTyped(Discarded(t)[c])
  <2>1. CallTyped(calls[c]) /\ CallTyped(Gone(calls[c]))
    BY LeftTyped DEF Typed, CallsTyped, Inv, CallShapes
  <2> QED
    BY <2>1 DEF Discarded
<1>3. CallsTyped'
  BY <1>1, <1>2 DEF CallsTyped
<1>4. DOMAIN cache' = Tabs /\ \A u \in Tabs : ListTyped(cache'[u])
  BY <1>1, UnloadedTyped DEF Typed, TabsTyped
<1>5. FormTyped(Mounted(at)) /\ Mounted(at).at \in Reachable(t)
  BY MountedTyped, MountedAt
<1> QED
  BY <1>1, <1>3, <1>4, <1>5, OverTyped, TabTyped

LEMMA SessionTyped ==
  ASSUME Typed, NEW t \in Tabs, NEW u \in Anyone,
         UNCHANGED <<token, store, contact>> \/ SetSession(t, u)
           \/ (token' = [token EXCEPT ![t] = u] /\ UNCHANGED <<store, contact>>)
           \/ (contact' = [contact EXCEPT ![t] = u] /\ UNCHANGED <<token, store>>)
  PROVE  {token', store', contact'} \subseteq [Tabs -> Anyone]
  BY DEF Typed, TabsTyped, SetSession

LEMMA LoadedTyped ==
  ASSUME RowsTyped, NEW l \in Lists, NEW list, ListTyped(list)
  PROVE  ListTyped([list EXCEPT ![l] = Loaded(l)])
<1>1. CASE l = "maintenance"
  <2>1. Loaded(l) = {[of |-> b, was |-> payee[b]] : b \in ListedPayees}
    BY <1>1 DEF Loaded
  <2>2. \A row \in Loaded(l) :
          row.was.number \in Numbers /\ row.was.name \in Names /\ row.was.fetched \in AnyName
    BY <2>1 DEF RowsTyped, PayeesTyped, PayeeRows, Filled, ListedPayees, AnyName
  <2> QED
    BY <1>1, <2>2 DEF ListTyped
<1>2. CASE l # "maintenance"
  BY <1>2 DEF ListTyped
<1> QED
  BY <1>1, <1>2

\* Of the tabs' state only what a tab remembers of a user, or has loaded.
LEMMA AsideTyped ==
  ASSUME Typed, UNCHANGED <<bankVars, scene, page, over, calls>>,
         {token', store', contact'} \subseteq [Tabs -> Anyone],
         DOMAIN cache' = Tabs, \A u \in Tabs : ListTyped(cache'[u])
  PROVE  Typed'
<1>1. RowsTyped'
  BY StayTyped DEF Typed, RowsTyped, bankVars, paymentVars
<1>2. TabsTyped'
  BY DEF Typed, TabsTyped, Reachable
<1> QED
  BY <1>1, <1>2 DEF Typed, CallsTyped

LEMMA MoveTyped ==
  ASSUME Typed, Inv, NEW t \in Tabs, Moves(t)
  PROVE  Typed'
<1>1. NoUser \in Anyone /\ "login" \in Reachable(t) /\ \A at \in scene.reach[t] : at \in Reachable(t)
  BY DEF Anyone, Reachable
<1>2. ASSUME NEW at \in scene.reach[t], Visit(t, at) PROVE Typed'
  BY <1>1, <1>2, PushTyped, SessionTyped DEF Visit, sessionVars
<1>3. ASSUME NEW at \in scene.reach[t], OpenUrl(t, at) PROVE Typed'
  BY <1>1, <1>3, ReloadTyped, SessionTyped DEF OpenUrl, sessionVars
<1>4. CASE Logout(t)
  <2>1. Push(t, "login") /\ SetSession(t, NoUser)
    BY <1>4 DEF Logout, SetSession
  <2> QED
    BY <1>1, <2>1, PushTyped, SessionTyped
<1>5. CASE Bounce(t)
  BY <1>1, <1>5, ReloadTyped, SessionTyped DEF Bounce
<1>6. CASE Expire(t)
  <2>1. {token', store', contact'} \subseteq [Tabs -> Anyone]
    BY <1>1, <1>6, SessionTyped DEF Expire
  <2>2. DOMAIN cache' = Tabs /\ \A u \in Tabs : ListTyped(cache'[u])
    BY <1>6 DEF Expire, Typed, TabsTyped
  <2> QED
    BY <1>6, <2>1, <2>2, AsideTyped DEF Expire
<1>7. CASE Refresh(t) /\ ~Bounce(t)
  <2> DEFINE l == page[t].at
  <2>1. /\ l \in Lists /\ cache' = [cache EXCEPT ![t][l] = Loaded(l)]
        /\ UNCHANGED <<bankVars, calls, page, token, store, contact, over, scene>>
    BY <1>7 DEF Refresh, sessionVars
  <2>2. cache' = [cache EXCEPT ![t] = [cache[t] EXCEPT ![l] = Loaded(l)]]
    BY <2>1
  <2>3. DOMAIN cache = Tabs /\ (\A u \in Tabs : ListTyped(cache[u])) /\ RowsTyped
    BY DEF Typed, TabsTyped
  <2>4. ListTyped([cache[t] EXCEPT ![l] = Loaded(l)])
    BY <2>1, <2>3, LoadedTyped
  <2> HIDE DEF l
  <2>5. DOMAIN cache' = Tabs /\ \A u \in Tabs : ListTyped(cache'[u])
    BY <2>2, <2>3, <2>4
  <2>6. {token', store', contact'} \subseteq [Tabs -> Anyone]
    BY <1>1, <2>1, SessionTyped
  <2> QED
    BY <2>1, <2>5, <2>6, AsideTyped
<1> QED
  BY <1>2, <1>3, <1>4, <1>5, <1>6, <1>7 DEF Moves

-----------------------------------------------------------------------------
(* Answers.                                                                *)

LEMMA AfterTyped ==
  ASSUME NEW pg, NEW k, "at" \in DOMAIN pg, pg.at \in Public => "busy" \in DOMAIN pg,
         FormTyped(pg), CallTyped(k)
  PROVE  FormTyped(After(pg, k))
<1>1. After(pg, k).at = pg.at
  BY AfterKeeps
<1>2. CASE pg.at # "maintenance"
  BY <1>1, <1>2 DEF FormTyped
<1>3. CASE pg.at = "maintenance"
  <2>1. After(pg, k) = MaintenanceAfter(pg, k)
    BY <1>3 DEF After, Recovering
  <2>2. FormTyped(Maintenance)
    BY DEF FormTyped, Maintenance, AnyName
  <2>3. FormTyped([pg EXCEPT !.busy = FALSE])
    BY <1>3 DEF FormTyped, Maintenance
  <2>4. CASE k.kind = "fetch" /\ Ok(k)
    <3>1. MaintenanceAfter(pg, k) = [pg EXCEPT !.fetched = k.ans.got]
      BY <2>4 DEF MaintenanceAfter
    <3>2. k.ans.got \in AnyName
      BY <2>4 DEF CallTyped, AnyName
    <3>3. FormTyped([pg EXCEPT !.fetched = k.ans.got])
      BY <1>3, <3>2 DEF FormTyped, Maintenance
    <3> QED
      BY <2>1, <3>1, <3>3
  <2>5. CASE ~(k.kind = "fetch" /\ Ok(k))
    BY <2>1, <2>2, <2>3, <2>5 DEF MaintenanceAfter
  <2> QED
    BY <2>4, <2>5
<1> QED
  BY <1>2, <1>3

LEMMA ContinueTyped ==
  ASSUME Typed, Inv, NEW c \in Slots, NEW t \in Tabs, NEW k, NEW rest, Continue(t, c, k, rest),
         Abandon(t) \/ UNCHANGED over, DOMAIN k = CallFields, CallTyped(k),
         DOMAIN rest = Slots,
         \A d \in Slots : DOMAIN rest[d] = CallFields /\ CallTyped(rest[d])
  PROVE  Typed'
<1>1. UNCHANGED <<bankVars, cache, scene>>
  BY DEF Continue
<1>2. DOMAIN cache' = Tabs /\ \A u \in Tabs : ListTyped(cache'[u])
  BY <1>1 DEF Typed, TabsTyped
<1>3. {token', store', contact'} \subseteq [Tabs -> Anyone]
  <2>1. CASE k.kind = "login" /\ Ok(k)
    <3>1. SetSession(t, k.ans.got) /\ k.ans.got \in Anyone
      BY <2>1 DEF Continue, CallTyped, Anyone
    <3> QED
      BY <3>1, SessionTyped
  <2>2. CASE k.kind = "profile" /\ Ok(k)
    <3>1. UpdateUser(t, k.ans.got) /\ k.ans.got \in Anyone
      BY <2>2 DEF Continue, CallTyped
    <3>2. CASE store[t] = NoUser
      <4>1. contact' = [contact EXCEPT ![t] = contact[t]] /\ UNCHANGED <<token, store>>
        BY <3>1, <3>2 DEF UpdateUser
      <4> QED
        BY <4>1 DEF Typed, TabsTyped
    <3>3. CASE store[t] # NoUser
      <4>1. contact' = [contact EXCEPT ![t] = k.ans.got] /\ UNCHANGED <<token, store>>
        BY <3>1, <3>3 DEF UpdateUser
      <4> QED
        BY <3>1, <4>1, SessionTyped
    <3> QED
      BY <3>2, <3>3
  <2>3. CASE ~(k.kind \in {"login", "profile"} /\ Ok(k))
    <3>1. /\ token' = IF k.ans = Unauthorized THEN [token EXCEPT ![t] = NoUser] ELSE token
          /\ UNCHANGED <<store, contact>>
      BY <2>3 DEF Continue
    <3>2. NoUser \in Anyone
      BY DEF Anyone
    <3> QED
      BY <3>1, <3>2, SessionTyped
  <2> QED
    BY <2>1, <2>2, <2>3
<1>4. over' \in [Tabs -> BOOLEAN]
  BY OverTyped
<1>5. CASE Ok(k) /\ k.kind \in {"login", "reset", "unlock"}
  <2>1. PICK at \in {"login", "dashboard"} : page' = [page EXCEPT ![t] = Mounted(at)]
    BY <1>5 DEF Continue
  <2>2. calls' = Unmounted(t, rest)
    BY <1>5 DEF Continue
  <2>3. CallsTyped'
    BY <2>2, UnmountedTyped DEF CallsTyped
  <2>4. FormTyped(Mounted(at)) /\ Mounted(at).at \in Reachable(t)
    BY MountedTyped, MountedAt DEF Reachable
  <2> QED
    BY <1>1, <1>2, <1>3, <1>4, <2>1, <2>3, <2>4, TabTyped
<1>6. CASE ~(Ok(k) /\ k.kind \in {"login", "reset", "unlock"})
  <2> DEFINE again == [k EXCEPT !.with = @ + 1, !.as = token[t], !.ans = Waiting]
             pg == IF k.live THEN After(page[t], k) ELSE page[t]
  <2>1. page' = [page EXCEPT ![t] = pg]
    BY <1>6 DEF Continue
  <2>2. calls' = rest \/ (k.kind = "watch" /\ calls' = [rest EXCEPT ![c] = again])
    BY <1>6 DEF Continue
  <2>3. again.kind = k.kind /\ again.as = token[t] /\ ~Ok(again)
    BY DEF CallFields, Ok, Waiting
  <2>4. token[t] \in Anyone
    BY DEF Typed, TabsTyped
  <2> HIDE DEF again
  <2>5. k.kind = "watch" => CallTyped(again)
    BY <2>3, <2>4 DEF CallTyped
  <2>6. CallsTyped'
    BY <2>2, <2>5 DEF CallsTyped
  <2>7. /\ "at" \in DOMAIN page[t] /\ (page[t].at \in Public => "busy" \in DOMAIN page[t])
        /\ FormTyped(page[t]) /\ page[t].at \in Reachable(t)
    BY DEF Inv, Shapes, Typed, TabsTyped
  <2>8. FormTyped(After(page[t], k)) /\ After(page[t], k).at = page[t].at
    BY <2>7, AfterTyped, AfterKeeps
  <2>9. FormTyped(pg) /\ pg.at \in Reachable(t)
    BY <2>7, <2>8
  <2> HIDE DEF pg
  <2> QED
    BY <1>1, <1>2, <1>3, <1>4, <2>1, <2>6, <2>9, TabTyped
<1> QED
  BY <1>5, <1>6

LEMMA AnswerTyped ==
  ASSUME Typed, Inv, NEW c \in Slots, Answer(c)
  PROVE  Typed'
<1> DEFINE t == calls[c].tab
           rest == [calls EXCEPT ![c] = NoCall]
<1>1. t \in Tabs /\ \A d \in Slots : DOMAIN calls[d] = CallFields /\ CallTyped(calls[d])
  BY DEF Answer, Inv, CallShapes, Typed, CallsTyped
<1>2. CASE Bounce(t)
  <2>1. "login" \in Reachable(t) /\ NoUser \in Anyone
    BY DEF Reachable, Anyone
  <2> QED
    BY <1>1, <1>2, <2>1, ReloadTyped, SessionTyped DEF Bounce
<1>3. CASE Continue(t, c, calls[c], rest) /\ UNCHANGED over
  <2>1. DOMAIN rest = Slots /\ \A d \in Slots : DOMAIN rest[d] = CallFields /\ CallTyped(rest[d])
    BY <1>1, NoCallShape, NoCallTyped DEF Inv, Shapes
  <2> HIDE DEF t, rest
  <2> QED
    BY <1>1, <1>3, <2>1, ContinueTyped
<1> QED
  BY <1>2, <1>3 DEF Answer

LEMMA BreakTyped ==
  ASSUME Typed, Inv, NEW c \in Slots, Break(c)
  PROVE  Typed'
<1> DEFINE t == calls[c].tab
           k == [calls[c] EXCEPT !.ans = Refusal]
           rest == [calls EXCEPT ![c] = Gone(calls[c])]
<1>1. t \in Tabs /\ \A d \in Slots : DOMAIN calls[d] = CallFields /\ CallTyped(calls[d])
  BY DEF Break, Inv, CallShapes, Typed, CallsTyped
<1>2. DOMAIN k = CallFields /\ CallTyped(k)
  <2>1. Given(calls[c], Refusal)
    BY DEF Given, Refusal
  <2> QED
    BY <1>1, <2>1, AnsweredTyped
<1>3. DOMAIN Gone(calls[c]) = CallFields /\ CallTyped(Gone(calls[c]))
  BY <1>1, GoneShape, LeftTyped
<1>4. DOMAIN rest = Slots /\ \A d \in Slots : DOMAIN rest[d] = CallFields /\ CallTyped(rest[d])
  BY <1>1, <1>3 DEF Inv, Shapes
<1>5. Continue(t, c, k, rest) /\ Abandon(t)
  BY DEF Break
<1> HIDE DEF t, k, rest
<1> QED
  BY <1>1, <1>2, <1>4, <1>5, ContinueTyped

LEMMA VanishTyped ==
  ASSUME Typed, Inv, NEW c \in Slots, Vanish(c)
  PROVE  Typed'
<1>1. calls' = [calls EXCEPT ![c] = NoCall] /\ UNCHANGED <<bankVars, page, cache, token, store, contact, over, scene>>
  BY DEF Vanish, tabVars, sessionVars
<1>2. CallsTyped'
  BY <1>1, NoCallTyped DEF Typed, CallsTyped, Inv, Shapes
<1>3. RowsTyped'
  BY <1>1, StayTyped DEF Typed, RowsTyped, bankVars, paymentVars
<1>4. TabsTyped'
  BY <1>1 DEF Typed, TabsTyped, Reachable
<1> QED
  BY <1>1, <1>2, <1>3, <1>4 DEF Typed

LEMMA AgeTyped ==
  ASSUME Typed, NEW b \in Payees, Age(b)
  PROVE  Typed' /\ PayeeNext
<1>1. Ripen(b) /\ UNCHANGED <<pay, suspended, calls, page, cache, token, store, contact, over, scene>>
  BY DEF Age, paymentVars, tabVars, sessionVars
<1>2. RowsTyped'
  BY <1>1, RipenTyped DEF Typed, RowsTyped
<1>3. TabsTyped' /\ CallsTyped'
  BY <1>1 DEF Typed, TabsTyped, Reachable, CallsTyped
<1> QED
  BY <1>1, <1>2, <1>3 DEF Typed, PayeeNext

LEMMA TypedNext ==
  Typed /\ RowsVetted /\ All /\ [Next]_vars => Typed' /\ (PayeeNext \/ UNCHANGED payeeVars)
<1> SUFFICES ASSUME Typed, RowsVetted, All, [Next]_vars
             PROVE  Typed' /\ (PayeeNext \/ UNCHANGED payeeVars)
  OBVIOUS
<1>1. Inv /\ Truth
  BY DEF All
<1>2. ASSUME NEW t \in Tabs,
             Wizards(t) \/ Modifies(t) \/ Payeeing(t) \/ Identity(t) \/ Others(t) \/ Moves(t)
      PROVE  Typed' /\ UNCHANGED payeeVars
  <2>1. Typed'
    BY <1>1, <1>2, WizardTyped, ModifyTyped, PayeeingTyped, IdentityTyped, OtherTyped, MoveTyped
  <2>2. UNCHANGED bankVars
    BY <1>2, WizardRows, ModifyRows, PayeeingRows, IdentityRows, MoveRows
  <2> QED
    BY <2>1, <2>2 DEF bankVars
<1>3. ASSUME NEW c \in Slots, Serve(c) PROVE Typed' /\ (PayeeNext \/ UNCHANGED payeeVars)
  BY <1>1, <1>3, ServeTyped
<1>4. ASSUME NEW c \in Slots, Answer(c) \/ Break(c) \/ Vanish(c) PROVE Typed' /\ UNCHANGED payeeVars
  <2>1. Typed'
    BY <1>1, <1>4, AnswerTyped, BreakTyped, VanishTyped
  <2>2. UNCHANGED bankVars
    BY <1>4, AnswerRows
  <2> QED
    BY <2>1, <2>2 DEF bankVars
<1>5. ASSUME NEW b \in Payees, Age(b) PROVE Typed' /\ PayeeNext
  BY <1>5, AgeTyped
<1>6. CASE UNCHANGED vars
  <2>1. CallsTyped'
    BY <1>6 DEF vars, Typed, CallsTyped
  <2>2. RowsTyped'
    BY <1>6, StayTyped DEF vars, Typed, RowsTyped, bankVars, paymentVars
  <2>3. TabsTyped'
    BY <1>6 DEF vars, tabVars, sessionVars, Typed, TabsTyped, Reachable
  <2> QED
    BY <1>6, <2>1, <2>2, <2>3 DEF vars, bankVars, Typed
<1> QED
  BY <1>2, <1>3, <1>4, <1>5, <1>6 DEF Next

\* What holds of the desk at all times, as far as it was needed so far.
LEMMA AlwaysTyped == Spec => [](Typed /\ RowsVetted /\ All)
<1>1. Spec => []RowsVetted
  BY RowsInit, RowsNext, PTL DEF Spec
<1>2. Init => All
  BY InvInit, TruthInit, OwnershipInit DEF All
<1>3. All /\ RowsVetted /\ [Next]_vars => All'
  BY InvNext, TruthNext, OwnershipNext DEF All
<1>4. Typed /\ RowsVetted /\ All /\ [Next]_vars => Typed'
  BY TypedNext
<1> QED
  BY <1>1, <1>2, <1>3, <1>4, TypedInit, PTL DEF Spec

\* Every variable of the desk holds values of its kind: whatever is typed, late,
\* lost or sent twice, no row gets a number, a name, an amount or a user that
\* nobody has filled in.
THEOREM DeskTyped == Spec => []TypeOK
<1>1. Typed /\ RowsVetted /\ All => TypeOK
  <2> SUFFICES ASSUME Typed, RowsVetted, All PROVE TypeOK
    OBVIOUS
  <2>1. \A n \in DOMAIN otp : otp[n] \in Challenges
    BY DEF All, Ownership, OtpTyped
  <2>2. \A c \in Slots : calls[c].tab \in Tabs \union {NoTab} /\ calls[c].as \in Users \union {NoUser}
    BY DEF All, Inv, CallShapes, Typed, CallsTyped, CallTyped, Anyone
  <2> QED
    BY <2>1, <2>2 DEF TypeOK, Challenges, Typed, RowsTyped, TabsTyped, Reachable, Anyone
<1> QED
  BY <1>1, AlwaysTyped, PTL

\* The desk changes the payees only by the operations of BeneficiariesService,
\* each with a number, a name and a list it takes: what module Beneficiaries
\* says of any order of them, it says of what the pages and the server do.
THEOREM DeskKeepsPayees == Spec => [][PayeeNext]_payeeVars
<1>1. Typed /\ RowsVetted /\ All /\ [Next]_vars => [PayeeNext]_payeeVars
  BY TypedNext
<1> QED
  BY <1>1, AlwaysTyped, PTL DEF Spec

-----------------------------------------------------------------------------
(* The cooling period, while every user waits for each answer.             *)

Waited == \A t \in Tabs : ~over[t]

\* Of a row: a big payment to a payee still cooling, which no authorizer has
\* released; and one that has been posted like that.
Ripe(row) == row.cool /\ ~row.approved
Slipped(row) == row.status = "COMPLETED" /\ Ripe(row)

\* What may still post p: a dialog that takes its code, a submit on its way to
\* the server, and the answer that opens such a dialog.
Armed(pg, p) ==
  \/ pg.at = "initiate" /\ pg.open /\ pg.draft = p
  \/ pg.at = "modify" /\ pg.send = p /\ Challenged(pg.conf.outcome)
Backed(k, p) ==
  /\ k.on = p
  /\ \/ k.kind = "submit" /\ k.ans = Waiting
     \/ k.kind = "confirm" /\ Ok(k) /\ Challenged(k.ans.got.outcome)

\* The dialog that saves an edit is open while one is in flight, and no other is.
Saves(t, pg, all) ==
  pg.at = "modify" =>
    /\ pg.edit = NoPay \/ pg.send = NoPay
    /\ \A c \in Slots : all[c].tab = t /\ all[c].live /\ all[c].kind = "update" =>
         /\ pg.edit # NoPay /\ pg.saving
         /\ \A d \in Slots : all[d].tab = t /\ all[d].live /\ all[d].kind = "update" => d = c

Tidy(t) ==
  /\ Saves(t, page[t], calls)
  /\ \A p \in Payments : Ripe(pay[p]) =>
       ~Armed(page[t], p) /\ \A c \in Slots : calls[c].tab = t => ~Backed(calls[c], p)

\* Of a document that is gone only a resend is left to be served.
Orphans == \A c \in Slots : calls[c].tab = NoTab /\ calls[c].ans = Waiting => calls[c].kind = "resend"

Cooled == \A p \in Payments : ~Slipped(pay[p])

\* Where every user waits: no payment has slipped through, and of one that could
\* if it were submitted now, no dialog is armed and no request is on its way.
Cool == Waited => Orphans /\ Cooled /\ \A t \in Tabs : Tidy(t)

\* At most one tab of a scene reaches the pages that send and edit payments.
MakerPages == {"initiate", "modify"}
OneMaker ==
  \A s \in Scenes, t \in Tabs, u \in Tabs :
    MakerPages \intersect s.reach[t] # {} /\ MakerPages \intersect s.reach[u] # {} => t = u

-----------------------------------------------------------------------------
(* The server.                                                             *)

\* The 45 points of a payee still cooling, and the 5 everybody gets, are HIGH.
LEMMA CoolingIsHeld ==
  ASSUME NEW p, NEW amount \in Int, NEW v \in Assessments(p, amount), StillCooling(p, amount, v)
  PROVE  v.level \in {"HIGH", "CRITICAL"}
<1>1. PICK count \in {1, 9, 21}, dear \in BOOLEAN : v \in Verdicts(Event(p, amount, count, dear), ModelOn)
  BY DEF Assessments
<1> DEFINE e == Event(p, amount, count, dear)
<1>2. v = [level |-> Heuristic(e), by |-> "heuristic"]
  BY <1>1 DEF Verdicts, StillCooling
<1>3. e.age = "new" /\ e.amount = amount /\ e.count = count /\ amount > 50000
  BY DEF Event, StillCooling
<1> HIDE DEF e
<1>4. Cooling(e) = 45
  BY <1>3 DEF Cooling, Big
<1>5. Velocity(e) \in {0, 20, 70}
  BY DEF Velocity
<1>6. Score(e) \in Int /\ Score(e) >= 50
  BY <1>4, <1>5, <1>3 DEF Score
<1>7. Heuristic(e) \in {"HIGH", "CRITICAL"}
  BY <1>6 DEF Heuristic, BandOf
<1> QED
  BY <1>2, <1>7

\* A confirmation that is answered with a challenge has not found the payee cooling.
LEMMA ConfirmCools ==
  ASSUME RowsTyped, NEW c, NEW p \in Payments, calls[c].on = p, Confirm(c)
  PROVE  /\ \A q \in Payments : q # p => pay'[q] = pay[q]
         /\ pay'[p] = pay[p] \/ ~Slipped(pay'[p])
         /\ \E a : Reply(c, a) /\ (a.is = "done" /\ Challenged(a.got.outcome) => ~Ripe(pay'[p]))
<1>0. pay[p] \in PaymentRows /\ DOMAIN pay = Payments
  BY DEF RowsTyped
<1>1. CASE Refuse(c)
  BY <1>1 DEF Refuse, bankVars, paymentVars, Refusal
<1>2. CASE pay[p].approved /\ Challenge(c, p, "OTP") /\ UNCHANGED pay
  <2>1. \E a : Reply(c, a)
    BY <1>2 DEF Challenge
  <2> QED
    BY <1>2, <2>1 DEF Ripe
<1>3. CASE UNCHANGED pay /\ Reply(c, Refusal)
  BY <1>3 DEF Refusal
<1>4. CASE pay[p].status \in Editable /\ ~pay[p].approved
  <2>1. PICK v \in Assessments(p, pay[p].amount), status \in Editable \union {"CHALLENGED", "BLOCKED"} :
          /\ pay' = [pay EXCEPT ![p] =
               [@ EXCEPT !.status = status, !.cool = StillCooling(p, pay[p].amount, v)]]
          /\ \/ \E outcome \in {"OTP", "CHALLENGE"} :
                  Challenge(c, p, outcome) /\ Decide(v.level) \in {"EXECUTE", "CHALLENGE"}
             \/ \E outcome \in {"HELD", "BLOCKED"} : Verdict(c, outcome)
             \/ Reply(c, Refusal)
    BY <1>1, <1>4 DEF Confirm, Editable
  <2>2. pay[p].amount \in Int
    <3>1. pay[p].amount \in Amounts \union {0}
      BY <1>0 DEF PaymentRows
    <3>2. Amounts \subseteq Nat
      BY BankAssumption
    <3>3. \A a \in Amounts \union {0} : a \in Int
      BY <3>2
    <3> QED
      BY <3>1, <3>3
  <2>3. StillCooling(p, pay[p].amount, v) => Decide(v.level) \in {"HOLD", "BLOCK"}
    <3>1. SUFFICES ASSUME StillCooling(p, pay[p].amount, v) PROVE Decide(v.level) \in {"HOLD", "BLOCK"}
      OBVIOUS
    <3>2. v.level \in {"HIGH", "CRITICAL"}
      BY <2>2, <3>1, CoolingIsHeld
    <3> QED
      BY <3>2 DEF Decide
  <2>4. /\ pay'[p].status = status /\ pay'[p].cool = StillCooling(p, pay[p].amount, v)
        /\ \A q \in Payments : q # p => pay'[q] = pay[q]
    BY <1>0, <2>1 DEF PaymentRows
  <2>5. ~Slipped(pay'[p])
    BY <2>1, <2>4 DEF Slipped, Editable
  <2>6. \E a : Reply(c, a) /\ (a.is = "done" /\ Challenged(a.got.outcome) => ~Ripe(pay'[p]))
    <3>1. ASSUME NEW outcome, Challenge(c, p, outcome), Decide(v.level) \in {"EXECUTE", "CHALLENGE"}
          PROVE  (\E a : Reply(c, a)) /\ ~Ripe(pay'[p])
      BY <2>3, <2>4, <3>1 DEF Challenge, Ripe
    <3>2. ASSUME NEW outcome \in {"HELD", "BLOCKED"}, Verdict(c, outcome)
          PROVE  Reply(c, Done([outcome |-> outcome, otp |-> 0])) /\ ~Challenged(outcome)
      BY <3>2 DEF Verdict, Challenged
    <3>3. ASSUME NEW outcome PROVE Done([outcome |-> outcome, otp |-> 0]).got.outcome = outcome
      BY DEF Done
    <3>4. Refusal.is # "done"
      BY DEF Refusal
    <3> QED
      BY <2>1, <3>1, <3>2, <3>3, <3>4
  <2> QED
    BY <2>4, <2>5, <2>6
<1> QED
  BY <1>1, <1>2, <1>3, <1>4 DEF Confirm

\* An edit or a confirmation makes a payment ripe, a submit posts one, and
\* nothing else does.
Owed(c, q) ==
  /\ Ripe(pay'[q]) => Ripe(pay[q]) \/ (calls[c].kind \in {"update", "confirm"} /\ calls[c].on = q)
  /\ Slipped(pay'[q]) => Slipped(pay[q]) \/ (calls[c].kind = "submit" /\ calls[c].on = q /\ Ripe(pay[q]))

LEMMA HandleOwes ==
  ASSUME RowsTyped, NEW c, Honest(pay, suspended, calls[c]), Handle(c), NEW q \in Payments
  PROVE  Owed(c, q)
<1> DEFINE p == calls[c].on
<1>0. DOMAIN pay = Payments /\ \A x \in Payments : DOMAIN pay[x] = PaymentFields
  BY DEF RowsTyped, PaymentRows, PaymentFields
<1>1. CASE pay'[q] = pay[q]
  BY <1>1 DEF Owed
<1>2. CASE calls[c].kind = "initiate"
  <2>1. Initiate(c)
    BY <1>2 DEF Handle
  <2>2. CASE q = p /\ ~UNCHANGED bankVars
    <3>1. pay'[q] = [NoPayment EXCEPT !.status = "NEW", !.amount = calls[c].with.amount,
                       !.to = calls[c].with.to, !.named = payee[calls[c].with.to].number]
      BY <1>0, <2>1, <2>2 DEF Initiate, Refuse
    <3>2. ~pay'[q].cool
      BY <3>1 DEF NoPayment
    <3> QED
      BY <3>2 DEF Owed, Ripe, Slipped
  <2>3. CASE q # p \/ UNCHANGED bankVars
    <3>1. pay'[q] = pay[q]
      BY <1>0, <2>1, <2>3 DEF Initiate, Refuse, bankVars, paymentVars
    <3> QED
      BY <1>1, <3>1
  <2> QED
    BY <2>2, <2>3
<1>3. CASE calls[c].kind = "confirm"
  <2>1. Confirm(c) /\ p \in Payments
    BY <1>3 DEF Handle, Honest
  <2>2. pay'[q] = pay[q] \/ (q = p /\ ~Slipped(pay'[q]))
    BY <2>1, ConfirmCools
  <2> QED
    BY <1>1, <1>3, <2>2 DEF Owed
<1>4. CASE calls[c].kind = "submit"
  <2>1. Submit(c) /\ p \in Payments
    BY <1>4 DEF Handle, Honest
  <2>2. ASSUME NEW status \in {"HELD", "COMPLETED", "PROCESSING"}, pay[p].status \in Submittable,
               Settled(p, status), q = p
        PROVE  Owed(c, q)
    <3>1. pay'[q].status = status /\ pay'[q].cool = pay[q].cool /\ pay'[q].approved = pay[q].approved
      BY <1>0, <2>2 DEF Settled, PaymentFields
    <3> QED
      BY <1>4, <2>2, <3>1 DEF Owed, Ripe, Slipped, Submittable
  <2>3. CASE \E status \in {"HELD", "COMPLETED", "PROCESSING"} :
               pay[p].status \in Submittable /\ Settled(p, status)
    <3>1. CASE q = p
      BY <2>2, <2>3, <3>1
    <3>2. CASE q # p
      <4>1. pay'[q] = pay[q]
        BY <1>0, <2>3, <3>2 DEF Settled
      <4> QED
        BY <1>1, <4>1
    <3> QED
      BY <3>1, <3>2
  <2>4. CASE UNCHANGED pay
    BY <1>1, <2>4
  <2> QED
    BY <2>1, <2>3, <2>4 DEF Submit, Refuse, bankVars, paymentVars
<1>5. CASE calls[c].kind = "update"
  <2>1. Update(c)
    BY <1>5 DEF Handle
  <2>2. CASE q = p /\ pay[p].status \in Editable
    <3>1. pay'[q].status = pay[q].status
      BY <1>0, <2>1, <2>2 DEF Update, Refuse, bankVars, paymentVars, PaymentFields
    <3> QED
      BY <1>5, <2>2, <3>1 DEF Owed, Slipped, Editable
  <2>3. CASE q # p \/ pay[p].status \notin Editable
    <3>1. pay'[q] = pay[q]
      BY <1>0, <2>1, <2>3 DEF Update, Refuse, bankVars, paymentVars
    <3> QED
      BY <1>1, <3>1
  <2> QED
    BY <2>2, <2>3
<1>6. CASE Remove(c) \/ Review(c)
  <2>1. \/ pay'[q] = pay[q]
        \/ pay'[q] = [pay[q] EXCEPT !.status = "NEW", !.approved = TRUE]
        \/ \E status \in {"DELETED", "REJECTED", "NEW"} : pay'[q] = [pay[q] EXCEPT !.status = status]
    BY <1>0, <1>6 DEF Remove, Review, Refuse, bankVars, paymentVars
  <2>2. \/ pay'[q] = pay[q]
        \/ pay'[q].status # "COMPLETED" /\ pay'[q].approved
        \/ /\ pay'[q].status # "COMPLETED" /\ pay'[q].cool = pay[q].cool
           /\ pay'[q].approved = pay[q].approved
    BY <1>0, <2>1 DEF PaymentFields
  <2> QED
    BY <1>1, <2>2 DEF Owed, Ripe, Slipped
<1>7. CASE \/ KeepPayee(c) \/ ChangePayees(c) \/ Resend(c) \/ FetchName(c) \/ Report(c) \/ Score1(c)
           \/ SendCode(c) \/ Recover(c) \/ ChangeOwn(c) \/ SignIn(c)
  <2>1. UNCHANGED pay
    BY <1>7 DEF KeepPayee, ChangePayees, Resend, FetchName, Report, Score1, SendCode, Recover,
       ChangeOwn, SignIn, Refuse, bankVars, paymentVars
  <2> QED
    BY <1>1, <2>1
<1> QED
  BY <1>2, <1>3, <1>4, <1>5, <1>6, <1>7 DEF Handle

-----------------------------------------------------------------------------
(* The pages.                                                              *)

LEMMA WaitedBefore == Heeded /\ Waited' => Waited
  BY DEF Waited, Heeded

\* A step of the tab t changes its page and its requests, and no row.
LEMMA CoolStep ==
  ASSUME Cool, NEW t \in Tabs, Heeded, UNCHANGED pay,
         \A u \in Tabs : u # t => page'[u] = page[u],
         \A c \in Slots : calls'[c] = calls[c] \/ calls'[c].tab \in {t, NoTab},
         Waited' => Orphans' /\ Tidy(t)'
  PROVE  Cool'
<1>1. ASSUME Waited' PROVE Orphans' /\ Cooled' /\ \A u \in Tabs : Tidy(u)'
  <2>1. Waited
    BY <1>1, WaitedBefore
  <2>2. Cooled'
    BY <2>1 DEF Cool, Cooled
  <2>3. ASSUME NEW u \in Tabs, u # t PROVE Tidy(u)'
    <3>1. Tidy(u) /\ page'[u] = page[u]
      BY <2>1, <2>3 DEF Cool
    <3>2. \A c \in Slots : calls'[c].tab = u => calls'[c] = calls[c]
      BY <2>3, BrowserAssumption
    <3> QED
      BY <3>1, <3>2 DEF Tidy, Saves
  <2> QED
    BY <1>1, <2>2, <2>3
<1> QED
  BY <1>1 DEF Cool

\* The page pg of t arms nothing ripe.
Quiet(t, pg) ==
  Saves(t, pg, calls) /\ \A p \in Payments : Ripe(pay[p]) => ~Armed(pg, p)

LEMMA CoolIsQuiet ==
  ASSUME Cool, Waited, NEW t \in Tabs
  PROVE  Orphans /\ Tidy(t) /\ Quiet(t, page[t])
  BY DEF Cool, Tidy, Quiet

LEMMA TurnCools ==
  ASSUME Cool, All, NEW t \in Tabs, NEW pg, Turn(t, pg), Heeded, Waited /\ Waited' => Quiet(t, pg)
  PROVE  Cool'
<1>1. /\ page'[t] = pg /\ \A u \in Tabs : u # t => page'[u] = page[u]
      /\ UNCHANGED <<pay, calls>>
  BY DEF Turn, All, Inv, Shapes, bankVars, paymentVars
<1>2. ASSUME Waited' PROVE Orphans' /\ Tidy(t)'
  <2>1. Waited
    BY <1>2, WaitedBefore
  <2>2. Orphans /\ Tidy(t) /\ Quiet(t, pg)
    BY <1>2, <2>1, CoolIsQuiet
  <2>3. Orphans'
    BY <1>1, <2>2 DEF Orphans
  <2> QED
    BY <1>1, <2>2, <2>3 DEF Tidy, Quiet
<1> QED
  BY <1>1, <1>2, CoolStep

LEMMA AskCools ==
  ASSUME Cool, All, NEW t \in Tabs, NEW pg, NEW kind, NEW on, NEW with, Ask(t, pg, kind, on, with), Heeded,
         Waited /\ Waited' =>
           /\ Quiet(t, pg)
           /\ kind = "submit" => \A p \in Payments : on = p => ~Ripe(pay[p])
           /\ kind = "update" => /\ pg.edit # NoPay /\ pg.saving
                                 /\ \A c \in Slots : Mine(t, c) => calls[c].kind # "update"
  PROVE  Cool'
<1> DEFINE new == [tab |-> t, kind |-> kind, on |-> on, with |-> with,
                   as |-> token[t], live |-> TRUE, ans |-> Waiting]
<1>1. /\ page'[t] = pg /\ \A u \in Tabs : u # t => page'[u] = page[u]
      /\ UNCHANGED pay
  BY DEF Ask, All, Inv, Shapes, bankVars, paymentVars
<1>2. PICK x : calls' = [calls EXCEPT ![x] = new]
  BY DEF Ask
<1>3. /\ new.tab = t /\ new.kind = kind /\ new.on = on /\ new.live /\ new.ans.is = "waiting"
      /\ ~Ok(new)
  BY DEF Ok, Waiting
<1> HIDE DEF new
<1>4. /\ DOMAIN calls' = Slots /\ \A c \in Slots : c # x => calls'[c] = calls[c]
      /\ x \in Slots => calls'[x] = new
  BY <1>2 DEF All, Inv, Shapes
<1>5. ASSUME Waited' PROVE Orphans' /\ Tidy(t)'
  <2>1. Waited
    BY <1>5, WaitedBefore
  <2>2. /\ Orphans /\ Tidy(t) /\ Quiet(t, pg)
        /\ kind = "submit" => \A p \in Payments : on = p => ~Ripe(pay[p])
        /\ kind = "update" => /\ pg.edit # NoPay /\ pg.saving
                              /\ \A c \in Slots : Mine(t, c) => calls[c].kind # "update"
    BY <1>5, <2>1, CoolIsQuiet
  <2>3. Orphans'
    BY <1>3, <1>4, <2>2, BrowserAssumption DEF Orphans
  <2>4. Saves(t, pg, calls')
    BY <1>3, <1>4, <2>2 DEF Quiet, Saves, Mine
  <2>5. \A p \in Payments : Ripe(pay[p]) => \A c \in Slots : calls'[c].tab = t => ~Backed(calls'[c], p)
    <3>1. \A p \in Payments : Ripe(pay[p]) => ~Backed(new, p)
      BY <1>3, <2>2 DEF Backed
    <3> QED
      BY <1>4, <2>2, <3>1 DEF Tidy
  <2>6. \A p \in Payments : Ripe(pay[p]) => ~Armed(pg, p)
    BY <2>2 DEF Quiet
  <2> QED
    BY <1>1, <2>3, <2>4, <2>5, <2>6 DEF Tidy
<1>6. \A c \in Slots : calls'[c] = calls[c] \/ calls'[c].tab \in {t, NoTab}
  BY <1>3, <1>4
<1> QED
  BY <1>1, <1>5, <1>6, CoolStep

\* The pages of which no payment is sent.
LEMMA QuietAside ==
  ASSUME NEW t, NEW pg, pg.at \notin MakerPages
  PROVE  Quiet(t, pg)
  BY DEF Quiet, Saves, Armed, MakerPages

LEMMA TurnAsideCools ==
  ASSUME Cool, All, NEW t \in Tabs, NEW pg, Turn(t, pg), Heeded, pg.at \notin MakerPages
  PROVE  Cool'
  BY TurnCools, QuietAside

LEMMA AskAsideCools ==
  ASSUME Cool, All, NEW t \in Tabs, NEW pg, NEW kind, NEW on, NEW with, Ask(t, pg, kind, on, with), Heeded,
         pg.at \notin MakerPages, kind \notin {"submit", "update"}
  PROVE  Cool'
  BY AskCools, QuietAside

LEMMA PayeeingCools ==
  ASSUME Cool, All, NEW t \in Tabs, Payeeing(t)
  PROVE  Cool'
<1>1. "at" \in DOMAIN page[t] /\ (UNCHANGED over => Heeded) /\ (Abandon(t) => Heeded)
  BY StayHeeds, AbandonHeeds DEF All, Inv, Shapes
<1>2. CASE StartAdd(t) \/ StartEdit(t) \/ CancelPayee(t)
  BY <1>1, <1>2, TurnAsideCools DEF StartAdd, StartEdit, CancelPayee, Maintenance, MakerPages
<1>3. CASE PressFetch(t) \/ SubmitForm(t)
  BY <1>1, <1>3, AskAsideCools DEF PressFetch, SubmitForm, OnForm, MakerPages
<1>4. CASE TypeInto(t) \/ FormNext(t) \/ FormBack(t)
  BY <1>1, <1>4, TurnAsideCools DEF TypeInto, FormNext, FormBack, OnForm, MakerPages
<1>5. CASE Toggle(t) \/ OpenErase(t) \/ CloseErase(t)
  BY <1>1, <1>5, TurnAsideCools DEF Toggle, OpenErase, CloseErase, MakerPages
<1>6. CASE PressErase(t)
  BY <1>1, <1>6, AskAsideCools DEF PressErase, MakerPages
<1>7. ASSUME NEW kind \in {"activate", "refuse"}, PressActivate(t, kind) PROVE Cool'
  BY <1>1, <1>7, AskAsideCools DEF PressActivate, MakerPages
<1> QED
  BY <1>2, <1>3, <1>4, <1>5, <1>6, <1>7 DEF Payeeing

LEMMA IdentityCools ==
  ASSUME Cool, All, NEW t \in Tabs, Identity(t)
  PROVE  Cool'
<1>1. "at" \in DOMAIN page[t] /\ (UNCHANGED over => Heeded) /\ (Abandon(t) => Heeded)
  BY StayHeeds, AbandonHeeds DEF All, Inv, Shapes
<1>2. CASE RequestCode(t) \/ UseCode(t) \/ ResendCode(t)
  BY <1>1, <1>2, AskAsideCools DEF RequestCode, UseCode, ResendCode, OnRecovery, MakerPages
<1>3. CASE ChangePassword(t) \/ Generate(t) \/ ResetWithOtp(t) \/ SaveContact(t)
  BY <1>1, <1>3, AskAsideCools DEF ChangePassword, Generate, ResetWithOtp, SaveContact, MakerPages
<1>4. CASE EditContact(t) \/ CancelContact(t) \/ RequestSave(t) \/ CloseConfirm(t)
  BY <1>1, <1>4, TurnAsideCools DEF EditContact, CancelContact, RequestSave, CloseConfirm, MakerPages
<1> QED
  BY <1>2, <1>3, <1>4 DEF Identity

LEMMA OtherCools ==
  ASSUME Cool, All, NEW t \in Tabs, Others(t)
  PROVE  Cool'
<1>1. "at" \in DOMAIN page[t] /\ (UNCHANGED over => Heeded) /\ (Abandon(t) => Heeded)
  BY StayHeeds, AbandonHeeds DEF All, Inv, Shapes
<1>2. ASSUME NEW p, NEW kind \in {"release", "reject"}, PressReview(t, p, kind) PROVE Cool'
  BY <1>1, <1>2, AskAsideCools DEF PressReview, MakerPages
<1>3. CASE RunAll(t)
  <2> DEFINE q == [page[t] EXCEPT !.busy = TRUE, !.results = {}]
  <2>1. q.at = "command"
    BY <1>1, <1>3 DEF RunAll
  <2>2. Ask(t, q, "watch", Nothing, 1) /\ Heeded
    BY <1>1, <1>3 DEF RunAll
  <2> HIDE DEF q
  <2> QED
    BY <2>1, <2>2, AskAsideCools DEF MakerPages
<1>4. CASE PressReport(t) \/ PressLogin(t) \/ PressScore(t)
  BY <1>1, <1>4, AskAsideCools DEF PressReport, PressLogin, PressScore, MakerPages
<1>5. CASE ApplyPreset(t)
  <2>1. PICK i : Turn(t, [page[t] EXCEPT !.preset = i, !.result = 0])
    BY <1>5 DEF ApplyPreset
  <2> DEFINE q == [page[t] EXCEPT !.preset = i, !.result = 0]
  <2>2. q.at = "console" /\ Turn(t, q) /\ Heeded
    BY <1>1, <1>5, <2>1 DEF ApplyPreset
  <2> HIDE DEF q
  <2> QED
    BY <2>2, TurnAsideCools DEF MakerPages
<1> QED
  BY <1>2, <1>3, <1>4, <1>5 DEF Others

\* Of the wizard only its modal sends a payment.
LEMMA WizardCools ==
  ASSUME Cool, All, NEW t \in Tabs, Wizards(t)
  PROVE  Cool'
<1> DEFINE pg == page[t]
<1>1. CASE pg.at # "initiate"
  BY <1>1 DEF Wizards, PickMode, LeaveMode, CancelForm, PressNext, BackToForm, PressConfirm,
     PressSubmit, PressResend, CloseModal, OnWizard
<1>2. CASE pg.at = "initiate"
  <2>1. DOMAIN pg = DOMAIN Wizard
    BY <1>2 DEF All, Truth, PagesSound, Sound
  <2>2. ASSUME NEW q, q.at = "initiate", q.open => pg.open /\ q.draft = pg.draft, Waited
        PROVE  Quiet(t, q)
    <3>1. \A p \in Payments : Ripe(pay[p]) => ~Armed(pg, p)
      BY <2>2, CoolIsQuiet DEF Quiet
    <3>2. \A p \in Payments : Armed(q, p) => Armed(pg, p)
      BY <1>2, <2>2 DEF Armed
    <3> QED
      BY <2>2, <3>1, <3>2 DEF Quiet, Saves
  <2>3. (UNCHANGED over => Heeded) /\ (Abandon(t) => Heeded)
    BY StayHeeds, AbandonHeeds DEF All
  <2>4. ASSUME NEW q, Turn(t, q), Heeded, q.at = "initiate", q.open => pg.open /\ q.draft = pg.draft
        PROVE  Cool'
    <3>1. Waited => Quiet(t, q)
      BY <2>2, <2>4
    <3> HIDE DEF pg
    <3> QED
      BY <2>4, <3>1, TurnCools
  <2>5. CASE PickMode(t) \/ BackToForm(t) \/ CloseModal(t)
    BY <1>2, <2>1, <2>3, <2>4, <2>5 DEF PickMode, BackToForm, CloseModal, Wizard
  <2>6. ASSUME NEW q, DOMAIN q = DOMAIN Wizard, q.at = "initiate", ~q.open
        PROVE  Emptied(q).at = "initiate" /\ ~Emptied(q).open
    <3>1. Emptied(q).open = q.open
      BY <2>6 DEF Emptied, Wizard
    <3> QED
      BY <2>6, <3>1 DEF Emptied, Wizard
  <2>7. CASE LeaveMode(t)
    <3> DEFINE q == [pg EXCEPT !.mode = FALSE]
    <3>1. ~pg.open /\ Turn(t, Emptied(q)) /\ Abandon(t)
      BY <2>7 DEF LeaveMode, OnWizard
    <3>2. DOMAIN q = DOMAIN Wizard /\ q.at = "initiate" /\ q.open = pg.open
      BY <1>2, <2>1 DEF Wizard
    <3> HIDE DEF q
    <3> QED
      BY <2>3, <2>4, <2>6, <3>1, <3>2
  <2>8. CASE CancelForm(t)
    <3>1. ~pg.open /\ Turn(t, Emptied(pg)) /\ Abandon(t)
      BY <2>8 DEF CancelForm, OnWizard
    <3> QED
      BY <1>2, <2>1, <2>3, <2>4, <2>6, <3>1
  <2> DEFINE q == [pg EXCEPT !.busy = TRUE]
  <2>9. q.at = "initiate" /\ q.draft = pg.draft /\ q.open = pg.open
    BY <1>2, <2>1 DEF Wizard
  <2>10. Waited => Quiet(t, q) /\ Quiet(t, pg)
    BY <1>2, <2>2, <2>9
  <2> HIDE DEF q
  <2>11. CASE PressNext(t)
    <3>1. PICK p, with : Ask(t, q, "initiate", p, with)
      BY <2>11 DEF PressNext, q
    <3>2. Heeded
      BY <2>3, <2>11 DEF PressNext
    <3> QED
      BY <2>10, <3>1, <3>2, AskCools
  <2>12. CASE PressConfirm(t)
    <3>1. Ask(t, q, "confirm", pg.draft, Nothing) /\ UNCHANGED over
      BY <2>12 DEF PressConfirm, q
    <3> HIDE DEF pg
    <3> QED
      BY <2>3, <2>10, <3>1, AskCools
  <2>13. CASE PressSubmit(t)
    <3>1. Ask(t, q, "submit", pg.draft, Submission(pg)) /\ UNCHANGED over /\ pg.open
      BY <2>13 DEF PressSubmit, q
    <3>2. Waited => \A p \in Payments : pg.draft = p => ~Ripe(pay[p])
      BY <1>2, <2>10, <3>1 DEF Quiet, Armed
    <3> HIDE DEF pg
    <3> QED
      BY <2>3, <2>10, <3>1, <3>2, AskCools
  <2>14. CASE PressResend(t)
    <3>1. Ask(t, pg, "resend", Nothing, pg.conf.otp) /\ UNCHANGED over
      BY <2>14 DEF PressResend
    <3> HIDE DEF pg
    <3> QED
      BY <2>3, <2>10, <3>1, AskCools
  <2> QED
    BY <2>5, <2>7, <2>8, <2>11, <2>12, <2>13, <2>14 DEF Wizards
<1> QED
  BY <1>1, <1>2

\* Of the rows only a dialog with a challenge sends a payment, and while that is
\* open none is edited.
LEMMA ModifyCools ==
  ASSUME Cool, All, NEW t \in Tabs, Modifies(t)
  PROVE  Cool'
<1> DEFINE pg == page[t]
<1>1. CASE pg.at # "modify"
  BY <1>1 DEF Modifies, OpenSend, OpenEdit, OpenDelete, SubmitSend, CloseSend, SaveEdit, CloseEdit,
     PressDelete, CloseDelete, OnRows
<1>2. CASE pg.at = "modify"
  <2>1. DOMAIN pg = DOMAIN Dialogs /\ pg.send \in Payments \union {NoPay}
    BY <1>2 DEF All, Truth, PagesSound, Sound
  <2>2. ASSUME NEW q, q.at = "modify", Waited,
               Challenged(q.conf.outcome) => q.send = pg.send /\ q.conf = pg.conf,
               Saves(t, q, calls)
        PROVE  Quiet(t, q)
    <3>1. \A p \in Payments : Ripe(pay[p]) => ~Armed(pg, p)
      BY <2>2, CoolIsQuiet DEF Quiet
    <3>2. \A p \in Payments : Armed(q, p) => Armed(pg, p)
      BY <1>2, <2>2 DEF Armed
    <3> QED
      BY <2>2, <3>1, <3>2 DEF Quiet
  <2>3. (UNCHANGED over => Heeded) /\ (Abandon(t) => Heeded)
    BY StayHeeds, AbandonHeeds DEF All
  <2>4. Waited => Quiet(t, pg) /\ Saves(t, pg, calls)
    BY CoolIsQuiet DEF Quiet
  <2>5. Waited => /\ pg.edit = NoPay \/ pg.send = NoPay
                  /\ \A c \in Slots : Mine(t, c) /\ calls[c].kind = "update" => pg.edit # NoPay /\ pg.saving
    BY <1>2, <2>4 DEF Saves, Mine
  <2>6. Abandon(t) /\ Waited' => \A c \in Slots : ~Mine(t, c)
    BY Abandoned DEF Waited
  <2>7. ASSUME NEW q, q.at = "modify", q.edit = pg.edit, q.saving = pg.saving,
               q.send \in {pg.send, NoPay}
        PROVE  Waited => Saves(t, q, calls)
    BY <1>2, <2>4, <2>7 DEF Saves
  <2>8. ASSUME NEW q, q.at = "modify", q.edit = NoPay \/ q.send = NoPay,
               \A c \in Slots : Mine(t, c) => calls[c].kind # "update"
        PROVE  Saves(t, q, calls)
    BY <2>8 DEF Saves, Mine
  <2>9. ASSUME NEW p, OpenSend(t, p) PROVE Cool'
    <3> DEFINE q == [pg EXCEPT !.send = p, !.conf = NoConf, !.done = NoShown, !.busy = TRUE]
    <3>1. q.at = "modify" /\ q.edit = pg.edit /\ q.conf = NoConf /\ q.send = p
      BY <1>2, <2>1 DEF Dialogs
    <3>2. Ask(t, q, "confirm", p, Nothing) /\ UNCHANGED over /\ pg.edit = NoPay
      BY <1>2, <2>9 DEF OpenSend, OnRows, Covered
    <3> HIDE DEF q
    <3>3. ASSUME Waited PROVE Saves(t, q, calls)
      BY <2>5, <2>8, <3>1, <3>2, <3>3
    <3>4. ~Challenged(q.conf.outcome)
      BY <3>1 DEF Challenged, NoConf
    <3>5. Waited => Quiet(t, q)
      BY <2>2, <3>1, <3>3, <3>4
    <3> QED
      BY <2>3, <3>2, <3>5, AskCools
  <2>10. ASSUME NEW p, OpenEdit(t, p) PROVE Cool'
    <3> DEFINE q == [pg EXCEPT !.edit = p]
    <3>1. q.at = "modify" /\ q.conf = pg.conf /\ q.send = pg.send
      BY <1>2, <2>1 DEF Dialogs
    <3>2. Turn(t, q) /\ UNCHANGED over /\ pg.edit = NoPay /\ pg.send = NoPay
      BY <1>2, <2>10 DEF OpenEdit, OnRows, Covered
    <3> HIDE DEF q
    <3>3. ASSUME Waited PROVE Saves(t, q, calls)
      BY <2>5, <2>8, <3>1, <3>2, <3>3
    <3>4. Waited => Quiet(t, q)
      BY <2>2, <3>1, <3>3
    <3> QED
      BY <2>3, <3>2, <3>4, TurnCools
  <2>11. ASSUME NEW q, Turn(t, q), Heeded, q.at = "modify", q.edit = pg.edit, q.saving = pg.saving,
                (q.send = pg.send /\ q.conf = pg.conf) \/ (q.send = NoPay /\ q.conf = NoConf)
         PROVE  Cool'
    <3>1. Challenged(q.conf.outcome) => q.send = pg.send /\ q.conf = pg.conf
      BY <2>11 DEF Challenged, NoConf
    <3>2. Waited => Quiet(t, q)
      BY <2>2, <2>7, <2>11, <3>1
    <3> HIDE DEF pg
    <3> QED
      BY <2>11, <3>2, TurnCools
  <2>12. ASSUME NEW p, OpenDelete(t, p) PROVE Cool'
    BY <1>2, <2>1, <2>3, <2>11, <2>12 DEF OpenDelete, Dialogs
  <2>13. CASE CloseDelete(t)
    BY <1>2, <2>1, <2>3, <2>11, <2>13 DEF CloseDelete, Dialogs
  <2>14. CASE CloseSend(t)
    <3> DEFINE q == [pg EXCEPT !.send = NoPay, !.conf = NoConf, !.done = NoShown]
    <3>1. /\ q.at = "modify" /\ q.edit = pg.edit /\ q.saving = pg.saving
          /\ q.send = NoPay /\ q.conf = NoConf
      BY <1>2, <2>1 DEF Dialogs
    <3>2. Turn(t, q) /\ Heeded
      BY <2>3, <2>14 DEF CloseSend
    <3> HIDE DEF q
    <3> QED
      BY <2>11, <3>1, <3>2
  <2>15. CASE CloseEdit(t)
    <3> DEFINE q == [pg EXCEPT !.edit = NoPay]
    <3>1. q.at = "modify" /\ q.edit = NoPay /\ q.send = pg.send /\ q.conf = pg.conf
      BY <1>2, <2>1 DEF Dialogs
    <3>2. Turn(t, q) /\ Heeded /\ (Waited' => \A c \in Slots : ~Mine(t, c))
      BY <2>3, <2>6, <2>15 DEF CloseEdit
    <3> HIDE DEF q
    <3>3. ASSUME Waited, Waited' PROVE Quiet(t, q)
      <4>1. Saves(t, q, calls)
        BY <2>8, <3>1, <3>2, <3>3
      <4> QED
        BY <2>2, <3>1, <3>3, <4>1
    <3> QED
      BY <3>2, <3>3, TurnCools
  <2>16. CASE SubmitSend(t)
    <3> DEFINE q == [pg EXCEPT !.busy = TRUE]
    <3>1. /\ q.at = "modify" /\ q.edit = pg.edit /\ q.saving = pg.saving
          /\ q.send = pg.send /\ q.conf = pg.conf
      BY <1>2, <2>1 DEF Dialogs
    <3>2. Ask(t, q, "submit", pg.send, Submission(pg)) /\ UNCHANGED over /\ Challenged(pg.conf.outcome)
      BY <2>16 DEF SubmitSend
    <3> HIDE DEF q
    <3>3. Waited => Quiet(t, q)
      BY <2>2, <2>7, <3>1
    <3>4. Waited => \A p \in Payments : pg.send = p => ~Ripe(pay[p])
      BY <1>2, <2>4, <3>2 DEF Quiet, Armed
    <3> HIDE DEF pg
    <3> QED
      BY <2>3, <3>2, <3>3, <3>4, AskCools
  <2>17. CASE SaveEdit(t)
    <3> DEFINE q == [pg EXCEPT !.saving = TRUE]
    <3>1. /\ q.at = "modify" /\ q.edit = pg.edit /\ q.saving
          /\ q.send = pg.send /\ q.conf = pg.conf
      BY <1>2, <2>1 DEF Dialogs
    <3>2. PICK a : Ask(t, q, "update", pg.edit, a)
      BY <2>17 DEF SaveEdit
    <3>3. pg.edit # NoPay /\ ~pg.saving /\ UNCHANGED over
      BY <2>17 DEF SaveEdit
    <3> HIDE DEF q
    <3>4. ASSUME Waited
          PROVE  Quiet(t, q) /\ \A c \in Slots : Mine(t, c) => calls[c].kind # "update"
      <4>1. \A c \in Slots : Mine(t, c) => calls[c].kind # "update"
        BY <2>5, <3>3, <3>4
      <4>2. Saves(t, q, calls)
        BY <2>5, <2>8, <3>1, <3>4, <4>1
      <4> QED
        BY <2>2, <3>1, <3>4, <4>1, <4>2
    <3> HIDE DEF pg
    <3> QED
      BY <2>3, <3>1, <3>2, <3>3, <3>4, AskCools
  <2>18. CASE PressDelete(t)
    <3>1. Ask(t, pg, "remove", pg.del, Nothing) /\ UNCHANGED over
      BY <2>18 DEF PressDelete
    <3> HIDE DEF pg
    <3> QED
      BY <2>3, <2>4, <3>1, AskCools
  <2> QED
    BY <2>9, <2>10, <2>12, <2>13, <2>14, <2>15, <2>16, <2>17, <2>18 DEF Modifies
<1> QED
  BY <1>1, <1>2

-----------------------------------------------------------------------------
(* Leaving a page.                                                         *)

LEMMA MountedQuiet ==
  ASSUME NEW at
  PROVE  /\ \A p : ~Armed(Mounted(at), p)
         /\ Mounted(at).at = "modify" => Mounted(at).edit = NoPay
<1>1. Mounted(at).at = at
  BY MountedAt
<1>2. CASE at = "initiate"
  BY <1>2 DEF Mounted, Wizard, Armed
<1>3. CASE at = "modify"
  BY <1>3 DEF Mounted, Dialogs, Armed, NoConf, Challenged
<1> QED
  BY <1>1, <1>2, <1>3 DEF Armed

\* A new page, whose requests are only waited for by the one before.
LEMMA MountCools ==
  ASSUME Cool, All, NEW t \in Tabs, NEW at, page' = [page EXCEPT ![t] = Mounted(at)],
         UNCHANGED pay, Heeded,
         \A c \in Slots :
           \/ calls[c].tab # t /\ calls'[c] = calls[c]
           \/ calls'[c].tab = NoTab /\ (Waited' /\ calls'[c].ans = Waiting => calls'[c].kind = "resend")
           \/ /\ calls[c].tab = t /\ calls'[c].tab = t /\ ~calls'[c].live
              /\ calls'[c].kind = calls[c].kind /\ calls'[c].on = calls[c].on /\ calls'[c].ans = calls[c].ans
  PROVE  Cool'
<1>1. page'[t] = Mounted(at) /\ \A u \in Tabs : u # t => page'[u] = page[u]
  BY DEF All, Inv, Shapes
<1>2. \A c \in Slots : calls'[c] = calls[c] \/ calls'[c].tab \in {t, NoTab}
  OBVIOUS
<1>3. ASSUME Waited' PROVE Orphans' /\ Tidy(t)'
  <2>1. Orphans /\ Tidy(t)
    BY <1>3, WaitedBefore, CoolIsQuiet
  <2>2. Orphans'
    BY <1>3, <2>1, BrowserAssumption DEF Orphans
  <2>3. \A c \in Slots : calls'[c].tab = t =>
          /\ calls[c].tab = t /\ ~calls'[c].live
          /\ calls'[c].kind = calls[c].kind /\ calls'[c].on = calls[c].on /\ calls'[c].ans = calls[c].ans
    BY BrowserAssumption
  <2>4. \A p \in Payments : Ripe(pay[p]) => \A c \in Slots : calls'[c].tab = t => ~Backed(calls'[c], p)
    BY <2>1, <2>3 DEF Tidy, Backed, Ok
  <2>5. Saves(t, Mounted(at), calls')
    BY <2>3, MountedQuiet DEF Saves
  <2> QED
    BY <1>1, <2>2, <2>4, <2>5, MountedQuiet DEF Tidy
<1> QED
  BY <1>1, <1>2, <1>3, CoolStep

LEMMA PushCools ==
  ASSUME Cool, All, NEW t \in Tabs, NEW at, Push(t, at)
  PROVE  Cool'
<1>1. /\ page' = [page EXCEPT ![t] = Mounted(at)] /\ calls' = Unmounted(t, calls)
      /\ UNCHANGED pay /\ Heeded
  BY Abandoned DEF Push, bankVars, paymentVars
<1>2. ASSUME NEW c \in Slots
      PROVE  \/ calls[c].tab # t /\ calls'[c] = calls[c]
             \/ /\ calls[c].tab = t /\ calls'[c].tab = t /\ ~calls'[c].live
                /\ calls'[c].kind = calls[c].kind /\ calls'[c].on = calls[c].on
                /\ calls'[c].ans = calls[c].ans
  <2>1. DOMAIN calls[c] = CallFields
    BY DEF All, Inv, CallShapes
  <2> QED
    BY <1>1, <2>1 DEF Unmounted, CallFields
<1> QED
  BY <1>1, <1>2, MountCools

\* Of a user who waits only a resend outlives its document.
LEMMA ReloadCools ==
  ASSUME Cool, All, NEW t \in Tabs, NEW at, Reload(t, at)
  PROVE  Cool'
<1>1. /\ page' = [page EXCEPT ![t] = Mounted(at)] /\ UNCHANGED pay /\ Heeded
      /\ \A c \in Slots : calls[c].tab # t => calls'[c] = calls[c]
      /\ \A c \in Slots : calls[c].tab = t => calls'[c] = Gone(calls[c])
      /\ Waited' => \A c \in Slots : ~Mine(t, c)
  BY Abandoned DEF Reload, Discarded, bankVars, paymentVars, Waited
<1>2. ASSUME NEW c \in Slots, calls[c].tab = t
      PROVE  calls'[c].tab = NoTab /\ (Waited' /\ calls'[c].ans = Waiting => calls'[c].kind = "resend")
  <2>1. DOMAIN calls[c] = CallFields /\ calls'[c] = Gone(calls[c])
    BY <1>1, <1>2 DEF All, Inv, CallShapes
  <2>2. calls'[c].tab = NoTab
    BY <2>1, GoneShape
  <2>3. calls'[c].ans = Waiting => calls'[c].kind = calls[c].kind
    BY <2>1 DEF Gone, NoCall, Waiting, CallFields
  <2>4. Waited' => calls[c].kind = "resend"
    BY <1>1, <1>2, WaitedBefore DEF All, Inv, Awaited, Mine, Waited
  <2> QED
    BY <2>2, <2>3, <2>4
<1> QED
  BY <1>1, <1>2, MountCools

\* Nothing that Cool looks at changes.
LEMMA CoolStays == Cool /\ UNCHANGED <<pay, calls, page, over>> => Cool'
<1> SUFFICES ASSUME Cool, UNCHANGED <<pay, calls, page, over>> PROVE Cool'
  OBVIOUS
<1>1. \A t \in Tabs : Tidy(t) => Tidy(t)'
  BY DEF Tidy, Saves
<1> QED
  BY <1>1 DEF Cool, Waited, Orphans, Cooled

LEMMA MoveCools ==
  ASSUME Cool, All, NEW t \in Tabs, Moves(t)
  PROVE  Cool'
<1>1. CASE UNCHANGED <<bankVars, calls, page, over>>
  BY <1>1, CoolStays DEF bankVars, paymentVars
<1> QED
  BY <1>1, PushCools, ReloadCools DEF Moves, Visit, OpenUrl, Logout, Expire, Refresh, Bounce

-----------------------------------------------------------------------------
(* The server's answers to one maker.                                      *)

LEMMA MakerAlone ==
  ASSUME OneMaker, Typed, NEW t \in Tabs, NEW u \in Tabs,
         page[t].at \in MakerPages, page[u].at \in MakerPages
  PROVE  t = u
<1>1. page[t].at \in scene.reach[t] /\ page[u].at \in scene.reach[u] /\ scene \in Scenes
  BY DEF Typed, TabsTyped, Reachable, MakerPages
<1> QED
  BY <1>1 DEF OneMaker

\* Where a user who waits has sent, confirmed or edited a payment.
LEMMA MakerAsks ==
  ASSUME All, Waited, NEW c \in Slots, NEW t \in Tabs, calls[c].tab = t,
         calls[c].kind \in {"confirm", "submit", "update"}
  PROVE  /\ Mine(t, c) /\ page[t].at \in MakerPages
         /\ calls[c].kind = "update" => page[t].at = "modify"
         /\ calls[c].kind # "update" => Asks(otp, page[t], calls[c]) /\ calls[c].on \in Payments
<1>1. calls[c].live
  BY DEF All, Inv, Awaited, Waited
<1>2. calls[c].kind \in KindsOf(page[t].at)
  BY <1>1 DEF All, Inv, Homed
<1>3. page[t].at \in MakerPages /\ (calls[c].kind = "update" => page[t].at = "modify")
  BY <1>2 DEF KindsOf, MakerPages
<1>4. calls[c].kind # "update" => Asks(otp, page[t], calls[c]) /\ calls[c].on \in Payments
  BY <1>1 DEF All, Ownership, Dialog, Waited, Mine, Truth, CallsHonest, Honest
<1> QED
  BY <1>1, <1>3, <1>4 DEF Mine

\* Until an edit is saved the dialog that sends is shut, and nothing is on its way.
LEMMA EditAlone ==
  ASSUME OneMaker, Typed, All, Cool, Waited, NEW c \in Slots, NEW t \in Tabs, calls[c].tab = t,
         calls[c].kind = "update", NEW u \in Tabs, NEW p \in Payments
  PROVE  /\ ~Armed(page[u], p)
         /\ \A d \in Slots : calls[d].tab = u /\ calls[d].kind \in {"confirm", "submit"} => calls[d].on # p
<1>1. Mine(t, c) /\ page[t].at = "modify"
  BY MakerAsks
<1>2. page[t].edit # NoPay /\ page[t].send = NoPay
  BY <1>1, CoolIsQuiet DEF Quiet, Saves, Mine
<1>3. CASE u = t
  <2>1. ~Armed(page[u], p)
    BY <1>1, <1>2, <1>3, BankAssumption DEF Armed
  <2>2. ASSUME NEW d \in Slots, calls[d].tab = u, calls[d].kind \in {"confirm", "submit"}
        PROVE  calls[d].on # p
    <3>1. Asks(otp, page[t], calls[d]) /\ calls[d].on \in Payments
      BY <1>3, <2>2, MakerAsks
    <3>2. calls[d].on = page[t].send
      BY <1>1, <2>2, <3>1 DEF Asks
    <3> QED
      BY <1>2, <3>1, <3>2, BankAssumption
  <2> QED
    BY <2>1, <2>2
<1>4. CASE u # t
  <2>1. page[u].at \notin MakerPages
    BY <1>1, <1>4, MakerAlone DEF MakerPages
  <2>2. ~Armed(page[u], p)
    BY <2>1 DEF Armed, MakerPages
  <2>3. \A d \in Slots : calls[d].tab = u => calls[d].kind \notin {"confirm", "submit"}
    BY <2>1, MakerAsks
  <2> QED
    BY <2>2, <2>3
<1> QED
  BY <1>3, <1>4

\* Until a confirmation is answered no dialog of its tab takes a code, and nothing
\* else is on its way from it.
LEMMA ConfirmAlone ==
  ASSUME OneMaker, Typed, All, Waited, NEW c \in Slots, NEW t \in Tabs, calls[c].tab = t,
         calls[c].kind = "confirm", NEW u \in Tabs, NEW p \in Payments
  PROVE  /\ ~Armed(page[u], p)
         /\ \A d \in Slots : d # c /\ calls[d].tab = u => calls[d].kind \notin {"confirm", "submit"}
<1>1. Mine(t, c) /\ page[t].at \in MakerPages /\ Asks(otp, page[t], calls[c])
  BY MakerAsks
<1>2. CASE u = t
  <2>1. page[t].at = "initiate" => ~page[t].open
    BY <1>1 DEF Asks
  <2>2. page[t].at = "modify" => ~Challenged(page[t].conf.outcome)
    BY <1>1 DEF Asks, NoConf, Challenged
  <2>3. ASSUME NEW d \in Slots, d # c, calls[d].tab = u PROVE calls[d].kind \notin {"confirm", "submit"}
    <3>1. SUFFICES ASSUME calls[d].kind \in {"confirm", "submit"} PROVE FALSE
      OBVIOUS
    <3>2. Mine(t, d)
      BY <1>2, <2>3, <3>1, MakerAsks
    <3> QED
      BY <1>1, <2>3, <3>1, <3>2 DEF All, Ownership, Dialog, InTurn, Sole, Waited
  <2> QED
    BY <1>2, <2>1, <2>2, <2>3 DEF Armed
<1>3. CASE u # t
  <2>1. page[u].at \notin MakerPages
    BY <1>1, <1>3, MakerAlone
  <2>2. ~Armed(page[u], p)
    BY <2>1 DEF Armed, MakerPages
  <2>3. \A d \in Slots : calls[d].tab = u => calls[d].kind \notin {"confirm", "submit"}
    BY <2>1, MakerAsks
  <2> QED
    BY <2>2, <2>3
<1> QED
  BY <1>2, <1>3

LEMMA ServeCools ==
  ASSUME OneMaker, Typed, All, Cool, NEW c \in Slots, Serve(c)
  PROVE  Cool'
<1> DEFINE k == calls[c]
<1>0. /\ UNCHANGED <<page, over>> /\ DOMAIN k = CallFields /\ DOMAIN calls = Slots
      /\ k.ans = Waiting /\ RowsTyped /\ Honest(pay, suspended, calls[c])
  BY DEF Serve, ServeCall, tabVars, All, Inv, CallShapes, Shapes, Typed, Truth, CallsHonest
<1>1. \A q \in Payments : Owed(c, q)
  <2>1. CASE UNCHANGED bankVars
    BY <2>1 DEF Owed, bankVars, paymentVars
  <2> QED
    BY <1>0, <2>1, HandleOwes DEF Serve, ServeCall
<1>2. PICK a : /\ Reply(c, a)
               /\ k.kind = "confirm" /\ a.is = "done" /\ Challenged(a.got.outcome) => ~Ripe(pay'[k.on])
  <2>1. CASE Reply(c, Unauthorized)
    BY <2>1 DEF Unauthorized
  <2>2. CASE Handle(c) /\ k.kind = "confirm"
    <3>1. Confirm(c) /\ k.on \in Payments
      BY <1>0, <2>2 DEF Handle, Honest
    <3> QED
      BY <1>0, <3>1, ConfirmCools
  <2>3. CASE Handle(c) /\ k.kind # "confirm"
    BY <2>3, HandleReplies
  <2> QED
    BY <2>1, <2>2, <2>3 DEF Serve, ServeCall
<1>3. \A d \in Slots : d # c => calls'[d] = calls[d]
  BY <1>0, <1>2 DEF Reply
<1>4. \/ k.tab = NoTab /\ calls'[c] = NoCall
      \/ /\ k.tab # NoTab /\ calls'[c].tab = k.tab /\ calls'[c].live = k.live
         /\ calls'[c].kind = k.kind /\ calls'[c].on = k.on /\ calls'[c].ans = a
  <2>1. CASE k.tab = NoTab
    BY <1>0, <1>2, <2>1 DEF Reply
  <2>2. CASE k.tab # NoTab
    <3>1. calls'[c] = [k EXCEPT !.ans = a]
      BY <1>0, <1>2, <2>2 DEF Reply
    <3> QED
      BY <1>0, <2>2, <3>1 DEF CallFields
  <2> QED
    BY <2>1, <2>2
<1>5. k.tab \in Tabs \union {NoTab} /\ NoCall.tab = NoTab /\ NoCall.ans # Waiting
  BY DEF All, Inv, CallShapes, NoCall, Waiting
<1> HIDE DEF k
<1>6. ASSUME Waited' PROVE Orphans' /\ Cooled' /\ \A u \in Tabs : Tidy(u)'
  <2>1. Waited /\ Orphans /\ Cooled /\ \A u \in Tabs : Tidy(u)
    BY <1>0, <1>6 DEF Waited, Cool
  <2>2. Orphans'
    BY <1>3, <1>4, <1>5, <2>1 DEF Orphans
  <2>3. k.tab = NoTab => k.kind = "resend"
    BY <1>0, <2>1 DEF Orphans, k
  <2>4. \A q \in Payments : Ripe(pay[q]) => ~(k.kind = "submit" /\ k.on = q)
    <3>1. \A q \in Payments : k.kind = "submit" /\ k.on = q => Backed(calls[c], q)
      BY <1>0 DEF Backed, k
    <3> QED
      BY <1>5, <2>1, <2>3, <3>1 DEF Tidy, k
  <2>5. Cooled'
    BY <1>1, <2>1, <2>4 DEF Cooled, Owed, k
  <2>6. ASSUME NEW u \in Tabs, NEW p \in Payments, Ripe(pay'[p])
        PROVE  ~Armed(page[u], p) /\ \A d \in Slots : calls'[d].tab = u => ~Backed(calls'[d], p)
    <3>1. ~(k.on = p /\ k.kind = "confirm" /\ a.is = "done" /\ Challenged(a.got.outcome))
      BY <1>2, <2>6
    <3>2. CASE Ripe(pay[p])
      <4>1. ~Armed(page[u], p) /\ \A d \in Slots : calls[d].tab = u => ~Backed(calls[d], p)
        BY <2>1, <3>2 DEF Tidy
      <4>2. calls'[c].tab = u => ~Backed(calls'[c], p)
        BY <1>4, <1>5, <2>4, <3>1, <3>2, BrowserAssumption DEF Backed, Ok
      <4> QED
        BY <1>3, <4>1, <4>2
    <3>3. CASE ~Ripe(pay[p])
      <4>1. k.kind \in {"update", "confirm"} /\ k.on = p
        BY <1>1, <2>6, <3>3 DEF Owed, k
      <4>2. PICK t \in Tabs : calls[c].tab = t
        BY <1>5, <2>3, <4>1 DEF k
      <4>3. calls'[c].tab = u => ~Backed(calls'[c], p)
        BY <1>4, <1>5, <3>1, <4>1, BrowserAssumption DEF Backed, Ok
      <4>4. CASE k.kind = "update"
        <5>1. /\ ~Armed(page[u], p)
              /\ \A d \in Slots : calls[d].tab = u /\ calls[d].kind \in {"confirm", "submit"} => calls[d].on # p
          BY <2>1, <4>2, <4>4, EditAlone DEF k
        <5>2. \A d \in Slots : calls[d].tab = u => ~Backed(calls[d], p)
          BY <5>1 DEF Backed
        <5> QED
          BY <1>3, <4>3, <5>1, <5>2
      <4>5. CASE k.kind = "confirm"
        <5>1. /\ ~Armed(page[u], p)
              /\ \A d \in Slots : d # c /\ calls[d].tab = u => calls[d].kind \notin {"confirm", "submit"}
          BY <2>1, <4>2, <4>5, ConfirmAlone DEF k
        <5>2. \A d \in Slots : d # c /\ calls[d].tab = u => ~Backed(calls[d], p)
          BY <5>1 DEF Backed
        <5> QED
          BY <1>3, <4>3, <5>1, <5>2
      <4> QED
        BY <4>1, <4>4, <4>5
    <3> QED
      BY <3>2, <3>3
  <2>7. ASSUME NEW u \in Tabs PROVE Saves(u, page[u], calls')
    <3>1. \A d \in Slots : calls'[d].tab = u =>
            calls[d].tab = u /\ calls'[d].live = calls[d].live /\ calls'[d].kind = calls[d].kind
      BY <1>3, <1>4, <1>5, BrowserAssumption DEF k
    <3> QED
      BY <2>1, <3>1 DEF Tidy, Saves
  <2> QED
    BY <1>0, <2>2, <2>5, <2>6, <2>7 DEF Tidy
<1> QED
  BY <1>6 DEF Cool

-----------------------------------------------------------------------------
(* What a page makes of an answer.                                         *)

\* An answer a page waits for arms nothing that it did not arm before, but for
\* the challenge of a confirmation.
LEMMA WizardArms ==
  ASSUME NEW O, NEW pg, NEW k, pg.at = "initiate", DOMAIN pg = DOMAIN Wizard,
         k.kind \in KindsOf("initiate"), Asks(O, pg, k), NEW p, Armed(WizardAfter(pg, k), p)
  PROVE  Armed(pg, p) \/ Backed(k, p)
<1> DEFINE new == WizardAfter(pg, k)
<1>1. new.open /\ new.draft = p
  <2>1. new.at = "initiate"
    BY DEF WizardAfter, Wizard
  <2> QED
    BY <2>1 DEF Armed
<1>2. k.kind \in {"initiate", "confirm", "submit", "resend"}
  BY DEF KindsOf
<1>3. CASE k.kind = "resend" \/ ~Ok(k)
  <2>1. new.open = pg.open /\ new.draft = pg.draft
    BY <1>3 DEF WizardAfter, Wizard
  <2> QED
    BY <1>1, <2>1 DEF Armed
<1>4. CASE Ok(k) /\ k.kind = "initiate"
  <2>1. new.open = pg.open
    BY <1>4 DEF WizardAfter, Wizard
  <2> QED
    BY <1>1, <1>4, <2>1 DEF Asks
<1>5. CASE Ok(k) /\ k.kind = "submit"
  <2>1. ~new.open
    BY <1>5 DEF WizardAfter, Wizard
  <2> QED
    BY <1>1, <2>1
<1>6. CASE Ok(k) /\ k.kind = "confirm"
  <2>1. new.draft = pg.draft /\ (new.open = pg.open \/ Challenged(k.ans.got.outcome))
    BY <1>6 DEF WizardAfter, Wizard
  <2>2. k.on = pg.draft
    BY <1>6 DEF Asks
  <2> QED
    BY <1>1, <1>6, <2>1, <2>2 DEF Armed, Backed
<1> QED
  BY <1>2, <1>3, <1>4, <1>5, <1>6

LEMMA ModifyArms ==
  ASSUME NEW O, NEW pg, NEW k, pg.at = "modify", DOMAIN pg = DOMAIN Dialogs,
         k.kind \in KindsOf("modify"), Asks(O, pg, k), NEW p \in Payments, Armed(ModifyAfter(pg, k), p)
  PROVE  Armed(pg, p) \/ Backed(k, p)
<1> DEFINE new == ModifyAfter(pg, k)
<1>1. new.send = p /\ Challenged(new.conf.outcome)
  <2>1. new.at = "modify"
    BY DEF ModifyAfter, Dialogs
  <2> QED
    BY <2>1 DEF Armed
<1>2. k.kind \in {"confirm", "submit", "update", "remove"}
  BY DEF KindsOf
<1>3. CASE k.kind # "confirm"
  <2>1. new.send = pg.send /\ new.conf = pg.conf
    BY <1>2, <1>3 DEF ModifyAfter, Dialogs
  <2> QED
    BY <1>1, <2>1 DEF Armed
<1>4. CASE k.kind = "confirm" /\ ~Ok(k)
  <2>1. new.send = NoPay
    BY <1>4 DEF ModifyAfter, Dialogs
  <2> QED
    BY <1>1, <2>1, BankAssumption
<1>5. CASE k.kind = "confirm" /\ Ok(k)
  <2>1. new.send = pg.send /\ new.conf = ConfOf(k)
    BY <1>5 DEF ModifyAfter, Dialogs
  <2>2. k.on = pg.send
    BY <1>5 DEF Asks
  <2> QED
    BY <1>1, <1>5, <2>1, <2>2 DEF ConfOf, Backed
<1> QED
  BY <1>3, <1>4, <1>5

\* The dialogs that save and that send after the answer to k.
LEMMA ModifySaves ==
  ASSUME NEW pg, NEW k, pg.at = "modify", DOMAIN pg = DOMAIN Dialogs,
         k.kind \in KindsOf("modify")
  PROVE  /\ ModifyAfter(pg, k).at = "modify"
         /\ ModifyAfter(pg, k).edit \in {pg.edit, NoPay} /\ ModifyAfter(pg, k).send \in {pg.send, NoPay}
         /\ k.kind # "update" => /\ ModifyAfter(pg, k).edit = pg.edit
                                 /\ ModifyAfter(pg, k).saving = pg.saving
<1>1. k.kind \in {"confirm", "submit", "update", "remove"}
  BY DEF KindsOf
<1>2. CASE k.kind = "confirm"
  BY <1>2 DEF ModifyAfter, Dialogs
<1>3. CASE k.kind = "submit"
  BY <1>3 DEF ModifyAfter, Dialogs
<1>4. CASE k.kind = "update"
  BY <1>4 DEF ModifyAfter, Dialogs
<1>5. CASE k.kind = "remove"
  BY <1>5 DEF ModifyAfter, Dialogs
<1> QED
  BY <1>1, <1>2, <1>3, <1>4, <1>5

\* The page of t takes the answer k to its request in slot c, and waits no more.
LEMMA AfterQuiet ==
  ASSUME Cool, All, Waited, NEW t \in Tabs, NEW c \in Slots, Mine(t, c), NEW k,
         k.kind = calls[c].kind, k.on = calls[c].on, k.with = calls[c].with,
         k.ans # Waiting, Ok(k) => k = calls[c], NEW all,
         \A d \in Slots : all[d].tab = t /\ all[d].live /\ all[d].kind = "update" =>
           d # c /\ all[d] = calls[d]
  PROVE  /\ Saves(t, After(page[t], k), all)
         /\ \A p \in Payments : Ripe(pay[p]) => ~Armed(After(page[t], k), p)
<1> DEFINE pg == page[t]
<1>1. /\ "at" \in DOMAIN pg /\ (pg.at \in Public => "busy" \in DOMAIN pg)
      /\ k.kind \in KindsOf(pg.at) /\ After(pg, k).at = pg.at
  BY AfterKeeps DEF All, Inv, Shapes, Homed, Mine
<1>2. Tidy(t) /\ Asks(otp, pg, k)
  <2>1. Asks(otp, pg, calls[c])
    BY DEF All, Ownership, Dialog, Waited
  <2> QED
    BY <2>1, AsksAlike, CoolIsQuiet
<1>3. \A p \in Payments : Ripe(pay[p]) => ~Armed(pg, p) /\ ~Backed(k, p)
  <2>1. \A p : Backed(k, p) => Backed(calls[c], p)
    BY DEF Backed
  <2> QED
    BY <1>2, <2>1 DEF Tidy, Mine
<1>4. CASE pg.at = "initiate"
  <2>0. DOMAIN pg = DOMAIN Wizard
    BY <1>4 DEF All, Truth, PagesSound, Sound
  <2>1. After(pg, k) = WizardAfter(pg, k)
    BY <1>4 DEF After, Recovering
  <2>2. \A p \in Payments : Ripe(pay[p]) => ~Armed(After(pg, k), p)
    BY <1>1, <1>2, <1>3, <1>4, <2>0, <2>1, WizardArms
  <2> QED
    BY <1>1, <1>4, <2>2 DEF Saves
<1>5. CASE pg.at = "modify"
  <2>0. DOMAIN pg = DOMAIN Dialogs
    BY <1>5 DEF All, Truth, PagesSound, Sound
  <2>1. After(pg, k) = ModifyAfter(pg, k)
    BY <1>5 DEF After, Recovering
  <2>2. \A p \in Payments : Ripe(pay[p]) => ~Armed(After(pg, k), p)
    BY <1>1, <1>2, <1>3, <1>5, <2>0, <2>1, ModifyArms
  <2>3. Saves(t, After(pg, k), all)
    <3> DEFINE new == ModifyAfter(pg, k)
    <3>1. /\ new.edit \in {pg.edit, NoPay} /\ new.send \in {pg.send, NoPay}
          /\ k.kind # "update" => new.edit = pg.edit /\ new.saving = pg.saving
      BY <1>1, <1>5, <2>0, ModifySaves
    <3>2. /\ pg.edit = NoPay \/ pg.send = NoPay
          /\ \A d \in Slots : calls[d].tab = t /\ calls[d].live /\ calls[d].kind = "update" =>
               /\ pg.edit # NoPay /\ pg.saving
               /\ \A e \in Slots : calls[e].tab = t /\ calls[e].live /\ calls[e].kind = "update" => e = d
      BY <1>2, <1>5 DEF Tidy, Saves
    <3> HIDE DEF new, pg
    <3>3. k.kind = "update" => \A d \in Slots : ~(all[d].tab = t /\ all[d].live /\ all[d].kind = "update")
      BY <3>2 DEF Mine
    <3>4. Saves(t, new, all)
      BY <3>1, <3>2, <3>3 DEF Saves
    <3> QED
      BY <2>1, <3>4 DEF new
  <2> QED
    BY <2>2, <2>3
<1>6. CASE pg.at \notin MakerPages
  BY <1>1, <1>6 DEF Saves, Armed, MakerPages
<1> QED
  BY <1>4, <1>5, <1>6 DEF MakerPages

LEMMA ContinueCools ==
  ASSUME Cool, All, NEW c \in Slots, NEW t \in Tabs, NEW k, NEW rest, Continue(t, c, k, rest), Heeded,
         calls[c].tab = t, DOMAIN k = CallFields, k.tab = t, k.kind = calls[c].kind,
         k.on = calls[c].on, k.with = calls[c].with, k.live = calls[c].live,
         k.ans # Waiting, Ok(k) => k = calls[c],
         DOMAIN rest = Slots, \A d \in Slots : d # c => rest[d] = calls[d],
         rest[c].tab = NoTab, Waited' /\ rest[c].ans = Waiting => rest[c].kind = "resend"
  PROVE  Cool'
<1>0. UNCHANGED pay
  BY DEF Continue, bankVars, paymentVars
<1>1. CASE Ok(k) /\ k.kind \in {"login", "reset", "unlock"}
  <2>1. PICK at : page' = [page EXCEPT ![t] = Mounted(at)]
    BY <1>1 DEF Continue
  <2>2. calls' = Unmounted(t, rest)
    BY <1>1 DEF Continue
  <2>3. ASSUME NEW d \in Slots
        PROVE  \/ calls[d].tab # t /\ calls'[d] = calls[d]
               \/ calls'[d].tab = NoTab /\ (Waited' /\ calls'[d].ans = Waiting => calls'[d].kind = "resend")
               \/ /\ calls[d].tab = t /\ calls'[d].tab = t /\ ~calls'[d].live
                  /\ calls'[d].kind = calls[d].kind /\ calls'[d].on = calls[d].on
                  /\ calls'[d].ans = calls[d].ans
    <3>1. CASE d = c
      <4>1. calls'[d] = rest[c]
        BY <2>2, <3>1, BrowserAssumption DEF Unmounted
      <4> QED
        BY <4>1
    <3>2. CASE d # c
      <4>1. DOMAIN calls[d] = CallFields /\ rest[d] = calls[d]
        BY <3>2 DEF All, Inv, CallShapes
      <4> QED
        BY <2>2, <4>1 DEF Unmounted, CallFields
    <3> QED
      BY <3>1, <3>2
  <2> QED
    BY <1>0, <2>1, <2>3, MountCools
<1>2. CASE ~(Ok(k) /\ k.kind \in {"login", "reset", "unlock"})
  <2> DEFINE again == [k EXCEPT !.with = @ + 1, !.as = token[t], !.ans = Waiting]
  <2>1. page' = [page EXCEPT ![t] = IF k.live THEN After(page[t], k) ELSE page[t]]
    BY <1>2 DEF Continue
  <2>2. calls' = rest \/ (k.kind = "watch" /\ calls' = [rest EXCEPT ![c] = again])
    BY <1>2 DEF Continue
  <2>3. again.tab = t /\ again.kind = k.kind
    BY DEF CallFields
  <2> HIDE DEF again
  <2>4. /\ \A d \in Slots : d # c => calls'[d] = calls[d]
        /\ calls'[c] = rest[c] \/ (calls'[c].tab = t /\ calls'[c].kind = "watch")
    BY <2>2, <2>3
  <2>5. /\ \A u \in Tabs : u # t => page'[u] = page[u]
        /\ page'[t] = IF k.live THEN After(page[t], k) ELSE page[t]
    BY <2>1 DEF All, Inv, Shapes
  <2>6. ASSUME Waited' PROVE Orphans' /\ Tidy(t)'
    <3>1. Waited /\ Orphans /\ Tidy(t)
      BY <2>6, WaitedBefore, CoolIsQuiet
    <3>2. Orphans'
      BY <2>4, <2>6, <3>1, BrowserAssumption DEF Orphans
    <3>3. \A p \in Payments : Ripe(pay[p]) => \A d \in Slots : calls'[d].tab = t => ~Backed(calls'[d], p)
      <4>1. \A p : calls'[c].tab = t => ~Backed(calls'[c], p)
        BY <2>4, BrowserAssumption DEF Backed
      <4> QED
        BY <2>4, <3>1, <4>1 DEF Tidy
    <3>4. \A d \in Slots : calls'[d].tab = t /\ calls'[d].live /\ calls'[d].kind = "update" =>
            d # c /\ calls'[d] = calls[d]
      BY <2>4, BrowserAssumption
    <3>5. CASE k.live
      <4>1. Mine(t, c)
        BY <3>5 DEF Mine
      <4>2. /\ Saves(t, After(page[t], k), calls')
            /\ \A p \in Payments : Ripe(pay[p]) => ~Armed(After(page[t], k), p)
        BY <3>1, <3>4, <4>1, AfterQuiet
      <4> QED
        BY <1>0, <2>5, <3>2, <3>3, <3>5, <4>2 DEF Tidy
    <3>6. CASE ~k.live
      <4>1. Saves(t, page[t], calls')
        BY <3>1, <3>4 DEF Tidy, Saves
      <4> QED
        BY <1>0, <2>5, <3>1, <3>2, <3>3, <3>6, <4>1 DEF Tidy
    <3> QED
      BY <3>5, <3>6
  <2>7. \A d \in Slots : calls'[d] = calls[d] \/ calls'[d].tab \in {t, NoTab}
    BY <2>4
  <2> QED
    BY <1>0, <2>5, <2>6, <2>7, CoolStep
<1> QED
  BY <1>1, <1>2

LEMMA AnswerCools ==
  ASSUME Cool, All, NEW c \in Slots, Answer(c)
  PROVE  Cool'
<1> DEFINE k == calls[c]
           t == calls[c].tab
           rest == [calls EXCEPT ![c] = NoCall]
<1>1. t \in Tabs /\ DOMAIN k = CallFields /\ k.ans # Waiting
  BY DEF Answer, All, Inv, CallShapes
<1>2. CASE Bounce(t)
  BY <1>1, <1>2, ReloadCools DEF Bounce
<1>3. CASE Continue(t, c, k, rest) /\ UNCHANGED over
  <2>1. /\ DOMAIN rest = Slots /\ \A d \in Slots : d # c => rest[d] = calls[d]
        /\ rest[c] = NoCall
    BY DEF All, Inv, Shapes
  <2>2. rest[c].tab = NoTab /\ rest[c].ans # Waiting
    BY <2>1 DEF NoCall, Waiting
  <2>3. /\ k.tab = t /\ k.kind = calls[c].kind /\ k.on = calls[c].on /\ k.with = calls[c].with
        /\ k.live = calls[c].live /\ calls[c].tab = t /\ k = calls[c]
    OBVIOUS
  <2>4. Heeded
    BY <1>3, StayHeeds DEF All
  <2> HIDE DEF k, t, rest
  <2> QED
    BY <1>1, <1>3, <2>1, <2>2, <2>3, <2>4, ContinueCools
<1> QED
  BY <1>2, <1>3 DEF Answer

LEMMA BreakCools ==
  ASSUME Cool, All, NEW c \in Slots, Break(c)
  PROVE  Cool'
<1> DEFINE t == calls[c].tab
           k == [calls[c] EXCEPT !.ans = Refusal]
           rest == [calls EXCEPT ![c] = Gone(calls[c])]
<1>1. t \in Tabs /\ DOMAIN calls[c] = CallFields /\ DOMAIN calls = Slots
  BY DEF Break, All, Inv, CallShapes, Shapes
<1>2. /\ DOMAIN k = CallFields /\ k.tab = t /\ k.kind = calls[c].kind /\ k.on = calls[c].on
      /\ k.with = calls[c].with /\ k.live = calls[c].live /\ k.ans = Refusal
  BY <1>1 DEF CallFields
<1>3. DOMAIN rest = Slots /\ (\A d \in Slots : d # c => rest[d] = calls[d]) /\ rest[c] = Gone(calls[c])
  BY <1>1
<1>4. /\ Continue(t, c, k, rest) /\ Heeded /\ calls[c].tab = t
      /\ Waited' => ~Mine(t, c)
  BY <1>1, Abandoned DEF Break, Waited
<1>5. rest[c].tab = NoTab
  BY <1>1, <1>3, GoneShape
<1>6. rest[c].ans = Waiting => rest[c].kind = calls[c].kind
  BY <1>1, <1>3 DEF Gone, NoCall, Waiting, CallFields
<1>7. Waited' => calls[c].kind = "resend"
  BY <1>1, <1>4, WaitedBefore DEF All, Inv, Awaited, Mine, Waited
<1> HIDE DEF t, k, rest
<1>8. k.ans # Waiting /\ ~Ok(k)
  BY <1>2 DEF Ok, Refusal, Waiting
<1> QED
  BY <1>1, <1>2, <1>3, <1>4, <1>5, <1>6, <1>7, <1>8, ContinueCools

LEMMA VanishCools ==
  ASSUME Cool, All, NEW c \in Slots, Vanish(c)
  PROVE  Cool'
<1>1. /\ \A d \in Slots : d # c => calls'[d] = calls[d]
      /\ calls'[c] = NoCall /\ UNCHANGED <<page, over, pay>>
  BY DEF Vanish, tabVars, bankVars, paymentVars, All, Inv, Shapes
<1>2. NoCall.tab = NoTab /\ NoCall.ans # Waiting
  BY DEF NoCall, Waiting
<1>3. ASSUME Waited' PROVE Orphans' /\ Cooled' /\ \A t \in Tabs : Tidy(t)'
  <2>1. Waited
    BY <1>1, <1>3 DEF Waited
  <2>2. \A t \in Tabs : Tidy(t)'
    BY <1>1, <1>2, <2>1, BrowserAssumption DEF Cool, Tidy, Saves
  <2> QED
    BY <1>1, <1>2, <2>1, <2>2 DEF Cool, Orphans, Cooled
<1> QED
  BY <1>3 DEF Cool

LEMMA CoolInit == Init => Cool
<1> SUFFICES ASSUME Init PROVE Cool
  OBVIOUS
<1>1. \A p \in Payments : ~Slipped(pay[p])
  BY SceneAssumption DEF Init, Slipped, Ripe
<1>2. \A c \in Slots : calls[c].tab = NoTab /\ calls[c].ans # Waiting
  BY DEF Init, NoCall, Waiting
<1>3. ASSUME NEW t \in Tabs PROVE Tidy(t)
  <2>1. PICK at : page[t] = Mounted(at)
    BY DEF Init
  <2> QED
    BY <1>2, <2>1, MountedQuiet, BrowserAssumption DEF Tidy, Saves
<1> QED
  BY <1>1, <1>2, <1>3 DEF Cool, Orphans, Cooled

LEMMA CoolNext == OneMaker /\ Cool /\ Typed /\ All /\ [Next]_vars => Cool'
<1> SUFFICES ASSUME OneMaker, Cool, Typed, All, [Next]_vars PROVE Cool'
  OBVIOUS
<1>1. ASSUME NEW b \in Payees, Age(b) PROVE Cool'
  BY <1>1, CoolStays DEF Age, paymentVars, tabVars
<1>2. CASE UNCHANGED vars
  BY <1>2, CoolStays DEF vars, bankVars, paymentVars, tabVars
<1>3. ASSUME NEW t \in Tabs,
             Wizards(t) \/ Modifies(t) \/ Payeeing(t) \/ Identity(t) \/ Others(t) \/ Moves(t)
      PROVE  Cool'
  BY <1>3, WizardCools, ModifyCools, PayeeingCools, IdentityCools, OtherCools, MoveCools
<1>4. ASSUME NEW c \in Slots, Serve(c) \/ Answer(c) \/ Break(c) \/ Vanish(c) PROVE Cool'
  BY <1>4, ServeCools, AnswerCools, BreakCools, VanishCools
<1> QED
  BY <1>1, <1>2, <1>3, <1>4 DEF Next

\* The cooling period the backend's comment on activate promises: where one
\* browser at most is a maker's, no payment that the heuristics last found to be
\* a big one to a payee still cooling is completed before an authorizer has
\* released it, as long as every user waits for each answer.
THEOREM CoolingPeriodKept ==
  ASSUME OneMaker
  PROVE  Spec => []CoolingPeriod
<1>1. Cool /\ Typed /\ RowsVetted /\ All /\ [Next]_vars => Cool'
  BY CoolNext
<1>2. Spec => []Cool
  BY <1>1, CoolInit, AlwaysTyped, PTL DEF Spec
<1>3. Cool => CoolingPeriod
  BY DEF Cool, Waited, Cooled, Slipped, Ripe, CoolingPeriod
<1> QED
  BY <1>2, <1>3, PTL

=============================================================================
