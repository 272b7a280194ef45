------------------------------ MODULE Browser ------------------------------
(***************************************************************************)
(* The frontend's shell: in each browser one tab, with a page, the lists   *)
(* the query cache holds, the token the interceptor attaches and the user  *)
(* the persisted store remembers; the requests a page sends and what       *)
(* becomes of their answers when the page is left, the document reloaded,  *)
(* the session over or the connection broken.                              *)
(*                                                                         *)
(* Two tabs of one browser, which would share the token, are left out.     *)
(***************************************************************************)
EXTENDS Bank

CONSTANTS
  Tabs,
  Scenes    \* what a behaviour may be about (bounds what is explored): records
            \*   who    the user each tab is signed in as, or NoUser
            \*   reach  the pages each tab may be sent to
            \*   start  the payees and payments there are
            \*   amounts, numbers, names   what is typed into the forms
            \*   ends   may sessions expire, be left and be taken up again
            \*   breaks may connections break
            \*   budget the number of requests sent by hand, width the slots they may take

ASSUME BrowserAssumption == NoTab \notin Tabs /\ \A s \in Scenes : s.who \in [Tabs -> Users \union {NoUser}]

VARIABLES
  page,     \* page[t]: the page of t and its state
  cache,    \* cache[t]: the rows of each page's list, as last loaded
  token,    \* token[t]: whose valid token is under the key "finspark-token"
  store,    \* store[t]: the user of the persisted store
  contact,  \* contact[t]: whose mail and phone that store shows
  over,     \* history: has t turned away from a request still in flight
  spent,    \* requests sent by hand so far
  scene     \* the scene, chosen at the start

sessionVars == <<token, store, contact>>
tabVars == <<page, cache, sessionVars, over>>
vars == <<bankVars, calls, tabVars, spent, scene>>

-----------------------------------------------------------------------------
(* The pages, as they are mounted.  Forms are filled in when they are sent. *)

Public == {"login", "forgot", "unlock"}
NoConf == [outcome |-> "none", otp |-> 0, of |-> NoPay]
NoShown == [outcome |-> "none", of |-> NoPay]

Wizard == [at |-> "initiate", mode |-> FALSE, step |-> 0, draft |-> NoPay,
           conf |-> NoConf, open |-> FALSE, final |-> NoShown, busy |-> FALSE]
Dialogs == [at |-> "modify", send |-> NoPay, conf |-> NoConf, done |-> NoShown,
            busy |-> FALSE, edit |-> NoPay, saving |-> FALSE, del |-> NoPay]
Maintenance == [at |-> "maintenance", view |-> "list", step |-> 0, row |-> Nothing,
                editing |-> FALSE, number |-> NoNumber, name |-> NoName,
                fetched |-> NoName, busy |-> FALSE]
EventForm == [at |-> "console", preset |-> 1, result |-> 0, busy |-> FALSE]

Mounted(at) ==
  CASE at = "initiate" -> Wizard
    [] at = "modify" -> Dialogs
    [] at = "maintenance" -> Maintenance
    [] at = "activate" -> [at |-> at, selected |-> {}]
    [] at = "delete" -> [at |-> at, selected |-> {}, confirm |-> FALSE]
    [] at = "console" -> EventForm
    [] at = "command" -> [at |-> at, results |-> {}, busy |-> FALSE]
    [] at = "report" -> [at |-> at, result |-> FALSE, busy |-> FALSE]
    [] at \in {"analyst", "login", "password"} -> [at |-> at, busy |-> FALSE]
    [] at \in {"forgot", "unlock"} -> [at |-> at, step |-> 0, req |-> 0, busy |-> FALSE]
    [] at = "transaction" -> [at |-> at, req |-> 0, busy |-> FALSE]
    [] at = "profile" -> [at |-> at, editing |-> FALSE, confirm |-> FALSE, busy |-> FALSE]
    [] OTHER -> [at |-> at]

\* An open dialog covers the page and the sidebar.
Covered(pg) ==
  \/ pg.at = "initiate" /\ pg.mode /\ pg.open
  \/ pg.at = "modify" /\ {pg.send, pg.edit, pg.del} # {NoPay}
  \/ pg.at \in {"delete", "profile"} /\ pg.confirm

\* The lists of the queries, by the page that shows them.
Lists == {"initiate", "modify", "analyst", "maintenance", "activate", "delete"}
Unloaded == [l \in Lists |-> {}]
Loaded(l) ==
  CASE l = "initiate" -> ActivePayees
    [] l = "modify" -> {p \in Payments : pay[p].status \in Editable}
    [] l = "analyst" -> {p \in Payments : pay[p].status = "HELD"}
    [] l = "activate" -> PendingPayees
    [] l = "maintenance" -> {[of |-> b, was |-> payee[b]] : b \in ListedPayees}
    [] OTHER -> ListedPayees

-----------------------------------------------------------------------------
(* Requests.                                                               *)

InFlight(t) == \E c \in Slots : calls[c].tab = t /\ calls[c].live
Free == {c \in scene.width : calls[c].tab = NoTab /\ calls[c].ans # Waiting}

\* t turns away from what it has asked for.
Abandon(t) == over' = [over EXCEPT ![t] = @ \/ InFlight(t)]

\* The page of t becomes pg; with a request, sent with the token of the moment.
Turn(t, pg) ==
  /\ page' = [page EXCEPT ![t] = pg]
  /\ UNCHANGED <<bankVars, calls, cache, sessionVars, spent, scene>>

Ask(t, pg, kind, on, with) ==
  /\ Free # {} /\ spent < scene.budget
  /\ spent' = spent + 1
  /\ page' = [page EXCEPT ![t] = pg]
  /\ LET c == CHOOSE c \in Free : \A d \in Free : c <= d IN
     calls' = [calls EXCEPT ![c] = [tab |-> t, kind |-> kind, on |-> on, with |-> with,
                                    as |-> token[t], live |-> TRUE, ans |-> Waiting]]
  /\ UNCHANGED <<bankVars, cache, sessionVars, scene>>

\* The calls once the page of t is another one: their answers still come.
\* Once its document is gone they are only served.
Unmounted(t, all) ==
  [c \in Slots |-> IF all[c].tab = t THEN [all[c] EXCEPT !.live = FALSE] ELSE all[c]]
Gone(call) == IF call.ans = Waiting THEN [call EXCEPT !.tab = NoTab, !.live = FALSE] ELSE NoCall
Discarded(t) == [c \in Slots |-> IF calls[c].tab = t THEN Gone(calls[c]) ELSE calls[c]]

\* The request of a document that is gone never reached the server.
Vanish(c) ==
  /\ calls[c].tab = NoTab /\ calls[c].ans = Waiting
  /\ calls' = [calls EXCEPT ![c] = NoCall]
  /\ UNCHANGED <<bankVars, tabVars, spent, scene>>

Serve(c) == ServeCall(c) /\ UNCHANGED <<tabVars, spent, scene>>

Age(b) == Ripen(b) /\ UNCHANGED <<paymentVars, calls, tabVars, spent, scene>>

-----------------------------------------------------------------------------
(* Moving between pages, and the session.                                  *)

\* router.push and links: the document and its query cache stay.
Push(t, at) ==
  /\ page' = [page EXCEPT ![t] = Mounted(at)]
  /\ calls' = Unmounted(t, calls)
  /\ Abandon(t)
  /\ UNCHANGED <<bankVars, cache, spent, scene>>

\* window.location: a new document.
Reload(t, at) ==
  /\ page' = [page EXCEPT ![t] = Mounted(at)]
  /\ calls' = Discarded(t)
  /\ cache' = [cache EXCEPT ![t] = Unloaded]
  /\ Abandon(t)
  /\ UNCHANGED <<bankVars, spent, scene>>

\* The sidebar; on the public pages, the links between them.
Visit(t, at) ==
  /\ at \in scene.reach[t] /\ at # page[t].at /\ ~Covered(page[t])
  /\ (page[t].at \in Public) <=> (at \in Public)
  /\ Push(t, at) /\ UNCHANGED sessionVars

\* The address bar.  The layout sends a visitor without a stored session away.
OpenUrl(t, at) ==
  /\ scene.ends /\ at \in scene.reach[t]
  /\ Reload(t, IF at \notin Public /\ store[t] = NoUser THEN "login" ELSE at)
  /\ UNCHANGED sessionVars

\* The response interceptor, on a 401.
Bounce(t) ==
  /\ token' = [token EXCEPT ![t] = NoUser]
  /\ Reload(t, "login")
  /\ UNCHANGED <<store, contact>>

Logout(t) ==
  /\ scene.ends /\ page[t].at \notin Public /\ ~Covered(page[t])
  /\ token' = [token EXCEPT ![t] = NoUser]
  /\ store' = [store EXCEPT ![t] = NoUser]
  /\ contact' = [contact EXCEPT ![t] = NoUser]
  /\ Push(t, "login")

\* The token under the key is no longer valid.
Expire(t) ==
  /\ scene.ends /\ token[t] # NoUser
  /\ token' = [token EXCEPT ![t] = NoUser]
  /\ UNCHANGED <<bankVars, calls, page, cache, store, contact, over, spent, scene>>

\* A query of the page runs, on mount, by its interval or when it is
\* invalidated; a list may be shown long after it was loaded.
Refresh(t) ==
  /\ page[t].at \in Lists \union {"dashboard", "report"}
  /\ \/ token[t] = NoUser /\ Bounce(t)
     \/ /\ token[t] # NoUser /\ page[t].at \in Lists
        /\ cache' = [cache EXCEPT ![t][page[t].at] = Loaded(page[t].at)]
        /\ UNCHANGED <<bankVars, calls, page, sessionVars, over, spent, scene>>

\* setSession: the key and the store.
SessionOnce(t, u) ==                                      \* mutant
  /\ token' = [token EXCEPT ![t] = IF @ = NoUser THEN u ELSE @]
  /\ store' = [store EXCEPT ![t] = u]
  /\ contact' = [contact EXCEPT ![t] = u]
SetSession(t, u) ==
  /\ token' = [token EXCEPT ![t] = u]
  /\ store' = [store EXCEPT ![t] = u]
  /\ contact' = [contact EXCEPT ![t] = u]

=============================================================================
