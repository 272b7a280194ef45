------------------------------- MODULE MCDesk -------------------------------
(* Desk on small instances: the scenes its runs play.                      *)
EXTENDS Desk, TLC

CONSTANTS t1, t2, maker, checker, b1, p1, p2, n1, n2, Ann, Ben

\* n1 is Ann's number and n2 Ben's.
Holders == (n1 :> Ann) @@ (n2 :> Ben)

\* No payee; or one that is active, and a draft to it.
Empty == [payee |-> [b \in Payees |-> NoRow], pay |-> [p \in Payments |-> NoPayment]]
Active == [status |-> "ACTIVE", number |-> n1, name |-> Ann, fetched |-> Ann, age |-> "new"]
Draft == [NoPayment EXCEPT !.status = "NEW", !.amount = 40000, !.to = b1, !.named = n1]
Unready == [Empty EXCEPT !.payee[b1] = [Active EXCEPT !.status = "PENDING", !.age = "never"]]
Ready == [Empty EXCEPT !.payee[b1] = Active, !.pay[p1] = Draft]
Known == [Ready EXCEPT !.payee[b1].age = "aged"]
Dear == [Ready EXCEPT !.pay[p1].amount = 60000]

Alone(pages) == [who |-> (t1 :> maker) @@ (t2 :> NoUser), reach |-> (t1 :> pages) @@ (t2 :> {})]
Checked(pages) ==
  [who |-> (t1 :> maker) @@ (t2 :> checker), reach |-> (t1 :> pages) @@ (t2 :> {"analyst"})]

Scene(play, start, amounts, numbers, names, ends, breaks, budget, width) ==
  play @@ [start |-> start, amounts |-> amounts, numbers |-> numbers, names |-> names,
           ends |-> ends, breaks |-> breaks,
           budget |-> budget, width |-> width]

\* A maker pays by the wizard, or from the list, and a checker reviews; or
\* alone, over a bad connection.
ByWizard == Scene(Checked({"initiate"}), Ready, {60000}, {}, {}, FALSE, FALSE, 4, 1 .. 2)
ByList == Scene(Alone({"modify"}), Ready, {60000}, {}, {}, FALSE, FALSE, 3, 1 .. 2)
Held == Scene(Checked({"modify"}), Dear, {}, {}, {}, FALSE, FALSE, 4, 1 .. 1)
Broken == Scene(Alone({"initiate", "modify"}), Known, {60000}, {}, {}, FALSE, TRUE, 2, 1 .. 2)

\* A payee is edited, or activated, and paid; or added, looked up and removed.
Edited == Scene(Alone({"initiate", "maintenance"}), Known, {40000}, {n2}, {}, FALSE, FALSE, 4, 1 .. 1)
Diverted == Scene(Alone({"modify", "maintenance"}), Known, {}, {n2}, {}, FALSE, FALSE, 3, 1 .. 1)
Opened == Scene(Alone({"initiate", "activate"}), Unready, {40000, 3000000}, {}, {}, FALSE, FALSE, 4, 1 .. 1)
Kept == Scene(Alone({"maintenance", "activate", "delete"}), Empty, {}, {n1, n2}, {Ann}, FALSE, FALSE, 2, 1 .. 2)

\* Sessions begin, end and are taken up again.
Sessions == Scene([who |-> (t1 :> NoUser) @@ (t2 :> NoUser),
                   reach |-> (t1 :> {"login", "forgot", "dashboard", "analyst"}) @@ (t2 :> {})],
                  Empty, {}, {}, {}, TRUE, TRUE, 3, 1 .. 2)

\* A visitor recovers a password or a lock; a user changes what is his, and
\* may leave for another.
Recovered == Scene([who |-> (t1 :> NoUser) @@ (t2 :> NoUser),
                    reach |-> (t1 :> {"login", "forgot", "unlock"}) @@ (t2 :> {})],
                   Empty, {}, {}, {}, FALSE, FALSE, 3, 1 .. 2)
Contacts == Scene(Alone({"login", "profile"}), Empty, {}, {}, {}, TRUE, FALSE, 3, 1 .. 2)
Secrets == Scene(Alone({"password", "transaction"}), Empty, {}, {}, {}, FALSE, TRUE, 3, 1 .. 2)

\* The console and the fraud report.
Reporting == Scene(Alone({"console", "command", "report"}), Empty, {}, {}, {}, FALSE, TRUE, 3, 1 .. 2)

AllScenes == {ByWizard, ByList, Held, Broken, Edited, Diverted, Opened, Kept, Sessions, Reporting,
              Recovered, Contacts, Secrets}

=============================================================================
