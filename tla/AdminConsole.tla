---------------------------- MODULE AdminConsole ----------------------------
(* An administrator's tab: the page of users with its dialogs, and the audit *)
(* activity, a PagedList, in which every change of a user leaves an event.   *)
(* frontend/src/routes/_layout/admin.tsx and audit.tsx, over                 *)
(* backend/app/api/routes/users.py.  Another administrator is modelled by    *)
(* what she does to the users; that others are sent away by beforeLoad, in   *)
(* BrowserSession.  The two pages share no state of the tab: a behaviour     *)
(* stays with one of them, left and opened again at any time.                *)
EXTENDS PagedList

CONSTANTS
    Users,       \* accounts, present or to be created
    Roles,
    MaxChanges,  \* bound: changes of users, each with its audit event,
    MaxEvents,   \* while the page of users, or the audit activity, is used
    Sent

ASSUMPTION ChangeBound == MaxChanges \in Nat /\ MaxEvents \in Nat
ASSUMPTION EventClasses == {"created", "updated", "reset"} \subseteq Classes

VARIABLES
    account,     \* account[u]: [role, active] of an existing user, or None
    route,       \* the page, "users" or "audit"
    mounted,     \* it is shown
    users,       \* the query ["users"]
    creating,    \* CreateUserDialog is open, with this role chosen; or None
    editing,     \* EditUserDialog: the user, and the role and activation set
    shownPassword, \* whose temporary password is on display
    create, update, reset,  \* mutations under way
    told         \* the changes made by the last time the list was told of one

server == <<account, rows, committed>>
dialogs == <<creating, editing, shownPassword>>
mutations == <<create, update, reset>>
vars == <<server, route, mounted, users, dialogs, mutations, told, list>>

Bound == IF route = "users" THEN MaxChanges ELSE MaxEvents

Profile == [role : Roles, active : BOOLEAN]
Directory == [Users -> Profile \cup {None}]

\* A snapshot of the users, with the changes it includes.
Snapshot == [data : Directory, at : SUBSET Nat]

ASSUMPTION AnswersAreSome == Sent # None /\ None \notin Snapshot

Request(Body) == [state : {"sent"}, body : Body] \cup [state : {"ok"}, user : Users, at : SUBSET Nat]
Edit == [user : Users, profile : Profile]

TypeOK ==
    /\ ListTypeOK
    /\ account \in Directory
    /\ route \in {"users", "audit"}
    /\ mounted \in BOOLEAN
    /\ DOMAIN users = {"data", "error", "fetch"}
    /\ users.data # None => users.data \in Snapshot
    /\ users.error \in BOOLEAN
    /\ users.fetch \notin {None, Sent} => users.fetch \in Snapshot
    /\ creating \in Roles \cup {None}
    /\ editing \in Edit \cup {None}
    /\ shownPassword \in Users \cup {None}
    /\ create # None => create \in Request(Roles)
    /\ update # None => update \in Request(Edit)
    /\ reset # None => reset \in Request(Users)
    /\ told \subseteq committed
    /\ Len(rows) <= Bound
    \* What belongs to the components of a page ends with them.
    /\ ~mounted => \A d \in {creating, editing, shownPassword, create, update, reset} : d = None

Init ==
    /\ ListInit
    /\ \E u \in Users, p \in Profile :
          account = [v \in Users |-> IF v = u THEN p ELSE None]
    /\ route \in {"users", "audit"}
    /\ mounted = FALSE
    /\ users = [data |-> None, error |-> FALSE, fetch |-> None]
    /\ creating = None /\ editing = None /\ shownPassword = None
    /\ create = None /\ update = None /\ reset = None
    /\ told = {}
---------------------------------------------------------------------------
(* backend/app/api/routes/users.py: each change and its audit event commit   *)
(* together.                                                                 *)

Place(event) ==
    /\ Len(rows) < Bound
    /\ rows' = Append(rows, event)

Record(event) ==
    /\ Place(event)
    /\ committed' = committed \cup {Len(rows')}

\* A temporary password comes with it.
CreateUser(u, role) ==
    /\ account[u] = None
    /\ account' = [account EXCEPT ![u] = [role |-> role, active |-> TRUE]]

UpdateUser(u, profile) ==
    /\ account[u] # None
    /\ account' = [account EXCEPT ![u] = profile]

Ok(u) == [state |-> "ok", user |-> u, at |-> committed']
---------------------------------------------------------------------------
(* The query of the users                                                    *)

ServeUsers ==
    /\ users.fetch = Sent
    /\ users' = [users EXCEPT !.fetch = [data |-> account, at |-> committed]]
    /\ UNCHANGED <<server, route, mounted, dialogs, mutations, told, list>>

UsersArrive ==
    /\ users.fetch \notin {None, Sent}
    /\ users' = [data |-> users.fetch, error |-> FALSE, fetch |-> None]
    /\ UNCHANGED <<server, route, mounted, dialogs, mutations, told, list>>

UsersFail ==
    /\ users.fetch # None
    /\ users' = [users EXCEPT !.error = TRUE, !.fetch = None]
    /\ UNCHANGED <<server, route, mounted, dialogs, mutations, told, list>>

Joined == [users EXCEPT !.fetch = IF @ = None THEN Sent ELSE @]

\* Mutant: a fetch under way is joined.
RefreshedByJoining == Joined

\* invalidateQueries: what is under way is dropped and asked anew.
Refreshed == [users EXCEPT !.fetch = Sent]

\* The window regains the focus, or Retry; or the answer to a change saved before
\* the page was last left.
RereadUsers ==
    /\ route = "users" /\ mounted
    /\ users' \in {Joined, Refreshed}
    /\ UNCHANGED <<server, route, mounted, dialogs, mutations, told, list>>
---------------------------------------------------------------------------
(* Coming and going.  What the page's components hold ends with them; what   *)
(* was sent is served without them.                                          *)

Closed ==
    /\ creating' = None /\ editing' = None /\ shownPassword' = None
    /\ create' = None /\ update' = None /\ reset' = None

OpenUsers ==
    /\ route = "users" /\ ~mounted
    /\ mounted' = TRUE
    /\ users' = Joined
    /\ UNCHANGED <<server, route, dialogs, mutations, told, list>>

OpenAudit ==
    /\ route = "audit" /\ ~mounted
    /\ mounted' = TRUE
    /\ filter' = All /\ deferred' = All
    /\ reading' = Joining(All)
    /\ UNCHANGED <<server, route, users, dialogs, mutations, told, cache, failed>>

\* Mutant: the dialogs are kept outside of the page.
LeaveKeepingDialogs ==
    /\ mounted
    /\ mounted' = FALSE
    /\ create' = None /\ update' = None /\ reset' = None
    /\ UNCHANGED <<server, route, users, dialogs, told, list>>

Leave ==
    /\ mounted
    /\ mounted' = FALSE
    /\ Closed
    /\ UNCHANGED <<server, route, users, told, list>>
---------------------------------------------------------------------------
(* The dialogs.  An open dialog is modal: what lies beneath cannot be        *)
(* clicked.                                                                  *)

OnUsers == route = "users" /\ mounted
Beneath == creating = None /\ editing = None /\ shownPassword = None
Listed(u) ==
    /\ OnUsers /\ users.data # None /\ ~users.error
    /\ users.data.data[u] # None

OpenCreate ==
    /\ OnUsers /\ Beneath
    /\ creating' \in Roles
    /\ UNCHANGED <<server, route, mounted, users, editing, shownPassword, mutations, told, list>>

\* The effect of EditUserDialog copies what the list says of the user.
OpenEdit(u) ==
    /\ Listed(u) /\ Beneath
    /\ editing' = [user |-> u, profile |-> users.data.data[u]]
    /\ UNCHANGED <<server, route, mounted, users, creating, shownPassword, mutations, told, list>>

ChooseProfile(p) ==
    /\ editing # None /\ shownPassword = None
    /\ editing' = [editing EXCEPT !.profile = p]
    /\ UNCHANGED <<server, route, mounted, users, creating, shownPassword, mutations, told, list>>

\* Escape, a click outside, "I saved it": the topmost dialog closes.
CloseDialog ==
    /\ ~Beneath
    /\ IF shownPassword # None
       THEN shownPassword' = None /\ UNCHANGED <<creating, editing>>
       ELSE creating' = None /\ editing' = None /\ UNCHANGED shownPassword
    /\ UNCHANGED <<server, route, mounted, users, mutations, told, list>>
---------------------------------------------------------------------------
(* The mutations                                                             *)

SubmitCreate ==
    /\ creating # None /\ shownPassword = None
    /\ create = None
    /\ create' = [state |-> "sent", body |-> creating]
    /\ UNCHANGED <<server, route, mounted, users, dialogs, update, reset, told, list>>

\* Both fields are sent, whichever was changed.
SubmitUpdate ==
    /\ editing # None /\ shownPassword = None
    /\ update = None
    /\ update' = [state |-> "sent", body |-> editing]
    /\ UNCHANGED <<server, route, mounted, users, dialogs, create, reset, told, list>>

\* The button of every user is disabled while a reset is pending.
SubmitReset(u) ==
    /\ Listed(u) /\ Beneath
    /\ reset = None
    /\ reset' = [state |-> "sent", body |-> u]
    /\ UNCHANGED <<server, route, mounted, users, dialogs, create, update, told, list>>

IsSent(m) == IF m = None THEN FALSE ELSE m.state = "sent"
IsOk(m) == IF m = None THEN FALSE ELSE m.state = "ok"

ServeCreate ==
    /\ IsSent(create)
    /\ \E u \in Users : /\ CreateUser(u, create.body)
                        /\ Record("created")
                        /\ create' = Ok(u)
    /\ UNCHANGED <<route, mounted, users, dialogs, update, reset, told, list>>

ServeUpdate ==
    /\ IsSent(update)
    /\ UpdateUser(update.body.user, update.body.profile)
    /\ Record("updated")
    /\ update' = Ok(update.body.user)
    /\ UNCHANGED <<route, mounted, users, dialogs, create, reset, told, list>>

ServeReset ==
    /\ IsSent(reset)
    /\ Record("reset")
    /\ reset' = Ok(reset.body)
    /\ UNCHANGED <<account, route, mounted, users, dialogs, create, update, told, list>>

\* onSuccess of the three.
Created ==
    /\ IsOk(create)
    /\ create' = None
    /\ creating' = None
    /\ shownPassword' = create.user
    /\ users' = Refreshed
    /\ told' = told \cup create.at
    /\ UNCHANGED <<server, route, mounted, editing, update, reset, list>>

\* setUser(null) closes the dialog that is open by now, whose ever it is.
Updated ==
    /\ IsOk(update)
    /\ update' = None
    /\ editing' = None
    /\ users' = Refreshed
    /\ told' = told \cup update.at
    /\ UNCHANGED <<server, route, mounted, creating, shownPassword, create, reset, list>>

\* The users are not read again, though their "Password" column has changed.
Reset ==
    /\ IsOk(reset)
    /\ reset' = None
    /\ shownPassword' = reset.user
    /\ UNCHANGED <<server, route, mounted, users, creating, editing, create, update, told, list>>

\* A refusal, a request or an answer lost: an error message.
MutationFails ==
    /\ \/ create # None /\ create' = None /\ UNCHANGED <<update, reset>>
       \/ update # None /\ update' = None /\ UNCHANGED <<create, reset>>
       \/ reset # None /\ reset' = None /\ UNCHANGED <<create, update>>
    /\ UNCHANGED <<server, route, mounted, users, dialogs, told, list>>
---------------------------------------------------------------------------
(* Another administrator, or a request whose page was left before its        *)
(* answer.  Its event has its place in the table before it is committed.     *)

BeginElsewhere ==
    /\ committed = DOMAIN rows
    /\ Place("created") \/ Place("updated")
    /\ UNCHANGED <<account, committed, route, mounted, users, dialogs, mutations, told, list>>

CommitElsewhere(i) ==
    /\ committed' = committed \cup {i}
    /\ \/ rows[i] = "created" /\ \E u \in Users, r \in Roles : CreateUser(u, r)
       \/ rows[i] = "updated" /\ \E u \in Users, p \in Profile : UpdateUser(u, p)
    /\ UNCHANGED <<rows, route, mounted, users, dialogs, mutations, told, list>>

\* Fetches go on when the page has been left.
AuditStep ==
    /\ route = "audit"
    /\ IF mounted THEN ListStep ELSE Unwatched
    /\ UNCHANGED <<account, route, mounted, users, dialogs, mutations, told>>

Next ==
    \/ ServeUsers \/ UsersArrive \/ UsersFail \/ RereadUsers
    \/ OpenUsers \/ OpenAudit \/ Leave
    \/ OpenCreate \/ CloseDialog
    \/ \E u \in Users : OpenEdit(u) \/ SubmitReset(u)
    \/ \E p \in Profile : ChooseProfile(p)
    \/ SubmitCreate \/ SubmitUpdate
    \/ ServeCreate \/ ServeUpdate \/ ServeReset
    \/ Created \/ Updated \/ Reset \/ MutationFails
    \/ BeginElsewhere
    \/ \E i \in DOMAIN rows \ committed : CommitElsewhere(i)
    \/ AuditStep

Spec == Init /\ [][Next]_vars
---------------------------------------------------------------------------
(* Properties                                                                *)

\* Once a created or changed user has been answered, the list on the page, if it
\* is neither in error nor being read, includes that change, whichever reads were
\* under way when it was made (admin.tsx:54, 176-181).
UsersListIsCurrent ==
    (route = "users" /\ mounted /\ users.fetch = None /\ ~users.error)
        => told \subseteq users.data.at
=============================================================================
