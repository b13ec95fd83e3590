------------------------------ MODULE Accounts ------------------------------
(***************************************************************************)
(* Users, passwords and access tokens: backend/app/api/routes/users.py and *)
(* login.py, the dependencies of backend/app/api/deps.py and               *)
(* backend/app/crud.py. No statement locks a user row: every request reads *)
(* it, decides, and writes in a later statement the columns it changed.    *)
(*                                                                         *)
(* A password is the number, among one user's passwords, in which it was   *)
(* set, and whether the server generated it. Roles are abstracted to admin *)
(* or member. Tokens that expire merely stop being used.                   *)
(***************************************************************************)
EXTENDS Naturals, FiniteSets

CONSTANTS
    Users,
    Migrated,       \* users of the upstream release, with bcrypt hashes
    Bootstrapped,   \* administrators app.bootstrap_admin created
    Requests,       \* API requests served at the same time
    MaxPasswords,   \* bound: passwords a user ever has
    MaxTokens,      \* bound: access tokens ever handed out
    MaxVersion,     \* bound: a request that loaded this version writes nothing
    None

ASSUME UsersAssumption ==
    /\ Migrated \subseteq Users /\ Bootstrapped \subseteq Users
    /\ Migrated \cap Bootstrapped = {}

ASSUME AccountBoundsAssumption ==
    MaxPasswords \in Nat \ {0} /\ MaxVersion \in Nat /\ MaxTokens \in Nat

VARIABLES
    account,    \* the user row, None while there is none
    issued,     \* how many passwords the user has had
    tokens,     \* every access token handed out
    request,    \* what a request has loaded and not written yet
    overwritten,\* history: users whose row a request changed on the strength
                \* of a row that had been changed since it was read
    outrun      \* history: users whose hash a login replaced, or whose row it
                \* read again, after a change since it verified the password

history == <<overwritten, outrun>>
vars == <<account, issued, tokens, request, history>>

-----------------------------------------------------------------------------
Roles == {"admin", "member"}
Password == [number : 1 .. MaxPasswords, temporary : BOOLEAN]
Account == [password : Password, legacy : BOOLEAN, version : 0 .. MaxVersion,
            active : BOOLEAN, role : Roles, mustChange : BOOLEAN]

\* The password that obtained a token is not part of it; it is kept to state
\* what a reset promises.
Token == [user : Users, version : 0 .. MaxVersion, password : Password]

\* deps.get_current_user
Accepted(t) ==
    /\ account[t.user] # None
    /\ account[t.user].active
    /\ account[t.user].version = t.version

Idle == [pc |-> "idle", actor |-> None, target |-> None, loaded |-> None,
         presented |-> None]

\* None is neither a row nor a password.
ASSUME NoAccountAssumption == None \notin Account
ASSUME NoPasswordAssumption == None \notin Password

RequestPcs == {"idle", "login", "rehashed", "change", "admin", "update", "reset"}
Request == [pc : RequestPcs, actor : Users \cup {None}, target : Users \cup {None},
            loaded : Account \cup {None}, presented : Password \cup {None}]

\* The UPDATE of a flush names the columns whose value differs from the one
\* the session loaded.
Flushed(loaded, new, current) == IF new = loaded THEN current ELSE new

Fresh(u, temporary) == [number |-> issued[u] + 1, temporary |-> temporary]
CanIssue(u) == issued[u] < MaxPasswords

Finish(r) == request' = [request EXCEPT ![r] = Idle]

\* Another request has changed the row since r read it.
Outdated(r) == request[r].loaded.version # account[request[r].target].version

Noted(users, r) == users \cup {u \in {request[r].target} : Outdated(r)}

NoteWrite(r) == overwritten' = Noted(overwritten, r) /\ UNCHANGED outrun
NoteLogin(r) == outrun' = Noted(outrun, r) /\ UNCHANGED overwritten

FirstAccount(role, temporary, legacy) ==
    [password |-> [number |-> 1, temporary |-> temporary], legacy |-> legacy,
     version |-> 0, active |-> TRUE, role |-> role, mustChange |-> TRUE]

NewAccount(role) == FirstAccount(role, TRUE, FALSE)
MigratedAccount(role) == FirstAccount(role, FALSE, TRUE)

Init ==
    /\ account \in [Users -> {None} \cup {NewAccount("admin")}
                             \cup {MigratedAccount(role) : role \in Roles}]
    /\ \A u \in Users :
          /\ account[u] = None <=> u \notin Migrated \cup Bootstrapped
          /\ u \in Migrated => account[u].legacy
          /\ u \in Bootstrapped => ~account[u].legacy
    /\ issued = [u \in Users |-> IF account[u] = None THEN 0 ELSE 1]
    /\ tokens = {}
    /\ request = [r \in Requests |-> Idle]
    /\ overwritten = {} /\ outrun = {}

-----------------------------------------------------------------------------
(* login_access_token *)

\* authenticate: the row is read and the password verified against its hash.
LoginRead(r, u) ==
    /\ request[r].pc = "idle"
    /\ account[u] # None
    /\ request' = [request EXCEPT ![r] =
          [Idle EXCEPT !.pc = "login", !.target = u, !.loaded = account[u],
                       !.presented = account[u].password]]
    /\ UNCHANGED <<account, issued, tokens, history>>

\* A bcrypt hash is replaced by an Argon2 hash of the same password.
LoginRehash(r) ==
    /\ request[r].pc = "login"
    /\ request[r].loaded.legacy
    /\ account' = [account EXCEPT
          ![request[r].target].password = request[r].presented,
          ![request[r].target].legacy = FALSE]
    /\ request' = [request EXCEPT ![r].pc = "rehashed"]
    /\ NoteLogin(r)
    /\ UNCHANGED <<issued, tokens>>

\* session.refresh, after the commit.
LoginRefresh(r) ==
    /\ request[r].pc = "rehashed"
    /\ request' = [request EXCEPT ![r].pc = "login",
                                  ![r].loaded = account[request[r].target]]
    /\ NoteLogin(r)
    /\ UNCHANGED <<account, issued, tokens>>

TokenOf(r) == [user |-> request[r].target, version |-> request[r].loaded.version,
               password |-> request[r].presented]

LoginIssue(r) ==
    /\ request[r].pc = "login"
    /\ ~request[r].loaded.legacy
    /\ Cardinality(tokens) < MaxTokens
    /\ tokens' = IF request[r].loaded.active
                 THEN tokens \cup {TokenOf(r)} ELSE tokens
    /\ Finish(r)
    /\ UNCHANGED <<account, issued, history>>

-----------------------------------------------------------------------------
(* An authenticated request *)

\* change_password depends on CurrentUser only.
ChangeRead(r, t) ==
    /\ request[r].pc = "idle"
    /\ Accepted(t)
    /\ request' = [request EXCEPT ![r] =
          [Idle EXCEPT !.pc = "change", !.actor = t.user, !.target = t.user,
                       !.loaded = account[t.user]]]
    /\ UNCHANGED <<account, issued, tokens, history>>

\* Mutant: the token version stays as it is.
ChangeCommitSameVersion(r) ==
    LET u == request[r].target IN
    /\ request[r].pc = "change"
    /\ CanIssue(u)
    /\ account' = [account EXCEPT ![u].password = Fresh(u, FALSE),
                                  ![u].legacy = FALSE, ![u].mustChange = FALSE]
    /\ issued' = [issued EXCEPT ![u] = @ + 1]
    /\ Finish(r) /\ NoteWrite(r)
    /\ UNCHANGED tokens

ChangeCommit(r) ==
    LET u == request[r].target
        loaded == request[r].loaded
    IN
    /\ request[r].pc = "change"
    /\ CanIssue(u) /\ loaded.version < MaxVersion
    /\ account' = [account EXCEPT
          ![u].password = Fresh(u, FALSE), ![u].legacy = FALSE,
          ![u].mustChange = Flushed(loaded.mustChange, FALSE, @),
          ![u].version = loaded.version + 1]
    /\ issued' = [issued EXCEPT ![u] = @ + 1]
    /\ Finish(r) /\ NoteWrite(r)
    /\ UNCHANGED tokens

-----------------------------------------------------------------------------
(* An administrator's request *)

\* AdminUser: a ready user with the admin role.
AdminRead(r, t) ==
    /\ request[r].pc = "idle"
    /\ Accepted(t)
    /\ ~account[t.user].mustChange
    /\ account[t.user].role = "admin"
    /\ request' = [request EXCEPT ![r] =
          [Idle EXCEPT !.pc = "admin", !.actor = t.user, !.loaded = account[t.user]]]
    /\ UNCHANGED <<account, issued, tokens, history>>

\* get_user: the administrator's own row is already in the session.
TargetRead(r, u, pc) ==
    /\ request[r].pc = "admin"
    /\ account[u] # None
    /\ request' = [request EXCEPT
          ![r].pc = pc, ![r].target = u,
          ![r].loaded = IF u = request[r].actor THEN @ ELSE account[u]]
    /\ UNCHANGED <<account, issued, tokens, history>>

\* Mutant: only a change of the role counts as a reset.
UpdateCommitRoleOnly(r, role, active) ==
    LET u == request[r].target
        loaded == request[r].loaded
    IN
    /\ request[r].pc = "update"
    /\ loaded.version < MaxVersion
    /\ role # None \/ active # None
    /\ account' = [account EXCEPT
          ![u].role = IF role = None THEN @ ELSE role,
          ![u].active = IF active = None THEN @ ELSE active,
          ![u].version = IF role = None THEN @ ELSE loaded.version + 1]
    /\ Finish(r) /\ NoteWrite(r)
    /\ UNCHANGED <<issued, tokens>>

\* Mutant: a field the request leaves out is written too.
UpdateCommitUnset(r, role, active) ==
    LET u == request[r].target
        loaded == request[r].loaded
    IN
    /\ request[r].pc = "update"
    /\ loaded.version < MaxVersion
    /\ role # None \/ active # None
    /\ u = request[r].actor => active # FALSE
    /\ account' = [account EXCEPT
          ![u].role = Flushed(loaded.role, role, @),
          ![u].active = Flushed(loaded.active, active, @),
          ![u].version = loaded.version + 1]
    /\ Finish(r) /\ NoteWrite(r)
    /\ UNCHANGED <<issued, tokens>>

\* update_user, when the role or is_active is among the changes; None stands
\* for a field the request leaves out.
UpdateCommit(r, role, active) ==
    LET u == request[r].target
        loaded == request[r].loaded
    IN
    /\ request[r].pc = "update"
    /\ loaded.version < MaxVersion
    /\ role # None \/ active # None
    /\ u = request[r].actor => active # FALSE
    /\ account' = [account EXCEPT
          ![u].role = IF role = None THEN @ ELSE Flushed(loaded.role, role, @),
          ![u].active = IF active = None THEN @
                        ELSE Flushed(loaded.active, active, @),
          ![u].version = loaded.version + 1]
    /\ Finish(r) /\ NoteWrite(r)
    /\ UNCHANGED <<issued, tokens>>

\* Mutant: must_change_password is left alone.
ResetCommitWithoutChange(r) ==
    LET u == request[r].target
        loaded == request[r].loaded
    IN
    /\ request[r].pc = "reset"
    /\ CanIssue(u) /\ loaded.version < MaxVersion
    /\ account' = [account EXCEPT
          ![u].password = Fresh(u, TRUE), ![u].legacy = FALSE,
          ![u].version = loaded.version + 1]
    /\ issued' = [issued EXCEPT ![u] = @ + 1]
    /\ Finish(r) /\ NoteWrite(r)
    /\ UNCHANGED tokens

\* issue_temporary_password
ResetCommit(r) ==
    LET u == request[r].target
        loaded == request[r].loaded
    IN
    /\ request[r].pc = "reset"
    /\ CanIssue(u) /\ loaded.version < MaxVersion
    /\ account' = [account EXCEPT
          ![u].password = Fresh(u, TRUE), ![u].legacy = FALSE,
          ![u].mustChange = Flushed(loaded.mustChange, TRUE, @),
          ![u].version = loaded.version + 1]
    /\ issued' = [issued EXCEPT ![u] = @ + 1]
    /\ Finish(r) /\ NoteWrite(r)
    /\ UNCHANGED tokens

\* create_user
CreateCommit(r, u, role) ==
    /\ request[r].pc = "admin"
    /\ account[u] = None
    /\ account' = [account EXCEPT ![u] = NewAccount(role)]
    /\ issued' = [issued EXCEPT ![u] = 1]
    /\ Finish(r)
    /\ UNCHANGED <<tokens, history>>

-----------------------------------------------------------------------------
Login(r) ==
    \/ \E u \in Users : LoginRead(r, u)
    \/ LoginRehash(r)
    \/ LoginRefresh(r)
    \/ LoginIssue(r)

Administer(r) ==
    \/ \E t \in tokens : AdminRead(r, t)
    \/ \E u \in Users, pc \in {"update", "reset"} : TargetRead(r, u, pc)
    \/ \E role \in Roles \cup {None}, active \in BOOLEAN \cup {None} :
          UpdateCommit(r, role, active)
    \/ ResetCommit(r)
    \/ \E u \in Users, role \in Roles : CreateCommit(r, u, role)

Next ==
    \E r \in Requests :
        \/ Login(r)
        \/ \E t \in tokens : ChangeRead(r, t)
        \/ ChangeCommit(r)
        \/ Administer(r)

Spec == Init /\ [][Next]_vars

-----------------------------------------------------------------------------
TypeOK ==
    /\ account \in [Users -> Account \cup {None}]
    /\ issued \in [Users -> 0 .. MaxPasswords]
    /\ tokens \subseteq Token
    /\ request \in [Requests -> Request]
    /\ overwritten \subseteq Users /\ outrun \subseteq Users

\* A token that works was obtained with the password that works: a change or a
\* reset of the password ends every session begun with the one before, the
\* login that was under way at the time included. The code promises it of users
\* whose row no two requests changed across one another, and whose bcrypt hash
\* no login replaced across a change: two writers may both issue the version
\* after the one they read (users.py:94), and the refresh after a rehash may
\* load a version newer than the password (crud.py:77).
AcceptedTokensAreCurrent ==
    \A t \in tokens : t.user \notin overwritten \cup outrun /\ Accepted(t) =>
        t.password = account[t.user].password

\* A password the server generated must be changed before it is good for
\* anything else, unless the row was written over a change its writer had not
\* read: a reset that loaded the flag before the user changed the password
\* leaves its column out (crud.py:50).
TemporaryMustBeChanged ==
    \A u \in Users \ overwritten : account[u] # None =>
        (account[u].password.temporary => account[u].mustChange)

\* A token that was refused is refused for ever: enabling an account again
\* does not bring the sessions back that disabling it ended. Only a request
\* that writes over a change it had not read can set a version back.
RefusedTokensStayRefused ==
    [][\A t \in tokens : ~Accepted(t) /\ t.user \notin overwritten' =>
          ~Accepted(t)']_vars
=============================================================================
