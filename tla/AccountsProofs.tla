--------------------------- MODULE AccountsProofs ---------------------------
(***************************************************************************)
(* What the accounts promise for any number of users and of requests that  *)
(* log in, change and reset passwords at the same time. Nothing serialises *)
(* those requests: what is promised of a user holds until a request writes *)
(* over a change of the row it had not read, and of tokens until a login   *)
(* does so with the hash (the history variables of Accounts).              *)
(***************************************************************************)
EXTENDS Accounts, TLAPS

-----------------------------------------------------------------------------
(* Types of what the actions write *)

\* A request that has nothing loaded is well typed.
LEMMA IdleTyped == Idle \in Request
BY DEF Idle, Request, RequestPcs

\* A new account's row is well typed.
LEMMA NewAccountTyped ==
    ASSUME NEW role \in Roles
    PROVE  NewAccount(role) \in Account
BY AccountBoundsAssumption DEF NewAccount, FirstAccount, Account, Password

\* A migrated account's row is well typed.
LEMMA MigratedAccountTyped ==
    ASSUME NEW role \in Roles
    PROVE  MigratedAccount(role) \in Account
BY AccountBoundsAssumption DEF MigratedAccount, FirstAccount, Account, Password

\* A password that can be issued is well typed.
LEMMA FreshTyped ==
    ASSUME TypeOK, NEW u \in Users, CanIssue(u), NEW temporary \in BOOLEAN
    PROVE  /\ Fresh(u, temporary) \in Password
           /\ Fresh(u, temporary).temporary = temporary
           /\ issued[u] + 1 \in 0 .. MaxPasswords
BY AccountBoundsAssumption DEF TypeOK, CanIssue, Fresh, Password

\* Setting columns of a row keeps it a row.
LEMMA RowTyped ==
    ASSUME NEW a \in Account, NEW p \in Password, NEW legacy \in BOOLEAN,
           NEW change \in BOOLEAN, NEW version \in 0 .. MaxVersion,
           NEW active \in BOOLEAN, NEW role \in Roles
    PROVE  [a EXCEPT !.password = p, !.legacy = legacy, !.mustChange = change,
                     !.version = version, !.active = active, !.role = role]
             \in Account
BY DEF Account

\* What a row holds.
LEMMA RowFields ==
    ASSUME NEW a \in Account
    PROVE  /\ a.password \in Password /\ a.legacy \in BOOLEAN
           /\ a.version \in 0 .. MaxVersion /\ a.active \in BOOLEAN
           /\ a.role \in Roles /\ a.mustChange \in BOOLEAN
BY DEF Account

\* What a request holds.
LEMMA RequestFields ==
    ASSUME NEW q \in Request
    PROVE  /\ q.pc \in RequestPcs
           /\ q.actor \in Users \cup {None} /\ q.target \in Users \cup {None}
           /\ q.loaded \in Account \cup {None}
           /\ q.presented \in Password \cup {None}
BY DEF Request

-----------------------------------------------------------------------------
(* Types *)

\* What request q holds at its step of the work.
Shaped(q) ==
    /\ q.pc \in {"login", "rehashed"} =>
          /\ q.target \in Users /\ account[q.target] # None
          /\ q.loaded # None /\ q.presented # None
    /\ q.pc \in {"change", "update", "reset"} =>
          q.target \in Users /\ account[q.target] # None /\ q.loaded # None
    /\ q.pc = "admin" =>
          q.actor \in Users /\ account[q.actor] # None /\ q.loaded # None

TInv == TypeOK /\ \A r \in Requests : Shaped(request[r])

\* A row is written or left, and a request goes on; no row is ever deleted.
LEMMA StepKeepsTypes ==
    ASSUME TInv, NEW r \in Requests, NEW q \in Request, Shaped(q),
           request' = [request EXCEPT ![r] = q],
           account' \in [Users -> Account \cup {None}],
           \A v \in Users : account[v] # None => account'[v] # None,
           issued' \in [Users -> 0 .. MaxPasswords],
           tokens' \subseteq Token,
           overwritten' \subseteq Users, outrun' \subseteq Users
    PROVE  TInv'
<1>1. TypeOK'
  BY DEF TInv, TypeOK
<1>2. \A s \in Requests : request'[s] = IF s = r THEN q ELSE request[s]
  BY DEF TInv, TypeOK
<1>3. \A x : Shaped(x) => Shaped(x)'
  BY DEF Shaped
<1>. QED
  BY <1>1, <1>2, <1>3 DEF TInv

\* A row is written and its request ends.
LEMMA WriteKeepsTypes ==
    ASSUME TInv, NEW r \in Requests, NEW u \in Users, NEW new \in Account,
           account' = [account EXCEPT ![u] = new],
           issued' \in [Users -> 0 .. MaxPasswords],
           tokens' = tokens, Finish(r),
           overwritten' \subseteq Users, outrun' \subseteq Users
    PROVE  TInv'
<1>1. Idle \in Request /\ Shaped(Idle)
  BY IdleTyped DEF Idle, Shaped
<1>2. /\ account' \in [Users -> Account \cup {None}]
      /\ \A v \in Users : account[v] # None => account'[v] # None
  BY NoAccountAssumption DEF TInv, TypeOK
<1>. QED
  BY <1>1, <1>2, StepKeepsTypes DEF Finish, TInv, TypeOK

\* A login reads, rehashes, reads again and ends.
LEMMA LoginKeepsTypes ==
    ASSUME TInv, NEW r \in Requests, Login(r)
    PROVE  TInv'
<1>. DEFINE u == request[r].target
<1>1. request[r] \in Request /\ Shaped(request[r])
  BY DEF TInv, TypeOK
<1>2. ASSUME NEW v \in Users, LoginRead(r, v) PROVE TInv'
  <2>. DEFINE q == [Idle EXCEPT !.pc = "login", !.target = v, !.loaded = account[v],
                                !.presented = account[v].password]
  <2>1. /\ account[v] \in Account /\ account[v] # None
        /\ account[v].password \in Password /\ account[v].password # None
    BY <1>2, RowFields, NoPasswordAssumption DEF LoginRead, TInv, TypeOK
  <2>2. q \in Request /\ Shaped(q)
    BY <2>1 DEF Idle, Request, RequestPcs, Shaped
  <2>3. request' = [request EXCEPT ![r] = q] /\ UNCHANGED <<account, issued, tokens, history>>
    BY <1>2 DEF LoginRead
  <2>. HIDE DEF q
  <2>. QED
    BY <2>2, <2>3, StepKeepsTypes DEF TInv, TypeOK, history
<1>3. CASE LoginRehash(r)
  <2>. DEFINE new == [account[u] EXCEPT !.password = request[r].presented, !.legacy = FALSE]
              q == [request[r] EXCEPT !.pc = "rehashed"]
  <2>1. u \in Users /\ account[u] \in Account /\ request[r].presented \in Password
    BY <1>1, <1>3, RequestFields DEF LoginRehash, Shaped, TInv, TypeOK
  <2>2. new \in Account
    BY <2>1 DEF Account
  <2>3. q \in Request /\ Shaped(q)
    BY <1>1, <1>3 DEF LoginRehash, Request, RequestPcs, Shaped
  <2>4. /\ request' = [request EXCEPT ![r] = q] /\ UNCHANGED <<issued, tokens>>
        /\ account' = [account EXCEPT ![u] = new]
    BY <1>3, <2>1 DEF LoginRehash, TInv, TypeOK
  <2>. HIDE DEF new, q
  <2>5. /\ account' \in [Users -> Account \cup {None}]
        /\ \A v \in Users : account[v] # None => account'[v] # None
    BY <2>1, <2>2, <2>4, NoAccountAssumption DEF TInv, TypeOK
  <2>6. overwritten' \subseteq Users /\ outrun' \subseteq Users
    BY <1>3, <2>1 DEF LoginRehash, NoteLogin, Noted, TInv, TypeOK
  <2>. QED
    BY <2>3, <2>4, <2>5, <2>6, StepKeepsTypes DEF TInv, TypeOK
<1>4. CASE LoginRefresh(r)
  <2>. DEFINE q == [request[r] EXCEPT !.pc = "login", !.loaded = account[u]]
  <2>1. u \in Users /\ account[u] \in Account /\ account[u] # None
    BY <1>1, <1>4 DEF LoginRefresh, Shaped, TInv, TypeOK
  <2>2. q \in Request /\ Shaped(q)
    BY <1>1, <1>4, <2>1 DEF LoginRefresh, Request, RequestPcs, Shaped
  <2>3. request' = [request EXCEPT ![r] = q] /\ UNCHANGED <<account, issued, tokens>>
    BY <1>4 DEF LoginRefresh, TInv, TypeOK
  <2>4. overwritten' \subseteq Users /\ outrun' \subseteq Users
    BY <1>4, <2>1 DEF LoginRefresh, NoteLogin, Noted, TInv, TypeOK
  <2>. HIDE DEF q
  <2>. QED
    BY <2>2, <2>3, <2>4, StepKeepsTypes DEF TInv, TypeOK
<1>5. CASE LoginIssue(r)
  <2>1. u \in Users /\ request[r].loaded \in Account /\ request[r].presented \in Password
    BY <1>1, <1>5, RequestFields DEF LoginIssue, Shaped
  <2>2. TokenOf(r) \in Token
    BY <2>1, RowFields DEF TokenOf, Token
  <2>3. tokens' \subseteq Token
    BY <1>5, <2>2 DEF LoginIssue, TInv, TypeOK
  <2>4. Idle \in Request /\ Shaped(Idle)
    BY IdleTyped DEF Idle, Shaped
  <2>. QED
    BY <1>5, <2>3, <2>4, StepKeepsTypes DEF LoginIssue, Finish, TInv, TypeOK, history
<1>. QED
  BY <1>2, <1>3, <1>4, <1>5 DEF Login

\* A request for a change reads the rows it is about.
LEMMA ReadsKeepTypes ==
    ASSUME TInv, NEW r \in Requests,
           \/ \E t \in tokens : ChangeRead(r, t) \/ AdminRead(r, t)
           \/ \E u \in Users, pc \in {"update", "reset"} : TargetRead(r, u, pc)
    PROVE  TInv'
<1>1. request[r] \in Request /\ Shaped(request[r])
  BY DEF TInv, TypeOK
<1>2. ASSUME NEW t \in tokens, ChangeRead(r, t) \/ AdminRead(r, t) PROVE TInv'
  <2>. DEFINE change == [Idle EXCEPT !.pc = "change", !.actor = t.user, !.target = t.user,
                                     !.loaded = account[t.user]]
              admin == [Idle EXCEPT !.pc = "admin", !.actor = t.user,
                                    !.loaded = account[t.user]]
  <2>1. t.user \in Users /\ account[t.user] \in Account /\ account[t.user] # None
    BY <1>2 DEF ChangeRead, AdminRead, Accepted, Token, TInv, TypeOK
  <2>2. change \in Request /\ Shaped(change) /\ admin \in Request /\ Shaped(admin)
    BY <2>1 DEF Idle, Request, RequestPcs, Shaped
  <2>3. /\ request' = [request EXCEPT ![r] = change] \/ request' = [request EXCEPT ![r] = admin]
        /\ UNCHANGED <<account, issued, tokens, history>>
    BY <1>2 DEF ChangeRead, AdminRead
  <2>. HIDE DEF change, admin
  <2>. QED
    BY <2>2, <2>3, StepKeepsTypes DEF TInv, TypeOK, history
<1>3. ASSUME NEW u \in Users, NEW pc \in {"update", "reset"}, TargetRead(r, u, pc)
      PROVE  TInv'
  <2>. DEFINE row == IF u = request[r].actor THEN request[r].loaded ELSE account[u]
              q == [request[r] EXCEPT !.pc = pc, !.target = u, !.loaded = row]
  <2>1. row \in Account /\ row # None /\ account[u] # None
    BY <1>1, <1>3, RequestFields DEF TargetRead, Shaped, TInv, TypeOK
  <2>2. q \in Request /\ Shaped(q)
    BY <1>1, <2>1 DEF Request, RequestPcs, Shaped
  <2>3. request' = [request EXCEPT ![r] = q] /\ UNCHANGED <<account, issued, tokens, history>>
    BY <1>3 DEF TargetRead, TInv, TypeOK
  <2>. HIDE DEF q
  <2>. QED
    BY <2>2, <2>3, StepKeepsTypes DEF TInv, TypeOK, history
<1>. QED
  BY <1>2, <1>3

Commit(r) ==
    \/ ChangeCommit(r)
    \/ ResetCommit(r)
    \/ \E role \in Roles \cup {None}, active \in BOOLEAN \cup {None} :
          UpdateCommit(r, role, active)

\* A version one above what was loaded is within its bound.
LEMMA NextVersion ==
    ASSUME NEW v \in 0 .. MaxVersion, v < MaxVersion
    PROVE  v + 1 \in 0 .. MaxVersion /\ v + 1 >= v
BY AccountBoundsAssumption

\* A request writes its row: what others loaded before may be out of date, but
\* every column it writes has its type.
LEMMA CommitsKeepTypes ==
    ASSUME TInv, NEW r \in Requests,
           \/ Commit(r)
           \/ \E u \in Users, role \in Roles : CreateCommit(r, u, role)
    PROVE  TInv'
<1>. DEFINE u == request[r].target
            loaded == request[r].loaded
            old == account[u]
            version == loaded.version + 1
<1>1. ASSUME request[r].pc \in {"change", "update", "reset"}
      PROVE  u \in Users /\ old \in Account /\ loaded \in Account
  BY <1>1, RequestFields DEF Shaped, TInv, TypeOK
<1>2. ASSUME Commit(r)
      PROVE  /\ request[r].pc \in {"change", "update", "reset"}
             /\ version \in 0 .. MaxVersion
  <2>1. request[r].pc \in {"change", "update", "reset"} /\ loaded.version < MaxVersion
    BY <1>2 DEF Commit, ChangeCommit, ResetCommit, UpdateCommit
  <2>. QED
    BY <1>1, <2>1, RowFields, NextVersion
<1>3. ASSUME Commit(r) PROVE overwritten' \subseteq Users /\ outrun' \subseteq Users
  <2>1. NoteWrite(r)
    BY <1>3 DEF Commit, ChangeCommit, ResetCommit, UpdateCommit
  <2>. QED
    BY <1>1, <1>2, <1>3, <2>1 DEF NoteWrite, Noted, TInv, TypeOK
<1>4. ASSUME ChangeCommit(r) \/ ResetCommit(r) PROVE TInv'
  <2>. DEFINE temporary == request[r].pc = "reset"
              change == Flushed(loaded.mustChange, temporary, old.mustChange)
              new == [old EXCEPT !.password = Fresh(u, temporary), !.legacy = FALSE,
                                 !.mustChange = change, !.version = version]
  <2>1. /\ u \in Users /\ old \in Account /\ version \in 0 .. MaxVersion
    BY <1>1, <1>2, <1>4 DEF Commit
  <2>2. change \in BOOLEAN /\ temporary \in BOOLEAN
    BY <2>1, RowFields DEF Flushed
  <2>3. Fresh(u, temporary) \in Password /\ issued[u] + 1 \in 0 .. MaxPasswords
    BY <1>4, <2>1, <2>2, FreshTyped DEF TInv, ChangeCommit, ResetCommit
  <2>4. account' = [account EXCEPT ![u] = new]
    BY <1>4, <2>1 DEF ChangeCommit, ResetCommit, TInv, TypeOK
  <2>5. issued' \in [Users -> 0 .. MaxPasswords] /\ tokens' = tokens /\ Finish(r)
    BY <1>4, <2>3, ZenonT(30) DEF ChangeCommit, ResetCommit, TInv, TypeOK
  <2>. HIDE DEF change, version, temporary
  <2>6. new \in Account
    BY <2>1, <2>2, <2>3 DEF Account
  <2>. HIDE DEF new
  <2>. QED
    BY <1>4, <1>3, <2>1, <2>4, <2>5, <2>6, WriteKeepsTypes DEF Commit
<1>5. ASSUME NEW role \in Roles \cup {None}, NEW active \in BOOLEAN \cup {None},
             UpdateCommit(r, role, active)
      PROVE  TInv'
  <2>. DEFINE role1 == IF role = None THEN old.role
                       ELSE Flushed(loaded.role, role, old.role)
              active1 == IF active = None THEN old.active
                         ELSE Flushed(loaded.active, active, old.active)
              new == [old EXCEPT !.role = role1, !.active = active1, !.version = version]
  <2>1. /\ u \in Users /\ old \in Account /\ version \in 0 .. MaxVersion
    BY <1>1, <1>2, <1>5 DEF Commit
  <2>2. role1 \in Roles /\ active1 \in BOOLEAN
    BY <2>1, RowFields DEF Flushed
  <2>3. account' = [account EXCEPT ![u] = new]
    BY <1>5, <2>1 DEF UpdateCommit, TInv, TypeOK
  <2>4. issued' \in [Users -> 0 .. MaxPasswords] /\ tokens' = tokens /\ Finish(r)
    BY <1>5 DEF UpdateCommit, TInv, TypeOK
  <2>. HIDE DEF role1, active1, version
  <2>5. new \in Account
    BY <2>1, <2>2 DEF Account
  <2>. HIDE DEF new
  <2>. QED
    BY <1>5, <1>3, <2>1, <2>3, <2>4, <2>5, WriteKeepsTypes DEF Commit
<1>6. ASSUME NEW v \in Users, NEW role \in Roles, CreateCommit(r, v, role) PROVE TInv'
  <2>1. issued' \in [Users -> 0 .. MaxPasswords]
    BY <1>6, AccountBoundsAssumption DEF CreateCommit, TInv, TypeOK
  <2>. QED
    BY <1>6, <2>1, NewAccountTyped, WriteKeepsTypes
       DEF CreateCommit, history, TInv, TypeOK
<1>. QED
  BY <1>4, <1>5, <1>6 DEF Commit

\* Nothing is loaded at first.
LEMMA InitTInv == Init => TInv
<1>. SUFFICES ASSUME Init PROVE TInv
  OBVIOUS
<1>1. account \in [Users -> Account \cup {None}]
  BY NewAccountTyped, MigratedAccountTyped DEF Init, Roles
<1>2. issued \in [Users -> 0 .. MaxPasswords]
  BY AccountBoundsAssumption DEF Init
<1>. QED
  BY <1>1, <1>2, IdleTyped DEF Init, TInv, TypeOK, Idle, Shaped

\* Every step keeps types and what requests hold.
LEMMA NextTInv == TInv /\ [Next]_vars => TInv'
<1>. SUFFICES ASSUME TInv, [Next]_vars PROVE TInv'
  OBVIOUS
<1>1. CASE Next
  BY <1>1, LoginKeepsTypes, ReadsKeepTypes, CommitsKeepTypes DEF Next, Administer, Commit
<1>2. CASE UNCHANGED vars
  BY <1>2 DEF vars, history, TInv, TypeOK, Shaped
<1>. QED
  BY <1>1, <1>2

\* Every variable keeps its type and every request what it loaded, however many
\* requests change accounts at the same time.
THEOREM AccountTypes == Spec => []TypeOK
<1>1. TInv => TypeOK
  BY DEF TInv
<1>. QED
  BY <1>1, InitTInv, NextTInv, PTL DEF Spec

-----------------------------------------------------------------------------
(* The inductive invariant *)

\* Request q has loaded u's row and is not done with it.
Holds(q, u) ==
    \/ q.pc \in {"login", "rehashed", "change", "update", "reset"} /\ q.target = u
    \/ q.pc = "admin" /\ q.actor = u

\* What q loaded is no newer than the row; if it is as new, the flag it loaded
\* is the row's, and the password it verified too unless a login outran a change.
Agrees(q, row, kept) ==
    /\ q.loaded.version <= row.version
    /\ q.loaded.version = row.version =>
          /\ q.loaded.mustChange = row.mustChange
          /\ q.pc \in {"login", "rehashed"} /\ kept => q.presented = row.password

Knows(q, u) == Agrees(q, account[u], u \notin outrun)

HeldRowsAreBehind ==
    \A r \in Requests : \A u \in Users \ overwritten :
        Holds(request[r], u) => Knows(request[r], u)

\* The same of a token, whose version and password a login held.
TokenKnows(t) ==
    /\ t.version <= account[t.user].version
    /\ t.version = account[t.user].version /\ t.user \notin outrun =>
          t.password = account[t.user].password

TokensAreBehind ==
    \A t \in tokens : /\ account[t.user] # None
                      /\ t.user \notin overwritten => TokenKnows(t)

\* Only a chosen password has a bcrypt hash, whoever writes.
HashIsChosen(q) ==
    q.pc = "rehashed" \/ (q.pc = "login" /\ q.loaded.legacy) =>
        ~q.presented.temporary

LegacyIsChosen ==
    /\ \A u \in Users : account[u] # None /\ account[u].legacy =>
          ~account[u].password.temporary
    /\ \A r \in Requests : HashIsChosen(request[r])

IInv ==
    /\ TInv
    /\ HeldRowsAreBehind
    /\ TokensAreBehind
    /\ LegacyIsChosen
    /\ TemporaryMustBeChanged

\* The invariant holds when the service is first deployed.
LEMMA InitIInv == Init => IInv
<1>. SUFFICES ASSUME Init PROVE IInv
  OBVIOUS
<1>1. \A u \in Users : account[u] # None =>
         \/ account[u] = NewAccount("admin")
         \/ \E role \in Roles : account[u] = MigratedAccount(role)
  BY DEF Init
<1>2. \A r \in Requests : request[r].pc = "idle"
  BY DEF Init, Idle
<1>3. HeldRowsAreBehind /\ TokensAreBehind
  BY <1>2 DEF HeldRowsAreBehind, Holds, TokensAreBehind, Init
<1>4. \A u \in Users : account[u] # None =>
         /\ account[u].legacy => ~account[u].password.temporary
         /\ account[u].mustChange
  <2>1. \A role \in Roles :
           /\ ~NewAccount(role).legacy /\ NewAccount(role).mustChange
           /\ ~MigratedAccount(role).password.temporary
           /\ MigratedAccount(role).mustChange
    BY DEF NewAccount, MigratedAccount, FirstAccount
  <2>. QED
    BY <1>1, <2>1 DEF Roles
<1>5. LegacyIsChosen /\ TemporaryMustBeChanged
  BY <1>2, <1>4 DEF LegacyIsChosen, HashIsChosen, TemporaryMustBeChanged
<1>. QED
  BY <1>3, <1>5, InitTInv DEF IInv

\* A request that holds a row has loaded it, and the row is there.
LEMMA HeldFacts ==
    ASSUME TInv, NEW r \in Requests, NEW u, Holds(request[r], u)
    PROVE  /\ u \in Users /\ account[u] \in Account /\ account[u] # None
           /\ account[u].version \in Nat
           /\ request[r].loaded \in Account /\ request[r].loaded.version \in Nat
<1>1. /\ u \in Users /\ account[u] \in Account /\ account[u] # None
      /\ request[r].loaded \in Account
  BY RequestFields DEF Holds, Shaped, TInv, TypeOK
<1>. QED
  BY <1>1, RowFields, AccountBoundsAssumption

\* A token's user and version.
LEMMA TokenFacts ==
    ASSUME TInv, NEW t \in tokens
    PROVE  t.user \in Users /\ t.version \in Nat
BY AccountBoundsAssumption DEF TInv, TypeOK, Token

-----------------------------------------------------------------------------
(* Steps that leave the rows alone *)

\* A request that loads something, or ends.
LEMMA ReadKeepsIInv ==
    ASSUME IInv, TInv', NEW r \in Requests, NEW q,
           account' = account, overwritten' = overwritten,
           request' = [request EXCEPT ![r] = q], outrun \subseteq outrun',
           \A u \in Users \ overwritten :
              Holds(q, u) => Agrees(q, account'[u], u \notin outrun'),
           HashIsChosen(q),
           \A t \in tokens' \ tokens :
              /\ account[t.user] # None
              /\ t.user \notin overwritten => TokenKnows(t)
    PROVE  IInv'
<1>1. \A s \in Requests : request'[s] = IF s = r THEN q ELSE request[s]
  BY DEF IInv, TInv, TypeOK
<1>2. \A x, u : Knows(x, u) => Agrees(x, account'[u], u \notin outrun')
  BY DEF Knows, Agrees
<1>3. \A t : TokenKnows(t) => TokenKnows(t)'
  BY DEF TokenKnows
<1>4. HeldRowsAreBehind'
  <2>1. SUFFICES ASSUME NEW s \in Requests, NEW v \in Users \ overwritten,
                        Holds(request'[s], v)
                 PROVE  Agrees(request'[s], account'[v], v \notin outrun')
    BY DEF HeldRowsAreBehind, Holds, Knows
  <2>. QED
    BY <1>1, <1>2, <2>1 DEF IInv, HeldRowsAreBehind
<1>5. TokensAreBehind'
  BY <1>3 DEF IInv, TokensAreBehind
<1>6. LegacyIsChosen' /\ TemporaryMustBeChanged'
  BY <1>1 DEF IInv, LegacyIsChosen, HashIsChosen, TemporaryMustBeChanged
<1>. QED
  BY <1>4, <1>5, <1>6 DEF IInv

\* Who has just loaded u's row knows it.
LEMMA LoadedKnows ==
    ASSUME TInv, NEW u \in Users, account[u] # None, NEW q, q.loaded = account[u],
           q.pc \in {"login", "rehashed"} /\ u \notin outrun =>
              q.presented = account[u].password
    PROVE  Knows(q, u)
<1>1. account[u].version \in Nat
  BY RowFields, AccountBoundsAssumption DEF TInv, TypeOK
<1>. QED
  BY <1>1 DEF Knows, Agrees

\* A login loads the row and verifies the row's password.
LEMMA LoginReadKeepsIInv ==
    ASSUME IInv, TInv', NEW r \in Requests, NEW u \in Users, LoginRead(r, u)
    PROVE  IInv'
<1>. DEFINE q == [Idle EXCEPT !.pc = "login", !.target = u,
                              !.loaded = account[u],
                              !.presented = account[u].password]
<1>1. /\ q.pc = "login" /\ q.target = u /\ q.loaded = account[u]
      /\ q.presented = account[u].password /\ account[u] # None
  BY DEF Idle, LoginRead
<1>2. /\ UNCHANGED <<account, tokens, overwritten, outrun>>
      /\ request' = [request EXCEPT ![r] = q]
  BY DEF LoginRead, history
<1>. HIDE DEF q
<1>3. \A v : Holds(q, v) => v = u
  BY <1>1 DEF Holds
<1>4. Knows(q, u) /\ HashIsChosen(q)
  BY <1>1, LoadedKnows DEF IInv, LegacyIsChosen, HashIsChosen
<1>5. Agrees(q, account'[u], u \notin outrun')
  BY <1>2, <1>4 DEF Knows, Agrees
<1>. QED
  BY <1>2, <1>3, <1>4, <1>5, ReadKeepsIInv

\* A login reads its row again after the rehash; when the row was changed since
\* the password was verified, the step is noted.
LEMMA LoginRefreshKeepsIInv ==
    ASSUME IInv, TInv', NEW r \in Requests, LoginRefresh(r)
    PROVE  IInv'
<1>. DEFINE u == request[r].target
            q == [request[r] EXCEPT !.pc = "login", !.loaded = account[u]]
<1>1. /\ Holds(request[r], u) /\ request[r].pc = "rehashed"
      /\ outrun' = Noted(outrun, r) /\ UNCHANGED <<account, tokens, overwritten>>
  BY DEF LoginRefresh, NoteLogin, Holds
<1>2. /\ q.pc = "login" /\ q.target = u /\ q.loaded = account[u]
      /\ q.presented = request[r].presented
      /\ request' = [request EXCEPT ![r] = q]
  BY DEF LoginRefresh, IInv, TInv, TypeOK, Request
<1>. HIDE DEF q
<1>3. u \in Users /\ account[u] # None /\ account[u].version \in Nat
  BY <1>1, HeldFacts DEF IInv
<1>4. ASSUME u \notin overwritten, u \notin outrun'
      PROVE  q.presented = account[u].password
  <2>1. request[r].loaded.version = account[u].version /\ u \notin outrun
    BY <1>1, <1>4 DEF Noted, Outdated
  <2>. QED
    BY <1>1, <1>2, <1>3, <1>4, <2>1 DEF IInv, HeldRowsAreBehind, Knows, Agrees
<1>5. \A v \in Users \ overwritten :
         Holds(q, v) => Agrees(q, account'[v], v \notin outrun')
  BY <1>1, <1>2, <1>3, <1>4 DEF Holds, Knows, Agrees
<1>6. HashIsChosen(q)
  BY <1>1, <1>2 DEF IInv, LegacyIsChosen, HashIsChosen
<1>7. outrun \subseteq outrun'
  BY <1>1 DEF Noted
<1>. QED
  BY <1>1, <1>2, <1>5, <1>6, <1>7, ReadKeepsIInv

\* A token carries the version a login loaded.
LEMMA LoginIssueKeepsIInv ==
    ASSUME IInv, TInv', NEW r \in Requests, LoginIssue(r)
    PROVE  IInv'
<1>. DEFINE u == request[r].target
<1>1. /\ request[r].pc = "login" /\ Holds(request[r], u)
      /\ UNCHANGED <<account, overwritten, outrun>>
      /\ request' = [request EXCEPT ![r] = Idle]
      /\ \A t \in tokens' \ tokens : t = TokenOf(r)
  BY DEF LoginIssue, Finish, Holds, history
<1>2. u \in Users /\ account[u] # None
  BY <1>1, HeldFacts DEF IInv
<1>3. ASSUME u \notin overwritten PROVE TokenKnows(TokenOf(r))
  BY <1>1, <1>2, <1>3 DEF IInv, HeldRowsAreBehind, Knows, Agrees, TokenOf, TokenKnows
<1>4. \A t \in tokens' \ tokens : /\ account[t.user] # None
                                  /\ t.user \notin overwritten => TokenKnows(t)
  BY <1>1, <1>2, <1>3 DEF TokenOf
<1>5. HashIsChosen(Idle) /\ \A v : ~Holds(Idle, v)
  BY DEF Idle, HashIsChosen, Holds
<1>. QED
  BY <1>1, <1>4, <1>5, ReadKeepsIInv

\* A request for a change loads the row of the token's user.
LEMMA ActorReadKeepsIInv ==
    ASSUME IInv, TInv', NEW r \in Requests, NEW t \in tokens,
           ChangeRead(r, t) \/ AdminRead(r, t)
    PROVE  IInv'
<1>. DEFINE q == request'[r]
<1>1. t.user \in Users /\ account[t.user] # None
  BY TokenFacts DEF IInv, TokensAreBehind
<1>2. /\ UNCHANGED <<account, tokens, overwritten, outrun>>
      /\ request' = [request EXCEPT ![r] = q]
  BY DEF ChangeRead, AdminRead, history, IInv, TInv, TypeOK
<1>3. /\ q.pc \in {"change", "admin"} /\ q.loaded = account[t.user]
      /\ \A v : Holds(q, v) => v = t.user
  BY DEF ChangeRead, AdminRead, Idle, Holds, IInv, TInv, TypeOK
<1>. HIDE DEF q
<1>4. Knows(q, t.user) /\ HashIsChosen(q)
  BY <1>1, <1>3, LoadedKnows DEF IInv, HashIsChosen
<1>5. Agrees(q, account'[t.user], t.user \notin outrun')
  BY <1>2, <1>4 DEF Knows, Agrees
<1>. QED
  BY <1>2, <1>3, <1>4, <1>5, ReadKeepsIInv

\* It then loads the row of the user it is about, or has it already.
LEMMA TargetReadKeepsIInv ==
    ASSUME IInv, TInv', NEW r \in Requests, NEW u \in Users,
           NEW pc \in {"update", "reset"}, TargetRead(r, u, pc)
    PROVE  IInv'
<1>. DEFINE row == IF u = request[r].actor THEN request[r].loaded ELSE account[u]
            q == [request[r] EXCEPT !.pc = pc, !.target = u, !.loaded = row]
<1>1. request[r].pc = "admin" /\ account[u] # None
  BY DEF TargetRead
<1>2. /\ UNCHANGED <<account, tokens, overwritten, outrun>>
      /\ request' = [request EXCEPT ![r] = q]
  BY DEF TargetRead, history, IInv, TInv, TypeOK
<1>3. q.pc = pc /\ q.target = u /\ q.loaded = row
  BY DEF IInv, TInv, TypeOK, Request
<1>4. ASSUME u \notin overwritten PROVE Knows(q, u)
  <2>1. CASE u = request[r].actor
    <3>1. Knows(request[r], u)
      BY <1>1, <1>4, <2>1 DEF IInv, HeldRowsAreBehind, Holds
    <3>. QED
      BY <1>3, <2>1, <3>1 DEF Knows, Agrees
  <2>2. CASE u # request[r].actor
    <3>. HIDE DEF q
    <3>1. q.loaded = account[u]
      BY <1>3, <2>2
    <3>. QED
      BY <1>1, <1>3, <3>1, LoadedKnows DEF IInv
  <2>. QED
    BY <2>1, <2>2
<1>. HIDE DEF q, row
<1>5. \A v \in Users \ overwritten :
         Holds(q, v) => Agrees(q, account'[v], v \notin outrun')
  BY <1>2, <1>3, <1>4 DEF Holds, Knows, Agrees
<1>6. HashIsChosen(q)
  BY <1>3 DEF HashIsChosen
<1>. QED
  BY <1>2, <1>5, <1>6, ReadKeepsIInv

-----------------------------------------------------------------------------
(* Steps that write a row *)

\* Rows but u's stay, and u's moves on, unless the writer had not read it as it
\* is: then u is noted.
LEMMA WriteKeepsIInv ==
    ASSUME IInv, TInv', NEW r \in Requests, NEW u \in Users, NEW new \in Account,
           account' = [account EXCEPT ![u] = new], account[u] # None,
           overwritten \subseteq overwritten', outrun' = outrun,
           u \notin overwritten' => new.version > account[u].version,
           u \notin overwritten' /\ new.password.temporary => new.mustChange,
           new.legacy => ~new.password.temporary,
           tokens' = tokens, Finish(r)
    PROVE  IInv'
<1>1. /\ account'[u] = new /\ new # None
      /\ \A v \in Users : v # u => account'[v] = account[v]
  BY NoAccountAssumption DEF IInv, TInv, TypeOK
<1>2. \A s \in Requests : request'[s] = IF s = r THEN Idle ELSE request[s]
  BY DEF Finish, IInv, TInv, TypeOK
<1>3. new.version \in Nat /\ account[u].version \in Nat
  BY RowFields, AccountBoundsAssumption DEF IInv, TInv, TypeOK
<1>4. HeldRowsAreBehind'
  <2>1. SUFFICES ASSUME NEW s \in Requests, NEW v \in Users \ overwritten',
                        Holds(request'[s], v)
                 PROVE  Agrees(request'[s], account'[v], v \notin outrun')
    BY DEF HeldRowsAreBehind, Holds, Knows
  <2>2. request'[s] = request[s]
    BY <1>2, <2>1 DEF Idle, Holds
  <2>3. Knows(request[s], v) /\ request[s].loaded.version \in Nat
    BY <2>1, <2>2, HeldFacts DEF IInv, HeldRowsAreBehind
  <2>4. CASE v = u
    BY <1>1, <1>3, <2>1, <2>2, <2>3, <2>4 DEF Knows, Agrees
  <2>5. CASE v # u
    BY <1>1, <2>2, <2>3, <2>5 DEF Knows, Agrees
  <2>. QED
    BY <2>4, <2>5
<1>5. TokensAreBehind'
  <2>1. SUFFICES ASSUME NEW t \in tokens
                 PROVE  /\ account'[t.user] # None
                        /\ t.user \notin overwritten' => TokenKnows(t)'
    BY DEF TokensAreBehind
  <2>2. /\ t.user \in Users /\ t.version \in Nat /\ account[t.user] # None
        /\ t.user \notin overwritten => TokenKnows(t)
    BY TokenFacts DEF IInv, TokensAreBehind
  <2>3. CASE t.user = u
    BY <1>1, <1>3, <2>2, <2>3 DEF TokenKnows
  <2>4. CASE t.user # u
    BY <1>1, <2>2, <2>4 DEF TokenKnows
  <2>. QED
    BY <2>3, <2>4
<1>6. LegacyIsChosen'
  BY <1>1, <1>2 DEF IInv, LegacyIsChosen, HashIsChosen, Idle
<1>7. TemporaryMustBeChanged'
  BY <1>1 DEF IInv, TemporaryMustBeChanged
<1>. QED
  BY <1>4, <1>5, <1>6, <1>7 DEF IInv

\* Request r ends by writing `new` over its target's row: one version further,
\* unless others changed the row since r read it.
Writes(r, new) ==
    LET u == request[r].target IN
    /\ request[r].pc \in {"change", "update", "reset"}
    /\ account' = [account EXCEPT ![u] = new]
    /\ ~Outdated(r) => new.version = account[u].version + 1
    /\ u \notin overwritten' /\ new.password.temporary => new.mustChange
    /\ new.legacy => ~new.password.temporary
    /\ overwritten' = Noted(overwritten, r) /\ outrun' = outrun
    /\ tokens' = tokens /\ Finish(r)

\* What a request that is about to write knows of its user.
LEMMA WriterFacts ==
    ASSUME IInv, NEW r \in Requests,
           request[r].pc \in {"change", "update", "reset"}
    PROVE  LET u == request[r].target
               loaded == request[r].loaded
           IN  /\ u \in Users /\ account[u] \in Account /\ account[u] # None
               /\ account[u].version \in Nat
               /\ loaded \in Account /\ loaded.version \in Nat
               /\ u \notin Noted(overwritten, r) =>
                     loaded.mustChange = account[u].mustChange
<1>. DEFINE u == request[r].target
<1>1. Holds(request[r], u)
  BY DEF Holds
<1>2. u \notin Noted(overwritten, r) =>
         u \notin overwritten /\ request[r].loaded.version = account[u].version
  BY DEF Noted, Outdated
<1>3. u \notin Noted(overwritten, r) => Knows(request[r], u)
  BY <1>1, <1>2, HeldFacts DEF IInv, HeldRowsAreBehind
<1>. QED
  BY <1>1, <1>2, <1>3, HeldFacts DEF Knows, Agrees, IInv

\* A password change writes a chosen password, a reset a temporary one and the
\* flag, unless the flag it loaded is not the row's.
LEMMA PasswordCommitWrites ==
    ASSUME IInv, NEW r \in Requests, ChangeCommit(r) \/ ResetCommit(r)
    PROVE  \E new \in Account : Writes(r, new)
<1>. DEFINE u == request[r].target
            loaded == request[r].loaded
            old == account[u]
            temporary == request[r].pc = "reset"
            change == Flushed(loaded.mustChange, temporary, old.mustChange)
            version == loaded.version + 1
            new == [old EXCEPT !.password = Fresh(u, temporary), !.legacy = FALSE,
                               !.mustChange = change, !.version = version]
<1>1. /\ request[r].pc \in {"change", "reset"} /\ CanIssue(u)
      /\ loaded.version < MaxVersion /\ NoteWrite(r)
      /\ tokens' = tokens /\ Finish(r)
  BY DEF ChangeCommit, ResetCommit
<1>2. /\ u \in Users /\ old \in Account /\ loaded \in Account
      /\ u \notin Noted(overwritten, r) => loaded.mustChange = old.mustChange
  BY <1>1, WriterFacts
<1>3. version \in 0 .. MaxVersion /\ change \in BOOLEAN /\ temporary \in BOOLEAN
  BY <1>1, <1>2, RowFields, NextVersion DEF Flushed
<1>4. Fresh(u, temporary) \in Password /\ Fresh(u, temporary).temporary = temporary
  BY <1>1, <1>2, <1>3, FreshTyped DEF IInv, TInv
<1>5. account' = [account EXCEPT ![u] = new]
  BY <1>2 DEF ChangeCommit, ResetCommit, IInv, TInv, TypeOK
<1>6. u \notin Noted(overwritten, r) /\ temporary => change
  BY <1>2, RowFields DEF Flushed
<1>7. ~Outdated(r) => version = old.version + 1
  BY DEF Outdated
<1>. HIDE DEF change, version, temporary
<1>8. /\ new \in Account /\ new.version = version /\ ~new.legacy
      /\ new.password = Fresh(u, temporary) /\ new.mustChange = change
  BY <1>2, <1>3, <1>4 DEF Account
<1>. HIDE DEF new
<1>. QED
  BY <1>1, <1>4, <1>5, <1>6, <1>7, <1>8 DEF Writes, NoteWrite

\* A change of role or activation leaves the password and its flag alone.
LEMMA UpdateCommitWrites ==
    ASSUME IInv, NEW r \in Requests, NEW role \in Roles \cup {None},
           NEW active \in BOOLEAN \cup {None}, UpdateCommit(r, role, active)
    PROVE  \E new \in Account : Writes(r, new)
<1>. DEFINE u == request[r].target
            loaded == request[r].loaded
            old == account[u]
            role1 == IF role = None THEN old.role
                     ELSE Flushed(loaded.role, role, old.role)
            active1 == IF active = None THEN old.active
                       ELSE Flushed(loaded.active, active, old.active)
            version == loaded.version + 1
            new == [old EXCEPT !.role = role1, !.active = active1,
                               !.version = version]
<1>1. /\ request[r].pc = "update" /\ loaded.version < MaxVersion /\ NoteWrite(r)
      /\ tokens' = tokens /\ Finish(r)
  BY DEF UpdateCommit
<1>2. u \in Users /\ old \in Account /\ old # None /\ loaded \in Account
  BY <1>1, WriterFacts
<1>3. version \in 0 .. MaxVersion /\ role1 \in Roles /\ active1 \in BOOLEAN
  BY <1>1, <1>2, RowFields, NextVersion DEF Flushed
<1>4. account' = [account EXCEPT ![u] = new]
  BY <1>2 DEF UpdateCommit, IInv, TInv, TypeOK
<1>5. ~Outdated(r) => version = old.version + 1
  BY DEF Outdated
<1>. HIDE DEF role1, active1, version
<1>6. /\ new \in Account /\ new.version = version /\ new.legacy = old.legacy
      /\ new.password = old.password /\ new.mustChange = old.mustChange
  BY <1>2, <1>3 DEF Account
<1>. HIDE DEF new
<1>7. overwritten \subseteq Noted(overwritten, r)
  BY DEF Noted
<1>8. /\ new.legacy => ~new.password.temporary
      /\ u \notin Noted(overwritten, r) /\ new.password.temporary => new.mustChange
  BY <1>2, <1>6, <1>7 DEF IInv, LegacyIsChosen, TemporaryMustBeChanged
<1>. QED
  BY <1>1, <1>4, <1>5, <1>6, <1>8 DEF Writes, NoteWrite

\* A commit keeps the invariant.
LEMMA CommitKeepsIInv ==
    ASSUME IInv, TInv', NEW r \in Requests, Commit(r)
    PROVE  IInv'
<1>1. PICK new \in Account : Writes(r, new)
  BY PasswordCommitWrites, UpdateCommitWrites DEF Commit
<1>. DEFINE u == request[r].target
<1>2. u \in Users /\ account[u] # None /\ account[u].version \in Nat
  BY <1>1, WriterFacts DEF Writes
<1>3. overwritten \subseteq overwritten' /\ (u \notin overwritten' => ~Outdated(r))
  BY <1>1 DEF Writes, Noted
<1>4. u \notin overwritten' => new.version > account[u].version
  BY <1>1, <1>2, <1>3 DEF Writes
<1>5. /\ account' = [account EXCEPT ![u] = new]
      /\ u \notin overwritten' /\ new.password.temporary => new.mustChange
      /\ new.legacy => ~new.password.temporary
      /\ tokens' = tokens /\ Finish(r) /\ outrun' = outrun
  BY <1>1 DEF Writes
<1>. HIDE DEF u
<1>. QED
  BY <1>2, <1>3, <1>4, <1>5, WriteKeepsIInv

\* A rehash changes neither version nor flags, and the password only when the
\* row was changed since the login verified it.
LEMMA LoginRehashKeepsIInv ==
    ASSUME IInv, TInv', NEW r \in Requests, LoginRehash(r)
    PROVE  IInv'
<1>. DEFINE u == request[r].target
            p == request[r].presented
            old == account[u]
            new == [old EXCEPT !.password = p, !.legacy = FALSE]
<1>1. Holds(request[r], u) /\ request[r].pc = "login" /\ request[r].loaded.legacy
  BY DEF LoginRehash, Holds
<1>2. u \in Users /\ old \in Account /\ old # None /\ p \in Password
  BY <1>1, HeldFacts, RequestFields DEF IInv, TInv, TypeOK, Shaped
<1>3. /\ account' = [account EXCEPT ![u] = new]
      /\ overwritten' = overwritten /\ outrun' = Noted(outrun, r)
      /\ tokens' = tokens
  BY <1>2 DEF LoginRehash, NoteLogin, IInv, TInv, TypeOK
<1>4. ~p.temporary
  BY <1>1 DEF IInv, LegacyIsChosen, HashIsChosen
<1>5. /\ new.version = old.version /\ new.mustChange = old.mustChange
      /\ ~new.legacy /\ new.password = p /\ new # None
  BY <1>2, NoAccountAssumption DEF Account
<1>6. u \notin overwritten /\ u \notin outrun' => p = old.password
  <2>1. u \notin outrun' => u \notin outrun /\ request[r].loaded.version = old.version
    BY <1>3 DEF Noted, Outdated
  <2>. QED
    BY <1>1, <1>2, <2>1 DEF IInv, HeldRowsAreBehind, Knows, Agrees
<1>. HIDE DEF new
<1>7. account'[u] = new /\ \A v \in Users : v # u => account'[v] = account[v]
  BY <1>2, <1>3 DEF IInv, TInv, TypeOK
<1>8. /\ \A s \in Requests : s # r => request'[s] = request[s]
      /\ request'[r].pc = "rehashed" /\ request'[r].target = u
      /\ request'[r].loaded = request[r].loaded /\ request'[r].presented = p
  BY ZenonT(30) DEF LoginRehash, IInv, TInv, TypeOK, Request
<1>. HIDE DEF p, old, u
<1>9. outrun \subseteq outrun'
  BY <1>3 DEF Noted
<1>10. account'[u] # None
  BY <1>5, <1>7
<1>11. \A v \in Users : account[v] # None =>
         /\ account'[v] # None
         /\ account'[v].version = account[v].version
         /\ account'[v].mustChange = account[v].mustChange
         /\ v \notin overwritten /\ v \notin outrun' =>
               account'[v].password = account[v].password
  BY <1>5, <1>6, <1>7, <1>10 DEF old
<1>12. HeldRowsAreBehind'
  <2>1. SUFFICES ASSUME NEW s \in Requests, NEW v \in Users \ overwritten,
                        Holds(request'[s], v)
                 PROVE  Agrees(request'[s], account'[v], v \notin outrun')
    BY <1>3 DEF HeldRowsAreBehind, Holds, Knows
  <2>2. /\ Holds(request[s], v)
        /\ request'[s].loaded = request[s].loaded
        /\ request'[s].presented = request[s].presented
        /\ request'[s].pc \in {"login", "rehashed"} =>
              request[s].pc \in {"login", "rehashed"}
    BY <1>1, <1>8, <2>1 DEF Holds, p, u
  <2>3. Knows(request[s], v) /\ account[v] # None
    BY <2>2, HeldFacts DEF IInv, HeldRowsAreBehind
  <2>. QED
    BY <1>9, <1>11, <2>1, <2>2, <2>3 DEF Knows, Agrees
<1>13. TokensAreBehind'
  BY <1>3, <1>9, <1>11, TokenFacts DEF IInv, TokensAreBehind, TokenKnows
<1>14. LegacyIsChosen'
  BY <1>4, <1>5, <1>7, <1>8 DEF IInv, LegacyIsChosen, HashIsChosen
<1>15. TemporaryMustBeChanged'
  BY <1>3, <1>4, <1>5, <1>7 DEF IInv, TemporaryMustBeChanged
<1>. QED
  BY <1>12, <1>13, <1>14, <1>15 DEF IInv

\* A new row is held by nobody, and begins with a temporary password and the
\* flag.
LEMMA CreateCommitKeepsIInv ==
    ASSUME IInv, TInv', NEW r \in Requests, NEW u \in Users, NEW role \in Roles,
           CreateCommit(r, u, role)
    PROVE  IInv'
<1>1. /\ account[u] = None /\ account'[u] = NewAccount(role)
      /\ \A v \in Users : v # u => account'[v] = account[v]
      /\ UNCHANGED <<tokens, overwritten, outrun>>
  BY DEF CreateCommit, history, IInv, TInv, TypeOK
<1>2. \A s \in Requests : request'[s] = IF s = r THEN Idle ELSE request[s]
  BY DEF CreateCommit, Finish, IInv, TInv, TypeOK
<1>3. HeldRowsAreBehind'
  <2>1. SUFFICES ASSUME NEW s \in Requests, NEW v \in Users \ overwritten,
                        Holds(request'[s], v)
                 PROVE  Agrees(request'[s], account'[v], v \notin outrun')
    BY <1>1 DEF HeldRowsAreBehind, Holds, Knows
  <2>2. request'[s] = request[s]
    BY <1>2, <2>1 DEF Idle, Holds
  <2>3. v # u
    BY <1>1, <2>1, <2>2, HeldFacts DEF IInv
  <2>. QED
    BY <1>1, <2>1, <2>2, <2>3 DEF IInv, HeldRowsAreBehind, Knows, Agrees
<1>4. TokensAreBehind'
  <2>1. \A t \in tokens : t.user \in Users /\ t.user # u
    BY <1>1, TokenFacts DEF IInv, TokensAreBehind
  <2>. QED
    BY <1>1, <2>1 DEF IInv, TokensAreBehind, TokenKnows
<1>5. LegacyIsChosen' /\ TemporaryMustBeChanged'
  BY <1>1, <1>2 DEF IInv, LegacyIsChosen, HashIsChosen, TemporaryMustBeChanged, Idle,
                    NewAccount, FirstAccount
<1>. QED
  BY <1>3, <1>4, <1>5 DEF IInv

-----------------------------------------------------------------------------
(* The invariant, and what follows from it *)

\* Every step keeps the invariant.
LEMMA NextIInv == IInv /\ [Next]_vars => IInv'
<1>. SUFFICES ASSUME IInv, [Next]_vars PROVE IInv'
  OBVIOUS
<1>. TInv'
  BY NextTInv DEF IInv
<1>1. ASSUME NEW r \in Requests, Login(r) PROVE IInv'
  BY <1>1, LoginReadKeepsIInv, LoginRehashKeepsIInv, LoginRefreshKeepsIInv,
     LoginIssueKeepsIInv DEF Login
<1>2. ASSUME NEW r \in Requests, NEW t \in tokens, ChangeRead(r, t) PROVE IInv'
  BY <1>2, ActorReadKeepsIInv
<1>3. ASSUME NEW r \in Requests, ChangeCommit(r) PROVE IInv'
  BY <1>3, CommitKeepsIInv DEF Commit
<1>4. ASSUME NEW r \in Requests, Administer(r) PROVE IInv'
  BY <1>4, ActorReadKeepsIInv, TargetReadKeepsIInv, CommitKeepsIInv,
     CreateCommitKeepsIInv DEF Administer, Commit
<1>5. CASE UNCHANGED vars
  BY <1>5 DEF vars, history, IInv, HeldRowsAreBehind, Holds, Knows, Agrees, TokensAreBehind,
              TokenKnows, LegacyIsChosen, HashIsChosen, TemporaryMustBeChanged
<1>. QED
  BY <1>1, <1>2, <1>3, <1>4, <1>5 DEF Next

\* A login, a token or a request for a change never gets ahead of the row it
\* read, and what is as new as the row agrees with it, until a request writes
\* over a change it had not read.
THEOREM AccountsInvariance == Spec => []IInv
  BY InitIInv, NextIInv, PTL DEF Spec

\* A generated password keeps the obligation to change it, however many
\* requests change and reset passwords at once, until one writes over a change
\* it had not read.
THEOREM TemporaryPasswordsAreChanged == Spec => []TemporaryMustBeChanged
<1>1. IInv => TemporaryMustBeChanged
  BY DEF IInv
<1>. QED
  BY <1>1, AccountsInvariance, PTL

\* Of users whose row no request wrote over a change it had not read, and no login
\* the hash: what is accepted was obtained with the present password. A change or a
\* reset ends every session begun with the one before, the logins under way included.
THEOREM ResetsEndSessions == Spec => []AcceptedTokensAreCurrent
<1>1. IInv => AcceptedTokensAreCurrent
  BY DEF IInv, TokensAreBehind, TokenKnows, AcceptedTokensAreCurrent, Accepted
<1>. QED
  BY <1>1, AccountsInvariance, PTL

\* A token its user's row refuses is refused ever after, but for a request that
\* writes over a change of the row it had not read.
THEOREM RefusalsAreFinal == Spec => RefusedTokensStayRefused
<1>1. ASSUME IInv, [Next]_vars, NEW t \in tokens, ~Accepted(t),
             t.user \notin overwritten'
      PROVE  ~Accepted(t)'
  <2>1. /\ t.user \in Users /\ account[t.user] # None /\ t.version \in Nat
        /\ account[t.user] \in Account /\ account[t.user].version \in Nat
    BY <1>1, TokenFacts, RowFields, AccountBoundsAssumption
       DEF IInv, TokensAreBehind, TInv, TypeOK
  <2>2. CASE account'[t.user] = account[t.user]
    BY <1>1, <2>2 DEF Accepted
  <2>3. ASSUME NEW r \in Requests, Commit(r) PROVE ~Accepted(t)'
    <3>1. PICK new \in Account : Writes(r, new)
      BY <1>1, <2>3, PasswordCommitWrites, UpdateCommitWrites DEF Commit
    <3>2. CASE t.user = request[r].target
      <4>1. t.user \notin overwritten /\ ~Outdated(r)
        BY <1>1, <3>1, <3>2 DEF Writes, Noted
      <4>2. t.version <= account[t.user].version
        BY <1>1, <4>1 DEF IInv, TokensAreBehind, TokenKnows
      <4>3. account'[t.user].version = account[t.user].version + 1
        BY <1>1, <2>1, <3>1, <3>2, <4>1 DEF Writes, IInv, TInv, TypeOK
      <4>. QED
        BY <2>1, <4>2, <4>3 DEF Accepted
    <3>3. CASE t.user # request[r].target
      BY <1>1, <2>1, <2>2, <3>1, <3>3 DEF Writes, IInv, TInv, TypeOK
    <3>. QED
      BY <3>2, <3>3
  <2>4. ASSUME NEW r \in Requests, LoginRehash(r) PROVE ~Accepted(t)'
    <3>1. /\ account'[t.user].version = account[t.user].version
          /\ account'[t.user].active = account[t.user].active
      BY <1>1, <2>1, <2>4 DEF LoginRehash, IInv, TInv, TypeOK, Account
    <3>. QED
      BY <1>1, <2>1, <3>1 DEF Accepted
  <2>5. ASSUME NEW r \in Requests, NEW u \in Users, NEW role \in Roles,
               CreateCommit(r, u, role)
        PROVE  ~Accepted(t)'
    BY <1>1, <2>1, <2>2, <2>5 DEF CreateCommit, IInv, TInv, TypeOK
  <2>6. \/ UNCHANGED account
        \/ \E r \in Requests : Commit(r) \/ LoginRehash(r)
        \/ \E r \in Requests, u \in Users, role \in Roles : CreateCommit(r, u, role)
    BY <1>1 DEF Next, Login, Administer, Commit, vars, LoginRead, LoginRefresh,
                LoginIssue, ChangeRead, AdminRead, TargetRead
  <2>. QED
    BY <2>2, <2>3, <2>4, <2>5, <2>6
<1>2. IInv /\ [Next]_vars =>
         [\A t \in tokens : ~Accepted(t) /\ t.user \notin overwritten' =>
             ~Accepted(t)']_vars
  BY <1>1
<1>. QED
  BY <1>2, AccountsInvariance, PTL DEF Spec, RefusedTokensStayRefused
=============================================================================
