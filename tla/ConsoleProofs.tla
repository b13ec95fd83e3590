---------------------------- MODULE ConsoleProofs ----------------------------
(* The administrator's pages, for any users, roles, changes and rows: the     *)
(* list of users is current, and the list of their activity, read page by    *)
(* page while rows are added, has every row once and in order.               *)
(* UsersListIsCurrent says nothing of a list that is being read; its         *)
(* invariant adds what such a read will bring.  The properties of the pages  *)
(* need what a page is: the rows below a cursor, end to end.  That the order *)
(* of a set of rows exists is shown by induction on its greatest row.        *)
EXTENDS AdminConsole, SequenceLemmas

\* The list is told of no change that has not been made.
ToldIsMade ==
    /\ told \subseteq committed
    /\ IsOk(create) => create.at \subseteq committed
    /\ IsOk(update) => update.at \subseteq committed

\* A read that is answered but has not arrived includes what the list was told
\* of by now: one asked earlier is dropped when the list is told.
ReadIsCurrent ==
    /\ DOMAIN users = {"data", "error", "fetch"}
    /\ users.fetch \notin {None, Sent} => told \subseteq users.fetch.at

\* What a read of the users would bring is a snapshot, as are those it brought;
\* the dialogs and the requests they send are made from these.
Readable ==
    /\ account \in Directory
    /\ rows \in Seq(Classes) /\ committed \subseteq Nat
    /\ users.data # None => users.data.data \in Directory
    /\ users.fetch \notin {None, Sent} => users.fetch.data \in Directory

Requested ==
    /\ creating # None => creating \in Roles
    /\ editing # None => editing \in Edit
    /\ IsSent(create) => create.body \in Roles
    /\ IsSent(update) => update.body \in Edit

IInv == Readable /\ Requested /\ ToldIsMade /\ ReadIsCurrent /\ UsersListIsCurrent

\* Nobody is told of anything, and the list stays as it is or out of sight.
Untold ==
    /\ told' = told /\ users' = users
    /\ route' = "users" /\ mounted' => route = "users" /\ mounted

LEMMA UntoldKeepsList ==
    ASSUME ReadIsCurrent, UsersListIsCurrent, Untold
    PROVE  (ReadIsCurrent /\ UsersListIsCurrent)'
BY DEF ReadIsCurrent, UsersListIsCurrent, Untold

LEMMA ReadKeepsList ==
    ASSUME ReadIsCurrent, UsersListIsCurrent, told' = told,
           users' \in {Joined, Refreshed}
    PROVE  (ReadIsCurrent /\ UsersListIsCurrent)'
<1>1. /\ DOMAIN users' = {"data", "error", "fetch"}
      /\ users'.fetch = Sent \/ (users'.fetch = users.fetch /\ users.fetch # None)
  BY DEF ReadIsCurrent, Joined, Refreshed
<1>. QED BY <1>1, AnswersAreSome DEF ReadIsCurrent, UsersListIsCurrent

\* Whatever was under way is dropped, whatever was told.
LEMMA RefreshKeepsList ==
    ASSUME ReadIsCurrent, users' = Refreshed
    PROVE  (ReadIsCurrent /\ UsersListIsCurrent)'
<1>1. DOMAIN users' = {"data", "error", "fetch"} /\ users'.fetch = Sent
  BY DEF ReadIsCurrent, Refreshed
<1>. QED BY <1>1, AnswersAreSome DEF ReadIsCurrent, UsersListIsCurrent

\* The answers of the mutations name what has been made by then.
LEMMA MadeGrows ==
    ASSUME ToldIsMade, told' = told, committed \subseteq committed',
           create' = create \/ (IsOk(create)' => create'.at \subseteq committed'),
           update' = update \/ (IsOk(update)' => update'.at \subseteq committed')
    PROVE  ToldIsMade'
BY DEF ToldIsMade, IsOk

\* The queries of the audit activity change nothing on the server.
LEMMA ListReadsOnly ==
    ASSUME ListStep \/ Unwatched
    PROVE  committed' = committed /\ rows' = rows
BY DEF ListStep, Unwatched, Type, Defer, Reread, LoadMore, ReadPage, ReadFails

LEMMA PageSteps ==
    ASSUME IInv,
           \/ OpenCreate \/ CloseDialog
           \/ \E u \in Users : OpenEdit(u) \/ SubmitReset(u)
           \/ \E p \in Profile : ChooseProfile(p)
           \/ SubmitCreate \/ SubmitUpdate \/ Reset \/ MutationFails
           \/ OpenAudit \/ Leave
    PROVE  IInv'
<1>1. /\ told' = told /\ UNCHANGED server /\ users' = users
      /\ create' = create \/ ~IsOk(create)'
      /\ update' = update \/ ~IsOk(update)'
  BY DEF OpenCreate, CloseDialog, OpenEdit, SubmitReset, ChooseProfile, SubmitCreate,
         SubmitUpdate, Reset, MutationFails, OpenAudit, Leave, Closed, server, dialogs,
         mutations, IsOk
<1>2. Untold
  BY DEF OpenCreate, CloseDialog, OpenEdit, SubmitReset, ChooseProfile, SubmitCreate,
         SubmitUpdate, Reset, MutationFails, OpenAudit, Leave, Untold
<1>3. Requested'
  <2>1. ASSUME NEW u \in Users, OpenEdit(u)
        PROVE  Requested'
    <3>1. users.data.data[u] \in Profile
      BY <2>1 DEF OpenEdit, Listed, IInv, Readable, Directory
    <3>2. [user |-> u, profile |-> users.data.data[u]] \in Edit
      BY <3>1 DEF Edit
    <3>. QED BY <2>1, <3>2 DEF OpenEdit, IInv, Requested, mutations, IsSent
  <2>2. ASSUME NEW p \in Profile, ChooseProfile(p)
        PROVE  Requested'
    BY <2>2 DEF ChooseProfile, IInv, Requested, Edit, mutations, IsSent
  <2>3. CASE SubmitCreate \/ SubmitUpdate \/ OpenCreate \/ CloseDialog \/ MutationFails
    BY <2>3 DEF SubmitCreate, SubmitUpdate, OpenCreate, CloseDialog, MutationFails, IInv,
                Requested, dialogs, mutations, IsSent
  <2>4. CASE Reset \/ OpenAudit \/ Leave \/ \E u \in Users : SubmitReset(u)
    BY <2>4 DEF Reset, OpenAudit, Leave, SubmitReset, Closed, IInv, Requested, dialogs,
                mutations, IsSent
  <2>. QED BY <2>1, <2>2, <2>3, <2>4
<1>. QED BY <1>1, <1>2, <1>3, MadeGrows, UntoldKeepsList DEF IInv, Readable, server

\* A change and its event.
LEMMA ServerKeepsReadable ==
    ASSUME Readable, Requested,
           \/ ServeCreate \/ ServeUpdate \/ ServeReset \/ BeginElsewhere
           \/ \E i \in DOMAIN rows \ committed : CommitElsewhere(i)
           \/ AuditStep
    PROVE  Readable'
<1>1. account' \in Directory
  <2>1. ASSUME NEW u \in Users, NEW r \in Roles, CreateUser(u, r)
        PROVE  account' \in Directory
    <3>1. [role |-> r, active |-> TRUE] \in Profile
      BY DEF Profile
    <3>. QED BY <2>1, <3>1 DEF CreateUser, Readable, Directory
  <2>2. ASSUME NEW u \in Users, NEW p \in Profile, UpdateUser(u, p)
        PROVE  account' \in Directory
    BY <2>2 DEF UpdateUser, Readable, Directory
  <2>3. CASE ServeCreate
    BY <2>1, <2>3 DEF ServeCreate, Requested
  <2>4. CASE ServeUpdate
    BY <2>2, <2>4 DEF ServeUpdate, Requested, Edit
  <2>5. CASE ServeReset \/ BeginElsewhere \/ AuditStep
    BY <2>5 DEF ServeReset, BeginElsewhere, AuditStep, Readable
  <2>6. ASSUME NEW i, CommitElsewhere(i)
        PROVE  account' \in Directory
    BY <2>1, <2>2, <2>6 DEF CommitElsewhere
  <2>. QED BY <2>3, <2>4, <2>5, <2>6
<1>2. rows' \in Seq(Classes)
  <2>1. ASSUME NEW e \in Classes, rows' = Append(rows, e)
        PROVE  rows' \in Seq(Classes)
    BY <2>1 DEF Readable
  <2>. QED
    BY <2>1, EventClasses, ListReadsOnly
    DEF ServeCreate, ServeUpdate, ServeReset, BeginElsewhere, CommitElsewhere, AuditStep,
        Record, Place, Readable
<1>3. committed' \subseteq Nat
  <2>1. Len(rows') \in Nat /\ DOMAIN rows \subseteq Nat /\ committed \subseteq Nat
    BY <1>2 DEF Readable
  <2>2. CASE ServeCreate \/ ServeUpdate \/ ServeReset
    BY <2>1, <2>2 DEF ServeCreate, ServeUpdate, ServeReset, Record
  <2>3. CASE BeginElsewhere \/ AuditStep
    BY <2>1, <2>3, ListReadsOnly DEF BeginElsewhere, AuditStep
  <2>4. ASSUME NEW i \in DOMAIN rows \ committed, CommitElsewhere(i)
        PROVE  committed' \subseteq Nat
    BY <2>1, <2>4 DEF CommitElsewhere
  <2>. QED BY <2>2, <2>3, <2>4
<1>4. users' = users
  BY DEF ServeCreate, ServeUpdate, ServeReset, BeginElsewhere, CommitElsewhere, AuditStep
<1>. QED BY <1>1, <1>2, <1>3, <1>4 DEF Readable

LEMMA ServerSteps ==
    ASSUME IInv,
           \/ ServeCreate \/ ServeUpdate \/ ServeReset \/ BeginElsewhere
           \/ \E i \in DOMAIN rows \ committed : CommitElsewhere(i)
           \/ AuditStep
    PROVE  IInv'
<1>1. /\ committed \subseteq committed'
      /\ create' = create \/ (IsOk(create)' => create'.at \subseteq committed')
      /\ update' = update \/ (IsOk(update)' => update'.at \subseteq committed')
  BY ListReadsOnly
  DEF ServeCreate, ServeUpdate, ServeReset, BeginElsewhere, CommitElsewhere, AuditStep,
      Record, Ok, mutations, IsOk
<1>2. Untold
  BY DEF ServeCreate, ServeUpdate, ServeReset, BeginElsewhere, CommitElsewhere,
         AuditStep, Untold
<1>3. /\ UNCHANGED dialogs
      /\ create' = create \/ ~IsSent(create)'
      /\ update' = update \/ ~IsSent(update)'
  BY DEF ServeCreate, ServeUpdate, ServeReset, BeginElsewhere, CommitElsewhere,
         AuditStep, Ok, mutations, IsSent
<1>4. Requested'
  BY <1>3 DEF IInv, Requested, dialogs, IsSent
<1>5. ToldIsMade'
  <2>1. ToldIsMade /\ told' = told
    BY <1>2 DEF IInv, Untold
  <2>. QED BY <1>1, <2>1, MadeGrows
<1>6. (ReadIsCurrent /\ UsersListIsCurrent)'
  <2>1. ReadIsCurrent /\ UsersListIsCurrent
    BY DEF IInv
  <2>. QED BY <1>2, <2>1, UntoldKeepsList
<1>7. Readable'
  <2>1. Readable /\ Requested
    BY DEF IInv
  <2>. QED BY <2>1, ServerKeepsReadable
<1>. QED BY <1>4, <1>5, <1>6, <1>7 DEF IInv

LEMMA QuerySteps ==
    ASSUME IInv, ServeUsers \/ UsersArrive \/ UsersFail \/ RereadUsers \/ OpenUsers
    PROVE  IInv'
<1>1. told' = told /\ UNCHANGED <<server, dialogs, mutations>>
  BY DEF ServeUsers, UsersArrive, UsersFail, RereadUsers, OpenUsers
<1>2. ToldIsMade' /\ Requested'
  BY <1>1, MadeGrows DEF IInv, Requested, server, dialogs, mutations, IsSent
<1>3. CASE ServeUsers
  <2>1. /\ DOMAIN users' = {"data", "error", "fetch"}
        /\ users'.data = users.data /\ users'.error = users.error
        /\ users'.fetch = [data |-> account, at |-> committed]
        /\ users.fetch = Sent /\ UNCHANGED <<route, mounted>>
    BY <1>3 DEF ServeUsers, IInv, ReadIsCurrent
  <2>2. told \subseteq users'.fetch.at /\ users'.fetch.data \in Directory
    BY <2>1 DEF IInv, ToldIsMade, Readable
  <2>3. ReadIsCurrent' /\ Readable'
    BY <1>1, <2>1, <2>2 DEF IInv, ReadIsCurrent, Readable, server
  <2>4. users'.fetch # None
    BY <2>1, AnswersAreSome DEF IInv, Readable, Snapshot
  <2>. QED BY <1>2, <2>3, <2>4 DEF IInv, UsersListIsCurrent
<1>4. CASE UsersArrive
  BY <1>1, <1>2, <1>4 DEF UsersArrive, IInv, ReadIsCurrent, UsersListIsCurrent,
                          Readable, server
<1>5. CASE UsersFail
  <2>1. /\ DOMAIN users' = {"data", "error", "fetch"}
        /\ users'.data = users.data
        /\ users'.error = TRUE /\ users'.fetch = None
    BY <1>5 DEF UsersFail, IInv, ReadIsCurrent
  <2>. QED BY <1>1, <1>2, <2>1 DEF IInv, ReadIsCurrent, UsersListIsCurrent, Readable, server
<1>6. CASE RereadUsers \/ OpenUsers
  <2>1. users' \in {Joined, Refreshed}
    BY <1>6 DEF RereadUsers, OpenUsers
  <2>2. users'.data = users.data /\ users'.fetch \in {users.fetch, Sent}
    BY <2>1 DEF Joined, Refreshed, IInv, ReadIsCurrent
  <2>3. Readable'
    BY <1>1, <2>2 DEF IInv, Readable, server
  <2>. QED BY <1>1, <1>2, <2>1, <2>3, ReadKeepsList DEF IInv
<1>. QED BY <1>3, <1>4, <1>5, <1>6

LEMMA AnswerSteps ==
    ASSUME IInv, Created \/ Updated
    PROVE  IInv'
<1>1. users' = Refreshed /\ UNCHANGED server
  BY DEF Created, Updated
<1>2. users'.data = users.data /\ users'.fetch = Sent
  BY <1>1 DEF Refreshed, IInv, ReadIsCurrent
<1>3. Readable'
  BY <1>1, <1>2 DEF IInv, Readable, server
<1>4. Requested' /\ ToldIsMade'
  BY DEF Created, Updated, server, IInv, Requested, ToldIsMade, IsOk, IsSent
<1>. QED BY <1>1, <1>3, <1>4, RefreshKeepsList DEF IInv

\* It is an invariant.
LEMMA UsersInvariance ==
    /\ Init => IInv
    /\ IInv /\ [Next]_vars => IInv'
<1>1. Init => IInv
  <2>1. SUFFICES ASSUME Init PROVE IInv
    OBVIOUS
  <2>2. account \in Directory
    BY <2>1 DEF Init, Directory
  <2>. QED
    BY <2>1, <2>2 DEF Init, ListInit, IInv, Readable, Requested, ToldIsMade,
                      ReadIsCurrent, UsersListIsCurrent, IsOk, IsSent
<1>2. IInv /\ UNCHANGED vars => IInv'
  BY DEF vars, server, dialogs, mutations, IInv, Readable, Requested, ToldIsMade,
         ReadIsCurrent, UsersListIsCurrent, IsOk, IsSent
<1>3. IInv /\ [Next]_vars => IInv'
  BY <1>2, PageSteps, ServerSteps, QuerySteps, AnswerSteps DEF Next
<1>. QED BY <1>1, <1>3

\* The list of users never settles on a state from before a change it was told
\* of, however reads and changes overlap.
THEOREM ListIsCurrent == Spec => []UsersListIsCurrent
<1>1. IInv => UsersListIsCurrent
  BY DEF IInv
<1>. QED
  BY <1>1, UsersInvariance, PTL DEF Spec
---------------------------------------------------------------------------
(* Rows, newest first                                                       *)

\* Newest first, and therefore no row twice.
Falling(s) == \A i, j \in DOMAIN s : i < j => s[i] > s[j]

\* Every set of row numbers can be put in order.
LEMMA OrderExists ==
    ASSUME NEW n \in Nat, NEW S \in SUBSET (1..n)
    PROVE  /\ Cardinality(S) \in Nat
           /\ \E s \in [1..Cardinality(S) -> S] : Falling(s)
<1>. DEFINE Ordered(T) == /\ IsFiniteSet(T) /\ Cardinality(T) \in Nat
                          /\ \E s \in [1..Cardinality(T) -> T] : Falling(s)
            G == {m \in Nat : \A T \in SUBSET (1..m) : Ordered(T)}
<1>1. 0 \in G
  <2>1. 1..0 = {}
    OBVIOUS
  <2>2. IsFiniteSet({}) /\ Cardinality({}) = 0
    BY FS_EmptySet
  <2>3. \E s \in [{} -> {}] : Falling(s)
    <3>1. [i \in {} |-> 0] \in [{} -> {}] /\ Falling([i \in {} |-> 0])
      BY DEF Falling
    <3>. QED BY <3>1
  <2>4. Ordered({})
    <3>1. 1..Cardinality({}) = {}
      BY <2>1, <2>2
    <3>2. Cardinality({}) \in Nat
      BY <2>2
    <3>3. \E s \in [1..Cardinality({}) -> {}] : Falling(s)
      BY <2>3, <3>1, Zenon
    <3>. QED BY <2>2, <3>2, <3>3
  <2>5. \A T \in SUBSET (1..0) : T = {}
    BY <2>1
  <2>. HIDE DEF Ordered
  <2>. QED BY <2>4, <2>5
<1>2. ASSUME NEW m \in Nat, m \in G PROVE m + 1 \in G
  <2>1. ASSUME NEW T \in SUBSET (1..(m + 1)) PROVE Ordered(T)
    <3>. DEFINE U == T \ {m + 1}
                c == Cardinality(U)
    <3>1. U \in SUBSET (1..m)
      OBVIOUS
    <3>2. /\ IsFiniteSet(U) /\ c \in Nat
          /\ \E s \in [1..c -> U] : Falling(s)
      BY <1>2, <3>1
    <3>3. PICK s \in [1..c -> U] : Falling(s)
      BY <3>2
    <3>4. CASE m + 1 \notin T
      <4>1. U = T
        BY <3>4
      <4>. QED BY <3>2, <4>1
    <3>5. CASE m + 1 \in T
      <4>1. T = U \cup {m + 1} /\ m + 1 \notin U
        BY <3>5
      <4>2. IsFiniteSet(T) /\ Cardinality(T) = c + 1
        <5>1. IsFiniteSet(U \cup {m + 1}) /\ Cardinality(U \cup {m + 1}) = c + 1
          <6>. HIDE DEF U
          <6>. QED BY <3>2, <4>1, FS_AddElement DEF U
        <5>. QED BY <4>1, <5>1
      <4>. DEFINE t == [i \in 1..(c + 1) |-> IF i = 1 THEN m + 1 ELSE s[i - 1]]
      <4>. HIDE DEF c
      <4>3. \A i \in 1..(c + 1) : i # 1 => i - 1 \in 1..c /\ s[i - 1] \in U /\ s[i - 1] < m + 1
        <5>1. SUFFICES ASSUME NEW i \in 1..(c + 1), i # 1
                       PROVE  i - 1 \in 1..c /\ s[i - 1] \in U /\ s[i - 1] < m + 1
          OBVIOUS
        <5>2. c \in Nat /\ s \in [1..c -> U]
          BY <3>2, <3>3 DEF c
        <5>3. i - 1 \in 1..c
          BY <5>1, <5>2
        <5>4. s[i - 1] \in U /\ \A u \in U : u \in 1..m
          BY <3>1, <5>2, <5>3
        <5>5. s[i - 1] \in 1..m
          BY <5>4
        <5>6. s[i - 1] < m + 1
          BY <5>5
        <5>. QED BY <5>3, <5>4, <5>6
      <4>4. t \in [1..(c + 1) -> T]
        BY <4>1, <4>3
      <4>5. Falling(t)
        <5>1. SUFFICES ASSUME NEW i \in 1..(c + 1), NEW j \in 1..(c + 1), i < j
                       PROVE  t[i] > t[j]
          BY DEF Falling
        <5>2. j # 1 /\ t[j] = s[j - 1]
          BY <5>1
        <5>3. CASE i = 1
          BY <4>3, <5>2, <5>3
        <5>4. CASE i # 1
          BY <3>3, <4>3, <5>1, <5>2, <5>4 DEF Falling
        <5>. QED BY <5>3, <5>4
      <4>. QED BY <3>2, <4>2, <4>4, <4>5
    <3>. QED BY <3>4, <3>5
  <2>. QED BY <2>1
<1>. HIDE DEF G
<1>3. Nat \subseteq G
  BY <1>1, <1>2, SetInduction
<1>. QED BY <1>3 DEF G

\* NewestFirst puts every row of the set in the order of the table.
LEMMA NewestFirstOrders ==
    ASSUME NEW n \in Nat, NEW S \in SUBSET (1..n)
    PROVE  /\ NewestFirst(S) \in Seq(Nat)
           /\ Falling(NewestFirst(S))
           /\ \A i \in DOMAIN NewestFirst(S) : NewestFirst(S)[i] \in S
           /\ \A x \in S : \E i \in DOMAIN NewestFirst(S) : NewestFirst(S)[i] = x
<1>. DEFINE c == Cardinality(S)
            s == NewestFirst(S)
<1>1. IsFiniteSet(S)
  <2>1. IsFiniteSet(1..n)
    BY FS_Interval
  <2>. QED BY <2>1, FS_Subset
<1>2. c \in Nat /\ \E t \in [1..c -> S] : \A i, j \in DOMAIN t : i < j => t[i] > t[j]
  BY OrderExists DEF Falling
<1>3. s \in [1..c -> S] /\ \A i, j \in DOMAIN s : i < j => s[i] > s[j]
  BY <1>2 DEF NewestFirst
<1>. HIDE DEF c, s
<1>4. s \in [1..c -> Nat] /\ \A i \in DOMAIN s : s[i] \in S
  <2>1. S \subseteq Nat
    OBVIOUS
  <2>2. DOMAIN s = 1..c /\ \A i \in 1..c : s[i] \in S
    BY <1>3
  <2>3. \A i \in 1..c : s[i] \in Nat
    BY <2>1, <2>2
  <2>. QED BY <1>3, <2>2, <2>3
<1>5. s \in Seq(Nat)
  BY <1>2, <1>4
<1>6. s \in Injection(1..c, S)
  <2>1. \A i, j \in 1..c : s[i] = s[j] => i = j
    BY <1>2, <1>3, <1>4
  <2>. QED BY <1>3, <2>1 DEF Injection, IsInjective
<1>7. Cardinality(1..c) = c
  BY <1>2, FS_Interval
<1>8. s \in Surjection(1..c, S)
  BY <1>1, <1>6, <1>7, FS_Injection DEF c
<1>9. \A x \in S : \E i \in DOMAIN s : s[i] = x
  BY <1>3, <1>8 DEF Surjection
<1>. QED BY <1>3, <1>4, <1>5, <1>9 DEF Falling, s

\* What Min gives of two numbers.
LEMMA MinOfTwo ==
    ASSUME NEW a \in Nat, NEW b \in Nat
    PROVE  /\ Min({a, b}) \in {a, b}
           /\ Min({a, b}) <= a /\ Min({a, b}) <= b
<1>1. \E x \in {a, b} : \A y \in {a, b} : x <= y
  <2>1. CASE a <= b
    BY <2>1
  <2>2. CASE b <= a
    BY <2>2
  <2>. QED BY <2>1, <2>2
<1>2. Min({a, b}) = CHOOSE x \in {a, b} : \A y \in {a, b} : x <= y
  BY DEF Min
<1>. DEFINE m == CHOOSE x \in {a, b} : \A y \in {a, b} : x <= y
<1>3. m \in {a, b} /\ \A y \in {a, b} : m <= y
  BY <1>1, Zenon
<1>. HIDE DEF m
<1>. QED BY <1>2, <1>3 DEF m

\* What a page is: the newest of the rows below the cursor, and whether there
\* are older ones.
LEMMA PageIsNewest ==
    ASSUME NEW n \in Nat, committed \in SUBSET (1..n), NEW f, NEW below
    PROVE  LET S == {i \in committed : i < below /\ Matches(f, i)}
               p == Page(f, below)
           IN  /\ p.rows \in Seq(Nat) /\ Falling(p.rows)
               /\ \A i \in DOMAIN p.rows : p.rows[i] \in S
               /\ p.more \in BOOLEAN
               /\ p.more => Len(p.rows) > 0
               /\ \A x \in S : \/ \E i \in DOMAIN p.rows : p.rows[i] = x
                               \/ p.more /\ x < p.rows[Len(p.rows)]
<1>. DEFINE S == {i \in committed : i < below /\ Matches(f, i)}
            s == NewestFirst(S)
            l == Len(s)
            m == Min({PageSize, l})
            r == SubSeq(s, 1, m)
            more == l > PageSize
<1>0. Page(f, below) = [rows |-> r, more |-> more]
  BY DEF Page
<1>1. S \in SUBSET (1..n)
  OBVIOUS
<1>. HIDE DEF S
<1>2. /\ s \in Seq(Nat) /\ Falling(s)
      /\ \A i \in DOMAIN s : s[i] \in S
      /\ \A x \in S : \E i \in DOMAIN s : s[i] = x
  BY <1>1, NewestFirstOrders
<1>. HIDE DEF s
<1>3. l \in Nat /\ DOMAIN s = 1..l /\ PageSize \in Nat /\ PageSize > 0
  BY <1>2, PageSizeIsPositive
<1>. HIDE DEF l
<1>4. m \in {PageSize, l} /\ m <= PageSize /\ m <= l
  BY <1>3, MinOfTwo
<1>. HIDE DEF m
<1>5. \A i, j \in 1..l : i < j => s[i] > s[j]
  BY <1>2, <1>3 DEF Falling
<1>6. /\ r \in Seq(Nat) /\ Len(r) = m /\ DOMAIN r = 1..m
      /\ \A i \in 1..m : r[i] = s[i]
  <2>1. m \in Nat /\ m <= Len(s)
    BY <1>3, <1>4 DEF l
  <2>. QED BY <1>2, <2>1
<1>. HIDE DEF r
<1>7. \A i \in 1..m : i \in 1..l
  BY <1>3, <1>4
<1>8. Falling(r)
  BY <1>5, <1>6, <1>7 DEF Falling
<1>9. \A i \in DOMAIN r : r[i] \in S
  BY <1>2, <1>3, <1>6, <1>7
<1>10. more \in BOOLEAN /\ (more => m = PageSize)
  BY <1>3, <1>4
<1>11. more => Len(r) > 0
  BY <1>3, <1>6, <1>10
<1>12. ASSUME NEW x \in S
       PROVE  \/ \E i \in DOMAIN r : r[i] = x
              \/ more /\ x < r[Len(r)]
  <2>1. PICK i \in 1..l : s[i] = x
    BY <1>2, <1>3
  <2>2. CASE i <= m
    <3>1. i \in 1..m
      BY <1>3, <1>4, <2>2
    <3>. QED BY <1>6, <2>1, <3>1
  <2>3. CASE i > m
    <3>1. m = PageSize /\ l > PageSize /\ m \in 1..l /\ m \in 1..m
      BY <1>3, <1>4, <2>1, <2>3
    <3>2. s[m] > s[i] /\ r[Len(r)] = s[m]
      BY <1>5, <1>6, <2>1, <2>3, <3>1
    <3>3. s[m] \in Nat /\ s[i] \in Nat
      BY <1>2, <1>3, <2>1, <3>1
    <3>. QED BY <2>1, <3>1, <3>2, <3>3
  <2>. QED BY <1>3, <1>4, <2>1, <2>2, <2>3
<1>. HIDE DEF more
<1>. QED BY <1>0, <1>6, <1>8, <1>9, <1>10, <1>11, <1>12 DEF S
---------------------------------------------------------------------------
(* A list read page by page                                                 *)

\* The pages read of the rows there were at first: newest first, and every such
\* row is among them or, if there are more to read, below the last.
PagesOf(f, pages, asof, more) ==
    LET all == FlattenSeq(pages) IN
    /\ pages \in Seq(Seq(Nat)) /\ asof \subseteq committed
    /\ Falling(all)
    /\ pages # <<>> /\ more =>
          Len(Last(pages)) > 0 /\ Len(all) > 0 /\ all[Len(all)] = Last(Last(pages))
    /\ pages # <<>> => \A i \in asof : Matches(f, i) =>
          \/ \E k \in DOMAIN all : all[k] = i
          \/ more /\ i < all[Len(all)]

\* Rows that fall, followed by rows that fall further, fall.
LEMMA JoinedFalls ==
    ASSUME NEW s \in Seq(Nat), NEW t \in Seq(Nat), Falling(s), Falling(t),
           Len(s) > 0 => \A i \in DOMAIN t : t[i] < s[Len(s)]
    PROVE  Falling(s \o t)
<1>1. /\ Len(s) \in Nat /\ Len(t) \in Nat /\ DOMAIN s = 1..Len(s) /\ DOMAIN t = 1..Len(t)
      /\ DOMAIN (s \o t) = 1..(Len(s) + Len(t))
  OBVIOUS
<1>2. \A i \in 1..(Len(s) + Len(t)) :
         (s \o t)[i] = IF i <= Len(s) THEN s[i] ELSE t[i - Len(s)]
  OBVIOUS
<1>3. \A i \in 1..Len(s) : s[i] \in Nat
  OBVIOUS
<1>4. \A i \in 1..Len(t) : t[i] \in Nat
  OBVIOUS
<1>5. ASSUME NEW i \in 1..(Len(s) + Len(t)), NEW j \in 1..(Len(s) + Len(t)), i < j
      PROVE  (s \o t)[i] > (s \o t)[j]
  <2>1. CASE j <= Len(s)
    <3>1. i \in 1..Len(s) /\ j \in 1..Len(s)
      BY <1>1, <1>5, <2>1
    <3>2. s[i] > s[j]
      BY <1>1, <1>5, <3>1 DEF Falling
    <3>3. (s \o t)[i] = s[i] /\ (s \o t)[j] = s[j]
      BY <1>2, <3>1
    <3>. QED BY <3>2, <3>3
  <2>2. CASE i > Len(s)
    <3>. DEFINE a == i - Len(s)
                b == j - Len(s)
    <3>1. a \in 1..Len(t) /\ b \in 1..Len(t) /\ a < b
      BY <1>1, <1>5, <2>2
    <3>2. (s \o t)[i] = t[a] /\ (s \o t)[j] = t[b]
      BY <1>1, <1>2, <1>5, <2>2
    <3>. HIDE DEF a, b
    <3>3. t[a] > t[b]
      BY <1>1, <3>1 DEF Falling
    <3>. QED BY <3>2, <3>3
  <2>3. CASE i <= Len(s) /\ j > Len(s)
    <3>. DEFINE b == j - Len(s)
    <3>1. i \in 1..Len(s) /\ Len(s) \in 1..Len(s) /\ b \in 1..Len(t) /\ Len(s) > 0
      BY <1>1, <1>5, <2>3
    <3>2. (s \o t)[i] = s[i] /\ (s \o t)[j] = t[b]
      BY <1>1, <1>2, <1>5, <2>3
    <3>. HIDE DEF b
    <3>3. s[i] >= s[Len(s)]
      <4>1. i < Len(s) => s[i] > s[Len(s)]
        BY <1>1, <3>1 DEF Falling
      <4>2. i = Len(s) \/ i < Len(s)
        <5>. DEFINE l == Len(s)
        <5>1. l \in Nat /\ i \in Nat /\ i <= l
          BY <1>1, <2>3, <3>1
        <5>. HIDE DEF l
        <5>2. i = l \/ i < l
          BY <5>1
        <5>. QED BY <5>2 DEF l
      <4>. QED BY <1>3, <3>1, <4>1, <4>2
    <3>4. t[b] < s[Len(s)]
      BY <1>1, <3>1
    <3>. DEFINE x == s[i]
                y == s[Len(s)]
                z == t[b]
    <3>5. x \in Nat /\ y \in Nat /\ z \in Nat
      BY <1>3, <1>4, <3>1
    <3>6. x >= y /\ z < y
      BY <3>3, <3>4
    <3>. HIDE DEF x, y, z
    <3>7. x > z
      BY <3>5, <3>6
    <3>. QED BY <3>2, <3>7 DEF x, z
  <2>. QED BY <1>1, <2>1, <2>2, <2>3
<1>. HIDE DEF Concat
<1>. QED BY <1>1, <1>5 DEF Falling

\* The rows of the second sequence come after those of the first.
LEMMA JoinedIndex ==
    ASSUME NEW s \in Seq(Nat), NEW t \in Seq(Nat), NEW k \in DOMAIN t
    PROVE  Len(s) + k \in DOMAIN (s \o t) /\ (s \o t)[Len(s) + k] = t[k]
<1>1. Len(s) \in Nat /\ Len(t) \in Nat /\ k \in 1..Len(t)
  OBVIOUS
<1>2. Len(s) + k \in 1..(Len(s) + Len(t)) /\ ~(Len(s) + k <= Len(s)) /\ Len(s) + k - Len(s) = k
  BY <1>1
<1>3. Len(s \o t) = Len(s) + Len(t) /\ DOMAIN (s \o t) = 1..(Len(s) + Len(t))
  OBVIOUS
<1>4. \A i \in 1..(Len(s) + Len(t)) :
         (s \o t)[i] = IF i <= Len(s) THEN s[i] ELSE t[i - Len(s)]
  OBVIOUS
<1>. QED BY <1>2, <1>3, <1>4

\* A page more.
LEMMA PageAdded ==
    ASSUME rows \in Seq(Classes), committed \in SUBSET (1..Len(rows)),
           NEW f, NEW pages, NEW asof, PagesOf(f, pages, asof, TRUE)
    PROVE  LET p == Page(f, Cursor(pages))
               since == IF pages = <<>> THEN committed ELSE asof
           IN  /\ PagesOf(f, Append(pages, p.rows), since, p.more)
               /\ PagesOf(f, Append(pages, p.rows), since, TRUE) \/ ~p.more
               /\ p.more \in BOOLEAN /\ p.rows \in Seq(Nat) /\ since \subseteq committed
<1>. DEFINE cur == Cursor(pages)
            p == Page(f, cur)
            all == FlattenSeq(pages)
            new == Append(pages, p.rows)
            since == IF pages = <<>> THEN committed ELSE asof
            S == {i \in committed : i < cur /\ Matches(f, i)}
<1>1. Len(rows) \in Nat
  OBVIOUS
<1>2. /\ p.rows \in Seq(Nat) /\ Falling(p.rows)
      /\ \A i \in DOMAIN p.rows : p.rows[i] \in S
      /\ p.more \in BOOLEAN
      /\ p.more => Len(p.rows) > 0
      /\ \A x \in S : \/ \E i \in DOMAIN p.rows : p.rows[i] = x
                      \/ p.more /\ x < p.rows[Len(p.rows)]
  BY <1>1, PageIsNewest
<1>. HIDE DEF p
<1>3. /\ pages \in Seq(Seq(Nat)) /\ asof \subseteq committed /\ Falling(all)
      /\ pages # <<>> => Len(all) > 0 /\ all[Len(all)] = Last(Last(pages))
      /\ pages # <<>> => \A i \in asof : Matches(f, i) =>
            \/ \E k \in DOMAIN all : all[k] = i
            \/ i < all[Len(all)]
  BY DEF PagesOf
<1>4. /\ all \in Seq(Nat) /\ FlattenSeq(new) = all \o p.rows
      /\ new \in Seq(Seq(Nat)) /\ new # <<>> /\ Last(new) = p.rows
  <2>1. FlattenSeq(pages) \in Seq(Nat)
    BY <1>2, <1>3, FlattenAppend
  <2>2. FlattenSeq(Append(pages, p.rows)) = FlattenSeq(pages) \o p.rows
    BY <1>2, <1>3, FlattenAppend
  <2>3. new \in Seq(Seq(Nat)) /\ Len(new) = Len(pages) + 1 /\ new[Len(new)] = p.rows
    BY <1>2, <1>3
  <2>4. Len(pages) \in Nat
    BY <1>3
  <2>5. new # <<>> /\ Last(new) = p.rows
    <3>. HIDE DEF new
    <3>. QED BY <2>3, <2>4 DEF Last
  <2>. QED BY <2>1, <2>2, <2>3, <2>5
<1>5. pages # <<>> => cur = all[Len(all)]
  BY <1>3 DEF Cursor
<1>6. pages = <<>> => cur = Len(rows) + 1 /\ all = <<>>
  BY DEF Cursor, FlattenSeq
<1>. HIDE DEF cur, all, new
<1>7. Falling(all \o p.rows)
  BY <1>2, <1>3, <1>4, <1>5, <1>6, JoinedFalls
<1>8. ASSUME p.more
      PROVE  LET z == all \o p.rows
             IN  Len(z) > 0 /\ z[Len(z)] = p.rows[Len(p.rows)]
  BY <1>2, <1>4, <1>8
<1>9. since \subseteq committed
  BY <1>3
<1>10. ASSUME NEW i \in since, Matches(f, i)
       PROVE  \/ \E k \in DOMAIN (all \o p.rows) : (all \o p.rows)[k] = i
              \/ p.more /\ i < p.rows[Len(p.rows)]
  <2>1. CASE \E k \in DOMAIN all : all[k] = i
    <3>1. PICK k \in DOMAIN all : all[k] = i
      BY <2>1
    <3>2. k \in DOMAIN (all \o p.rows) /\ (all \o p.rows)[k] = i
      BY <1>2, <1>4, <3>1
    <3>. QED BY <3>2
  <2>2. CASE i \in S
    <3>1. CASE \E k \in DOMAIN p.rows : p.rows[k] = i
      <4>1. PICK k \in DOMAIN p.rows : p.rows[k] = i
        BY <3>1
      <4>2. /\ Len(all) + k \in DOMAIN (all \o p.rows)
            /\ (all \o p.rows)[Len(all) + k] = i
        BY <1>2, <1>4, <4>1, JoinedIndex
      <4>. QED BY <4>2
    <3>. QED BY <1>2, <2>2, <3>1
  <2>3. CASE pages = <<>>
    <3>1. i \in 1..Len(rows)
      BY <1>9, <1>10
    <3>2. i \in S
      BY <1>6, <1>9, <1>10, <2>3, <3>1
    <3>. QED BY <2>2, <3>2
  <2>4. CASE pages # <<>>
    BY <1>3, <1>5, <1>9, <1>10, <2>1, <2>2, <2>4
  <2>. QED BY <2>3, <2>4
<1>. HIDE DEF since, S
<1>11. PagesOf(f, new, since, p.more)
  BY <1>2, <1>4, <1>7, <1>8, <1>9, <1>10 DEF PagesOf, Last
<1>12. p.more => PagesOf(f, new, since, TRUE)
  BY <1>2, <1>11
<1>. QED BY <1>2, <1>9, <1>11, <1>12 DEF new, p, cur, since

\* What has been fetched, and what has been read of a fetch under way.
CacheInv(f, c) == c # None => /\ c \in Fetched /\ c.pages # <<>>
                              /\ PagesOf(f, c.pages, c.asof, c.more)

ReadingInv(f, r) == r # None => r \in Reading /\ PagesOf(f, r.pages, r.asof, TRUE)

\* The inductive invariant of the list: the pages of every filter are the newest
\* rows there were when its first page was read, whether shown or being read.
ListInv ==
    /\ rows \in Seq(Classes) /\ committed \in SUBSET (1..Len(rows))
    /\ filter \in Filters /\ deferred \in Filters
    /\ DOMAIN cache = Filters /\ DOMAIN failed = Filters /\ DOMAIN reading = Filters
    /\ \A f \in Filters : /\ CacheInv(f, cache[f]) /\ ReadingInv(f, reading[f])
                          /\ failed[f] \in BOOLEAN

\* What the tab does leaves the table alone.
LEMMA ListKept ==
    ASSUME ListInv, UNCHANGED <<rows, committed>>,
           filter' \in Filters, deferred' \in Filters,
           DOMAIN cache' = Filters, DOMAIN failed' = Filters, DOMAIN reading' = Filters,
           \A f \in Filters : /\ CacheInv(f, cache'[f]) /\ ReadingInv(f, reading'[f])
                              /\ failed'[f] \in BOOLEAN
    PROVE  ListInv'
BY DEF ListInv, CacheInv, ReadingInv, PagesOf, Matches

\* Rows that are added, and transactions that end, leave the pages as they were.
LEMMA TableGrows ==
    ASSUME ListInv, UNCHANGED list,
           \/ rows' = rows
           \/ \E e \in Classes : rows' = Append(rows, e),
           committed \subseteq committed', committed' \in SUBSET (1..Len(rows'))
    PROVE  ListInv'
<1>1. /\ rows' \in Seq(Classes) /\ Len(rows) \in Nat
      /\ \A i \in 1..Len(rows) : rows'[i] = rows[i]
  BY DEF ListInv
<1>2. ASSUME NEW f, NEW pages, NEW asof, NEW more, PagesOf(f, pages, asof, more)
      PROVE  PagesOf(f, pages, asof, more)'
  <2>1. asof \subseteq committed'
    BY <1>2 DEF PagesOf
  <2>2. \A i \in asof : Matches(f, i)' <=> Matches(f, i)
    BY <1>1, <1>2 DEF PagesOf, Matches, ListInv
  <2>. QED BY <1>2, <2>1, <2>2 DEF PagesOf
<1>3. \A f \in Filters : CacheInv(f, cache[f])' /\ ReadingInv(f, reading[f])'
  BY <1>2 DEF ListInv, CacheInv, ReadingInv, list
<1>. QED BY <1>1, <1>3 DEF ListInv, list

\* A fetch that starts has read nothing.
LEMMA NothingRead ==
    ASSUME ListInv, NEW f \in Filters
    PROVE  ReadingInv(f, StartAll(f))
<1>1. /\ CacheInv(f, cache[f])
      /\ StartAll(f) = [kind |-> "all", pages |-> <<>>, asof |-> {},
                        goal |-> IF cache[f] = None THEN 1 ELSE Len(cache[f].pages)]
  BY DEF ListInv, StartAll
<1>2. StartAll(f).goal \in Nat
  <2>1. cache[f] # None => Len(cache[f].pages) \in Nat
    BY <1>1 DEF CacheInv, Fetched
  <2>. QED BY <1>1, <2>1
<1>3. StartAll(f) \in Reading
  BY <1>1, <1>2 DEF Reading
<1>4. FlattenSeq(<<>>) = <<>>
  BY DEF FlattenSeq
<1>5. Falling(<<>>) /\ <<>> \in Seq(Seq(Nat))
  BY DEF Falling
<1>6. PagesOf(f, <<>>, {}, TRUE)
  BY <1>4, <1>5 DEF PagesOf
<1>7. StartAll(f).pages = <<>> /\ StartAll(f).asof = {}
  BY <1>1
<1>. QED BY <1>3, <1>6, <1>7 DEF ReadingInv

\* A fetch that starts, or is joined.
LEMMA JoiningRead ==
    ASSUME ListInv, NEW f \in Filters
    PROVE  /\ DOMAIN Joining(f) = Filters
           /\ \A g \in Filters : ReadingInv(g, Joining(f)[g])
BY NothingRead DEF Joining, ListInv

\* A page that is answered leaves the list as it should be: PageAdded.
LEMMA ReadPageKeeps ==
    ASSUME ListInv, NEW f \in Filters, ReadPage(f)
    PROVE  ListInv'
<1>. DEFINE r == reading[f]
            page == Page(f, Cursor(r.pages))
            pages == Append(r.pages, page.rows)
            asof == IF r.pages = <<>> THEN committed ELSE r.asof
            again == [r EXCEPT !.pages = pages, !.asof = asof]
            read == [pages |-> pages, more |-> page.more, asof |-> asof]
<1>1. r \in Reading /\ PagesOf(f, r.pages, r.asof, TRUE)
  BY DEF ListInv, ReadingInv, ReadPage
<1>2. /\ PagesOf(f, pages, asof, page.more)
      /\ PagesOf(f, pages, asof, TRUE) \/ ~page.more
      /\ page.more \in BOOLEAN /\ page.rows \in Seq(Nat) /\ asof \subseteq committed
  BY <1>1, PageAdded DEF ListInv
<1>3. UNCHANGED <<rows, committed, filter, deferred>>
  BY DEF ReadPage
<1>4. \/ /\ page.more
         /\ reading' = [reading EXCEPT ![f].pages = pages, ![f].asof = asof]
         /\ UNCHANGED <<cache, failed>>
      \/ /\ reading' = [reading EXCEPT ![f] = None]
         /\ cache' = [cache EXCEPT ![f] = read]
         /\ failed' = [failed EXCEPT ![f] = FALSE]
  BY DEF ReadPage
<1>. HIDE DEF page
<1>5. pages \in Seq(Seq(Nat)) /\ pages # <<>>
  <2>1. r.pages \in Seq(Seq(Nat))
    BY <1>1 DEF Reading
  <2>2. page.rows \in Seq(Nat)
    BY <1>2
  <2>. QED BY <2>1, <2>2, AppendProperties
<1>6. asof \in SUBSET Nat
  <2>1. Len(rows) \in Nat /\ committed \subseteq 1..Len(rows)
    BY DEF ListInv
  <2>2. committed \subseteq Nat
    BY <2>1
  <2>. HIDE DEF asof
  <2>. QED BY <1>2, <2>2
<1>. HIDE DEF pages, asof
<1>7. CASE /\ page.more
           /\ reading' = [reading EXCEPT ![f].pages = pages, ![f].asof = asof]
           /\ UNCHANGED <<cache, failed>>
  <2>1. again \in Reading /\ again.pages = pages /\ again.asof = asof
    BY <1>1, <1>5, <1>6 DEF Reading
  <2>2. reading' = [reading EXCEPT ![f] = again]
    BY <1>7 DEF ListInv
  <2>. HIDE DEF again
  <2>3. ReadingInv(f, again)
    BY <1>2, <1>7, <2>1 DEF ReadingInv
  <2>4. DOMAIN reading' = Filters /\ \A g \in Filters : ReadingInv(g, reading'[g])
    BY <2>2, <2>3 DEF ListInv
  <2>. QED BY <1>3, <1>7, <2>4, ListKept DEF ListInv
<1>8. CASE /\ reading' = [reading EXCEPT ![f] = None]
           /\ cache' = [cache EXCEPT ![f] = read]
           /\ failed' = [failed EXCEPT ![f] = FALSE]
  <2>1. CacheInv(f, read)
    <3>1. read \in Fetched
      BY <1>2, <1>5, <1>6 DEF Fetched
    <3>. QED BY <1>2, <1>5, <3>1 DEF CacheInv
  <2>. HIDE DEF read
  <2>2. DOMAIN cache' = Filters /\ \A g \in Filters : CacheInv(g, cache'[g])
    BY <1>8, <2>1 DEF ListInv
  <2>3. DOMAIN reading' = Filters /\ \A g \in Filters : ReadingInv(g, reading'[g])
    BY <1>8 DEF ListInv, ReadingInv
  <2>4. DOMAIN failed' = Filters /\ \A g \in Filters : failed'[g] \in BOOLEAN
    BY <1>8 DEF ListInv
  <2>. QED BY <1>3, <2>2, <2>3, <2>4, ListKept DEF ListInv
<1>. QED BY <1>4, <1>7, <1>8

\* So does every step of the tab.
LEMMA ListStepKeeps ==
    ASSUME ListInv, ListStep
    PROVE  ListInv'
<1>1. CASE Defer \/ Reread
  <2>1. DOMAIN reading' = Filters /\ \A g \in Filters : ReadingInv(g, reading'[g])
    BY <1>1, NothingRead, JoiningRead DEF Defer, Reread, ListInv
  <2>. QED BY <1>1, <2>1, ListKept DEF Defer, Reread, ListInv
<1>2. CASE LoadMore
  <2>. DEFINE c == cache[deferred]
              r == [kind |-> "next", pages |-> c.pages, goal |-> 1, asof |-> c.asof]
  <2>1. c \in Fetched /\ c.more /\ PagesOf(deferred, c.pages, c.asof, c.more)
    BY <1>2 DEF LoadMore, ListInv, CacheInv
  <2>2. r \in Reading /\ PagesOf(deferred, c.pages, c.asof, TRUE)
    BY <2>1 DEF Fetched, Reading
  <2>3. ReadingInv(deferred, r)
    BY <2>2 DEF ReadingInv
  <2>4. reading' = [reading EXCEPT ![deferred] = r]
    BY <1>2 DEF LoadMore
  <2>. HIDE DEF r
  <2>5. DOMAIN reading' = Filters /\ \A g \in Filters : ReadingInv(g, reading'[g])
    BY <2>3, <2>4 DEF ListInv
  <2>. QED BY <1>2, <2>5, ListKept DEF LoadMore, ListInv
<1>3. ASSUME NEW f \in Filters, ReadFails(f) PROVE ListInv'
  <2>1. DOMAIN reading' = Filters /\ \A g \in Filters : ReadingInv(g, reading'[g])
    BY <1>3 DEF ReadFails, ListInv, ReadingInv
  <2>2. DOMAIN failed' = Filters /\ \A g \in Filters : failed'[g] \in BOOLEAN
    BY <1>3 DEF ReadFails, ListInv
  <2>. QED BY <1>3, <2>1, <2>2, ListKept DEF ReadFails, ListInv
<1>4. ASSUME NEW f \in Filters, Type(f) PROVE ListInv'
  BY <1>4, ListKept DEF Type, ListInv
<1>. QED BY <1>1, <1>2, <1>3, <1>4, ReadPageKeeps DEF ListStep, Unwatched

\* What the runs check of a list follows.
LEMMA ListInvIsEnough ==
    ASSUME ListInv
    PROVE  ListTypeOK /\ RowsOnceInOrder /\ NothingSkipped
<1>1. ListTypeOK
  <2>1. committed \subseteq DOMAIN rows
    BY DEF ListInv
  <2>2. ASSUME NEW f \in Filters
        PROVE  /\ cache[f] # None => cache[f] \in Fetched
               /\ failed[f] \in BOOLEAN
               /\ reading[f] # None => reading[f] \in Reading
    BY DEF ListInv, CacheInv, ReadingInv
  <2>. QED BY <2>1, <2>2 DEF ListInv, ListTypeOK
<1>2. ASSUME NEW f \in Filters, cache[f] # None
      PROVE  /\ Falling(FlattenSeq(cache[f].pages))
             /\ FlattenSeq(cache[f].pages) \in Seq(Nat)
             /\ \A i \in cache[f].asof : Matches(f, i) =>
                   \/ \E k \in DOMAIN FlattenSeq(cache[f].pages) : FlattenSeq(cache[f].pages)[k] = i
                   \/ cache[f].more /\ i < Last(FlattenSeq(cache[f].pages))
  <2>1. cache[f] \in Fetched /\ cache[f].pages # <<>>
        /\ PagesOf(f, cache[f].pages, cache[f].asof, cache[f].more)
    BY <1>2 DEF ListInv, CacheInv
  <2>2. FlattenSeq(cache[f].pages) \in Seq(Nat)
    <3>1. cache[f].pages \in Seq(Seq(Nat)) /\ <<>> \in Seq(Nat)
      BY <2>1 DEF Fetched
    <3>. QED BY <3>1, FlattenAppend
  <2>. QED BY <2>1, <2>2 DEF PagesOf, Last
<1>3. RowsOnceInOrder
  <2>1. SUFFICES ASSUME NEW f \in Filters PROVE Falling(Rows(f))
    BY DEF RowsOnceInOrder, Falling
  <2>2. Falling(<<>>)
    BY DEF Falling
  <2>. QED BY <1>2, <2>2 DEF Rows
<1>4. NothingSkipped
  <2>1. SUFFICES ASSUME NEW f \in Filters, cache[f] # None,
                        NEW i \in cache[f].asof, Matches(f, i)
                 PROVE  Contains(Rows(f), i) \/ (cache[f].more /\ i < Last(Rows(f)))
    BY DEF NothingSkipped
  <2>2. Rows(f) = FlattenSeq(cache[f].pages)
    BY <2>1 DEF Rows
  <2>3. Rows(f) \in Seq(Nat)
    BY <1>2, <2>1, <2>2
  <2>4. CASE \E k \in DOMAIN Rows(f) : Rows(f)[k] = i
    BY <2>3, <2>4 DEF Contains
  <2>. QED BY <1>2, <2>1, <2>2, <2>4
<1>. QED BY <1>1, <1>3, <1>4
---------------------------------------------------------------------------
(* The list within the tab                                                  *)

\* The audit activity, whatever the server and the rest of the tab do.
LEMMA ListInvariance ==
    /\ Init => ListInv
    /\ ListInv /\ [Next]_vars => ListInv'
<1>1. Init => ListInv
  <2>1. SUFFICES ASSUME Init PROVE ListInv
    OBVIOUS
  <2>2. rows \in Seq(Classes) /\ committed \in SUBSET (1..Len(rows))
    BY <2>1 DEF Init, ListInit
  <2>. QED
    BY <2>1, <2>2, FiltersMatch DEF Init, ListInit, ListInv, CacheInv, ReadingInv
<1>. SUFFICES ASSUME ListInv, [Next]_vars PROVE ListInv'
  BY <1>1
<1>2. Len(rows) \in Nat /\ committed \subseteq 1..Len(rows)
  BY DEF ListInv
<1>3. ASSUME NEW e \in Classes, rows' = Append(rows, e)
      PROVE  Len(rows') = Len(rows) + 1
  BY <1>3 DEF ListInv
<1>4. CASE ServeCreate \/ ServeUpdate \/ ServeReset
  <2>1. PICK e \in Classes : rows' = Append(rows, e)
    BY <1>4, EventClasses DEF ServeCreate, ServeUpdate, ServeReset, Record, Place
  <2>2. committed' = committed \cup {Len(rows')} /\ UNCHANGED list
    BY <1>4 DEF ServeCreate, ServeUpdate, ServeReset, Record
  <2>3. Len(rows') = Len(rows) + 1
    BY <1>3, <2>1
  <2>4. committed \subseteq 1..Len(rows') /\ Len(rows') \in 1..Len(rows')
    BY <1>2, <2>3
  <2>. QED BY <2>1, <2>2, <2>4, TableGrows
<1>5. CASE BeginElsewhere
  <2>1. PICK e \in Classes : rows' = Append(rows, e)
    BY <1>5, EventClasses DEF BeginElsewhere, Place
  <2>2. committed' = committed /\ UNCHANGED list
    BY <1>5 DEF BeginElsewhere
  <2>3. committed' \in SUBSET (1..Len(rows'))
    BY <1>2, <1>3, <2>1, <2>2
  <2>. QED BY <2>1, <2>2, <2>3, TableGrows
<1>6. ASSUME NEW i \in DOMAIN rows \ committed, CommitElsewhere(i)
      PROVE  ListInv'
  <2>1. rows' = rows /\ committed' = committed \cup {i} /\ UNCHANGED list
    BY <1>6 DEF CommitElsewhere
  <2>2. i \in 1..Len(rows)
    BY DEF ListInv
  <2>3. committed \subseteq committed' /\ committed' \in SUBSET (1..Len(rows'))
    BY <1>2, <2>1, <2>2
  <2>. QED BY <2>1, <2>3, TableGrows
<1>7. CASE OpenAudit
  <2>1. /\ UNCHANGED <<rows, committed, cache, failed>>
        /\ filter' = All /\ deferred' = All /\ reading' = Joining(All) /\ All \in Filters
    BY <1>7, FiltersMatch DEF OpenAudit, server
  <2>2. /\ DOMAIN reading' = Filters
        /\ \A g \in Filters : ReadingInv(g, reading'[g])
    BY <2>1, JoiningRead
  <2>. QED BY <2>1, <2>2, ListKept DEF ListInv
<1>8. CASE AuditStep
  BY <1>8, ListStepKeeps DEF AuditStep, ListStep
<1>9. ASSUME UNCHANGED <<server, list>>
      PROVE  ListInv'
  BY <1>9, ListKept DEF ListInv, server, list
<1>10. CASE \/ ServeUsers \/ UsersArrive \/ UsersFail \/ RereadUsers \/ OpenUsers \/ Leave
            \/ OpenCreate \/ CloseDialog
            \/ \E u \in Users : OpenEdit(u) \/ SubmitReset(u)
            \/ \E p \in Profile : ChooseProfile(p)
  BY <1>9, <1>10 DEF ServeUsers, UsersArrive, UsersFail, RereadUsers, OpenUsers, Leave,
                     OpenCreate, CloseDialog, OpenEdit, SubmitReset, ChooseProfile
<1>11. CASE \/ SubmitCreate \/ SubmitUpdate \/ Created \/ Updated \/ Reset \/ MutationFails
            \/ UNCHANGED vars
  BY <1>9, <1>11 DEF SubmitCreate, SubmitUpdate, Created, Updated, Reset, MutationFails, vars
<1>. QED BY <1>4, <1>5, <1>6, <1>7, <1>8, <1>10, <1>11 DEF Next

\* However pages, refreshes and rows committed late interleave, no row is shown
\* twice and the order is that of the table.
THEOREM RowsComeOnceInOrder == Spec => []RowsOnceInOrder
<1>1. ListInv => RowsOnceInOrder
  BY ListInvIsEnough
<1>. QED BY <1>1, ListInvariance, PTL DEF Spec

\* Every row there was when the first page was read is shown, or older ones are
\* still offered.
THEOREM NoRowIsSkipped == Spec => []NothingSkipped
<1>1. ListInv => NothingSkipped
  BY ListInvIsEnough
<1>. QED BY <1>1, ListInvariance, PTL DEF Spec
---------------------------------------------------------------------------
(* Types                                                                    *)

\* What TypeOK adds to the invariants above.
PageTypeOK ==
    /\ route \in {"users", "audit"}
    /\ mounted \in BOOLEAN
    /\ users.data # None => users.data \in Snapshot
    /\ users.error \in BOOLEAN
    /\ users.fetch \notin {None, Sent} => users.fetch \in Snapshot
    /\ shownPassword \in Users \cup {None}
    /\ create # None => create \in Request(Roles)
    /\ update # None => update \in Request(Edit)
    /\ reset # None => reset \in Request(Users)
    /\ Len(rows) <= Bound

\* What belongs to the components of a page ends with them.
NothingLeft ==
    ~mounted => /\ creating = None /\ editing = None /\ shownPassword = None
                /\ create = None /\ update = None /\ reset = None

TInv == IInv /\ ListInv /\ PageTypeOK /\ NothingLeft

\* The invariants say what TypeOK does.
LEMMA TInvIsEnough == TInv => TypeOK
<1>. SUFFICES ASSUME TInv PROVE TypeOK
  OBVIOUS
<1>1. ListTypeOK
  BY ListInvIsEnough DEF TInv
<1>2. ~mounted => \A d \in {creating, editing, shownPassword, create, update, reset} : d = None
  BY DEF TInv, NothingLeft
<1>3. /\ account \in Directory /\ DOMAIN users = {"data", "error", "fetch"}
      /\ creating \in Roles \cup {None} /\ editing \in Edit \cup {None}
      /\ told \subseteq committed
  BY DEF TInv, IInv, Readable, Requested, ToldIsMade, ReadIsCurrent
<1>. QED BY <1>1, <1>2, <1>3 DEF TInv, PageTypeOK, TypeOK

\* Only what is on the page opens a dialog or sends a request.
LEMMA NothingLeftKept ==
    ASSUME NothingLeft, Next
    PROVE  NothingLeft'
<1>1. CASE \/ ServeUsers \/ UsersArrive \/ UsersFail \/ RereadUsers \/ BeginElsewhere
           \/ \E i \in DOMAIN rows \ committed : CommitElsewhere(i)
           \/ AuditStep
  BY <1>1 DEF ServeUsers, UsersArrive, UsersFail, RereadUsers, BeginElsewhere,
              CommitElsewhere, AuditStep, NothingLeft, dialogs, mutations
<1>2. CASE OpenUsers \/ OpenAudit \/ Leave
  BY <1>2 DEF OpenUsers, OpenAudit, Leave, Closed, NothingLeft
<1>3. CASE \/ OpenCreate \/ CloseDialog
           \/ \E u \in Users : OpenEdit(u) \/ SubmitReset(u)
           \/ \E p \in Profile : ChooseProfile(p)
           \/ SubmitCreate \/ SubmitUpdate
  BY <1>3 DEF OpenCreate, CloseDialog, OpenEdit, SubmitReset, ChooseProfile, SubmitCreate,
              SubmitUpdate, NothingLeft, OnUsers, Listed, Beneath, dialogs, mutations
<1>4. CASE \/ ServeCreate \/ ServeUpdate \/ ServeReset
           \/ Created \/ Updated \/ Reset \/ MutationFails
  BY <1>4 DEF ServeCreate, ServeUpdate, ServeReset, Created, Updated, Reset, MutationFails,
              NothingLeft, IsSent, IsOk, dialogs
<1>. QED BY <1>1, <1>2, <1>3, <1>4 DEF Next

\* The snapshots, the requests, and the bound on the changes.
LEMMA PageTypesKept ==
    ASSUME TInv, Next, IInv', ListInv'
    PROVE  PageTypeOK'
<1>1. route' = route /\ mounted' \in BOOLEAN
  BY DEF Next, ServeUsers, UsersArrive, UsersFail, RereadUsers, OpenUsers, OpenAudit, Leave,
         OpenCreate, CloseDialog, OpenEdit, SubmitReset, ChooseProfile, SubmitCreate,
         SubmitUpdate, ServeCreate, ServeUpdate, ServeReset, Created, Updated, Reset,
         MutationFails, BeginElsewhere, CommitElsewhere, AuditStep, TInv, PageTypeOK
<1>2. /\ committed \subseteq Nat /\ committed' \subseteq Nat
      /\ Len(rows) \in Nat /\ Len(rows') \in Nat /\ Bound \in Nat /\ Bound' = Bound
  <2>1. rows \in Seq(Classes) /\ rows' \in Seq(Classes)
    BY DEF TInv, ListInv
  <2>2. Bound \in Nat
    BY ChangeBound DEF Bound
  <2>. QED BY <1>1, <2>1, <2>2 DEF TInv, IInv, Readable, Bound
<1>3. Len(rows') <= Bound'
  <2>1. ASSUME NEW e, Place(e)
        PROVE  Len(rows') <= Bound'
    <3>1. Len(rows') = Len(rows) + 1 /\ Len(rows) < Bound
      BY <2>1 DEF Place, TInv, ListInv
    <3>. QED BY <1>2, <3>1
  <2>2. CASE ServeCreate \/ ServeUpdate \/ ServeReset \/ BeginElsewhere
    BY <2>1, <2>2 DEF ServeCreate, ServeUpdate, ServeReset, BeginElsewhere, Record
  <2>3. ASSUME rows' = rows
        PROVE  Len(rows') <= Bound'
    BY <1>2, <2>3 DEF TInv, PageTypeOK
  <2>4. CASE AuditStep \/ \E i \in DOMAIN rows \ committed : CommitElsewhere(i)
    BY <2>3, <2>4, ListReadsOnly DEF AuditStep, CommitElsewhere
  <2>. QED
    BY <2>2, <2>3, <2>4
    DEF Next, ServeUsers, UsersArrive, UsersFail, RereadUsers, OpenUsers, OpenAudit, Leave,
        OpenCreate, CloseDialog, OpenEdit, SubmitReset, ChooseProfile, SubmitCreate,
        SubmitUpdate, Created, Updated, Reset, MutationFails, server
<1>4. /\ users'.data # None => users'.data \in Snapshot
      /\ users'.error \in BOOLEAN
      /\ users'.fetch \notin {None, Sent} => users'.fetch \in Snapshot
  <2>1. /\ DOMAIN users = {"data", "error", "fetch"}
        /\ users.data # None => users.data \in Snapshot
        /\ users.error \in BOOLEAN
        /\ users.fetch \notin {None, Sent} => users.fetch \in Snapshot
    BY DEF TInv, IInv, ReadIsCurrent, PageTypeOK
  <2>2. CASE users' = users
    BY <2>1, <2>2
  <2>3. CASE users' = Joined \/ users' = Refreshed
    BY <2>1, <2>3 DEF Joined, Refreshed
  <2>4. CASE ServeUsers
    <3>1. [data |-> account, at |-> committed] \in Snapshot
      BY <1>2 DEF Snapshot, TInv, IInv, Readable
    <3>. QED BY <2>1, <2>4, <3>1 DEF ServeUsers
  <2>5. CASE UsersArrive
    <3>1. users' = [data |-> users.fetch, error |-> FALSE, fetch |-> None]
          /\ users.fetch \in Snapshot
      BY <2>1, <2>5 DEF UsersArrive
    <3>. QED BY <3>1
  <2>6. CASE UsersFail
    <3>1. /\ users'.data = users.data
          /\ users'.error = TRUE /\ users'.fetch = None
      BY <2>1, <2>6 DEF UsersFail
    <3>. QED BY <2>1, <3>1
  <2>. QED
    BY <2>2, <2>3, <2>4, <2>5, <2>6
    DEF Next, RereadUsers, OpenUsers, OpenAudit, Leave, OpenCreate, CloseDialog, OpenEdit,
        SubmitReset, ChooseProfile, SubmitCreate, SubmitUpdate, ServeCreate, ServeUpdate,
        ServeReset, Created, Updated, Reset, MutationFails, BeginElsewhere, CommitElsewhere,
        AuditStep
<1>5. ASSUME NEW u \in Users, NEW Body
      PROVE  Ok(u) \in Request(Body)
  BY <1>2 DEF Ok, Request
<1>6. /\ \A u : IsOk(create) /\ u = create.user => u \in Users
      /\ \A u : IsOk(reset) /\ u = reset.user => u \in Users
      /\ IsSent(update) => update.body.user \in Users
      /\ IsSent(reset) => reset.body \in Users
  BY DEF TInv, PageTypeOK, Request, IsOk, IsSent, Edit
<1>7. /\ create' # None => create' \in Request(Roles)
      /\ update' # None => update' \in Request(Edit)
      /\ reset' # None => reset' \in Request(Users)
  <2>1. ASSUME NEW Body, NEW b \in Body
        PROVE  [state |-> "sent", body |-> b] \in Request(Body)
    BY DEF Request
  <2>2. CASE SubmitCreate \/ SubmitUpdate
    BY <2>1, <2>2 DEF SubmitCreate, SubmitUpdate, TInv, IInv, Requested, PageTypeOK
  <2>3. ASSUME NEW u \in Users, SubmitReset(u)
        PROVE  /\ create' # None => create' \in Request(Roles)
               /\ update' # None => update' \in Request(Edit)
               /\ reset' # None => reset' \in Request(Users)
    BY <2>1, <2>3 DEF SubmitReset, TInv, PageTypeOK
  <2>4. CASE ServeCreate \/ ServeUpdate \/ ServeReset
    BY <1>5, <1>6, <2>4 DEF ServeCreate, ServeUpdate, ServeReset, TInv, PageTypeOK
  <2>5. /\ create' = create \/ create' = None \/ SubmitCreate \/ ServeCreate
        /\ update' = update \/ update' = None \/ SubmitUpdate \/ ServeUpdate
        /\ reset' = reset \/ reset' = None \/ ServeReset \/ \E u \in Users : SubmitReset(u)
    BY DEF Next, ServeUsers, UsersArrive, UsersFail, RereadUsers, OpenUsers, OpenAudit, Leave,
           OpenCreate, CloseDialog, OpenEdit, SubmitReset, ChooseProfile, SubmitCreate,
           SubmitUpdate, ServeCreate, ServeUpdate, ServeReset, Created, Updated, Reset,
           MutationFails, BeginElsewhere, CommitElsewhere, AuditStep, Closed, mutations
  <2>. QED BY <2>2, <2>3, <2>4, <2>5 DEF TInv, PageTypeOK
<1>8. shownPassword' \in Users \cup {None}
  BY <1>6
  DEF Next, ServeUsers, UsersArrive, UsersFail, RereadUsers, OpenUsers, OpenAudit, Leave,
      OpenCreate, CloseDialog, OpenEdit, SubmitReset, ChooseProfile, SubmitCreate,
      SubmitUpdate, ServeCreate, ServeUpdate, ServeReset, Created, Updated, Reset,
      MutationFails, BeginElsewhere, CommitElsewhere, AuditStep, Closed, dialogs,
      TInv, PageTypeOK
<1>. QED BY <1>1, <1>3, <1>4, <1>7, <1>8 DEF TInv, PageTypeOK

\* The types of the tab, the list and the server, and with them that nothing of
\* a page's dialogs outlives it.
THEOREM ConsoleTypes == Spec => []TypeOK
<1>1. Init => TInv
  <2>1. Init => PageTypeOK /\ NothingLeft
    <3>1. SUFFICES ASSUME Init PROVE PageTypeOK /\ NothingLeft
      OBVIOUS
    <3>2. rows = <<>> /\ users = [data |-> None, error |-> FALSE, fetch |-> None]
      BY <3>1 DEF Init, ListInit
    <3>3. Len(rows) <= Bound
      BY <3>2, ChangeBound DEF Bound
    <3>4. users.data = None /\ users.error = FALSE /\ users.fetch = None
      BY <3>2
    <3>. QED BY <3>1, <3>3, <3>4 DEF Init, PageTypeOK, NothingLeft
  <2>. QED BY <2>1, UsersInvariance, ListInvariance DEF TInv
<1>2. TInv /\ [Next]_vars => TInv'
  <2>1. SUFFICES ASSUME TInv, [Next]_vars PROVE TInv'
    OBVIOUS
  <2>2. IInv' /\ ListInv'
    BY <2>1, UsersInvariance, ListInvariance DEF TInv
  <2>3. CASE Next
    BY <2>1, <2>2, <2>3, PageTypesKept, NothingLeftKept DEF TInv
  <2>4. CASE UNCHANGED vars
    BY <2>1, <2>2, <2>4 DEF TInv, PageTypeOK, NothingLeft, Bound, vars, server, dialogs,
                            mutations
  <2>. QED BY <2>1, <2>3, <2>4
<1>. QED BY <1>1, <1>2, TInvIsEnough, PTL DEF Spec
=============================================================================
