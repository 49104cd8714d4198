---------------------------- MODULE PagingProofs ----------------------------
(***************************************************************************)
(* Theorems about Paging, for any rows, page length and traffic.           *)
(***************************************************************************)
EXTENDS Paging, FiniteSetTheorems, WellFoundedInduction, TLAPS

\* The order of the keys is total and strict.
LEMMA KeyOrder ==
    ASSUME NEW k \in Key, NEW l \in Key
    PROVE  /\ ~Older(k, k)
           /\ k = l \/ Older(k, l) \/ Older(l, k)
           /\ ~(Older(k, l) /\ Older(l, k))
           /\ \A m \in Key : Older(k, l) /\ Older(l, m) => Older(k, m)
<1>1. k[1] \in Int /\ k[2] \in Int /\ l[1] \in Int /\ l[2] \in Int
  BY PagingConstants DEF PagingConstants, Key
<1>2. k = <<k[1], k[2]>> /\ l = <<l[1], l[2]>>
  BY DEF Key
<1>3. k = l \/ Older(k, l) \/ Older(l, k)
  BY <1>1, <1>2 DEF Older
<1>4. ~Older(k, k) /\ ~(Older(k, l) /\ Older(l, k))
  BY <1>1 DEF Older
<1>5. ASSUME NEW m \in Key, Older(k, l), Older(l, m) PROVE Older(k, m)
  <2>1. m[1] \in Int /\ m[2] \in Int
    BY PagingConstants DEF PagingConstants, Key
  <2> QED BY <1>1, <1>5, <2>1 DEF Older
<1> QED BY <1>3, <1>4, <1>5

\* Every set of naturals has a smallest element.
LEMMA SmallestNat ==
    ASSUME NEW N \in SUBSET Nat, N # {}
    PROVE  \E n \in N : \A m \in N : n <= m
<1>1. \E n \in N : \A m \in N : ~(<<m, n>> \in OpToRel(<, Nat))
  BY NatLessThanWellFounded, WFMin
<1>2. PICK n \in N : \A m \in N : ~(<<m, n>> \in OpToRel(<, Nat))
  BY <1>1
<1>3. ASSUME NEW m \in N PROVE n <= m
  <2>1. ~(<<m, n>> \in {ss \in Nat \X Nat : ss[1] < ss[2]})
    BY <1>2 DEF OpToRel
  <2>2. m \in Nat /\ n \in Nat /\ <<m, n>> \in Nat \X Nat
    OBVIOUS
  <2>3. ~(m < n)
    BY <2>1, <2>2
  <2> QED BY <2>2, <2>3
<1> QED BY <1>3

\* The newest row of a page.
LEMMA NewestExists ==
    ASSUME NEW T \in SUBSET Key, IsFiniteSet(T), T # {}
    PROVE  \E k \in T : Newer(k, T) = {}
<1> DEFINE rank(k) == Cardinality(Newer(k, T))
<1>1. \A k \in T : IsFiniteSet(Newer(k, T)) /\ rank(k) \in Nat
  BY FS_Subset, FS_CardinalityType DEF Newer
<1>2. PICK n \in {rank(k) : k \in T} : \A m \in {rank(k) : k \in T} : n <= m
  <2>1. {rank(k) : k \in T} \in SUBSET Nat /\ {rank(k) : k \in T} # {}
    BY <1>1
  <2> HIDE DEF rank
  <2> QED BY <2>1, SmallestNat
<1>3. PICK k \in T : n = rank(k)
  BY <1>2
<1>4. ASSUME NEW l \in Newer(k, T) PROVE FALSE
  <2>1. l \in T /\ Older(k, l)
    BY <1>4 DEF Newer
  <2>2. Newer(l, T) \subseteq Newer(k, T) /\ l \notin Newer(l, T)
    BY <2>1, KeyOrder DEF Newer
  <2>3. rank(l) <= rank(k) /\ rank(l) # rank(k)
    BY <1>1, <1>4, <2>2, FS_Subset
  <2>4. rank(k) <= rank(l)
    BY <1>2, <1>3, <2>1
  <2>5. rank(k) \in Nat /\ rank(l) \in Nat
    BY <1>1, <2>1
  <2> HIDE DEF rank
  <2> QED BY <2>3, <2>4, <2>5
<1> QED BY <1>4

\* The oldest row of a page.
LEMMA OldestExists ==
    ASSUME NEW T \in SUBSET Key, IsFiniteSet(T), T # {}
    PROVE  \E k \in T : IsLast(k, T)
<1> DEFINE below(k) == {r \in T : Older(r, k)}
           rank(k) == Cardinality(below(k))
<1>1. \A k \in T : IsFiniteSet(below(k)) /\ rank(k) \in Nat
  BY FS_Subset, FS_CardinalityType
<1>2. PICK n \in {rank(k) : k \in T} : \A m \in {rank(k) : k \in T} : n <= m
  <2>1. {rank(k) : k \in T} \in SUBSET Nat /\ {rank(k) : k \in T} # {}
    BY <1>1
  <2> HIDE DEF rank
  <2> QED BY <2>1, SmallestNat
<1>3. PICK k \in T : n = rank(k)
  BY <1>2
<1>4. ASSUME NEW l \in below(k) PROVE FALSE
  <2>1. l \in T /\ Older(l, k)
    BY <1>4
  <2>2. below(l) \subseteq below(k) /\ l \notin below(l)
    BY <2>1, KeyOrder
  <2>3. rank(l) <= rank(k) /\ rank(l) # rank(k)
    BY <1>1, <1>4, <2>2, FS_Subset
  <2>4. rank(k) <= rank(l)
    BY <1>2, <1>3, <2>1
  <2>5. rank(k) \in Nat /\ rank(l) \in Nat
    BY <1>1, <2>1
  <2> HIDE DEF rank
  <2> QED BY <2>3, <2>4, <2>5
<1>5. \A r \in T : r = k \/ Older(k, r)
  BY <1>4, KeyOrder
<1> QED BY <1>5 DEF IsLast

-----------------------------------------------------------------------------
(* What a query returns.                                                   *)

\* With a row it returns every newer one.
LEMMA TopIsUpper ==
    ASSUME NEW S \in SUBSET Key, IsFiniteSet(S), NEW n \in Nat,
           NEW r \in Top(S, n), NEW x \in S, Older(r, x)
    PROVE  x \in Top(S, n)
<1>1. r \in S /\ Cardinality(Newer(r, S)) < n
  BY DEF Top
<1>2. Newer(x, S) \subseteq Newer(r, S)
  BY <1>1, KeyOrder DEF Newer
<1>3. IsFiniteSet(Newer(r, S))
  BY FS_Subset DEF Newer
<1>4. /\ Cardinality(Newer(x, S)) <= Cardinality(Newer(r, S))
      /\ Cardinality(Newer(x, S)) \in Nat /\ Cardinality(Newer(r, S)) \in Nat
  BY <1>2, <1>3, FS_Subset, FS_CardinalityType
<1> QED BY <1>1, <1>4 DEF Top

\* If the query for one row more finds no more than fit, the page is complete.
LEMMA NoMoreMeansAll ==
    ASSUME NEW S \in SUBSET Key, IsFiniteSet(S), NEW n \in Nat \ {0},
           ~(Cardinality(Top(S, n + 1)) > n)
    PROVE  Top(S, n) = S
<1> DEFINE rest == S \ Top(S, n)
<1>1. SUFFICES ASSUME rest # {} PROVE FALSE
  BY DEF Top
<1>2. PICK r \in rest : Newer(r, rest) = {}
  <2>1. IsFiniteSet(rest) /\ rest \in SUBSET Key
    BY FS_Subset
  <2> QED BY <1>1, <2>1, NewestExists
<1> DEFINE M == Newer(r, S)
<1>3. IsFiniteSet(M) /\ Cardinality(M) \in Nat /\ M \subseteq Top(S, n) /\ M \in SUBSET Key
  <2>1. IsFiniteSet(M) /\ M \subseteq S
    BY FS_Subset DEF Newer
  <2>2. M \subseteq Top(S, n)
    BY <1>2 DEF Newer
  <2> QED BY <2>1, <2>2, FS_CardinalityType
<1>4. Cardinality(M) >= n
  BY <1>2, <1>3 DEF Top
<1>5. Cardinality(M) <= n
  <2>1. M # {}
    BY <1>4, FS_EmptySet
  <2>2. PICK y \in M : IsLast(y, M)
    BY <1>3, <2>1, OldestExists
  <2>3. Newer(y, S) = M \ {y}
    <3>1. y \in S /\ r \in S /\ Older(r, y)
      BY <1>2, <2>2 DEF Newer
    <3>2. ASSUME NEW z \in Newer(y, S) PROVE z \in M \ {y}
      <4>1. z \in S /\ Older(y, z)
        BY <3>2 DEF Newer
      <4> QED BY <3>1, <4>1, KeyOrder DEF Newer
    <3>3. ASSUME NEW z \in M \ {y} PROVE z \in Newer(y, S)
      <4>1. Older(y, z) /\ z \in S
        BY <2>2, <3>3 DEF IsLast, Newer
      <4> QED BY <4>1 DEF Newer
    <3> QED BY <3>2, <3>3
  <2>4. Cardinality(M \ {y}) = Cardinality(M) - 1
    BY <1>3, <2>2, FS_RemoveElement
  <2>5. Cardinality(Newer(y, S)) < n
    BY <1>3, <2>2 DEF Top
  <2> HIDE DEF M
  <2> QED BY <1>3, <2>3, <2>4, <2>5
<1>6. M \cup {r} \subseteq Top(S, n + 1)
  <2>1. r \in Top(S, n + 1)
    BY <1>2, <1>3, <1>5 DEF Top
  <2>2. ASSUME NEW z \in M PROVE z \in Top(S, n + 1)
    <3>1. z \in S /\ Cardinality(Newer(z, S)) < n
      BY <1>3, <2>2 DEF Top
    <3>2. Cardinality(Newer(z, S)) \in Nat
      BY <3>1, FS_Subset, FS_CardinalityType DEF Newer
    <3> QED BY <3>1, <3>2 DEF Top
  <2> QED BY <2>1, <2>2
<1>7. Cardinality(M \cup {r}) = Cardinality(M) + 1
  <2>1. r \notin M
    BY <1>2, KeyOrder DEF Newer
  <2> QED BY <1>3, <2>1, FS_AddElement
<1>8. IsFiniteSet(Top(S, n + 1)) /\ Cardinality(Top(S, n + 1)) \in Nat
  BY FS_Subset, FS_CardinalityType DEF Top
<1>9. Cardinality(M \cup {r}) <= Cardinality(Top(S, n + 1))
  BY <1>6, <1>8, FS_Subset
<1> HIDE DEF M
<1> QED BY <1>3, <1>4, <1>7, <1>8, <1>9

-----------------------------------------------------------------------------
(* The walk.                                                               *)

\* A row is behind the cursor when no later page can return it.
Passed(r) == cursor # NoCursor /\ ~Older(r, cursor)

\* What every page relies on: the walk has returned just what it has passed.
IInv ==
    /\ TypeOK
    /\ NoRowTwice
    /\ \A r \in got : Passed(r)
    /\ \A r \in steady : Passed(r) => r \in got
    /\ NothingSkipped
    /\ phase = "start" => cursor = NoCursor

\* The rows of a list are rows of the table.
LEMMA VisibleRows == visible \subseteq Live /\ (IsFiniteSet(Live) => IsFiniteSet(visible))
<1>1. visible \subseteq Live
  BY DEF visible, Found, Listed
<1> QED BY <1>1, FS_Subset

\* A page of n rows keeps it.
LEMMA PageKeeps ==
    ASSUME IInv, NEW n \in Nat \ {0}, Page(cursor, n), UNCHANGED <<table, walk>>,
           steady' \subseteq visible,
           \A r \in steady' : Passed(r) => r \in got
    PROVE  IInv'
<1> DEFINE B == Beyond(cursor, visible)
           shown == Top(B, n)
<1>0. visible' = visible /\ Live' = Live /\ visible \in SUBSET Key /\ IsFiniteSet(visible)
  BY VisibleRows DEF IInv, TypeOK, visible, Found, Listed, OfTenant, Live
<1>1. B \in SUBSET Key /\ IsFiniteSet(B) /\ shown \subseteq B
  BY <1>0, FS_Subset DEF Beyond, Top
<1>2. IsFiniteSet(shown) /\ shown \in SUBSET Key
  BY <1>1, FS_Subset
<1>3. got' = got \cup shown /\ repeated' = repeated \cup (got \cap shown)
  BY DEF Page
<1>4. ASSUME NEW r \in shown PROVE r \notin got
  BY <1>1, <1>4 DEF IInv, Passed, Beyond
<1>5. repeated' = {}
  BY <1>3, <1>4 DEF IInv, NoRowTwice
<1>6. ASSUME phase' # "walking" PROVE phase' = "done" /\ shown = B
  <2>1. phase' = "done" /\ ~(Cardinality(Top(B, n + 1)) > n)
    BY <1>6 DEF Page
  <2> QED BY <1>1, <2>1, NoMoreMeansAll
<1>7. CASE shown = {}
  <2>1. cursor' = cursor /\ got' = got
    BY <1>3, <1>7 DEF Page
  <2>2. phase' = "done" /\ B = {}
    <3>1. Top(B, n + 1) # {} => Top(B, n) # {}
      <4>1. ASSUME B # {} PROVE Top(B, n) # {}
        <5>1. PICK k \in B : Newer(k, B) = {}
          BY <1>1, <4>1, NewestExists
        <5> QED BY <5>1, FS_EmptySet DEF Top
      <4> QED BY <4>1 DEF Top
    <3>2. Cardinality(Top(B, n + 1)) = 0
      BY <1>7, <3>1, FS_EmptySet
    <3>3. phase' = "done"
      BY <3>2 DEF Page
    <3> QED BY <1>6, <1>7, <3>3
  <2>3. ASSUME NEW r \in steady' PROVE r \in got'
    <3>1. r \in visible /\ r \notin B
      BY <2>2
    <3>2. Passed(r)
      BY <3>1 DEF Passed, Beyond
    <3> QED BY <2>1, <3>2
  <2>4. \A r \in got' : Passed(r)'
    BY <2>1 DEF IInv, Passed
  <2> QED BY <1>5, <2>1, <2>2, <2>3, <2>4, <1>0 DEF IInv, TypeOK, NoRowTwice, NothingSkipped
<1>8. CASE shown # {}
  <2>1. PICK k \in shown : IsLast(k, shown) /\ cursor' = k
    BY <1>8 DEF Page
  <2>2. k \in Key /\ k # NoCursor /\ k \in B
    BY <1>1, PagingConstants DEF PagingConstants
  <2>3. cursor # NoCursor => Older(k, cursor)
    BY <2>2 DEF Beyond
  <2>4. ASSUME NEW r \in got' PROVE Passed(r)'
    <3>1. CASE r \in shown
      <4>1. r = k \/ Older(k, r)
        BY <2>1, <3>1 DEF IsLast
      <4>2. ~Older(r, k)
        BY <1>2, <2>2, <3>1, <4>1, KeyOrder
      <4> QED BY <2>1, <2>2, <4>2 DEF Passed
    <3>2. CASE r \in got
      <4>1. r \in Key /\ cursor \in Key /\ ~Older(r, cursor) /\ Older(k, cursor)
        BY <2>3, <3>2 DEF IInv, Passed, TypeOK
      <4>2. ~Older(r, k)
        BY <2>2, <4>1, KeyOrder
      <4> QED BY <2>1, <2>2, <4>2 DEF Passed
    <3> QED BY <1>3, <2>4, <3>1, <3>2
  <2>5. ASSUME NEW r \in steady', Passed(r)' PROVE r \in got'
    <3>1. CASE Passed(r)
      BY <1>3, <3>1
    <3>2. CASE ~Passed(r)
      <4>1. r \in B /\ r \in Key
        BY <1>1, <3>2 DEF Passed, Beyond
      <4>2. ~Older(r, k)
        BY <2>1, <2>5 DEF Passed
      <4>3. r = k \/ Older(k, r)
        BY <2>2, <4>1, <4>2, KeyOrder
      <4>4. r \in shown
        BY <1>1, <4>1, <4>3, TopIsUpper
      <4> QED BY <1>3, <4>4
    <3> QED BY <3>1, <3>2
  <2>6. ASSUME phase' = "done", NEW r \in steady' PROVE r \in got'
    <3>1. CASE Passed(r)
      BY <1>3, <3>1
    <3>2. CASE ~Passed(r)
      BY <1>3, <1>6, <2>6, <3>2 DEF Passed, Beyond
    <3> QED BY <3>1, <3>2
  <2>7. phase' \in {"walking", "done"}
    BY DEF Page
  <2>8. TypeOK'
    BY <1>2, <1>3, <1>5, <2>1, <2>2, <2>7, <1>0 DEF IInv, TypeOK
  <2> QED BY <1>5, <2>4, <2>5, <2>6, <2>7, <2>8 DEF IInv, NoRowTwice, NothingSkipped
<1> QED BY <1>7, <1>8

LEMMA InitKept == Init => IInv
  BY DEF Init, IInv, TypeOK, NoRowTwice, NothingSkipped, Passed

\* The size of a page, whatever is asked for.
LEMMA PageSizeRange == ASSUME NEW asked \in Asked PROVE PageSize(asked) \in Nat \ {0}
  BY PagingConstants DEF PagingConstants, PageSize

\* Another request's change of a row keeps it.
LEMMA ChangeKeeps ==
    ASSUME IInv, NEW k \in Key, NEW row \in Row \cup {NoRow}, Change(k, row)
    PROVE  IInv'
<1>1. table' \in [Key -> Row \cup {NoRow}]
  BY DEF Change, IInv, TypeOK
<1>2. Live' \subseteq Live \cup {k}
  BY DEF Change, IInv, TypeOK, Live
<1>3. IsFiniteSet(Live')
  BY <1>2, FS_AddElement, FS_Subset DEF IInv, TypeOK
<1>4. steady' \subseteq steady /\ steady' \subseteq visible'
  BY DEF Change
<1> QED BY <1>1, <1>3, <1>4 DEF Change, IInv, TypeOK, NoRowTwice, NothingSkipped, Passed

\* A request of the client's keeps it.
LEMMA RequestKeeps ==
    ASSUME IInv, NEW list, NEW asked \in Asked, Request(list, asked)
    PROVE  IInv'
<1> DEFINE n == PageSize(asked)
<1>1. n \in Nat \ {0}
  BY PageSizeRange
<1>2. Page(cursor, n) /\ UNCHANGED <<table, walk>>
  BY DEF Request
<1>3. CASE phase = "start"
  <2>1. cursor = NoCursor /\ steady' = visible
    BY <1>3 DEF Request, IInv
  <2> HIDE DEF n
  <2> QED BY <1>1, <1>2, <2>1, PageKeeps DEF Passed
<1>4. CASE phase # "start"
  <2>1. steady' = steady
    BY <1>4 DEF Request
  <2>2. steady' \subseteq visible /\ \A r \in steady' : Passed(r) => r \in got
    BY <2>1 DEF IInv, TypeOK
  <2> HIDE DEF n
  <2> QED BY <1>1, <1>2, <2>2, PageKeeps
<1> QED BY <1>3, <1>4

\* Every action keeps it.
LEMMA StepKept == ASSUME IInv, [Next]_vars PROVE IInv'
<1>1. ASSUME NEW asked \in Asked,
             \/ ListTodos(asked) \/ SearchTodos(asked) \/ ListUsers(asked)
             \/ ListRoles(asked) \/ ListPermissions(asked) \/ ListTenants(asked)
      PROVE  IInv'
  BY <1>1, RequestKeeps
     DEF ListTodos, SearchTodos, ListUsers, ListRoles, ListPermissions, ListTenants
<1>2. ASSUME NEW k \in Key, Delete(k) PROVE IInv'
  BY <1>2, ChangeKeeps DEF Delete
<1>3. ASSUME NEW k \in Key, NEW hit \in Row, Insert(k, hit) \/ Edit(k, hit) PROVE IInv'
  BY <1>3, ChangeKeeps DEF Insert, Edit
<1>4. CASE UNCHANGED vars
  <2>1. visible' = visible /\ Live' = Live
    BY <1>4 DEF vars, visible, Found, Listed, OfTenant, Live
  <2> QED BY <1>4, <2>1 DEF vars, IInv, TypeOK, NoRowTwice, NothingSkipped, Passed
<1> QED BY <1>1, <1>2, <1>3, <1>4 DEF Next, Ask

LEMMA InvariantKept == Spec => []IInv
  BY InitKept, StepKept, PTL DEF Spec

\* TypeOK holds in every state.
THEOREM TypeCorrect == Spec => []TypeOK
<1>1. IInv => TypeOK
  BY DEF IInv
<1> QED BY InvariantKept, <1>1, PTL

\* No row is returned by two pages of a walk (NoRowTwice).
THEOREM NoRowTwiceTheorem == Spec => []NoRowTwice
<1>1. IInv => NoRowTwice
  BY DEF IInv
<1> QED BY InvariantKept, <1>1, PTL

\* A row that was there all the time is returned (NothingSkipped).
THEOREM NothingSkippedTheorem == Spec => []NothingSkipped
<1>1. IInv => NothingSkipped
  BY DEF IInv
<1> QED BY InvariantKept, <1>1, PTL

\* Every page goes on where the last one stopped (WalkIsInOrder).
THEOREM WalkIsInOrderTheorem == Spec => []WalkIsInOrder
<1>1. IInv => WalkIsInOrder
  BY DEF IInv, WalkIsInOrder, Passed
<1> QED BY InvariantKept, <1>1, PTL
-----------------------------------------------------------------------------
(* The walk ends: what can be proved of it.                                *)

\* A page that does not end the walk ends on a row older than all that have been
\* returned.
PageAdvances ==
    Ask /\ phase' = "walking" =>
        \E k \in got' \ got : cursor' = k /\ \A r \in got : Older(k, r)

EveryPageAdvances == [][PageAdvances]_vars

LEMMA RequestAdvances ==
    ASSUME IInv, NEW list, NEW asked \in Asked, Request(list, asked), phase' = "walking"
    PROVE  \E k \in got' \ got : cursor' = k /\ \A r \in got : Older(k, r)
<1> DEFINE n == PageSize(asked)
           B == Beyond(cursor, visible)
<1>1. n \in Nat \ {0} /\ Page(cursor, n)
  BY PageSizeRange DEF Request
<1>2. B \in SUBSET Key /\ IsFiniteSet(B)
  <2>1. visible \in SUBSET Key /\ IsFiniteSet(visible)
    BY VisibleRows DEF IInv, TypeOK, Live
  <2> QED BY <2>1, FS_Subset DEF Beyond
<1> HIDE DEF n
<1>3. Cardinality(Top(B, n + 1)) > n
  BY <1>1 DEF Page
<1>4. Top(B, n) # {}
  <2>1. Top(B, n + 1) # {}
    BY <1>1, <1>3, FS_EmptySet
  <2>2. B # {}
    BY <2>1 DEF Top
  <2>3. PICK k \in B : Newer(k, B) = {}
    BY <1>2, <2>2, NewestExists
  <2>4. Cardinality(Newer(k, B)) = 0
    BY <2>3, FS_EmptySet
  <2> QED BY <1>1, <2>3, <2>4 DEF Top
<1>5. PICK k \in Top(B, n) : cursor' = k
  BY <1>1, <1>4 DEF Page
<1>6. got' = got \cup Top(B, n) /\ k \in B /\ k \in Key
  BY <1>1, <1>2, <1>5 DEF Page, Top
<1>7. ASSUME NEW r \in got PROVE Older(k, r)
  <2>1. cursor # NoCursor /\ ~Older(r, cursor) /\ r \in Key /\ cursor \in Key
    BY <1>7 DEF IInv, Passed, TypeOK
  <2>2. Older(k, cursor)
    BY <1>6, <2>1 DEF Beyond
  <2> QED BY <1>6, <2>1, <2>2, KeyOrder
<1>8. k \notin got
  BY <1>6, <1>7, KeyOrder
<1> QED BY <1>5, <1>6, <1>7, <1>8

\* The safety half of WalkEnds: every page but the last ends on a row older than all
\* that were returned before, however busy the table is; so of a table with finitely
\* many keys a walk has no more pages with a successor than keys.
THEOREM PageAdvancesTheorem == Spec => EveryPageAdvances
<1>1. IInv => PageAdvances
  BY RequestAdvances DEF PageAdvances, Ask, ListTodos, SearchTodos, ListUsers, ListRoles,
     ListPermissions, ListTenants
<1> QED BY <1>1, InvariantKept, PTL DEF EveryPageAdvances
=============================================================================
