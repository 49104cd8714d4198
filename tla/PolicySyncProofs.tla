-------------------------- MODULE PolicySyncProofs --------------------------
(***************************************************************************)
(* Theorems about PolicySync, for any catalogue, any number of processes   *)
(* and requests, every kind of traffic, and failures anywhere.             *)
(***************************************************************************)
EXTENDS PolicySync, TLAPS

USE PolicyConstants

-----------------------------------------------------------------------------
(* Type correctness.                                                       *)

LEMMA InitType == Init => TypeOK
<1> SUFFICES ASSUME Init PROVE TypeOK
  OBVIOUS
<1>1. TablesOK /\ EnforcersOK
  BY DEF Init, TablesOK, EnforcersOK
<1>2. RequestsOK
  BY DEF Init, RequestsOK, Steps
<1>3. HistoryOK
  BY DEF Init, HistoryOK, Entitled
<1> QED
  BY <1>1, <1>2, <1>3 DEF TypeOK

LEMMA FlattenedType == \A us \in SUBSET User : Flattened(us) \subseteq us \X Right
  BY DEF Flattened

LEMMA WrittenType ==
  ASSUME HistoryOK, NEW mine, Written(mine)
  PROVE  HistoryOK'
  BY DEF HistoryOK, Written, Entitled

\* How a request moves.
LEMMA BeginType ==
  ASSUME RequestsOK, NEW q \in Request, NEW l \in {"assign_role", "assign_perm", "flatten"},
         NEW us \in SUBSET User,
         NEW k \in {<<>>} \cup (User \X Role) \cup (Role \X Perm),
         l = "assign_role" => k \in User \X Role,
         l = "assign_perm" => k \in Role \X Perm,
         Begin(q, l, us, k)
  PROVE  RequestsOK'
  BY DEF RequestsOK, Begin, Steps

LEMMA FinishType ==
  ASSUME RequestsOK, NEW q \in Request, Finish(q)
  PROVE  RequestsOK'
  BY DEF RequestsOK, Finish, Steps

LEMMA SameType ==
  /\ TablesOK /\ UNCHANGED <<tableVars, rules>> => TablesOK'
  /\ EnforcersOK /\ UNCHANGED enforcerVars => EnforcersOK'
  /\ RequestsOK /\ UNCHANGED requestVars => RequestsOK'
  /\ HistoryOK /\ UNCHANGED historyVars => HistoryOK'
  BY DEF tableVars, TablesOK, enforcerVars, EnforcersOK, requestVars, RequestsOK,
         historyVars, HistoryOK

LEMMA CommandType ==
  ASSUME TypeOK, NEW q \in Request,
         \/ \E u \in User, r \in Role : AssignRole(q, u, r) \/ UnassignRole(q, u, r)
         \/ \E r \in Role, p \in Perm :
               AssignPermission(q, r, p) \/ UnassignPermission(q, r, p)
         \/ AssignRoleWrite(q)
         \/ AssignPermissionWrite(q)
         \/ Boot(q)
  PROVE  TypeOK'
<1> USE SameType DEF TypeOK
<1>1. ASSUME NEW u \in User, NEW r \in Role, AssignRole(q, u, r) PROVE TypeOK'
  <2>1. RequestsOK'
    BY <1>1, BeginType DEF AssignRole
  <2> QED
    BY <1>1, <2>1 DEF AssignRole
<1>2. ASSUME NEW u \in User, NEW r \in Role, UnassignRole(q, u, r) PROVE TypeOK'
  <2>1. RequestsOK'
    BY <1>2, BeginType DEF UnassignRole
  <2>2. TablesOK' /\ HistoryOK'
    BY <1>2, WrittenType DEF UnassignRole, TablesOK
  <2> QED
    BY <1>2, <2>1, <2>2 DEF UnassignRole
<1>3. ASSUME NEW r \in Role, NEW p \in Perm, AssignPermission(q, r, p) PROVE TypeOK'
  <2>1. RequestsOK'
    BY <1>3, BeginType DEF AssignPermission
  <2> QED
    BY <1>3, <2>1 DEF AssignPermission
<1>4. ASSUME NEW r \in Role, NEW p \in Perm, UnassignPermission(q, r, p) PROVE TypeOK'
  <2>1. RequestsOK'
    BY <1>4, BeginType DEF UnassignPermission
  <2>2. TablesOK' /\ HistoryOK'
    BY <1>4, WrittenType DEF UnassignPermission, TablesOK
  <2> QED
    BY <1>4, <2>1, <2>2 DEF UnassignPermission
<1>5. CASE AssignRoleWrite(q)
  <2>1. RequestsOK'
    BY <1>5 DEF AssignRoleWrite, Goto, RequestsOK, Steps
  <2>2. link[q] \in User \X Role
    BY <1>5 DEF AssignRoleWrite, Goto, RequestsOK
  <2>3. TablesOK' /\ HistoryOK'
    BY <1>5, <2>2, WrittenType DEF AssignRoleWrite, TablesOK
  <2> QED
    BY <1>5, <2>1, <2>3 DEF AssignRoleWrite
<1>6. CASE AssignPermissionWrite(q)
  <2>1. RequestsOK'
    BY <1>6 DEF AssignPermissionWrite, Goto, RequestsOK, Steps
  <2>2. link[q] \in Role \X Perm
    BY <1>6 DEF AssignPermissionWrite, Goto, RequestsOK
  <2>3. TablesOK' /\ HistoryOK'
    BY <1>6, <2>2, WrittenType DEF AssignPermissionWrite, TablesOK
  <2> QED
    BY <1>6, <2>1, <2>3 DEF AssignPermissionWrite
<1>7. CASE Boot(q)
  <2>1. RequestsOK'
    BY <1>7, BeginType DEF Boot
  <2> QED
    BY <1>7, <2>1 DEF Boot
<1> QED
  BY <1>1, <1>2, <1>3, <1>4, <1>5, <1>6, <1>7

LEMMA SyncType ==
  ASSUME TypeOK, NEW q \in Request,
         Flatten(q) \/ Delete(q) \/ Commit(q) \/ Load(q) \/ Swap(q)
  PROVE  TypeOK'
<1> USE SameType DEF TypeOK
<1>1. CASE Flatten(q)
  <2>1. scope[q] \in SUBSET User
    BY DEF RequestsOK
  <2>2. Flattened(scope[q]) \subseteq scope[q] \X Right /\ Flattened(scope[q]) \in SUBSET Rule
    BY <2>1, FlattenedType DEF Rule
  <2>3. RequestsOK'
    BY <1>1, <2>2 DEF Flatten, Goto, RequestsOK, Steps
  <2>4. HistoryOK'
    BY <1>1 DEF Flatten, HistoryOK
  <2> QED
    BY <1>1, <2>3, <2>4 DEF Flatten
<1>2. CASE Delete(q)
  <2>1. RulesOf(scope[q]) \in SUBSET RuleRow
    BY DEF RulesOf, TablesOK
  <2>2. RequestsOK'
    BY <1>2, <2>1 DEF Delete, Goto, RequestsOK, Steps
  <2> QED
    BY <1>2, <2>2 DEF Delete
<1>3. CASE Commit(q)
  <2>1. PICK b \in Batch : rules' = (rules \ doomed[q]) \cup [rule : want[q], batch : {b}]
    BY <1>3 DEF Commit
  <2>2. want[q] \subseteq Rule
    BY DEF RequestsOK
  <2>3. TablesOK'
    BY <1>3, <2>1, <2>2 DEF Commit, TablesOK, RuleRow, tableVars
  <2>4. RequestsOK' /\ HistoryOK'
    BY <1>3 DEF Commit, Goto, RequestsOK, HistoryOK, Steps
  <2> QED
    BY <1>3, <2>3, <2>4 DEF Commit
<1>4. CASE Load(q)
  <2>1. {row.rule : row \in rules} \in SUBSET Rule
    BY DEF TablesOK, RuleRow
  <2>2. RequestsOK'
    BY <1>4, <2>1 DEF Load, Goto, RequestsOK, Steps
  <2>3. EnforcersOK'
    BY <1>4 DEF Load, EnforcersOK
  <2> QED
    BY <1>4, <2>2, <2>3 DEF Load
<1>5. CASE Swap(q)
  <2>1. RequestsOK'
    BY <1>5, FinishType DEF Swap
  <2>2. EnforcersOK' /\ HistoryOK'
    BY <1>5 DEF Swap, EnforcersOK, RequestsOK, HistoryOK
  <2> QED
    BY <1>5, <2>1, <2>2 DEF Swap
<1> QED
  BY <1>1, <1>2, <1>3, <1>4, <1>5

LEMMA CheckType ==
  ASSUME TypeOK, NEW q \in Request,
         (\E x \in Rule : Enforce(q, x)) \/ Remember(q) \/ Abort(q)
  PROVE  TypeOK'
<1> USE SameType DEF TypeOK
<1>1. ASSUME NEW x \in Rule, Enforce(q, x) PROVE TypeOK'
  <2>1. RequestsOK'
    BY <1>1 DEF Enforce, RequestsOK, Steps
  <2> QED
    BY <1>1, <2>1 DEF Enforce
<1>2. CASE Remember(q)
  <2>1. RequestsOK'
    BY <1>2, FinishType DEF Remember
  <2>2. want[q] \in SUBSET Rule /\ loaded[q] \in SUBSET Rule
    BY DEF RequestsOK
  <2>3. EnforcersOK'
    BY <1>2, <2>2 DEF Remember, EnforcersOK
  <2> QED
    BY <1>2, <2>1, <2>3 DEF Remember
<1>3. CASE Abort(q)
  <2>1. RequestsOK' /\ HistoryOK'
    BY <1>3, FinishType DEF Abort, HistoryOK
  <2> QED
    BY <1>3, <2>1 DEF Abort
<1> QED
  BY <1>1, <1>2, <1>3

LEMMA OtherType ==
  ASSUME TypeOK,
         \/ \E r \in Role : DeleteRole(r)
         \/ \E p \in Perm : DeletePermission(p)
         \/ \E p \in Perm, x \in Right : UpdatePermission(p, x)
         \/ \E i \in Instance : Crash(i)
         \/ UNCHANGED vars
  PROVE  TypeOK'
<1> USE SameType DEF TypeOK
<1>1. ASSUME NEW r \in Role, DeleteRole(r) PROVE TypeOK'
  BY <1>1, WrittenType DEF DeleteRole, TablesOK
<1>2. ASSUME NEW p \in Perm, DeletePermission(p) PROVE TypeOK'
  BY <1>2, WrittenType DEF DeletePermission, TablesOK
<1>3. ASSUME NEW p \in Perm, NEW x \in Right, UpdatePermission(p, x) PROVE TypeOK'
  BY <1>3, WrittenType DEF UpdatePermission, TablesOK
<1>4. ASSUME NEW i \in Instance, Crash(i) PROVE TypeOK'
  <2>1. RequestsOK'
    BY <1>4 DEF Crash, RequestsOK, Steps
  <2>2. EnforcersOK' /\ HistoryOK'
    BY <1>4 DEF Crash, EnforcersOK, HistoryOK
  <2> QED
    BY <1>4, <2>1, <2>2 DEF Crash
<1>5. CASE UNCHANGED vars
  BY <1>5 DEF vars
<1> QED
  BY <1>1, <1>2, <1>3, <1>4, <1>5

\* Tables, enforcers and requests keep their types.
THEOREM TypeCorrect == Spec => []TypeOK
<1>1. TypeOK /\ [Next]_vars => TypeOK'
  BY CommandType, SyncType, CheckType, OtherType DEF Next, Step
<1> QED
  BY InitType, <1>1, PTL DEF Spec

-----------------------------------------------------------------------------
(* A sync that runs alone.  The property speaks of the moment before the   *)
(* new model is installed; the invariant follows the sync there step by    *)
(* step, from the rules it read to the rows it deletes and the rows it     *)
(* leaves in casbin_rule.                                                  *)

About(x, us) == {r \in x : r[1] \in us}
Stored == {row.rule : row \in rules}

Lone(q) ==
    /\ pc[q] \in {"delete", "commit", "load", "swap"}
    /\ pc[q] \in {"delete", "commit"} => want[q] = Flattened(scope[q])
    /\ pc[q] = "commit" => doomed[q] = RulesOf(scope[q])
    /\ pc[q] = "load" => About(Stored, scope[q]) = Flattened(scope[q])
    /\ pc[q] = "swap" => About(loaded[q], scope[q]) = Flattened(scope[q])

LoneInv == \A q \in alone : Lone(q)

\* What request q has in memory is not touched.
Still(q) ==
    /\ pc'[q] = pc[q] /\ scope'[q] = scope[q] /\ want'[q] = want[q]
    /\ doomed'[q] = doomed[q] /\ loaded'[q] = loaded[q]

\* The two joins compute what RBAC means.
LEMMA FlattenedIsEntitled ==
  ASSUME NEW us \in SUBSET User
  PROVE  Flattened(us) = {x \in Entitled : x[1] \in us}
<1>1. ASSUME NEW u \in User, NEW x \in Right
      PROVE  <<u, x>> \in Entitled <=>
                \E r \in Role \ deadRoles, p \in Perm \ deadPerms :
                    <<u, r>> \in userRoles /\ <<r, p>> \in rolePerms /\ x = right[p]
  BY DEF Entitled, RolesOf, RightsOf, Rule
<1>2. ASSUME NEW u \in User, NEW x \in Right
      PROVE  <<u, x>> \in Flattened(us) <=> u \in us /\ <<u, x>> \in Entitled
  BY <1>1 DEF Flattened
<1>3. Flattened(us) \subseteq User \X Right /\ Entitled \subseteq User \X Right
  BY DEF Flattened, Entitled, Rule
<1> QED
  BY <1>2, <1>3

LEMMA LoneStill ==
  ASSUME NEW q \in Request, Lone(q), Still(q), UNCHANGED <<tableVars, rules>>
  PROVE  Lone(q)'
<1>1. Flattened(scope[q])' = Flattened(scope[q])
  BY DEF Still, Flattened, tableVars
<1>2. RulesOf(scope[q])' = RulesOf(scope[q])
  BY DEF Still, RulesOf
<1>3. About(Stored, scope[q])' = About(Stored, scope[q])
  BY DEF Still, About, Stored
<1>4. About(loaded[q], scope[q])' = About(loaded[q], scope[q])
  BY DEF Still, About
<1> QED
  BY <1>1, <1>2, <1>3, <1>4 DEF Lone, Still

\* A step that writes no table and leaves the other syncs where they are.
LEMMA LoneStep ==
  ASSUME TypeOK, LoneInv, UNCHANGED <<tableVars, rules>>,
         \A o \in alone' : o \in alone /\ Still(o)
  PROVE  LoneInv'
  BY LoneStill DEF LoneInv, TypeOK, HistoryOK

LEMMA CommandLone ==
  ASSUME TypeOK, LoneInv, NEW q \in Request,
         \/ \E u \in User, r \in Role : AssignRole(q, u, r) \/ UnassignRole(q, u, r)
         \/ \E r \in Role, p \in Perm :
               AssignPermission(q, r, p) \/ UnassignPermission(q, r, p)
         \/ AssignRoleWrite(q)
         \/ AssignPermissionWrite(q)
         \/ Boot(q)
  PROVE  LoneInv'
<1>1. pc[q] \in {"idle", "assign_role", "assign_perm"}
  BY DEF AssignRole, UnassignRole, AssignPermission, UnassignPermission,
         AssignRoleWrite, AssignPermissionWrite, Boot, Begin, Goto
<1>2. q \notin alone
  BY <1>1 DEF LoneInv, Lone
<1>3. CASE Written({q})
  BY <1>2, <1>3 DEF Written, LoneInv
<1>4. CASE ~Written({q})
  <2>1. UNCHANGED <<tableVars, rules, historyVars>>
    BY <1>4 DEF AssignRole, UnassignRole, AssignPermission, UnassignPermission,
                AssignRoleWrite, AssignPermissionWrite, Boot
  <2>2. \A o \in Request : o # q => Still(o)
    BY <1>4 DEF AssignRole, UnassignRole, AssignPermission, UnassignPermission, Boot,
                AssignRoleWrite, AssignPermissionWrite, Begin, Still, TypeOK, RequestsOK
  <2> QED
    BY <1>2, <2>1, <2>2, LoneStep DEF historyVars, TypeOK, HistoryOK
<1> QED
  BY <1>3, <1>4

LEMMA SyncLone ==
  ASSUME TypeOK, LoneInv, NEW q \in Request,
         Flatten(q) \/ Delete(q) \/ Commit(q) \/ Load(q) \/ Swap(q)
  PROVE  LoneInv'
<1>0. \A o \in Request : o # q => Still(o)
  BY DEF Flatten, Delete, Commit, Load, Swap, Goto, Finish, Still, TypeOK, RequestsOK
<1>1. alone \subseteq Request /\ scope[q] \in SUBSET User /\ pc \in [Request -> Steps]
  BY DEF TypeOK, HistoryOK, RequestsOK
<1>2. ASSUME UNCHANGED <<tableVars, rules>>, alone' \ {q} \subseteq alone,
             q \in alone' => Lone(q)'
      PROVE  LoneInv'
  BY <1>0, <1>1, <1>2, LoneStill DEF LoneInv
<1>3. CASE Flatten(q)
  <2>1. pc'[q] = "delete" /\ want'[q] = Flattened(scope[q]) /\ scope'[q] = scope[q]
    BY <1>3, <1>1 DEF Flatten, Goto, TypeOK, RequestsOK
  <2>2. Lone(q)'
    <3>1. UNCHANGED tableVars
      BY <1>3 DEF Flatten
    <3>2. Flattened(scope[q])' = Flattened(scope[q])
      BY <2>1, <3>1 DEF Flattened, tableVars
    <3> QED
      BY <2>1, <3>2 DEF Lone
  <2> QED
    BY <1>2, <1>3, <2>2 DEF Flatten
<1>4. CASE Delete(q)
  <2>1. /\ pc[q] = "delete" /\ pc'[q] = "commit" /\ scope'[q] = scope[q]
        /\ want'[q] = want[q] /\ doomed'[q] = RulesOf(scope[q])
    BY <1>4, <1>1 DEF Delete, Goto, TypeOK, RequestsOK
  <2>2. Flattened(scope[q])' = Flattened(scope[q])
    BY <1>4, <2>1 DEF Delete, Flattened, tableVars
  <2>3. RulesOf(scope[q])' = RulesOf(scope[q])
    BY <1>4, <2>1 DEF Delete, RulesOf
  <2>4. Lone(q) => Lone(q)'
    BY <2>1, <2>2, <2>3 DEF Lone
  <2> QED
    BY <1>2, <1>4, <2>4 DEF Delete, historyVars, LoneInv
<1>5. CASE Commit(q)
  <2>1. PICK b \in Batch :
          /\ Goto(q, "commit", "load")
          /\ rules' = (rules \ doomed[q]) \cup [rule : want[q], batch : {b}]
          /\ alone' = alone \cap {q}
    BY <1>5 DEF Commit
  <2>2. pc[q] = "commit" /\ pc'[q] = "load" /\ scope' = scope /\ UNCHANGED tableVars
    BY <1>1, <1>5, <2>1 DEF Commit, Goto
  <2>3. ASSUME q \in alone PROVE About(Stored, scope[q])' = Flattened(scope[q])
    <3>1. want[q] = Flattened(scope[q]) /\ doomed[q] = RulesOf(scope[q])
      BY <2>2, <2>3 DEF LoneInv, Lone
    <3>2. \A row \in rules \ doomed[q] : row.rule[1] \notin scope[q]
      BY <3>1 DEF RulesOf
    <3>3. \A x \in want[q] : x[1] \in scope[q]
      BY <3>1 DEF Flattened
    <3>4. \A x \in want[q] : [rule |-> x, batch |-> b] \in rules'
      BY <2>1
    <3>5. \A row \in rules' : row \in rules \ doomed[q] \/ row.rule \in want[q]
      BY <2>1
    <3>6. ASSUME NEW x \in About(Stored', scope[q]) PROVE x \in want[q]
      <4>1. PICK row \in rules' : x = row.rule /\ x[1] \in scope[q]
        BY DEF About, Stored
      <4> QED
        BY <3>2, <3>5, <4>1
    <3>7. ASSUME NEW x \in want[q] PROVE x \in About(Stored', scope[q])
      <4>1. x = [rule |-> x, batch |-> b].rule
        OBVIOUS
      <4> QED
        BY <3>3, <3>4, <4>1 DEF About, Stored
    <3>8. About(Stored', scope[q]) = want[q]
      BY <3>6, <3>7
    <3>9. About(Stored, scope[q])' = About(Stored', scope[q])
      BY <2>2 DEF About
    <3> QED
      BY <3>1, <3>8, <3>9
  <2>4. Flattened(scope[q])' = Flattened(scope[q])
    BY <2>2 DEF Flattened, tableVars
  <2>5. q \in alone => Lone(q)'
    BY <2>2, <2>3, <2>4 DEF Lone
  <2> QED
    BY <2>1, <2>5 DEF LoneInv
<1>6. CASE Load(q)
  <2>1. /\ pc[q] = "load" /\ pc'[q] = "swap" /\ scope'[q] = scope[q]
        /\ loaded'[q] = Stored
    BY <1>6, <1>1 DEF Load, Goto, TypeOK, RequestsOK, Stored
  <2>2. Flattened(scope[q])' = Flattened(scope[q])
    BY <1>6, <2>1 DEF Load, Flattened, tableVars
  <2>3. About(loaded[q], scope[q])' = About(Stored, scope[q])
    BY <2>1 DEF About
  <2>4. Lone(q) => Lone(q)'
    BY <2>1, <2>2, <2>3 DEF Lone
  <2> QED
    BY <1>2, <1>6, <2>4 DEF Load, historyVars, LoneInv
<1>7. CASE Swap(q)
  BY <1>2, <1>7 DEF Swap
<1> QED
  BY <1>3, <1>4, <1>5, <1>6, <1>7

LEMMA OtherLone ==
  ASSUME TypeOK, LoneInv,
         \/ \E q \in Request : (\E x \in Rule : Enforce(q, x)) \/ Remember(q) \/ Abort(q)
         \/ \E r \in Role : DeleteRole(r)
         \/ \E p \in Perm : DeletePermission(p)
         \/ \E p \in Perm, x \in Right : UpdatePermission(p, x)
         \/ \E i \in Instance : Crash(i)
         \/ UNCHANGED vars
  PROVE  LoneInv'
<1>1. ASSUME NEW q \in Request, NEW x \in Rule, Enforce(q, x) PROVE LoneInv'
  <2>1. q \notin alone
    BY <1>1 DEF Enforce, LoneInv, Lone
  <2> QED
    BY <1>1, <2>1, LoneStep DEF Enforce, historyVars, Still, TypeOK, RequestsOK, HistoryOK
<1>2. ASSUME NEW q \in Request, Remember(q) PROVE LoneInv'
  <2>1. q \notin alone
    BY <1>2 DEF Remember, LoneInv, Lone
  <2> QED
    BY <1>2, <2>1, LoneStep
       DEF Remember, Finish, historyVars, Still, TypeOK, RequestsOK, HistoryOK
<1>3. ASSUME NEW q \in Request, Abort(q) PROVE LoneInv'
  BY <1>3, LoneStep DEF Abort, Finish, Still, TypeOK, RequestsOK, HistoryOK
<1>4. CASE Written({})
  BY <1>4 DEF Written, LoneInv
<1>5. ASSUME NEW i \in Instance, Crash(i) PROVE LoneInv'
  BY <1>5, LoneStep DEF Crash, Still, TypeOK, HistoryOK
<1>6. CASE UNCHANGED vars
  BY <1>6, LoneStep DEF vars, historyVars, requestVars, Still
<1> QED
  BY <1>1, <1>2, <1>3, <1>4, <1>5, <1>6 DEF DeleteRole, DeletePermission, UpdatePermission

\* A sync nobody wrote beside installs exactly the rights of its users, whatever
\* rows, duplicates and models earlier races and failures have left.
THEOREM LoneSyncTheorem == Spec => []LoneSyncIsExact
<1>1. Init => LoneInv
  BY DEF Init, LoneInv
<1>2. TypeOK /\ LoneInv /\ [Next]_vars => LoneInv'
  BY CommandLone, SyncLone, OtherLone DEF Next, Step
<1>3. TypeOK /\ LoneInv => LoneSyncIsExact
  <2> SUFFICES ASSUME TypeOK, LoneInv, NEW q \in alone, pc[q] = "swap"
               PROVE  About(loaded[q], scope[q]) = {x \in Entitled : x[1] \in scope[q]}
    BY DEF LoneSyncIsExact, About
  <2>1. scope[q] \in SUBSET User
    BY DEF TypeOK, HistoryOK, RequestsOK
  <2> QED
    BY <2>1, FlattenedIsEntitled DEF LoneInv, Lone
<1> QED
  BY TypeCorrect, <1>1, <1>2, <1>3, PTL DEF Spec

-----------------------------------------------------------------------------
(* Nothing is enforced that was never granted.  Rules travel from the      *)
(* tables through want, casbin_rule, loaded, model and cache; the          *)
(* invariant follows them.                                                 *)

InFlight ==
    \A q \in Request :
        /\ pc[q] \in {"delete", "commit"} => want[q] \subseteq granted
        /\ loaded[q] \subseteq granted

GrantedInv == NothingInvented /\ Entitled \subseteq granted /\ InFlight

\* Steps that write the RBAC tables: what is granted only grows.
LEMMA WrittenGranted ==
  ASSUME TypeOK, GrantedInv, NEW mine, Written(mine),
         UNCHANGED <<rules, policy, allowed, want, loaded>>,
         \A q \in Request : pc'[q] \in {"delete", "commit"} => pc'[q] = pc[q]
  PROVE  GrantedInv'
<1>1. granted \subseteq granted' /\ Entitled' \subseteq granted'
  BY DEF Written
<1>2. NothingInvented'
  BY <1>1 DEF GrantedInv, NothingInvented
<1>3. InFlight'
  BY <1>1 DEF GrantedInv, InFlight
<1> QED
  BY <1>1, <1>2, <1>3 DEF GrantedInv

\* Steps that leave the tables alone.
LEMMA UnwrittenGranted ==
  ASSUME GrantedInv, UNCHANGED <<tableVars, granted>>, InFlight',
         \A row \in rules' : row.rule \in granted,
         \A i \in Instance : policy'[i] \cup allowed'[i] \subseteq granted
  PROVE  GrantedInv'
<1>1. Entitled' = Entitled
  BY DEF tableVars, Entitled, RolesOf, RightsOf
<1> QED
  BY <1>1 DEF GrantedInv, NothingInvented

LEMMA CommandGranted ==
  ASSUME TypeOK, GrantedInv, NEW q \in Request,
         \/ \E u \in User, r \in Role : AssignRole(q, u, r) \/ UnassignRole(q, u, r)
         \/ \E r \in Role, p \in Perm :
               AssignPermission(q, r, p) \/ UnassignPermission(q, r, p)
         \/ AssignRoleWrite(q)
         \/ AssignPermissionWrite(q)
         \/ Boot(q)
  PROVE  GrantedInv'
<1>1. /\ UNCHANGED <<rules, policy, allowed, want, loaded>>
      /\ \A o \in Request : pc'[o] \in {"delete", "commit"} => pc'[o] = pc[o]
      /\ \/ Written({q})
         \/ UNCHANGED <<tableVars, historyVars>>
  BY DEF AssignRole, UnassignRole, AssignPermission, UnassignPermission, Boot,
         AssignRoleWrite, AssignPermissionWrite, Begin, Goto, enforcerVars,
         TypeOK, RequestsOK
<1>2. CASE Written({q})
  BY <1>1, <1>2, WrittenGranted
<1>3. CASE UNCHANGED <<tableVars, historyVars>>
  <2>1. InFlight'
    BY <1>1, <1>3 DEF GrantedInv, InFlight, historyVars
  <2> QED
    BY <1>1, <1>3, <2>1, UnwrittenGranted DEF historyVars, GrantedInv, NothingInvented
<1> QED
  BY <1>1, <1>2, <1>3

LEMMA SyncGranted ==
  ASSUME TypeOK, GrantedInv, NEW q \in Request,
         Flatten(q) \/ Delete(q) \/ Commit(q) \/ Load(q) \/ Swap(q)
  PROVE  GrantedInv'
<1> USE UnwrittenGranted DEF TypeOK, RequestsOK, historyVars
<1>0. /\ \A row \in rules : row.rule \in granted
      /\ \A i \in Instance : policy[i] \cup allowed[i] \subseteq granted
  BY DEF GrantedInv, NothingInvented
<1>1. CASE Flatten(q)
  <2>1. Flattened(scope[q]) \subseteq granted
    BY FlattenedIsEntitled DEF GrantedInv
  <2>2. InFlight'
    BY <1>1, <2>1 DEF Flatten, Goto, GrantedInv, InFlight
  <2> QED
    BY <1>0, <1>1, <2>2 DEF Flatten, enforcerVars
<1>2. CASE Delete(q)
  <2>1. InFlight'
    BY <1>2 DEF Delete, Goto, GrantedInv, InFlight
  <2> QED
    BY <1>0, <1>2, <2>1 DEF Delete, enforcerVars
<1>3. CASE Commit(q)
  <2>1. PICK b \in Batch :
          /\ Goto(q, "commit", "load")
          /\ rules' = (rules \ doomed[q]) \cup [rule : want[q], batch : {b}]
    BY <1>3 DEF Commit
  <2>2. want[q] \subseteq granted
    BY <2>1 DEF Goto, GrantedInv, InFlight
  <2>3. \A row \in rules' : row.rule \in granted
    BY <1>0, <2>1, <2>2
  <2>4. InFlight'
    BY <1>3, <2>1 DEF Commit, Goto, GrantedInv, InFlight
  <2> QED
    BY <1>0, <1>3, <2>3, <2>4 DEF Commit, enforcerVars
<1>4. CASE Load(q)
  <2>1. InFlight'
    BY <1>0, <1>4 DEF Load, Goto, GrantedInv, InFlight
  <2>2. \A i \in Instance : allowed'[i] \subseteq allowed[i]
    BY <1>4 DEF Load, EnforcersOK
  <2> QED
    BY <1>0, <1>4, <2>1, <2>2 DEF Load
<1>5. CASE Swap(q)
  <2>1. InFlight'
    BY <1>5 DEF Swap, Finish, GrantedInv, InFlight
  <2>2. \A i \in Instance : policy'[i] \subseteq granted
    BY <1>0, <1>5 DEF Swap, EnforcersOK, GrantedInv, InFlight
  <2> QED
    BY <1>0, <1>5, <2>1, <2>2 DEF Swap
<1> QED
  BY <1>1, <1>2, <1>3, <1>4, <1>5

LEMMA OtherGranted ==
  ASSUME TypeOK, GrantedInv,
         \/ \E q \in Request : (\E x \in Rule : Enforce(q, x)) \/ Remember(q) \/ Abort(q)
         \/ \E r \in Role : DeleteRole(r)
         \/ \E p \in Perm : DeletePermission(p)
         \/ \E p \in Perm, x \in Right : UpdatePermission(p, x)
         \/ \E i \in Instance : Crash(i)
         \/ UNCHANGED vars
  PROVE  GrantedInv'
<1> USE UnwrittenGranted DEF TypeOK, RequestsOK, historyVars
<1>0. /\ \A row \in rules : row.rule \in granted
      /\ \A i \in Instance : policy[i] \cup allowed[i] \subseteq granted
  BY DEF GrantedInv, NothingInvented
<1>1. ASSUME NEW q \in Request, NEW x \in Rule, Enforce(q, x) PROVE GrantedInv'
  <2>1. {x} \cap policy[At[q]] \subseteq granted
    BY <1>0
  <2>2. InFlight'
    BY <1>1, <2>1 DEF Enforce, GrantedInv, InFlight
  <2> QED
    BY <1>0, <1>1, <2>2 DEF Enforce, enforcerVars
<1>2. ASSUME NEW q \in Request, Remember(q) PROVE GrantedInv'
  <2>1. InFlight'
    BY <1>2 DEF Remember, Finish, GrantedInv, InFlight
  <2>2. \A i \in Instance : allowed'[i] \subseteq granted
    BY <1>0, <1>2 DEF Remember, EnforcersOK, GrantedInv, InFlight
  <2> QED
    BY <1>0, <1>2, <2>1, <2>2 DEF Remember
<1>3. ASSUME NEW q \in Request, Abort(q) PROVE GrantedInv'
  <2>1. InFlight'
    BY <1>3 DEF Abort, Finish, GrantedInv, InFlight
  <2> QED
    BY <1>0, <1>3, <2>1 DEF Abort, enforcerVars
<1>4. CASE /\ Written({})
           /\ UNCHANGED <<rules, enforcerVars, requestVars>>
  BY <1>4, WrittenGranted DEF enforcerVars, requestVars
<1>5. ASSUME NEW i \in Instance, Crash(i) PROVE GrantedInv'
  <2>1. InFlight'
    BY <1>5 DEF Crash, GrantedInv, InFlight
  <2>2. \A j \in Instance : policy'[j] \subseteq policy[j] /\ allowed'[j] \subseteq allowed[j]
    BY <1>5 DEF Crash, EnforcersOK
  <2> QED
    BY <1>0, <1>5, <2>1, <2>2 DEF Crash
<1>6. CASE UNCHANGED vars
  <2>1. InFlight'
    BY <1>6 DEF vars, requestVars, GrantedInv, InFlight
  <2> QED
    BY <1>0, <1>6, <2>1 DEF vars, enforcerVars
<1> QED
  BY <1>1, <1>2, <1>3, <1>4, <1>5, <1>6 DEF DeleteRole, DeletePermission, UpdatePermission

\* No interleaving of syncs, crashes and checks makes the enforcer, its cache or
\* casbin_rule hold a right that the RBAC tables never granted.
THEOREM NothingInventedTheorem == Spec => []NothingInvented
<1>1. Init => GrantedInv
  BY DEF Init, GrantedInv, NothingInvented, InFlight
<1>2. TypeOK /\ GrantedInv /\ [Next]_vars => GrantedInv'
  BY CommandGranted, SyncGranted, OtherGranted DEF Next, Step
<1>3. GrantedInv => NothingInvented
  BY DEF GrantedInv
<1> QED
  BY TypeCorrect, <1>1, <1>2, <1>3, PTL DEF Spec

-----------------------------------------------------------------------------
(* One request at a time.  What a request is not about agrees already, and *)
(* what it is about agrees when it is done (LoneInv).                      *)

Syncing == {"flatten", "delete", "commit", "load", "swap"}

\* Rules, model and cache say what the tables grant.
Agrees(i) ==
    /\ Stored = Entitled /\ policy[i] = Entitled
    /\ allowed[i] \subseteq Entitled /\ denied[i] \cap Entitled = {}

\* Rules about other users than us agree with the tables.
AgreesOutside(us) == \A u \in User \ us, x \in Right : <<u, x>> \in Stored <=> <<u, x>> \in Entitled

OneAtATime(q) ==
    LET i == At[q] IN
    /\ up \subseteq {i}
    /\ pc[q] \notin Syncing /\ i \in up => Agrees(i)
    /\ pc[q] \in Syncing => AgreesOutside(scope[q])
    /\ pc[q] \in Syncing \ {"flatten"} => q \in alone
    /\ pc[q] = "swap" => loaded[q] = Stored /\ allowed[i] = {} /\ denied[i] = {}
    /\ pc[q] \in {"assign_role", "assign_perm", "remember"} => i \in up
    /\ pc[q] = "assign_role" => scope[q] = {link[q][1]}
    /\ pc[q] = "assign_perm" => scope[q] = User
    /\ pc[q] = "remember" => loaded[q] = want[q] \cap policy[i]

\* Writing the roles of one user changes nothing for the others.
LEMMA OthersKeepRights ==
  ASSUME TablesOK, NEW u \in User, NEW v \in User \ {u}, NEW x \in Right,
         UNCHANGED <<rolePerms, deadRoles, deadPerms, right>>,
         \A r \in Role : <<v, r>> \in userRoles' <=> <<v, r>> \in userRoles
  PROVE  <<v, x>> \in Entitled' <=> <<v, x>> \in Entitled
<1>1. RolesOf(v)' = RolesOf(v)
  BY DEF RolesOf
<1>2. \A r \in Role : RightsOf(r)' = RightsOf(r)
  BY DEF RightsOf
<1>3. <<v, x>>[1] = v /\ <<v, x>>[2] = x /\ <<v, x>> \in Rule
  BY DEF Rule
<1>4. <<v, x>> \in Entitled <=> \E r \in RolesOf(v) : x \in RightsOf(r)
  BY <1>3 DEF Entitled
<1>5. <<v, x>> \in Entitled' <=> \E r \in RolesOf(v)' : x \in RightsOf(r)'
  BY <1>3 DEF Entitled
<1>6. RolesOf(v) \subseteq Role
  BY DEF RolesOf
<1> QED
  BY <1>1, <1>2, <1>4, <1>5, <1>6

\* The write of a command, after which its sync begins.
LEMMA CommandAgrees ==
  ASSUME NEW q \in Request, TypeOK, OneAtATime(q), pc[q] \notin Syncing, At[q] \in up,
         pc'[q] = "flatten", UNCHANGED <<rules, up>>,
         \/ /\ scope'[q] = User
         \/ \E u \in User :
              /\ scope'[q] = {u}
              /\ UNCHANGED <<rolePerms, deadRoles, deadPerms, right>>
              /\ \A v \in User \ {u}, r \in Role :
                    <<v, r>> \in userRoles' <=> <<v, r>> \in userRoles
  PROVE  OneAtATime(q)'
<1>1. Stored = Entitled /\ Stored' = Stored
  BY DEF OneAtATime, Agrees, Stored
<1>2. ASSUME NEW v \in User, v \notin scope'[q], NEW x \in Right
      PROVE  <<v, x>> \in Entitled' <=> <<v, x>> \in Entitled
  <2>1. PICK u \in User :
          /\ scope'[q] = {u}
          /\ UNCHANGED <<rolePerms, deadRoles, deadPerms, right>>
          /\ \A w \in User \ {u}, r \in Role :
                <<w, r>> \in userRoles' <=> <<w, r>> \in userRoles
    BY <1>2
  <2>2. v \in User \ {u}
    BY <1>2, <2>1
  <2>3. \A r \in Role : <<v, r>> \in userRoles' <=> <<v, r>> \in userRoles
    BY <2>1, <2>2
  <2> QED
    BY <2>1, <2>2, <2>3, OthersKeepRights DEF TypeOK
<1> QED
  BY <1>1, <1>2 DEF OneAtATime, AgreesOutside, Syncing

LEMMA OneCommand ==
  ASSUME NEW q \in Request, TypeOK, OneAtATime(q),
         \/ \E u \in User, r \in Role : AssignRole(q, u, r) \/ UnassignRole(q, u, r)
         \/ \E r \in Role, p \in Perm :
               AssignPermission(q, r, p) \/ UnassignPermission(q, r, p)
         \/ AssignRoleWrite(q)
         \/ AssignPermissionWrite(q)
         \/ Boot(q)
  PROVE  OneAtATime(q)'
<1>0. pc \in [Request -> Steps] /\ scope \in [Request -> SUBSET User] /\ link \in [Request -> {<<>>} \cup (User \X Role) \cup (Role \X Perm)]
  BY DEF TypeOK, RequestsOK
<1>a. UNCHANGED tableVars => Entitled' = Entitled
  BY DEF tableVars, Entitled, RolesOf, RightsOf
<1>b. UNCHANGED rules => Stored' = Stored
  BY DEF Stored
<1>1. ASSUME NEW u \in User, NEW r \in Role, AssignRole(q, u, r) PROVE OneAtATime(q)'
  <2>1. /\ pc[q] = "idle" /\ pc'[q] = "assign_role" /\ scope'[q] = {u} /\ link'[q] = <<u, r>>
        /\ At[q] \in up /\ UNCHANGED <<tableVars, rules, up, policy, allowed, denied>>
    BY <1>0, <1>1 DEF AssignRole, Begin, enforcerVars
  <2> QED
    BY <2>1, <1>a, <1>b DEF OneAtATime, Agrees, Syncing
<1>2. ASSUME NEW u \in User, NEW r \in Role, UnassignRole(q, u, r) PROVE OneAtATime(q)'
  <2>1. /\ pc[q] = "idle" /\ pc'[q] = "flatten" /\ scope'[q] = {u} /\ At[q] \in up
        /\ UNCHANGED <<rules, up, rolePerms, deadRoles, deadPerms, right>>
    BY <1>0, <1>2 DEF UnassignRole, Begin, enforcerVars
  <2>2. \A v \in User \ {u}, s \in Role : <<v, s>> \in userRoles' <=> <<v, s>> \in userRoles
    BY <1>2 DEF UnassignRole
  <2> QED
    BY <2>1, <2>2, CommandAgrees DEF Syncing
<1>3. ASSUME NEW r \in Role, NEW p \in Perm, AssignPermission(q, r, p) PROVE OneAtATime(q)'
  <2>1. /\ pc[q] = "idle" /\ pc'[q] = "assign_perm" /\ scope'[q] = User
        /\ At[q] \in up /\ UNCHANGED <<tableVars, rules, up, policy, allowed, denied>>
    BY <1>0, <1>3 DEF AssignPermission, Begin, enforcerVars
  <2> QED
    BY <2>1, <1>a, <1>b DEF OneAtATime, Agrees, Syncing
<1>4. ASSUME NEW r \in Role, NEW p \in Perm, UnassignPermission(q, r, p) PROVE OneAtATime(q)'
  <2>1. /\ pc[q] = "idle" /\ pc'[q] = "flatten" /\ scope'[q] = User /\ At[q] \in up
        /\ UNCHANGED <<rules, up>>
    BY <1>0, <1>4 DEF UnassignPermission, Begin, enforcerVars
  <2> QED
    BY <2>1, CommandAgrees DEF Syncing
<1>5. CASE AssignRoleWrite(q)
  <2>1. /\ pc[q] = "assign_role" /\ pc'[q] = "flatten" /\ scope' = scope /\ At[q] \in up
        /\ UNCHANGED <<rules, up, rolePerms, deadRoles, deadPerms, right>>
    BY <1>0, <1>5 DEF AssignRoleWrite, Goto, enforcerVars, OneAtATime
  <2>2. link[q] \in User \X Role /\ scope[q] = {link[q][1]}
    BY <2>1 DEF OneAtATime, TypeOK, RequestsOK
  <2>3. PICK u \in User, r \in Role : link[q] = <<u, r>> /\ scope[q] = {u}
    BY <2>2
  <2>4. \A v \in User \ {u}, s \in Role : <<v, s>> \in userRoles' <=> <<v, s>> \in userRoles
    BY <1>5, <2>3 DEF AssignRoleWrite
  <2> QED
    BY <2>1, <2>3, <2>4, CommandAgrees DEF Syncing
<1>6. CASE AssignPermissionWrite(q)
  <2>1. /\ pc[q] = "assign_perm" /\ pc'[q] = "flatten" /\ scope'[q] = User /\ At[q] \in up
        /\ UNCHANGED <<rules, up>>
    BY <1>0, <1>6 DEF AssignPermissionWrite, Goto, enforcerVars, OneAtATime
  <2> QED
    BY <2>1, CommandAgrees DEF Syncing
<1>7. CASE Boot(q)
  <2>1. /\ At[q] \notin up /\ up' = up /\ pc'[q] = "flatten" /\ scope'[q] = User
    BY <1>0, <1>7 DEF Boot, Begin, enforcerVars
  <2> QED
    BY <2>1 DEF OneAtATime, AgreesOutside, Syncing
<1> QED
  BY <1>1, <1>2, <1>3, <1>4, <1>5, <1>6, <1>7

LEMMA OneSync ==
  ASSUME NEW q \in Request, TypeOK, LoneInv, OneAtATime(q),
         Flatten(q) \/ Delete(q) \/ Commit(q) \/ Load(q) \/ Swap(q)
  PROVE  OneAtATime(q)'
<1>0. /\ pc \in [Request -> Steps] /\ scope \in [Request -> SUBSET User]
      /\ want \in [Request -> SUBSET Rule] /\ loaded \in [Request -> SUBSET Rule]
      /\ allowed \in [Instance -> SUBSET Rule] /\ denied \in [Instance -> SUBSET Rule]
      /\ policy \in [Instance -> SUBSET Rule] /\ At[q] \in Instance
      /\ rules \subseteq RuleRow
  BY DEF TypeOK, RequestsOK, EnforcersOK, TablesOK
<1>t. UNCHANGED tableVars
  BY DEF Flatten, Delete, Commit, Load, Swap, tableVars
<1>1. Entitled' = Entitled
  BY <1>t DEF tableVars, Entitled, RolesOf, RightsOf
<1>2. UNCHANGED rules => Stored' = Stored
  BY DEF Stored
<1>3. CASE Flatten(q)
  <2>1. /\ pc[q] = "flatten" /\ pc'[q] = "delete" /\ scope' = scope /\ q \in alone'
        /\ UNCHANGED <<rules, up>>
    BY <1>0, <1>3 DEF Flatten, Goto, enforcerVars
  <2> QED
    BY <1>1, <1>2, <2>1 DEF OneAtATime, AgreesOutside, Syncing
<1>4. CASE Delete(q)
  <2>1. /\ pc[q] = "delete" /\ pc'[q] = "commit" /\ scope' = scope
        /\ UNCHANGED <<rules, up, alone>>
    BY <1>0, <1>4 DEF Delete, Goto, enforcerVars, historyVars
  <2> QED
    BY <1>1, <1>2, <2>1 DEF OneAtATime, AgreesOutside, Syncing
<1>5. CASE Commit(q)
  <2>1. PICK b \in Batch :
          /\ Goto(q, "commit", "load")
          /\ rules' = (rules \ doomed[q]) \cup [rule : want[q], batch : {b}]
          /\ alone' = alone \cap {q}
    BY <1>5 DEF Commit
  <2>2. pc[q] = "commit" /\ pc'[q] = "load" /\ scope' = scope /\ up' = up
    BY <1>0, <1>5, <2>1 DEF Commit, Goto, enforcerVars
  <2>3. q \in alone /\ want[q] = Flattened(scope[q]) /\ doomed[q] = RulesOf(scope[q])
    BY <2>2 DEF OneAtATime, LoneInv, Lone, Syncing
  <2>4. ASSUME NEW u \in User \ scope[q], NEW x \in Right
        PROVE  <<u, x>> \in Stored' <=> <<u, x>> \in Stored
    <3>1. <<u, x>>[1] \notin scope[q]
      OBVIOUS
    <3>2. ASSUME NEW row \in rules', row.rule = <<u, x>> PROVE row \in rules
      <4>1. \A y \in want[q] : y[1] \in scope[q]
        BY <2>3 DEF Flattened
      <4> QED
        BY <2>1, <3>1, <3>2, <4>1
    <3>3. ASSUME NEW row \in rules, row.rule = <<u, x>> PROVE row \in rules'
      BY <2>1, <2>3, <3>1, <3>3 DEF RulesOf
    <3> QED
      BY <3>2, <3>3 DEF Stored
  <2>5. AgreesOutside(scope[q])'
    BY <1>1, <2>2, <2>4 DEF OneAtATime, AgreesOutside, Syncing
  <2> QED
    BY <2>1, <2>2, <2>3, <2>5 DEF OneAtATime, Syncing
<1>6. CASE Load(q)
  <2>1. /\ pc[q] = "load" /\ pc'[q] = "swap" /\ scope' = scope /\ loaded'[q] = Stored
        /\ allowed'[At[q]] = {} /\ denied'[At[q]] = {}
        /\ UNCHANGED <<rules, up, alone>>
    BY <1>0, <1>6 DEF Load, Goto, historyVars, Stored
  <2> QED
    BY <1>1, <1>2, <2>1 DEF OneAtATime, AgreesOutside, Syncing
<1>7. CASE Swap(q)
  <2>1. /\ pc[q] = "swap" /\ pc'[q] = "idle" /\ up' = up \cup {At[q]}
        /\ policy'[At[q]] = loaded[q] /\ UNCHANGED <<rules, allowed, denied>>
    BY <1>0, <1>7 DEF Swap, Finish
  <2>2. loaded[q] = Stored /\ allowed[At[q]] = {} /\ denied[At[q]] = {} /\ q \in alone
    BY <2>1 DEF OneAtATime, Syncing
  <2>3. About(Stored, scope[q]) = {x \in Entitled : x[1] \in scope[q]}
    BY <1>0, <2>1, <2>2, FlattenedIsEntitled DEF LoneInv, Lone
  <2>4. ASSUME NEW u \in User, NEW x \in Right
        PROVE  <<u, x>> \in Stored <=> <<u, x>> \in Entitled
    <3>1. CASE u \in scope[q]
      BY <2>3, <3>1 DEF About
    <3>2. CASE u \notin scope[q]
      BY <2>1, <3>2 DEF OneAtATime, AgreesOutside, Syncing
    <3> QED
      BY <3>1, <3>2
  <2>5. Stored = Entitled
    <3>1. Stored \subseteq User \X Right /\ Entitled \subseteq User \X Right
      BY <1>0 DEF Stored, RuleRow, Rule, Entitled
    <3> QED
      BY <2>4, <3>1
  <2>6. Agrees(At[q])'
    BY <1>1, <1>2, <2>1, <2>2, <2>5 DEF Agrees
  <2>7. up' \subseteq {At[q]}
    BY <2>1 DEF OneAtATime
  <2> QED
    BY <2>1, <2>6, <2>7 DEF OneAtATime, Syncing
<1> QED
  BY <1>3, <1>4, <1>5, <1>6, <1>7

LEMMA OneCheck ==
  ASSUME NEW q \in Request, TypeOK, OneAtATime(q), (\E x \in Rule : Enforce(q, x)) \/ Remember(q)
  PROVE  OneAtATime(q)'
<1>0. /\ pc \in [Request -> Steps]
      /\ want \in [Request -> SUBSET Rule] /\ loaded \in [Request -> SUBSET Rule]
      /\ allowed \in [Instance -> SUBSET Rule] /\ denied \in [Instance -> SUBSET Rule]
      /\ At[q] \in Instance
  BY DEF TypeOK, RequestsOK, EnforcersOK
<1>t. UNCHANGED <<tableVars, rules>>
  BY DEF Enforce, Remember, tableVars
<1>1. Entitled' = Entitled /\ Stored' = Stored
  BY <1>t DEF tableVars, Entitled, RolesOf, RightsOf, Stored
<1>2. ASSUME NEW x \in Rule, Enforce(q, x) PROVE OneAtATime(q)'
  <2>1. /\ pc[q] = "idle" /\ pc'[q] = "remember" /\ want'[q] = {x} /\ At[q] \in up
        /\ loaded'[q] = {x} \cap policy[At[q]] /\ UNCHANGED <<up, policy, allowed, denied>>
    BY <1>0, <1>2 DEF Enforce, enforcerVars
  <2> QED
    BY <1>1, <2>1 DEF OneAtATime, Agrees, Syncing
<1>3. CASE Remember(q)
  <2>1. /\ pc[q] = "remember" /\ pc'[q] = "idle" /\ UNCHANGED <<up, policy>>
        /\ allowed'[At[q]] = (allowed[At[q]] \ want[q]) \cup loaded[q]
        /\ denied'[At[q]] = (denied[At[q]] \cup want[q]) \ loaded[q]
    BY <1>0, <1>3 DEF Remember, Finish
  <2>2. loaded[q] = want[q] \cap policy[At[q]] /\ At[q] \in up /\ Agrees(At[q])
    BY <2>1 DEF OneAtATime, Syncing
  <2>3. Agrees(At[q])'
    BY <1>1, <2>1, <2>2 DEF Agrees
  <2> QED
    BY <2>1, <2>3 DEF OneAtATime, Syncing
<1> QED
  BY <1>2, <1>3

\* Served one at a time, without failing calls and with none that edits or deletes a
\* role or permission, requests keep rules, model and cache equal to the tables:
\* what gets apart does so by a second request, a fault, or a change nobody syncs.
THEOREM LoneRequestsAgree ==
  ASSUME NEW q \in Request, Request = {q}, ~Faults, Traffic \cap {"delete", "update"} = {}
  PROVE  Spec => [](PolicyMatchesTables /\ CacheInSync /\ MemoryInSync)
<1>1. Init => OneAtATime(q) /\ LoneInv
  BY DEF Init, OneAtATime, LoneInv, Syncing
<1>2. TypeOK /\ LoneInv /\ [Next]_vars => LoneInv'
  BY CommandLone, SyncLone, OtherLone DEF Next, Step
<1>3. TypeOK /\ LoneInv /\ OneAtATime(q) /\ [Next]_vars => OneAtATime(q)'
  <2> SUFFICES ASSUME TypeOK, LoneInv, OneAtATime(q), [Next]_vars PROVE OneAtATime(q)'
    OBVIOUS
  <2>1. CASE UNCHANGED vars
    <3>1. UNCHANGED <<tableVars, rules, enforcerVars, requestVars, historyVars>>
      BY <2>1 DEF vars
    <3>2. Entitled' = Entitled /\ Stored' = Stored
      BY <3>1 DEF tableVars, Entitled, RolesOf, RightsOf, Stored
    <3> QED
      BY <3>1, <3>2 DEF enforcerVars, requestVars, historyVars, OneAtATime, Agrees, AgreesOutside
  <2>2. CASE Step(q)
    BY <2>2, OneCommand, OneSync, OneCheck DEF Step, Abort
  <2>3. CASE Next
    BY <2>2, <2>3 DEF Next, Crash, DeleteRole, DeletePermission, UpdatePermission
  <2> QED
    BY <2>1, <2>3
<1>4. OneAtATime(q) => PolicyMatchesTables /\ CacheInSync /\ MemoryInSync
  BY DEF OneAtATime, Agrees, Syncing, Quiet, PolicyMatchesTables, CacheInSync, MemoryInSync, Stored
<1> QED
  BY <1>1, <1>2, <1>3, <1>4, TypeCorrect, PTL DEF Spec

-----------------------------------------------------------------------------
(* The decision cache.  Only requests of the same process can put it out of *)
(* step with the model: with one slot per process it follows the model in   *)
(* every state, whatever other processes do, fails or dies.                 *)

SoleSlot == \A q, o \in Request : At[q] = At[o] => q = o

CacheInv ==
    /\ \A i \in Instance : allowed[i] \subseteq policy[i] /\ denied[i] \cap policy[i] = {}
    /\ \A q \in Request :
        /\ pc[q] = "swap" => allowed[At[q]] = {} /\ denied[At[q]] = {}
        /\ pc[q] = "remember" => loaded[q] = want[q] \cap policy[At[q]]

\* A step that leaves enforcers alone and sends no request to those two places.
LEMMA CacheStill ==
  ASSUME CacheInv, UNCHANGED <<policy, allowed, denied>>,
         \A o \in Request :
            \/ pc'[o] \notin {"swap", "remember"}
            \/ UNCHANGED <<pc[o], want[o], loaded[o]>>
  PROVE  CacheInv'
  BY DEF CacheInv

LEMMA CommandCache ==
  ASSUME TypeOK, CacheInv, NEW q \in Request,
         \/ \E u \in User, r \in Role : AssignRole(q, u, r) \/ UnassignRole(q, u, r)
         \/ \E r \in Role, p \in Perm :
               AssignPermission(q, r, p) \/ UnassignPermission(q, r, p)
         \/ AssignRoleWrite(q)
         \/ AssignPermissionWrite(q)
         \/ Boot(q) \/ Flatten(q) \/ Delete(q) \/ Commit(q) \/ Abort(q)
  PROVE  CacheInv'
<1>1. UNCHANGED <<policy, allowed, denied>>
  BY DEF AssignRole, UnassignRole, AssignPermission, UnassignPermission, AssignRoleWrite,
         AssignPermissionWrite, Boot, Flatten, Delete, Commit, Abort, enforcerVars
<1>2. pc'[q] \notin {"swap", "remember"} /\ \A o \in Request \ {q} : UNCHANGED <<pc[o], want[o], loaded[o]>>
  <2>0. /\ pc \in [Request -> Steps] /\ want \in [Request -> SUBSET Rule]
        /\ loaded \in [Request -> SUBSET Rule]
    BY DEF TypeOK, RequestsOK
  <2>1. \A l, us, k : Begin(q, l, us, k) =>
           pc'[q] = l /\ \A o \in Request \ {q} : UNCHANGED <<pc[o], want[o], loaded[o]>>
    BY <2>0 DEF Begin
  <2>2. CASE \/ \E u \in User, r \in Role : AssignRole(q, u, r) \/ UnassignRole(q, u, r)
             \/ \E r \in Role, p \in Perm :
                    AssignPermission(q, r, p) \/ UnassignPermission(q, r, p)
             \/ Boot(q)
    <3>1. \E us, k : \E l \in {"assign_role", "assign_perm", "flatten"} : Begin(q, l, us, k)
      BY <2>2 DEF AssignRole, UnassignRole, AssignPermission, UnassignPermission, Boot
    <3> QED
      BY <2>1, <3>1
  <2>3. CASE AssignRoleWrite(q) \/ AssignPermissionWrite(q) \/ Flatten(q) \/ Delete(q) \/ Commit(q)
    <3>1. \A k, l : Goto(q, k, l) => pc'[q] = l /\ \A o \in Request \ {q} : pc'[o] = pc[o]
      BY <2>0 DEF Goto
    <3>2. \A o \in Request \ {q} : UNCHANGED <<want[o], loaded[o]>>
      BY <2>0, <2>3 DEF AssignRoleWrite, AssignPermissionWrite, Flatten, Delete, Commit
    <3>3. PICK k, l : Goto(q, k, l) /\ l \notin {"swap", "remember"}
      BY <2>3 DEF AssignRoleWrite, AssignPermissionWrite, Flatten, Delete, Commit
    <3> QED
      BY <3>1, <3>2, <3>3
  <2>4. CASE Abort(q)
    BY <2>0, <2>4 DEF Abort, Finish
  <2> QED
    BY <2>2, <2>3, <2>4
<1> QED
  BY <1>1, <1>2, CacheStill

LEMMA EnforcerCache ==
  ASSUME SoleSlot, TypeOK, CacheInv, NEW q \in Request,
         Load(q) \/ Swap(q) \/ (\E x \in Rule : Enforce(q, x)) \/ Remember(q)
  PROVE  CacheInv'
<1>0. /\ pc \in [Request -> Steps] /\ want \in [Request -> SUBSET Rule]
      /\ loaded \in [Request -> SUBSET Rule] /\ policy \in [Instance -> SUBSET Rule]
      /\ allowed \in [Instance -> SUBSET Rule] /\ denied \in [Instance -> SUBSET Rule]
      /\ \A o \in Request : At[o] \in Instance
  BY DEF TypeOK, RequestsOK, EnforcersOK
<1>1. \A o \in Request \ {q} : At[o] # At[q]
  BY DEF SoleSlot
<1>2. CASE Load(q)
  <2>1. /\ pc'[q] = "swap" /\ policy' = policy
        /\ \A o \in Request \ {q} : UNCHANGED <<pc[o], want[o], loaded[o]>>
        /\ allowed' = [allowed EXCEPT ![At[q]] = {}]
        /\ denied' = [denied EXCEPT ![At[q]] = {}]
    BY <1>0, <1>2 DEF Load, Goto
  <2> QED
    BY <1>0, <1>1, <2>1 DEF CacheInv
<1>3. CASE Swap(q)
  <2>1. /\ pc[q] = "swap" /\ pc'[q] = "idle" /\ UNCHANGED <<allowed, denied>>
        /\ \A o \in Request \ {q} : UNCHANGED <<pc[o], want[o], loaded[o]>>
        /\ policy' = [policy EXCEPT ![At[q]] = loaded[q]]
    BY <1>0, <1>3 DEF Swap, Finish
  <2>2. allowed[At[q]] = {} /\ denied[At[q]] = {}
    BY <2>1 DEF CacheInv
  <2>3. \A i \in Instance : i # At[q] => policy'[i] = policy[i]
    BY <1>0, <2>1
  <2>4. \A i \in Instance : allowed'[i] \subseteq policy'[i] /\ denied'[i] \cap policy'[i] = {}
    BY <2>1, <2>2, <2>3 DEF CacheInv
  <2> QED
    BY <1>0, <1>1, <2>1, <2>3, <2>4 DEF CacheInv
<1>4. ASSUME NEW x \in Rule, Enforce(q, x) PROVE CacheInv'
  <2>1. /\ pc'[q] = "remember" /\ want'[q] = {x} /\ loaded'[q] = {x} \cap policy[At[q]]
        /\ UNCHANGED <<policy, allowed, denied>>
        /\ \A o \in Request \ {q} : UNCHANGED <<pc[o], want[o], loaded[o]>>
    BY <1>0, <1>4 DEF Enforce, enforcerVars
  <2> QED
    BY <2>1 DEF CacheInv
<1>5. CASE Remember(q)
  <2>1. /\ pc[q] = "remember" /\ pc'[q] = "idle" /\ policy' = policy
        /\ \A o \in Request \ {q} : UNCHANGED <<pc[o], want[o], loaded[o]>>
        /\ allowed' = [allowed EXCEPT ![At[q]] = (@ \ want[q]) \cup loaded[q]]
        /\ denied' = [denied EXCEPT ![At[q]] = (@ \cup want[q]) \ loaded[q]]
    BY <1>0, <1>5 DEF Remember, Finish
  <2>2. loaded[q] = want[q] \cap policy[At[q]]
    BY <2>1 DEF CacheInv
  <2>3. \A i \in Instance : i # At[q] => allowed'[i] = allowed[i] /\ denied'[i] = denied[i]
    BY <1>0, <2>1
  <2>4. /\ allowed'[At[q]] = (allowed[At[q]] \ want[q]) \cup loaded[q]
        /\ denied'[At[q]] = (denied[At[q]] \cup want[q]) \ loaded[q]
    BY <1>0, <2>1
  <2>5. allowed'[At[q]] \subseteq policy[At[q]] /\ denied'[At[q]] \cap policy[At[q]] = {}
    BY <1>0, <2>2, <2>4 DEF CacheInv
  <2> QED
    BY <1>0, <1>1, <2>1, <2>3, <2>5 DEF CacheInv
<1> QED
  BY <1>2, <1>3, <1>4, <1>5

LEMMA OtherCache ==
  ASSUME TypeOK, CacheInv,
         \/ \E r \in Role : DeleteRole(r)
         \/ \E p \in Perm : DeletePermission(p)
         \/ \E p \in Perm, x \in Right : UpdatePermission(p, x)
         \/ \E i \in Instance : Crash(i)
         \/ UNCHANGED vars
  PROVE  CacheInv'
<1>1. CASE \/ (\E r \in Role : DeleteRole(r)) \/ (\E p \in Perm : DeletePermission(p))
           \/ (\E p \in Perm, x \in Right : UpdatePermission(p, x)) \/ UNCHANGED vars
  BY <1>1, CacheStill
     DEF DeleteRole, DeletePermission, UpdatePermission, vars, enforcerVars, requestVars
<1>2. ASSUME NEW i \in Instance, Crash(i) PROVE CacheInv'
  <2>1. \A j \in Instance :
          IF j = i THEN allowed'[j] = {} /\ denied'[j] = {}
          ELSE UNCHANGED <<policy[j], allowed[j], denied[j]>>
    BY <1>2 DEF Crash, TypeOK, EnforcersOK
  <2>2. \A o \in Request :
          IF At[o] = i THEN pc'[o] = "idle" ELSE UNCHANGED <<pc[o], want[o], loaded[o]>>
    BY <1>2 DEF Crash
  <2>3. \A o \in Request : At[o] \in Instance
    OBVIOUS
  <2> QED
    BY <2>1, <2>2, <2>3 DEF CacheInv
<1> QED
  BY <1>1, <1>2

\* With one request at a time in each process, the decision cache says what the
\* model says (CacheInSync), through syncs that are cut off, crashes, and whatever
\* other processes do: clearing it before the model is loaded is enough.
THEOREM CacheTheorem ==
  ASSUME SoleSlot
  PROVE  Spec => []CacheInSync
<1>1. Init => CacheInv
  BY DEF Init, CacheInv
<1>2. TypeOK /\ CacheInv /\ [Next]_vars => CacheInv'
  BY CommandCache, EnforcerCache, OtherCache DEF Next, Step
<1>3. TypeOK /\ CacheInv => CacheInSync
  BY DEF CacheInv, CacheInSync, TypeOK, EnforcersOK
<1> QED
  BY <1>1, <1>2, <1>3, TypeCorrect, PTL DEF Spec

-----------------------------------------------------------------------------
(* The model in memory and the rows of casbin_rule.                        *)

MemoryInv(q) ==
    /\ up \subseteq {At[q]}
    /\ pc[q] = "swap" => loaded[q] = Stored
    /\ At[q] \in up /\ pc[q] \notin {"load", "swap"} => policy[At[q]] = Stored

\* With one request and no failing call the model holds the rows of casbin_rule
\* whenever no request is being served (MemoryInSync), also when roles and
\* permissions are deleted or changed meanwhile: only a second request, another
\* process or a sync cut off after its commit leaves it behind.
THEOREM MemoryTheorem ==
  ASSUME NEW q \in Request, Request = {q}, ~Faults
  PROVE  Spec => []MemoryInSync
<1>1. Init => MemoryInv(q)
  BY DEF Init, MemoryInv
<1>2. TypeOK /\ MemoryInv(q) /\ [Next]_vars => MemoryInv(q)'
  <2> SUFFICES ASSUME TypeOK, MemoryInv(q), [Next]_vars PROVE MemoryInv(q)'
    OBVIOUS
  <2>0. /\ pc \in [Request -> Steps] /\ loaded \in [Request -> SUBSET Rule]
        /\ policy \in [Instance -> SUBSET Rule] /\ At[q] \in Instance
    BY DEF TypeOK, RequestsOK, EnforcersOK
  <2>s. UNCHANGED rules => Stored' = Stored
    BY DEF Stored
  <2>1. CASE UNCHANGED <<rules, up, policy>> /\ (pc'[q] \in {"load", "swap"} <=> pc[q] \in {"load", "swap"})
             /\ (pc'[q] = "swap" => pc[q] = "swap" /\ loaded'[q] = loaded[q])
    BY <2>1, <2>s DEF MemoryInv
  <2>2. CASE Step(q) /\ ~(Commit(q) \/ Load(q) \/ Swap(q))
    <3>1. UNCHANGED <<rules, up, policy>>
      BY <2>2 DEF Step, AssignRole, UnassignRole, AssignPermission, UnassignPermission,
                  AssignRoleWrite, AssignPermissionWrite, Boot, Flatten, Delete, Enforce,
                  Remember, Abort, enforcerVars
    <3>2. pc[q] \notin {"load", "swap"} /\ pc'[q] \notin {"load", "swap"}
      BY <2>0, <2>2 DEF Step, AssignRole, UnassignRole, AssignPermission, UnassignPermission,
                  AssignRoleWrite, AssignPermissionWrite, Boot, Flatten, Delete, Enforce,
                  Remember, Abort, Begin, Goto, Finish
    <3> QED
      BY <2>1, <3>1, <3>2
  <2>3. CASE Commit(q)
    <3>1. pc'[q] = "load" /\ up' = up
      BY <2>0, <2>3 DEF Commit, Goto, enforcerVars
    <3> QED
      BY <3>1 DEF MemoryInv
  <2>4. CASE Load(q)
    <3>1. pc'[q] = "swap" /\ loaded'[q] = Stored /\ UNCHANGED <<rules, up>>
      BY <2>0, <2>4 DEF Load, Goto, Stored
    <3> QED
      BY <2>s, <3>1 DEF MemoryInv
  <2>5. CASE Swap(q)
    <3>1. /\ pc[q] = "swap" /\ pc'[q] = "idle" /\ policy'[At[q]] = loaded[q] /\ rules' = rules
          /\ up' = up \cup {At[q]}
      BY <2>0, <2>5 DEF Swap, Finish
    <3> QED
      BY <2>s, <3>1 DEF MemoryInv
  <2>6. CASE ~Step(q)
    <3>1. UNCHANGED <<rules, enforcerVars, requestVars>>
      BY <2>6 DEF Next, Crash, DeleteRole, DeletePermission, UpdatePermission, vars
    <3> QED
      BY <2>1, <3>1 DEF enforcerVars, requestVars
  <2> QED
    BY <2>2, <2>3, <2>4, <2>5, <2>6
<1>3. MemoryInv(q) => MemoryInSync
  BY DEF MemoryInv, MemoryInSync, Quiet, Stored
<1> QED
  BY <1>1, <1>2, <1>3, TypeCorrect, PTL DEF Spec

-----------------------------------------------------------------------------
(* Starting a process.                                                     *)

\* At a process that is not up there is no request but the start-up, which is
\* about everybody.
Starting ==
    \A q \in Request : pc[q] # "idle" /\ At[q] \notin up =>
        /\ scope[q] = User
        /\ \A o \in Request : o # q /\ At[o] = At[q] => pc[o] = "idle"

LEMMA StartingRequest ==
  ASSUME TypeOK, Starting, NEW q \in Request, up' = up,
         \A o \in Request \ {q} : UNCHANGED <<pc[o], scope[o]>>,
         \/ At[q] \in up
         \/ pc'[q] = "idle"
         \/ pc[q] # "idle" /\ scope'[q] = scope[q]
         \/ scope'[q] = User /\ \A o \in Request : At[o] = At[q] => pc[o] = "idle"
  PROVE  Starting'
<1>1. ASSUME NEW o \in Request, pc'[o] # "idle", At[o] \notin up
      PROVE  /\ scope'[o] = User
             /\ \A r \in Request : r # o /\ At[r] = At[o] => pc'[r] = "idle"
  <2>1. CASE o = q
    BY <1>1, <2>1 DEF Starting
  <2>2. CASE o # q
    <3>1. pc[o] # "idle" /\ scope'[o] = scope[o]
      BY <1>1, <2>2
    <3>2. scope[o] = User /\ \A r \in Request : r # o /\ At[r] = At[o] => pc[r] = "idle"
      BY <1>1, <3>1 DEF Starting
    <3>3. ASSUME At[q] = At[o] PROVE pc'[q] = "idle"
      BY <1>1, <2>2, <3>1, <3>2, <3>3
    <3> QED
      BY <3>1, <3>2, <3>3
  <2> QED
    BY <2>1, <2>2
<1> QED
  BY <1>1 DEF Starting

LEMMA StepStarting ==
  ASSUME TypeOK, Starting, NEW q \in Request, Step(q)
  PROVE  Starting'
<1>0. pc \in [Request -> Steps] /\ scope \in [Request -> SUBSET User]
  BY DEF TypeOK, RequestsOK
<1>1. \A l, us, k : Begin(q, l, us, k) =>
         scope'[q] = us /\ \A o \in Request \ {q} : UNCHANGED <<pc[o], scope[o]>>
  BY <1>0 DEF Begin
<1>2. \A k, l : Goto(q, k, l) =>
         pc[q] = k /\ scope' = scope /\ \A o \in Request \ {q} : UNCHANGED pc[o]
  BY <1>0 DEF Goto
<1>3. Finish(q) => pc'[q] = "idle" /\ \A o \in Request \ {q} : UNCHANGED <<pc[o], scope[o]>>
  BY <1>0 DEF Finish
<1>4. CASE \/ \E u \in User, r \in Role : AssignRole(q, u, r) \/ UnassignRole(q, u, r)
           \/ \E r \in Role, p \in Perm :
                  AssignPermission(q, r, p) \/ UnassignPermission(q, r, p)
  <2>1. At[q] \in up /\ up' = up /\ \E l, us, k : Begin(q, l, us, k)
    BY <1>4 DEF AssignRole, UnassignRole, AssignPermission, UnassignPermission, enforcerVars
  <2> QED
    BY <1>1, <2>1, StartingRequest
<1>5. CASE Boot(q)
  <2>1. /\ up' = up /\ Begin(q, "flatten", User, <<>>)
        /\ \A o \in Request : At[o] = At[q] => pc[o] = "idle"
    BY <1>5 DEF Boot, enforcerVars
  <2> QED
    BY <1>1, <2>1, StartingRequest
<1>6. CASE AssignRoleWrite(q) \/ AssignPermissionWrite(q) \/ Flatten(q) \/ Delete(q)
           \/ Commit(q) \/ Load(q)
  <2>1. up' = up /\ \E l : \E k \in Steps \ {"idle"} : Goto(q, k, l)
    BY <1>6 DEF AssignRoleWrite, AssignPermissionWrite, Flatten, Delete, Commit, Load,
                enforcerVars, Steps
  <2> QED
    BY <1>2, <2>1, StartingRequest
<1>7. CASE Remember(q) \/ Abort(q)
  <2>1. up' = up /\ Finish(q)
    BY <1>7 DEF Remember, Abort, enforcerVars
  <2> QED
    BY <1>3, <2>1, StartingRequest
<1>8. CASE \E x \in Rule : Enforce(q, x)
  <2>1. /\ up' = up /\ At[q] \in up /\ scope' = scope
        /\ \A o \in Request \ {q} : UNCHANGED pc[o]
    BY <1>0, <1>8 DEF Enforce, enforcerVars
  <2> QED
    BY <2>1, StartingRequest
<1>9. CASE Swap(q)
  <2>1. Finish(q) /\ up' = up \cup {At[q]}
    BY <1>9 DEF Swap
  <2> QED
    BY <1>3, <2>1 DEF Starting
<1> QED
  BY <1>4, <1>5, <1>6, <1>7, <1>8, <1>9 DEF Step

LEMMA OtherStarting ==
  ASSUME TypeOK, Starting,
         \/ \E r \in Role : DeleteRole(r)
         \/ \E p \in Perm : DeletePermission(p)
         \/ \E p \in Perm, x \in Right : UpdatePermission(p, x)
         \/ \E i \in Instance : Crash(i)
         \/ UNCHANGED vars
  PROVE  Starting'
<1>1. ASSUME NEW i \in Instance, Crash(i) PROVE Starting'
  <2>1. /\ up' = up \ {i}
        /\ \A o \in Request :
              IF At[o] = i THEN pc'[o] = "idle" ELSE UNCHANGED <<pc[o], scope[o]>>
    BY <1>1 DEF Crash
  <2> QED
    BY <2>1 DEF Starting
<1>2. CASE UNCHANGED <<up, pc, scope>>
  BY <1>2 DEF Starting
<1> QED
  BY <1>1, <1>2 DEF DeleteRole, DeletePermission, UpdatePermission, vars, enforcerVars, requestVars

\* NewEnforcer repairs what a crash or a cut-off sync left behind, in any number of
\* processes: started while nobody else writes a table, a process has exactly the
\* rights the tables grant (StartUpRepairs).
THEOREM StartUpTheorem == Spec => StartUpRepairs
<1>1. Init => LoneInv /\ Starting
  BY DEF Init, LoneInv, Starting
<1>2. TypeOK /\ LoneInv /\ [Next]_vars => LoneInv'
  BY CommandLone, SyncLone, OtherLone DEF Next, Step
<1>3. TypeOK /\ Starting /\ [Next]_vars => Starting'
  BY StepStarting, OtherStarting DEF Next
<1>4. TypeOK /\ LoneInv /\ Starting /\ [Next]_vars =>
        \A q \in alone : pc[q] = "swap" /\ At[q] \in up' \ up => policy'[At[q]] = Entitled
  <2> SUFFICES ASSUME TypeOK, LoneInv, Starting, [Next]_vars, NEW q \in alone,
                      pc[q] = "swap", At[q] \in up', At[q] \notin up
               PROVE  policy'[At[q]] = Entitled
    OBVIOUS
  <2>0. /\ q \in Request /\ scope[q] = User /\ loaded[q] \in SUBSET Rule
        /\ policy \in [Instance -> SUBSET Rule] /\ At[q] \in Instance
    BY DEF TypeOK, HistoryOK, RequestsOK, EnforcersOK, Starting
  <2>1. PICK o \in Request : Swap(o) /\ At[o] = At[q]
    BY DEF Next, Step, AssignRole, UnassignRole, AssignPermission, UnassignPermission,
           AssignRoleWrite, AssignPermissionWrite, Boot, Flatten, Delete, Commit, Load, Swap,
           Enforce, Remember, Abort, Crash, DeleteRole, DeletePermission, UpdatePermission,
           enforcerVars, vars
  <2>2. o = q
    BY <2>0, <2>1 DEF Swap, Starting
  <2>3. policy'[At[q]] = loaded[q]
    BY <2>0, <2>1, <2>2 DEF Swap
  <2>4. About(loaded[q], User) = {x \in Entitled : x[1] \in User}
    BY <2>0, FlattenedIsEntitled DEF LoneInv, Lone
  <2>5. loaded[q] \subseteq User \X Right /\ Entitled \subseteq User \X Right
    BY <2>0 DEF Rule, Entitled
  <2>6. About(loaded[q], User) = loaded[q] /\ {x \in Entitled : x[1] \in User} = Entitled
    BY <2>5 DEF About
  <2> QED
    BY <2>3, <2>4, <2>6
<1> QED
  BY <1>1, <1>2, <1>3, <1>4, TypeCorrect, PTL DEF Spec, StartUpRepairs
=============================================================================
