-------------------------- MODULE RelayControlProofs --------------------------
(***************************************************************************)
(* Proofs about RelayControl for every value of its constants: types, the  *)
(* inductive invariant IInv, the safety and action properties that follow  *)
(* from it, and the refinement of RelayContract.  Each of the three        *)
(* inductions has one lemma per group of actions (requests, worker,        *)
(* shutdown, life, engine), and under it one step per action.              *)
(***************************************************************************)
EXTENDS RelayControl, FiniteSetTheorems, SequenceTheorems, TLAPS

\* The empty sequence MediaMTX is sent on a stop is a forwarding list.
LEMMA EmptyList == IsList(<<>>)
  <1>1. <<>> \in Seq(Nat) /\ DOMAIN <<>> = {}
    BY EmptySeq
  <1>2. <<>> \in [{} -> Nat]
    BY <1>1
  <1> QED BY <1>2 DEF IsList

\* No two destinations share a position in it.
LEMMA EmptyInjective == IsInjective(<<>>)
  <1>1. DOMAIN <<>> = {}
    BY EmptySeq
  <1> QED BY <1>1 DEF IsInjective

\* The list apply(true) builds maps some of the destinations to positions.
LEMMA ForwardListType ==
  ASSUME NEW rs \in Seq(Row)
  PROVE  IsList(ForwardList(rs))
  <1> DEFINE ids == {rs[i].id : i \in EnabledRows(rs)}
             upto(d) == {j \in EnabledRows(rs) :
                           \E i \in EnabledRows(rs) : rs[i].id = d /\ j <= i}
  <1>1. ids \in SUBSET Dest
    <2>1. \A i \in EnabledRows(rs) : rs[i] \in Row
      BY LenProperties, ElementOfSeq DEF EnabledRows
    <2> QED BY <2>1 DEF Row
  <1>2. ASSUME NEW d \in ids PROVE Cardinality(upto(d)) \in Nat
    <2>1. IsFiniteSet(1..Len(rs))
      BY FS_Interval, LenProperties
    <2>2. upto(d) \in SUBSET (1..Len(rs))
      BY LenProperties DEF EnabledRows
    <2> QED BY <2>1, <2>2, FS_Subset, FS_CardinalityType
  <1>3. ForwardList(rs) \in [ids -> Nat]
    BY <1>2 DEF ForwardList
  <1> QED BY <1>1, <1>3 DEF IsList

\* Removing one element of a row or waiter list keeps the others, in order.
LEMMA RemoveAtProperties ==
  ASSUME NEW S, NEW s \in Seq(S), NEW i \in DOMAIN s
  PROVE  /\ RemoveAt(s, i) \in Seq(S)
         /\ Len(RemoveAt(s, i)) = Len(s) - 1
         /\ \A j \in 1..(Len(s) - 1) :
                RemoveAt(s, i)[j] = IF j < i THEN s[j] ELSE s[j + 1]
  <1> DEFINE a == SubSeq(s, 1, i-1)
             b == SubSeq(s, i+1, Len(s))
  <1>0. i \in 1..Len(s) /\ Len(s) \in Nat
    BY LenProperties
  <1>1. a \in Seq(S) /\ Len(a) = i - 1 /\ \A j \in 1..(i-1) : a[j] = s[j]
    BY <1>0, SubSeqProperties
  <1>2. b \in Seq(S) /\ Len(b) = Len(s) - i /\ \A j \in 1..(Len(s)-i) : b[j] = s[i + j]
    BY <1>0, SubSeqProperties
  <1>3. RemoveAt(s, i) = a \o b
    BY DEF RemoveAt
  <1> HIDE DEF a, b
  <1>4. a \o b \in Seq(S) /\ Len(a \o b) = Len(s) - 1
    BY <1>0, <1>1, <1>2, ConcatProperties
  <1>6. \A k \in 1..(Len(a) + Len(b)) :
            (a \o b)[k] = IF k <= Len(a) THEN a[k] ELSE b[k - Len(a)]
    BY <1>1, <1>2, ConcatProperties
  <1>5. ASSUME NEW j \in 1..(Len(s) - 1)
        PROVE  (a \o b)[j] = IF j < i THEN s[j] ELSE s[j + 1]
    <2>0. j \in 1..(Len(a) + Len(b)) /\ Len(a) = i - 1
      BY <1>0, <1>1, <1>2
    <2>1. CASE j < i
      <3>1. (a \o b)[j] = a[j]
        BY <1>0, <1>6, <2>0, <2>1
      <3> QED BY <1>0, <1>1, <2>1, <3>1
    <2>2. CASE ~(j < i)
      <3>1. (a \o b)[j] = b[j - (i - 1)]
        BY <1>0, <1>6, <2>0, <2>2
      <3>2. j - (i - 1) \in 1..(Len(s) - i) /\ i + (j - (i - 1)) = j + 1
        BY <2>2, <1>0
      <3> QED BY <2>2, <3>1, <3>2, <1>2
    <2> QED BY <2>1, <2>2
  <1> QED BY <1>3, <1>4, <1>5

\* Inserting one element keeps the others, in order.
LEMMA InsertAtProperties ==
  ASSUME NEW S, NEW s \in Seq(S), NEW i \in 1..(Len(s) + 1), NEW e \in S
  PROVE  /\ InsertAt(s, i, e) \in Seq(S)
         /\ Len(InsertAt(s, i, e)) = Len(s) + 1
         /\ \A j \in 1..(Len(s) + 1) :
                InsertAt(s, i, e)[j] = IF j < i THEN s[j] ELSE IF j = i THEN e ELSE s[j - 1]
  <1> DEFINE a == SubSeq(s, 1, i - 1)
             b == SubSeq(s, i, Len(s))
             m == <<e>>
  <1>0. Len(s) \in Nat /\ i \in Nat /\ i >= 1 /\ i <= Len(s) + 1
    BY LenProperties
  <1>1. a \in Seq(S) /\ Len(a) = i - 1 /\ \A j \in 1..(i - 1) : a[j] = s[j]
    BY <1>0, SubSeqProperties
  <1>2. b \in Seq(S) /\ Len(b) = Len(s) + 1 - i
        /\ \A j \in 1..(Len(s) + 1 - i) : b[j] = s[i + j - 1]
    BY <1>0, SubSeqProperties
  <1>3. m \in Seq(S) /\ Len(m) = 1 /\ m[1] = e
    OBVIOUS
  <1>4. InsertAt(s, i, e) = (a \o m) \o b
    BY DEF InsertAt
  <1> HIDE DEF a, b, m
  <1> DEFINE am == a \o m
  <1>5. am \in Seq(S) /\ Len(am) = i
        /\ \A j \in 1..i : am[j] = IF j < i THEN s[j] ELSE e
    <2>1. am \in Seq(S) /\ Len(am) = Len(a) + Len(m)
          /\ \A k \in 1..(Len(a) + Len(m)) : am[k] = IF k <= Len(a) THEN a[k] ELSE m[k - Len(a)]
      BY <1>1, <1>3, ConcatProperties
    <2>2. Len(a) + Len(m) = i
      BY <1>0, <1>1, <1>3
    <2>3. ASSUME NEW j \in 1..i PROVE am[j] = IF j < i THEN s[j] ELSE e
      <3>1. CASE j < i
        <4>1. j \in 1..(i - 1) /\ j <= Len(a) /\ j \in 1..(Len(a) + Len(m))
          BY <1>0, <1>1, <1>3, <3>1
        <4> QED BY <1>1, <2>1, <3>1, <4>1
      <3>2. CASE j = i
        <4>1. ~(j <= Len(a)) /\ j - Len(a) = 1 /\ j \in 1..(Len(a) + Len(m)) /\ ~(j < i)
          BY <1>0, <1>1, <1>3, <3>2
        <4> QED BY <1>3, <2>1, <3>2, <4>1
      <3>3. j < i \/ j = i
        <4> HIDE DEF am
        <4> QED BY <1>0
      <3> QED BY <3>1, <3>2, <3>3
    <2> QED BY <2>1, <2>2, <2>3
  <1> HIDE DEF am
  <1>6. am \o b \in Seq(S) /\ Len(am \o b) = Len(am) + Len(b)
        /\ \A k \in 1..(Len(am) + Len(b)) :
               (am \o b)[k] = IF k <= Len(am) THEN am[k] ELSE b[k - Len(am)]
    BY <1>2, <1>5, ConcatProperties
  <1>7. Len(am) + Len(b) = Len(s) + 1
    BY <1>0, <1>2, <1>5
  <1>8. ASSUME NEW j \in 1..(Len(s) + 1)
        PROVE  (am \o b)[j] = IF j < i THEN s[j] ELSE IF j = i THEN e ELSE s[j - 1]
    <2>1. CASE j <= i
      <3>1. j \in 1..i /\ j <= Len(am) /\ j \in 1..(Len(am) + Len(b))
        BY <1>0, <1>5, <1>7, <2>1
      <3>2. (am \o b)[j] = am[j]
        BY <1>6, <3>1
      <3> QED BY <1>0, <1>5, <2>1, <3>1, <3>2
    <2>2. CASE j > i
      <3>1. ~(j <= Len(am)) /\ j - Len(am) = j - i /\ j \in 1..(Len(am) + Len(b))
        BY <1>0, <1>5, <1>7, <2>2
      <3>2. (am \o b)[j] = b[j - i]
        BY <1>6, <3>1
      <3>3. j - i \in 1..(Len(s) + 1 - i) /\ i + (j - i) - 1 = j - 1 /\ ~(j < i) /\ j # i
        BY <1>0, <2>2
      <3> QED BY <1>2, <3>2, <3>3
    <2>3. j <= i \/ j > i
      BY <1>0
    <2> QED BY <2>1, <2>2, <2>3
  <1> QED BY <1>4, <1>6, <1>7, <1>8 DEF am

\* No two destinations share a position in the list apply(true) builds, as
\* long as no id occurs twice: the mapping of statuses relies on it.
LEMMA ForwardListInjective ==
  ASSUME NEW rs \in Seq(Row),
         \A i, j \in DOMAIN rs : rs[i].id = rs[j].id => i = j,
         NEW d \in DOMAIN ForwardList(rs), NEW e \in DOMAIN ForwardList(rs),
         ForwardList(rs)[d] = ForwardList(rs)[e]
  PROVE  d = e
  <1> DEFINE upto(i) == {j \in EnabledRows(rs) : j <= i}
  <1>1. ASSUME NEW i \in EnabledRows(rs)
        PROVE  /\ ForwardList(rs)[rs[i].id] = Cardinality(upto(i))
               /\ IsFiniteSet(upto(i))
    <2>1. {j \in EnabledRows(rs) :
             \E k \in EnabledRows(rs) : rs[k].id = rs[i].id /\ j <= k} = upto(i)
      BY DEF EnabledRows
    <2>2. IsFiniteSet(1..Len(rs))
      BY FS_Interval, LenProperties
    <2>3. upto(i) \in SUBSET (1..Len(rs))
      BY LenProperties DEF EnabledRows
    <2> QED BY <2>1, <2>2, <2>3, FS_Subset DEF ForwardList
  <1>2. PICK i \in EnabledRows(rs) : rs[i].id = d
    BY DEF ForwardList
  <1>3. PICK j \in EnabledRows(rs) : rs[j].id = e
    BY DEF ForwardList
  <1>4. Cardinality(upto(i)) = Cardinality(upto(j))
    BY <1>1, <1>2, <1>3
  <1>5. i \in Nat /\ j \in Nat
    BY LenProperties DEF EnabledRows
  <1>6. ASSUME NEW m \in EnabledRows(rs), NEW n \in EnabledRows(rs), m < n
        PROVE  Cardinality(upto(m)) # Cardinality(upto(n))
    <2>1. m \in Nat /\ n \in Nat
      BY LenProperties DEF EnabledRows
    <2>2. upto(m) \in SUBSET upto(n) /\ n \in upto(n) /\ n \notin upto(m)
      BY <1>6, <2>1 DEF EnabledRows
    <2> QED BY <1>1, <2>2, FS_Subset
  <1>7. i = j
    BY <1>4, <1>5, <1>6
  <1> QED BY <1>2, <1>3, <1>7
-----------------------------------------------------------------------------
(***************************************************************************)
(* What edits do to the table.                                             *)
(***************************************************************************)
\* A saved row is its destination's, and keyed if it is enabled.
LEMMA SavedRowType ==
  ASSUME NEW d \in Dest, NEW old \in Key, NEW r \in SavedRow(d, old)
  PROVE  r \in Row /\ r.id = d /\ ~(r.enabled /\ r.key = "none")
  BY DEF SavedRow, SavedKey, Row, Key

\* The table as a function of its length.
LEMMA RowsType ==
  ASSUME TypeOK
  PROVE  /\ rows \in Seq(Row) /\ Len(rows) \in Nat /\ DOMAIN rows = 1..Len(rows)
         /\ \A i \in DOMAIN rows : rows[i] \in Row
  BY LenProperties, ElementOfSeq DEF TypeOK

\* A changed row takes the place of the old one.
LEMMA RowUpdated ==
  ASSUME TypeOK, UpdateRow
  PROVE  /\ rows' \in Seq(Row) /\ Len(rows') = Len(rows)
         /\ TableSound => TableSound'
  <1>0. /\ rows \in Seq(Row) /\ Len(rows) \in Nat /\ DOMAIN rows = 1..Len(rows)
        /\ \A i \in DOMAIN rows : rows[i] \in Row
    BY RowsType
  <1>1. PICK i \in DOMAIN rows :
             \E r \in SavedRow(rows[i].id, rows[i].key) : rows' = [rows EXCEPT ![i] = r]
    BY DEF UpdateRow
  <1>2. PICK r \in SavedRow(rows[i].id, rows[i].key) : rows' = [rows EXCEPT ![i] = r]
    BY <1>1
  <1>3. rows[i].id \in Dest /\ rows[i].key \in Key
    BY <1>0 DEF Row
  <1>4. r \in Row /\ r.id = rows[i].id /\ ~(r.enabled /\ r.key = "none")
    BY <1>3, SavedRowType
  <1>5. /\ rows' \in Seq(Row) /\ Len(rows') = Len(rows) /\ DOMAIN rows' = DOMAIN rows
        /\ \A j \in DOMAIN rows : rows'[j] = IF j = i THEN r ELSE rows[j]
    BY <1>0, <1>1, <1>2, <1>4, ExceptSeq
  <1> QED BY <1>1, <1>4, <1>5 DEF TableSound

\* A row that is deleted leaves the others as they are.
LEMMA RowDeleted ==
  ASSUME TypeOK, DeleteRow
  PROVE  /\ rows' \in Seq(Row) /\ Len(rows') = Len(rows) - 1
         /\ TableSound => TableSound'
  <1>0. /\ rows \in Seq(Row) /\ Len(rows) \in Nat /\ DOMAIN rows = 1..Len(rows)
        /\ \A i \in DOMAIN rows : rows[i] \in Row
    BY RowsType
  <1>1. PICK i \in DOMAIN rows : rows' = RemoveAt(rows, i)
    BY DEF DeleteRow
  <1>2. /\ rows' \in Seq(Row) /\ Len(rows') = Len(rows) - 1
        /\ DOMAIN rows' = 1..(Len(rows) - 1)
        /\ \A j \in 1..(Len(rows) - 1) : rows'[j] = IF j < i THEN rows[j] ELSE rows[j + 1]
    <2>1. i \in DOMAIN rows
      BY <1>1
    <2>2. /\ rows' \in Seq(Row) /\ Len(rows') = Len(rows) - 1
          /\ \A j \in 1..(Len(rows) - 1) : rows'[j] = IF j < i THEN rows[j] ELSE rows[j + 1]
      <3> HIDE DEF Row
      <3> QED BY <1>0, <1>1, <2>1, RemoveAtProperties
    <2>3. DOMAIN rows' = 1..Len(rows')
      BY <2>2, LenProperties
    <2> QED BY <2>2, <2>3
  <1> DEFINE from(j) == IF j < i THEN j ELSE j + 1
  <1>3. \A j \in DOMAIN rows' : from(j) \in DOMAIN rows /\ rows'[j] = rows[from(j)]
    BY <1>0, <1>1, <1>2
  <1>4. \A j, k \in DOMAIN rows' : from(j) = from(k) => j = k
    BY <1>0, <1>1, <1>2
  <1>5. TableSound => Len(rows') <= MaxDestinations + MaxAbandoned
    BY <1>0, <1>2, BoundAssumption DEF TableSound
  <1> HIDE DEF from
  <1> QED BY <1>2, <1>3, <1>4, <1>5 DEF TableSound

\* A created row has an id of its own, wherever it comes in the order.
LEMMA RowCreated ==
  ASSUME TypeOK, NEW d \in Dest \ Ids(rows), NEW r \in SavedRow(d, "none"),
         NEW i \in 1..(Len(rows) + 1), rows' = InsertAt(rows, i, r)
  PROVE  /\ rows' \in Seq(Row) /\ Len(rows') = Len(rows) + 1
         /\ TableSound /\ Len(rows) + 1 <= MaxDestinations + MaxAbandoned => TableSound'
  <1>0. /\ rows \in Seq(Row) /\ Len(rows) \in Nat /\ DOMAIN rows = 1..Len(rows)
        /\ \A j \in DOMAIN rows : rows[j] \in Row
    BY RowsType
  <1>1. r \in Row /\ r.id = d /\ ~(r.enabled /\ r.key = "none")
    BY SavedRowType DEF Key
  <1>2. /\ rows' \in Seq(Row) /\ Len(rows') = Len(rows) + 1
        /\ DOMAIN rows' = 1..(Len(rows) + 1)
        /\ \A j \in 1..(Len(rows) + 1) :
               rows'[j] = IF j < i THEN rows[j] ELSE IF j = i THEN r ELSE rows[j - 1]
    <2>1. /\ rows' \in Seq(Row) /\ Len(rows') = Len(rows) + 1
          /\ \A j \in 1..(Len(rows) + 1) :
                 rows'[j] = IF j < i THEN rows[j] ELSE IF j = i THEN r ELSE rows[j - 1]
      <3> HIDE DEF Row
      <3> QED BY <1>0, <1>1, InsertAtProperties
    <2>2. DOMAIN rows' = 1..Len(rows')
      BY <2>1, LenProperties
    <2> QED BY <2>1, <2>2
  <1>3. \A j \in DOMAIN rows : rows[j].id # d
    BY <1>0 DEF Ids
  <1> DEFINE from(j) == IF j < i THEN j ELSE j - 1
  <1>4. \A j \in DOMAIN rows' : j # i => from(j) \in DOMAIN rows /\ rows'[j] = rows[from(j)]
    BY <1>0, <1>2
  <1>5. \A j, k \in DOMAIN rows' : j # i /\ k # i /\ from(j) = from(k) => j = k
    BY <1>0, <1>2
  <1>6. i \in DOMAIN rows' /\ rows'[i] = r
    BY <1>0, <1>2
  <1> HIDE DEF from
  <1> QED BY <1>1, <1>2, <1>3, <1>4, <1>5, <1>6 DEF TableSound
-----------------------------------------------------------------------------
\* The state before the first boot is well typed.
LEMMA TypeInit == Init => TypeOK
  <1> SUFFICES ASSUME Init PROVE TypeOK
    OBVIOUS
  <1>1. rows \in Seq(Row) /\ queue \in Seq(Process) /\ view \in [{} -> Status]
    BY EmptySeq DEF Init
  <1>2. tick \in 0..(RestoreEvery - 1)
    BY BoundAssumption DEF Init
  <1> QED BY <1>1, <1>2, EmptyList
    DEF Init, TypeOK, Proc, Step, LockedSteps, PatchSteps, Op, NoSample

\* The steps shared by several actions.
LEMMA TypeRelease ==
  ASSUME TypeOK, NEW p \in Process, Release(p)
  PROVE  /\ holder' \in Process \cup {Nobody}
         /\ queue' \in Seq(Process)
         /\ pc' \in [Process -> Step]
         /\ op' \in [Process -> Op]
         /\ IsList(call')
         /\ tick' \in 0..(RestoreEvery - 1)
         /\ sample' \in [online: BOOLEAN, obs: BOOLEAN, relay: BOOLEAN]
         /\ view' \in UNION {[ids -> Status] : ids \in SUBSET Dest}
  <1>1. <<>> \in [{} -> Status]
    BY EmptySeq
  <1> QED BY <1>1, EmptyList DEF TypeOK, Release, Step, Op, NoSample

\* Giving up on a PATCH, or having it acknowledged, keeps the types.
LEMMA TypeEngine ==
  ASSUME TypeOK, NEW list, IsList(list),
         GiveUp(list) \/ EngineRuns(list) \/ UNCHANGED engineVars
  PROVE  /\ IsList(engine')
         /\ engineUp' \in BOOLEAN
         /\ obs' \in BOOLEAN
         /\ \A l \in abandoned' : IsList(l)
         /\ strayed' \in BOOLEAN
  BY DEF TypeOK, GiveUp, EngineRuns, engineVars

\* So does losing the process.
LEMMA TypeReset ==
  ASSUME Reset
  PROVE  /\ unsettled' \subseteq {"create", "update", "delete"}
         /\ outdated' \subseteq {"call", "active"}
         /\ relayEnabled' \in BOOLEAN
         /\ IsList(active')
         /\ holder' \in Process \cup {Nobody}
         /\ queue' \in Seq(Process)
         /\ pc' \in [Process -> Step]
         /\ op' \in [Process -> Op]
         /\ IsList(call')
         /\ tick' \in 0..(RestoreEvery - 1)
         /\ sample' \in [online: BOOLEAN, obs: BOOLEAN, relay: BOOLEAN]
         /\ view' \in UNION {[ids -> Status] : ids \in SUBSET Dest}
  <1>1. <<>> \in [{} -> Status] /\ <<>> \in Seq(Process)
    BY EmptySeq
  <1>2. 0 \in 0..(RestoreEvery - 1)
    BY BoundAssumption
  <1> QED BY <1>1, <1>2, EmptyList DEF Reset, Step, Op, NoSample

\* Handing over the mutex keeps the types.
LEMMA TypeGrant == TypeOK /\ Grant => TypeOK'
  <1> SUFFICES ASSUME TypeOK, Grant PROVE TypeOK'
    OBVIOUS
  <1>1. Head(queue) \in Process /\ Tail(queue) \in Seq(Process)
    BY HeadTailProperties DEF TypeOK, Grant
  <1>2. \A o : FirstStep(o) \in Step
    BY DEF FirstStep, Step, LockedSteps, PatchSteps
  <1> QED BY <1>1, <1>2
    DEF TypeOK, Grant, editVars, controlVars, workerVars, engineVars

\* Every step of apply keeps the types.
LEMMA TypeApply == \A p \in Process : TypeOK /\ Apply(p) => TypeOK'
  <1> SUFFICES ASSUME NEW p \in Process, TypeOK, Apply(p) PROVE TypeOK'
    OBVIOUS
  <1>0. IsList(call) /\ IsList(ForwardList(rows))
    BY ForwardListType DEF TypeOK
  <1>1. CASE ApplyReads(p)
    BY <1>0, <1>1, EmptyList
    DEF TypeOK, ApplyReads, editVars, controlVars, workerVars, engineVars, Step, LockedSteps, PatchSteps
  <1>2. CASE ApplyRefuses(p)
    BY <1>2, TypeRelease DEF TypeOK, ApplyRefuses, editVars, controlVars, engineVars
  <1>3. CASE ApplyOn(p)
    BY <1>0, <1>3, TypeRelease, TypeEngine DEF TypeOK, ApplyOn
  <1>4. CASE ApplyOff(p)
    <2>1. CASE op[p] = "restart"
      BY <1>0, <1>4, <2>1, TypeEngine, EmptyList
      DEF TypeOK, ApplyOff, workerVars, Step, LockedSteps, Op
    <2>2. CASE op[p] # "restart"
      BY <1>0, <1>4, <2>2, TypeRelease, TypeEngine DEF TypeOK, ApplyOff
    <2> QED BY <2>1, <2>2
  <1>5. CASE ConfigureFails(p)
    BY <1>0, <1>5, TypeRelease, TypeEngine DEF TypeOK, ConfigureFails, editVars, controlVars
  <1> QED BY <1>1, <1>2, <1>3, <1>4, <1>5 DEF Apply

\* Every step of save and delete keeps the types.
LEMMA TypeEdit == \A c \in Client : TypeOK /\ Edit(c) => TypeOK'
  <1> SUFFICES ASSUME NEW c \in Client, TypeOK, Edit(c) PROVE TypeOK'
    OBVIOUS
  <1>0. c \in Process
    BY DEF Process
  <1>1. CASE EditChecks(c)
    <2>1. CASE EditAllowed
      BY <1>0, <1>1, <2>1
      DEF TypeOK, EditChecks, editVars, controlVars, workerVars, engineVars, Step, LockedSteps
    <2>2. CASE ~EditAllowed
      BY <1>0, <1>1, <2>2, TypeRelease DEF TypeOK, EditChecks, editVars, controlVars, engineVars
    <2> QED BY <2>1, <2>2
  <1>2. ASSUME Release(c), rows' \in Seq(Row), UNCHANGED <<proc, editVars, controlVars, engineVars>>
        PROVE  TypeOK'
    BY <1>0, <1>2, TypeRelease DEF TypeOK, editVars, controlVars, engineVars
  <1>4. CASE SaveCreate(c)
    <2>1. PICK d \in Dest \ Ids(rows) :
               \E r \in SavedRow(d, "none") : rows' = Append(rows, r)
      BY <1>4 DEF SaveCreate
    <2>2. PICK r \in SavedRow(d, "none") : rows' = Append(rows, r)
      BY <2>1
    <2>3. r \in Row
      BY SavedRowType DEF Key
    <2>4. rows' \in Seq(Row)
      BY <2>2, <2>3, AppendProperties DEF TypeOK
    <2> QED BY <1>2, <1>4, <2>4 DEF SaveCreate
  <1>5. CASE SaveUpdate(c)
    BY <1>2, <1>5, RowUpdated DEF SaveUpdate
  <1>6. CASE Delete(c)
    BY <1>2, <1>6, RowDeleted DEF Delete
  <1>7. CASE EditRefused(c)
    BY <1>2, <1>7 DEF TypeOK, EditRefused
  <1> QED BY <1>1, <1>4, <1>5, <1>6, <1>7 DEF Edit

\* Queueing for the mutex keeps the types.
LEMMA TypeEnqueue ==
  ASSUME TypeOK, NEW p \in Process, NEW o \in Op, Enqueue(p, o)
  PROVE  /\ queue' \in Seq(Process)
         /\ pc' \in [Process -> Step]
         /\ op' \in [Process -> Op]
  BY AppendProperties DEF TypeOK, Enqueue, Step

\* Every step of a request keeps the types.
LEMMA TypeClient ==
  \A c \in Client :
    TypeOK /\ (Arrive(c) \/ CancelQueued(c) \/ CancelHolding(c)) => TypeOK'
  <1> SUFFICES ASSUME NEW c \in Client, TypeOK,
                      Arrive(c) \/ CancelQueued(c) \/ CancelHolding(c)
               PROVE  TypeOK'
    OBVIOUS
  <1>0. c \in Process
    BY DEF Process
  <1>1. CASE Arrive(c)
    <2>1. PICK o \in Op : Enqueue(c, o)
      BY <1>1 DEF Arrive, Op
    <2> QED BY <1>0, <1>1, <2>1, TypeEnqueue
      DEF TypeOK, Arrive, Enqueue, editVars, controlVars, workerVars, engineVars
  <1>2. CASE CancelQueued(c)
    <2>1. queue' \in Seq(Process)
      BY <1>2, RemoveAtProperties DEF TypeOK, CancelQueued
    <2> QED BY <1>0, <1>2, <2>1
      DEF TypeOK, CancelQueued, editVars, controlVars, workerVars, engineVars, Step, Op
  <1>3. CASE CancelHolding(c)
    <2>1. GiveUp(call) \/ UNCHANGED engineVars
      BY <1>3 DEF CancelHolding
    <2>2. IsList(call)
      BY DEF TypeOK
    <2>3. /\ unsettled' \subseteq {"create", "update", "delete"}
          /\ outdated' \subseteq {"call", "active"}
      BY <1>3 DEF TypeOK, CancelHolding, Unsettle, editVars
    <2> QED BY <1>0, <1>3, <2>1, <2>2, <2>3, TypeEngine, TypeRelease
      DEF TypeOK, CancelHolding, controlVars
  <1> QED BY <1>1, <1>2, <1>3

\* So does an edit that outlives its handler.
LEMMA TypeLate == TypeOK /\ LateEdit => TypeOK'
  <1> SUFFICES ASSUME TypeOK, LateEdit PROVE TypeOK'
    OBVIOUS
  <1>1. rows' \in Seq(Row)
    BY RowCreated, RowUpdated, RowDeleted DEF LateEdit, LateCreate, LateUpdate, LateDelete
  <1>2. \E kind : Settles(kind)
    BY DEF LateEdit, LateCreate, LateUpdate, LateDelete
  <1> QED BY <1>1, <1>2
    DEF TypeOK, Settles, InUse, controlVars, lockVars, workerVars, engineVars

\* Every step of the worker keeps the types.
LEMMA TypeWorker == TypeOK /\ WorkerStep => TypeOK'
  <1> SUFFICES ASSUME TypeOK, WorkerStep PROVE TypeOK'
    OBVIOUS
  <1>0. Worker \in Process
    BY DEF Process
  <1>1. CASE Poll
    <2>1. "poll" \in Op
      BY DEF Op
    <2>2. tick' \in 0..(RestoreEvery - 1)
      BY <1>1, BoundAssumption DEF TypeOK, Poll, NextTick
    <2>3. sample' \in [online: BOOLEAN, obs: BOOLEAN, relay: BOOLEAN]
      <3>0. {engineUp, FALSE} \subseteq BOOLEAN
        BY DEF TypeOK
      <3>1. PICK online \in {engineUp, FALSE} :
              sample' = [online |-> online, obs |-> online /\ obs, relay |-> relayEnabled]
        BY <1>1, Zenon DEF Poll
      <3>2. (online /\ obs) \in BOOLEAN /\ relayEnabled \in BOOLEAN
        BY DEF TypeOK
      <3>3. online \in BOOLEAN
        BY <3>0
      <3> QED BY <3>1, <3>2, <3>3
    <2> QED BY <1>0, <1>1, <2>1, <2>2, <2>3, TypeEnqueue
      DEF TypeOK, Poll, Enqueue, editVars, controlVars, engineVars
  <1>2. CASE PollRows
    BY <1>0, <1>2
    DEF TypeOK, PollRows, FlagUnderLock, editVars, controlVars, engineVars, Step, LockedSteps
  <1>3. CASE PollRowsFail
    BY <1>0, <1>3, TypeRelease DEF TypeOK, PollRowsFail, editVars, controlVars, engineVars
  <1>4. CASE PollForwards
    <2>1. PICK known \in BOOLEAN :
            /\ view' = [d \in MappedRows |-> StatusOf(d, known, Answer)]
            /\ pc' = [pc EXCEPT ![Worker] =
                        IF RestoreDue(known) THEN "on_rows" ELSE "poll_end"]
      BY <1>4 DEF PollForwards, TypeOK
    <2>2. MappedRows \in SUBSET Dest
      <3>1. \A i \in EnabledRows(rows) : rows[i] \in Row
        BY LenProperties, ElementOfSeq DEF EnabledRows, TypeOK
      <3> QED BY <3>1 DEF MappedRows, Row
    <2>3. DOMAIN Answer \in SUBSET Dest
      <3>1. IsList(Answer)
        BY EmptyList DEF Answer, TypeOK
      <3> QED BY <3>1 DEF IsList
    <2>4. \A d \in MappedRows : StatusOf(d, known, Answer) \in Status
      BY <2>3 DEF StatusOf, Status
    <2>5. view' \in [MappedRows -> Status]
      BY <2>1, <2>4
    <2>6. pc' \in [Process -> Step]
      BY <1>0, <2>1 DEF TypeOK, Step, LockedSteps
    <2> QED BY <1>4, <2>2, <2>5, <2>6 DEF TypeOK, PollForwards, editVars, controlVars, engineVars
  <1>5. CASE PollEnd
    BY <1>0, <1>5, TypeRelease DEF TypeOK, PollEnd, editVars, controlVars, engineVars
  <1>6. CASE Apply(Worker)
    BY <1>0, <1>6, TypeApply
  <1> QED BY <1>1, <1>2, <1>3, <1>4, <1>5, <1>6 DEF WorkerStep

\* Every step of the shutdown future keeps the types.
LEMMA TypeShutdown == TypeOK /\ ShutdownStep => TypeOK'
  <1> SUFFICES ASSUME TypeOK, ShutdownStep PROVE TypeOK'
    OBVIOUS
  <1>0. Shutdown \in Process
    BY DEF Process
  <1>1. CASE ShutdownConfigures
    BY <1>0, <1>1, EmptyList, TypeEngine, TypeRelease
    DEF TypeOK, ShutdownConfigures, editVars, controlVars, Proc
  <1>2. CASE ShutdownConfigureFails
    BY <1>0, <1>2, EmptyList, TypeEngine, TypeRelease
    DEF TypeOK, ShutdownConfigureFails, editVars, controlVars, Proc
  <1> QED BY <1>1, <1>2 DEF ShutdownStep

\* Boot, shutdown and crash keep the types.
LEMMA TypeLife == TypeOK /\ Life => TypeOK'
  <1> SUFFICES ASSUME TypeOK, Life PROVE TypeOK'
    OBVIOUS
  <1>1. CASE Boot
    <2>1. rows' \in Seq(Row)
      <3>0. \A i \in DOMAIN rows : rows[i] \in Row
        BY LenProperties, ElementOfSeq DEF TypeOK
      <3>1. PICK key \in [DOMAIN rows -> Key] :
              rows' = [i \in DOMAIN rows |-> [rows[i] EXCEPT !.key = key[i]]]
        BY <1>1 DEF Boot
      <3>2. \A i \in DOMAIN rows : [rows[i] EXCEPT !.key = key[i]] \in Row
        BY <3>0 DEF Row
      <3> QED BY <3>1, <3>2, LenProperties DEF TypeOK
    <2> QED BY <1>1, <2>1
      DEF TypeOK, Boot, Proc, editVars, controlVars, lockVars, workerVars, engineVars
  <1>2. CASE BootReset
    BY <1>2, EmptyList, TypeEngine DEF TypeOK, BootReset, Proc, editVars, controlVars, lockVars,
                                       workerVars
  <1>3. CASE BootResetFails
    BY <1>3, EmptyList, TypeEngine
    DEF TypeOK, BootResetFails, Proc, editVars, controlVars, lockVars, workerVars
  <1>4. CASE BootRead
    <2>1. rows' \in Seq(Row)
      <3>1. CASE rows' = rows
        BY <3>1 DEF TypeOK
      <3>2. CASE rows' # rows
        <4>1. PICK d \in Dest, k \in Key : rows' = <<Seed(d, k)>>
          BY <1>4, <3>2 DEF BootRead
        <4>2. Seed(d, k) \in Row
          BY DEF Seed, Row
        <4> QED BY <4>1, <4>2
      <3> QED BY <3>1, <3>2
    <2> QED BY <1>4, <2>1
      DEF TypeOK, BootRead, Proc, editVars, controlVars, lockVars, workerVars, engineVars
  <1>5. CASE BootSeed
    <2>1. rows' \in Seq(Row)
      <3>1. ASSUME NEW d \in Dest, NEW k \in Key PROVE Seed(d, k) \in Row
        BY DEF Seed, Row
      <3> QED BY <1>5, <3>1, AppendProperties DEF TypeOK, BootSeed
    <2> QED BY <1>5, <2>1
      DEF TypeOK, BootSeed, Proc, editVars, controlVars, lockVars, workerVars, engineVars
  <1>6. CASE Sigterm
    <2>0. Worker \in Process /\ Shutdown \in Process
      BY DEF Process
    <2>1. queue' \in Seq(Process)
      <3>1. ASSUME NEW q \in Seq(Process) PROVE Append(q, Shutdown) \in Seq(Process)
        BY <2>0, AppendProperties
      <3>2. \A i \in DOMAIN queue : RemoveAt(queue, i) \in Seq(Process)
        BY RemoveAtProperties DEF TypeOK
      <3> QED BY <1>6, <3>1, <3>2 DEF TypeOK, Sigterm
    <2>2. GiveUp(call) \/ UNCHANGED engineVars
      BY <1>6 DEF Sigterm
    <2>3. IsList(call) /\ IsList(call')
      BY <1>6, EmptyList DEF TypeOK, Sigterm
    <2>4. <<>> \in [{} -> Status]
      BY EmptySeq
    <2>5. /\ pc' \in [Process -> Step] /\ op' \in [Process -> Op]
          /\ holder' \in Process \cup {Nobody}
      BY <1>6, <2>0 DEF TypeOK, Sigterm, Step, Op
    <2> QED BY <1>6, <2>1, <2>2, <2>3, <2>4, <2>5, TypeEngine
      DEF TypeOK, Sigterm, editVars, controlVars, Proc, NoSample
  <1>7. CASE Exit
    BY <1>7, TypeReset DEF TypeOK, Exit, Proc, engineVars
  <1>8. CASE Crash
    <2>1. GiveUp(call) \/ UNCHANGED engineVars
      BY <1>8 DEF Crash
    <2>2. IsList(call)
      BY DEF TypeOK
    <2> QED BY <1>8, <2>1, <2>2, TypeEngine, TypeReset DEF TypeOK, Crash, Proc
  <1> QED BY <1>1, <1>2, <1>3, <1>4, <1>5, <1>6, <1>7, <1>8 DEF Life

\* Every step of MediaMTX and OBS keeps the types.
LEMMA TypeEngineStep == TypeOK /\ Engine => TypeOK'
  <1> SUFFICES ASSUME TypeOK, Engine PROVE TypeOK'
    OBVIOUS
  <1>1. CASE LateApply
    BY <1>1 DEF TypeOK, LateApply, editVars, controlVars, lockVars, workerVars
  <1>2. CASE EngineStops
    BY <1>2, EmptyList DEF TypeOK, EngineStops, editVars, controlVars, lockVars, workerVars
  <1>3. CASE EngineStarts
    BY <1>3 DEF TypeOK, EngineStarts, editVars, controlVars, lockVars, workerVars
  <1>4. CASE ObsToggles
    BY <1>4 DEF TypeOK, ObsToggles, editVars, controlVars, lockVars, workerVars
  <1> QED BY <1>1, <1>2, <1>3, <1>4 DEF Engine

\* Every variable keeps the type TypeOK gives it, whatever the number of
\* requests and destinations.
THEOREM TypeCorrect == Spec => []TypeOK
  <1>1. TypeOK /\ [Next]_vars => TypeOK'
    <2> SUFFICES ASSUME TypeOK, [Next]_vars PROVE TypeOK'
      OBVIOUS
    <2>1. CASE Grant
      BY <2>1, TypeGrant
    <2>2. ASSUME NEW c \in Client,
                 Arrive(c) \/ Request(c) \/ CancelQueued(c) \/ CancelHolding(c)
          PROVE  TypeOK'
      BY <2>2, TypeApply, TypeEdit, TypeClient DEF Request, Process
    <2>8. CASE LateEdit
      BY <2>8, TypeLate
    <2>3. CASE WorkerStep
      BY <2>3, TypeWorker
    <2>4. CASE ShutdownStep
      BY <2>4, TypeShutdown
    <2>5. CASE Life
      BY <2>5, TypeLife
    <2>6. CASE Engine
      BY <2>6, TypeEngineStep
    <2>7. CASE UNCHANGED vars
      BY <2>7 DEF TypeOK, vars, editVars, controlVars, lockVars, workerVars, engineVars
    <2> QED BY <2>1, <2>2, <2>3, <2>4, <2>5, <2>6, <2>7, <2>8 DEF Next
  <1> QED BY <1>1, TypeInit, PTL DEF Spec
-----------------------------------------------------------------------------
\* IInv without the type invariant, which TypeCorrect already covers.
Rest ==
    /\ LifeInv /\ LockInv /\ CallInv /\ OpRoles /\ StepRoles
    /\ ActiveIsEnabledRows /\ EngineFollows /\ TableSound
    /\ LateInv /\ PositionsInv

\* IInv is type correctness and the rest, which the lemmas below treat apart.
LEMMA IInvIsRest == IInv <=> TypeOK /\ Rest
  BY DEF IInv, Rest

\* The state before the first boot satisfies the rest of IInv.
LEMMA RestInit == Init => Rest
  <1> SUFFICES ASSUME Init PROVE Rest
    OBVIOUS
  <1>1. LifeInv /\ LockInv /\ CallInv /\ OpRoles /\ StepRoles
    BY ProcessAssumption
    DEF Init, LifeInv, Running, LockInv, LockedSteps, PatchSteps, CallInv, OpRoles, StepRoles, Process
  <1>2. ActiveIsEnabledRows /\ EngineFollows
    BY DEF Init, ActiveIsEnabledRows, EngineFollows, Controlling
  <1>3. TableSound
    <2>1. Len(rows) = 0 /\ DOMAIN rows = {}
      BY EmptySeq DEF Init
    <2> QED BY <2>1, BoundAssumption DEF TableSound
  <1>4. LateInv /\ PositionsInv
    BY EmptyInjective DEF Init, LateInv, PositionsInv
  <1> QED BY <1>1, <1>2, <1>3, <1>4 DEF Rest

\* Between two holders no process is at a locked step, and all that the
\* invariant says of locked steps is void.
NoneLocked == \A p \in Process : pc[p] \notin LockedSteps

\* Nothing is asked of the lock's users while nobody holds it.
LEMMA NoneLockedRest == NoneLocked => LockInv /\ CallInv /\ StepRoles
  BY DEF NoneLocked, LockInv, CallInv, StepRoles, LockedSteps, PatchSteps, Process

\* The same in the state after a step.
LEMMA NoneLockedRestNext == NoneLocked' => LockInv' /\ CallInv' /\ StepRoles'
  BY NoneLockedRest, PTL

\* At most one process is between lock and release.
LEMMA OnlyHolderLocked ==
  ASSUME TypeOK, LockInv, NEW p \in Process, pc[p] \in LockedSteps
  PROVE  \A q \in Process : q # p => pc[q] \notin LockedSteps
  BY DEF LockInv

\* When the holder releases the mutex nobody is left between lock and release.
LEMMA RestRelease ==
  ASSUME TypeOK, Rest, NEW p \in Process, pc[p] \in LockedSteps, Release(p)
  PROVE  NoneLocked' /\ OpRoles' /\ queue' = queue
         /\ \A q \in Process : pc'[q] # "idle" => pc[q] # "idle"
  <1>1. LockInv /\ OpRoles
    BY DEF Rest
  <1>2. NoneLocked'
    BY <1>1, OnlyHolderLocked DEF TypeOK, Release, NoneLocked, LockedSteps, PatchSteps
  <1>3. OpRoles'
    BY <1>1 DEF TypeOK, Release, OpRoles, Process
  <1> QED BY <1>2, <1>3 DEF Release, TypeOK

\* What a step of the process at p can do to the life of the controller.
LEMMA RestRunning ==
  ASSUME Rest, NEW p \in Process, pc[p] # "idle"
  PROVE  Running /\ Controlling
  BY DEF Rest, LifeInv, Running, Controlling

\* Leaving the mutex without touching relay, table or engine list, perhaps with
\* an edit left behind.
LEMMA RestLeave ==
  ASSUME TypeOK, Rest, NEW p \in Process, pc[p] \in LockedSteps, Release(p),
         UNCHANGED <<proc, rows, controlVars>>,
         UNCHANGED editVars \/ Unsettle,
         UNCHANGED engineVars \/ GiveUp(call)
  PROVE  Rest'
  <1>1. NoneLocked' /\ OpRoles' /\ LockInv' /\ CallInv' /\ StepRoles' /\ queue' = queue
    BY RestRelease, NoneLockedRestNext
  <1>2. Running /\ pc[p] # "idle"
    BY RestRunning DEF LockedSteps, PatchSteps
  <1>3. LifeInv'
    BY <1>2 DEF LifeInv, Running
  <1>4. ActiveIsEnabledRows' /\ TableSound'
    BY DEF Rest, ActiveIsEnabledRows, TableSound, Unsettle, editVars, controlVars
  <1>5. EngineFollows'
    BY DEF Rest, EngineFollows, Controlling, controlVars, engineVars, GiveUp
  <1>6. LateInv'
    <2>1. LateInv /\ Running' /\ UNCHANGED <<rows, relayEnabled, outdated>>
      BY <1>2 DEF Rest, Running, Unsettle, editVars, controlVars
    <2>2. CASE UNCHANGED unsettled
      BY <2>1, <2>2 DEF LateInv
    <2>3. CASE Unsettle /\ unsettled' # unsettled
      <3>1. MaxAbandoned >= 1
        BY <2>3, BoundAssumption DEF Unsettle, MayAbandon
      <3>2. "create" \in unsettled' => "create" \in unsettled \/ Len(rows) < MaxDestinations
        BY <2>3 DEF Unsettle, HasRoom
      <3>3. Len(rows) \in Nat
        BY RowsType
      <3> QED BY <2>1, <3>1, <3>2, <3>3, BoundAssumption DEF LateInv
    <2> QED BY <2>2, <2>3 DEF editVars
  <1>7. PositionsInv'
    BY EmptyInjective DEF Rest, PositionsInv, Release, controlVars
  <1> QED BY <1>1, <1>3, <1>4, <1>5, <1>6, <1>7 DEF Rest

\* The environment's steps at the engine.
LEMMA RestEngine == TypeOK /\ Rest /\ Engine => Rest'
  <1> SUFFICES ASSUME TypeOK, Rest, Engine PROVE Rest'
    OBVIOUS
  <1>1. UNCHANGED <<proc, rows, editVars, controlVars, lockVars, workerVars>>
    BY DEF Engine, LateApply, EngineStops, EngineStarts, ObsToggles
  <1>2. LifeInv' /\ LockInv' /\ CallInv' /\ OpRoles' /\ StepRoles' /\ LateInv' /\ PositionsInv'
    BY <1>1 DEF Rest, LifeInv, Running, LockInv, CallInv, OpRoles, StepRoles, LateInv,
                PositionsInv, editVars, controlVars, lockVars, workerVars
  <1>3. ActiveIsEnabledRows' /\ TableSound'
    BY <1>1 DEF Rest, ActiveIsEnabledRows, TableSound, editVars, controlVars
  <1>4. EngineFollows'
    BY <1>1 DEF Rest, EngineFollows, Controlling, editVars, controlVars,
                Engine, LateApply, EngineStops, EngineStarts, ObsToggles
  <1> QED BY <1>2, <1>3, <1>4 DEF Rest

\* Handing over the mutex keeps IInv.
LEMMA RestGrant == TypeOK /\ Rest /\ Grant => Rest'
  <1> SUFFICES ASSUME TypeOK, Rest, Grant PROVE Rest'
    OBVIOUS
  <1> DEFINE h == Head(queue)
  <1>1. h \in Process /\ queue # <<>>
    BY HeadTailProperties DEF TypeOK, Grant
  <1>2. NoneLocked
    BY ProcessAssumption DEF Rest, LockInv, NoneLocked, Grant, Free, Process
  <1>3. /\ holder' = h
        /\ pc' = [pc EXCEPT ![h] = FirstStep(op[h])]
        /\ UNCHANGED <<proc, rows, unsettled, outdated, relayEnabled, active, op, call, sample, engine, strayed>>
    BY DEF Grant, editVars, controlVars, workerVars, engineVars
  <1> HIDE DEF h
  <1>4. LifeInv'
    BY <1>1, <1>3 DEF Rest, LifeInv, Running
  <1>5. LockInv'
    BY <1>1, <1>2, <1>3 DEF TypeOK, LockInv, NoneLocked
  <1>6. FirstStep(op[h]) \notin {"on_patch", "off_patch", "commit", "poll_forwards"}
    BY DEF FirstStep
  <1>7. CallInv'
    BY <1>1, <1>2, <1>3, <1>6 DEF TypeOK, CallInv, NoneLocked, LockedSteps, PatchSteps
  <1>8. StepRoles'
    <2>1. FirstStep(op[h]) = "on_rows" => op[h] = "start"
      BY DEF FirstStep
    <2>2. h = Worker \/ h = Shutdown => op[h] # "start"
      BY DEF Rest, OpRoles
    <2> QED BY <1>1, <1>2, <1>3, <1>6, <2>1, <2>2
        DEF TypeOK, StepRoles, NoneLocked, LockedSteps, PatchSteps, Process
  <1>9. OpRoles' /\ ActiveIsEnabledRows' /\ EngineFollows' /\ TableSound'
    BY <1>3 DEF Rest, OpRoles, ActiveIsEnabledRows, EngineFollows, Controlling, TableSound
  <1>10. LateInv' /\ PositionsInv'
    BY <1>3 DEF Rest, LateInv, PositionsInv, Running
  <1> QED BY <1>4, <1>5, <1>7, <1>8, <1>9, <1>10 DEF Rest

\* Every step of apply, by a request or by the worker, keeps IInv.
LEMMA RestApply == \A p \in Process : TypeOK /\ Rest /\ Apply(p) => Rest'
  <1> SUFFICES ASSUME NEW p \in Process, TypeOK, Rest, Apply(p) PROVE Rest'
    OBVIOUS
  <1>0. /\ pc[p] \in LockedSteps
        /\ pc[p] # "idle"
        /\ UNCHANGED <<proc, rows, unsettled>>
    BY DEF Apply, ApplyReads, ApplyRefuses, ApplyOn, ApplyOff, ConfigureFails,
           LockedSteps, PatchSteps, editVars
  <1>1. \A q \in Process : q # p => pc[q] \notin LockedSteps
    BY <1>0, OnlyHolderLocked DEF Rest
  <1>2. Running /\ LifeInv' /\ TableSound'
    BY <1>0, RestRunning DEF Rest, LifeInv, Running, TableSound
  <1>8. ("active" \in outdated' => relayEnabled') => LateInv'
    BY <1>0, <1>2 DEF Rest, LateInv, Running
  <1>3. CASE ApplyReads(p)
    <2>1. LockInv'
      BY <1>0, <1>3 DEF Rest, LockInv, ApplyReads, TypeOK, LockedSteps, PatchSteps
    <2>2. CallInv'
      <3>1. CASE pc[p] = "on_rows"
        <4>1. pc' = [pc EXCEPT ![p] = "on_patch"]
              /\ CanForward(rows) /\ call' = ForwardList(rows)
          BY <1>3, <3>1 DEF ApplyReads
        <4> QED BY <1>0, <1>1, <4>1 DEF CallInv, TypeOK, LockedSteps, PatchSteps
      <3>2. CASE pc[p] = "off_rows"
        <4>1. pc' = [pc EXCEPT ![p] = "off_patch"] /\ call' = <<>>
          BY <1>3, <3>2 DEF ApplyReads
        <4> QED BY <1>1, <4>1 DEF CallInv, TypeOK, LockedSteps, PatchSteps
      <3> QED BY <1>3, <3>1, <3>2 DEF ApplyReads
    <2>3. StepRoles' /\ OpRoles'
      BY <1>0, <1>1, <1>3, ProcessAssumption
      DEF Rest, OpRoles, ApplyReads, StepRoles, TypeOK, LockedSteps, PatchSteps,
          Process, editVars, controlVars, workerVars
    <2>4. ActiveIsEnabledRows' /\ EngineFollows'
      BY <1>3 DEF Rest, ActiveIsEnabledRows, EngineFollows, Controlling, ApplyReads,
                  controlVars, engineVars
    <2>5. LateInv'
      BY <1>3, <1>8 DEF Rest, LateInv, ApplyReads, controlVars
    <2>6. PositionsInv'
      <3>1. active' = active /\ call' \in {<<>>, ForwardList(rows)}
        BY <1>3 DEF ApplyReads, controlVars
      <3>2. IsInjective(ForwardList(rows))
        <4>1. \A d, e \in DOMAIN ForwardList(rows) :
                 ForwardList(rows)[d] = ForwardList(rows)[e] => d = e
          BY ForwardListInjective DEF Rest, TypeOK, TableSound
        <4> QED BY <4>1 DEF IsInjective
      <3> QED BY <3>1, <3>2, EmptyInjective DEF Rest, PositionsInv
    <2> QED BY <1>2, <2>1, <2>2, <2>3, <2>4, <2>5, <2>6 DEF Rest
  <1>4. CASE ApplyRefuses(p)
    BY <1>0, <1>4, RestLeave DEF ApplyRefuses
  <1>5. CASE ApplyOn(p)
    <2>1. NoneLocked' /\ OpRoles' /\ LockInv' /\ CallInv' /\ StepRoles'
      BY <1>0, <1>5, RestRelease, NoneLockedRestNext DEF ApplyOn
    <2>2. "call" \in outdated \/ (CanForward(rows) /\ call = ForwardList(rows))
      BY <1>5 DEF Rest, CallInv, ApplyOn
    <2>3. ActiveIsEnabledRows'
      BY <1>0, <1>5, <2>2 DEF ActiveIsEnabledRows, ApplyOn
    <2>4. EngineFollows'
      BY <1>5 DEF EngineFollows, ApplyOn, EngineRuns
    <2>5. LateInv'
      BY <1>5, <1>8 DEF ApplyOn
    <2>6. PositionsInv'
      BY <1>5, EmptyInjective DEF Rest, PositionsInv, ApplyOn, Release
    <2> QED BY <1>2, <2>1, <2>3, <2>4, <2>5, <2>6 DEF Rest
  <1>6. CASE ApplyOff(p)
    <2>1. call = <<>>
      BY <1>6 DEF Rest, CallInv, ApplyOff
    <2>2. ActiveIsEnabledRows' /\ EngineFollows'
      BY <1>6, <2>1 DEF ActiveIsEnabledRows, EngineFollows, ApplyOff, EngineRuns
    <2>5. LateInv'
      BY <1>6, <1>8 DEF ApplyOff
    <2>6. PositionsInv'
      BY <1>6, <2>1, EmptyInjective DEF PositionsInv, ApplyOff, Release
    <2>3. CASE op[p] = "restart"
      <3>1. p \in Client
        BY <2>3 DEF Rest, OpRoles, Process
      <3>2. /\ pc' = [pc EXCEPT ![p] = "on_rows"]
            /\ op' = [op EXCEPT ![p] = "start"]
            /\ holder' = holder
        BY <1>6, <2>3 DEF ApplyOff
      <3>3. LockInv'
        BY <1>0, <3>2 DEF Rest, LockInv, TypeOK
      <3>4. CallInv'
        BY <1>1, <3>2 DEF CallInv, TypeOK, LockedSteps, PatchSteps
      <3>5. StepRoles' /\ OpRoles'
        BY <1>1, <3>1, <3>2, ProcessAssumption
        DEF Rest, StepRoles, OpRoles, TypeOK, LockedSteps, PatchSteps, Process
      <3> QED BY <1>2, <2>2, <2>5, <2>6, <3>3, <3>4, <3>5 DEF Rest
    <2>4. CASE op[p] # "restart"
      <3>1. Release(p)
        BY <1>6, <2>4 DEF ApplyOff
      <3>2. NoneLocked' /\ OpRoles' /\ LockInv' /\ CallInv' /\ StepRoles'
        BY <1>0, <3>1, RestRelease, NoneLockedRestNext
      <3> QED BY <1>2, <2>2, <2>5, <2>6, <3>2 DEF Rest
    <2> QED BY <2>3, <2>4
  <1>7. CASE ConfigureFails(p)
    BY <1>0, <1>7, RestLeave DEF ConfigureFails
  <1> QED BY <1>3, <1>4, <1>5, <1>6, <1>7 DEF Apply

\* Every step of save and delete keeps IInv: the relay was off when the lock
\* was taken, and nobody else can have turned it on.
LEMMA RestEdit == \A c \in Client : TypeOK /\ Rest /\ Edit(c) => Rest'
  <1> SUFFICES ASSUME NEW c \in Client, TypeOK, Rest, Edit(c) PROVE Rest'
    OBVIOUS
  <1>0. c \in Process /\ pc[c] \in LockedSteps /\ pc[c] # "idle"
    BY DEF Process, Edit, EditChecks, SaveCreate, SaveUpdate, Delete, EditRefused, LockedSteps
  <1>1. \A q \in Process : q # c => pc[q] \notin LockedSteps
    BY <1>0, OnlyHolderLocked DEF Rest
  <1>2. CASE EditChecks(c)
    <2>1. CASE EditAllowed
      <3>1. /\ pc' = [pc EXCEPT ![c] = "commit"]
            /\ UNCHANGED <<proc, rows, unsettled, outdated, relayEnabled, active, holder, queue, op, call,
                           sample, engine, strayed>>
        BY <1>2, <2>1 DEF EditChecks, editVars, controlVars, workerVars, engineVars
      <3>2. LifeInv'
        BY <1>0, <3>1, RestRunning DEF Rest, LifeInv, Running
      <3>3. LockInv'
        BY <1>0, <3>1 DEF Rest, LockInv, TypeOK
      <3>4. CallInv'
        BY <1>1, <2>1, <3>1 DEF CallInv, TypeOK, EditAllowed, LockedSteps, PatchSteps
      <3>5. StepRoles' /\ OpRoles'
        BY <1>1, <3>1, ProcessAssumption
        DEF Rest, StepRoles, OpRoles, TypeOK, LockedSteps, PatchSteps, Process
      <3>6. ActiveIsEnabledRows' /\ EngineFollows' /\ TableSound'
        BY <3>1 DEF Rest, ActiveIsEnabledRows, EngineFollows, Controlling, TableSound
      <3>7. LateInv' /\ PositionsInv'
        BY <3>1 DEF Rest, LateInv, PositionsInv, Running
      <3> QED BY <3>2, <3>3, <3>4, <3>5, <3>6, <3>7 DEF Rest
    <2>2. CASE ~EditAllowed
      BY <1>0, <1>2, <2>2, RestLeave DEF EditChecks
    <2> QED BY <2>1, <2>2
  <1>3. ASSUME pc[c] = "commit", Release(c), TableSound',
               "create" \in unsettled => Len(rows') <= MaxDestinations,
               UNCHANGED <<proc, editVars, controlVars, engineVars>>
        PROVE  Rest'
    <2>1. NoneLocked' /\ OpRoles' /\ LockInv' /\ CallInv' /\ StepRoles' /\ queue' = queue
      BY <1>0, <1>3, RestRelease, NoneLockedRestNext
    <2>2. Running /\ proc # "seeding"
      BY <1>0, RestRunning DEF Running
    <2>3. LifeInv'
      BY <1>3, <2>2 DEF LifeInv, Running
    <2>4. ~relayEnabled
      BY <1>0, <1>3 DEF Rest, CallInv
    <2>5. ActiveIsEnabledRows' /\ EngineFollows'
      BY <1>3, <2>4 DEF Rest, ActiveIsEnabledRows, EngineFollows, Controlling,
                        editVars, controlVars, engineVars
    <2>6. LateInv' /\ PositionsInv'
      BY <1>3, <2>2, EmptyInjective
      DEF Rest, LateInv, PositionsInv, Running, Release, editVars, controlVars
    <2> QED BY <1>3, <2>1, <2>3, <2>5, <2>6 DEF Rest
  <1>4. /\ rows \in Seq(Row) /\ Len(rows) \in Nat /\ DOMAIN rows = 1..Len(rows)
        /\ \A i \in DOMAIN rows : rows[i] \in Row
    BY LenProperties, ElementOfSeq DEF TypeOK
  <1>5. CASE SaveCreate(c)
    <2>1. PICK d \in Dest \ Ids(rows) :
               \E r \in SavedRow(d, "none") : rows' = Append(rows, r)
      BY <1>5 DEF SaveCreate
    <2>2. PICK r \in SavedRow(d, "none") : rows' = Append(rows, r)
      BY <2>1
    <2>3. r \in Row /\ r.id = d /\ ~(r.enabled /\ r.key = "none")
      BY SavedRowType DEF Key
    <2>4. /\ Len(rows') = Len(rows) + 1 /\ DOMAIN rows' = 1..(Len(rows) + 1)
          /\ \A i \in 1..Len(rows) : rows'[i] = rows[i]
          /\ rows'[Len(rows) + 1] = r
      BY <1>4, <2>2, <2>3, AppendProperties, LenProperties
    <2>5. \A i \in 1..Len(rows) : rows[i].id # d
      BY <1>4 DEF Ids
    <2>6. Len(rows) < MaxDestinations
      BY <1>5 DEF SaveCreate, HasRoom
    <2>7. Len(rows') <= MaxDestinations
      BY <1>4, <2>4, <2>6, BoundAssumption
    <2>8. Len(rows') <= MaxDestinations + MaxAbandoned
      BY <1>4, <2>4, <2>7, BoundAssumption
    <2>9. TableSound'
      BY <1>4, <2>3, <2>4, <2>5, <2>8 DEF Rest, TableSound
    <2> QED BY <1>3, <1>5, <2>7, <2>9 DEF SaveCreate
  <1>6. CASE SaveUpdate(c)
    BY <1>3, <1>6, RowUpdated DEF Rest, LateInv, SaveUpdate
  <1>7. CASE Delete(c)
    <2>1. TableSound' /\ Len(rows') = Len(rows) - 1
      BY <1>7, RowDeleted DEF Rest, Delete
    <2>2. "create" \in unsettled => Len(rows') <= MaxDestinations
      BY <1>4, <2>1, BoundAssumption DEF Rest, LateInv
    <2> QED BY <1>3, <1>7, <2>1, <2>2 DEF Delete
  <1>8. CASE EditRefused(c)
    BY <1>0, <1>8, RestLeave DEF EditRefused
  <1> QED BY <1>2, <1>5, <1>6, <1>7, <1>8 DEF Edit

\* So does an edit that outlives its handler: the lists it comes after are on
\* record, and a create has been counted.
LEMMA RestLate == TypeOK /\ Rest /\ LateEdit => Rest'
  <1> SUFFICES ASSUME TypeOK, Rest, LateEdit PROVE Rest'
    OBVIOUS
  <1>0. /\ unsettled # {} /\ unsettled' \subseteq unsettled /\ outdated' = InUse
        /\ UNCHANGED <<proc, controlVars, lockVars, workerVars, engineVars>>
    BY DEF LateEdit, LateCreate, LateUpdate, LateDelete, Settles
  <1>1. Running /\ proc # "seeding"
    BY <1>0 DEF Rest, LateInv, Running
  <1>2. LifeInv' /\ LockInv' /\ OpRoles' /\ StepRoles' /\ EngineFollows' /\ PositionsInv'
    BY <1>0, <1>1 DEF Rest, LifeInv, LockInv, OpRoles, StepRoles, EngineFollows, PositionsInv,
                      Running, Controlling, controlVars, lockVars, workerVars, engineVars
  <1>3. CallInv'
    BY <1>0 DEF Rest, CallInv, InUse, controlVars, lockVars
  <1>4. ActiveIsEnabledRows'
    BY <1>0 DEF Rest, ActiveIsEnabledRows, InUse, controlVars
  <1>5. Len(rows) \in Nat
    BY RowsType
  <1>6. TableSound' /\ ("create" \in unsettled' => Len(rows') <= MaxDestinations)
    <2>1. CASE LateCreate
      <3>1. PICK d \in Dest \ Ids(rows), i \in 1..(Len(rows) + 1) :
                 \E r \in SavedRow(d, "none") : rows' = InsertAt(rows, i, r)
        BY <2>1 DEF LateCreate
      <3>2. MaxAbandoned >= 1 /\ Len(rows) <= MaxDestinations
        BY <2>1 DEF LateCreate, Settles, Rest, LateInv
      <3>3. Len(rows) + 1 <= MaxDestinations + MaxAbandoned
        BY <1>5, <3>2, BoundAssumption
      <3>4. TableSound'
        BY <3>1, <3>3, RowCreated DEF Rest
      <3>5. "create" \notin unsettled'
        BY <2>1 DEF LateCreate, Settles
      <3> QED BY <3>4, <3>5
    <2>2. CASE LateUpdate
      BY <1>0, <2>2, RowUpdated DEF LateUpdate, Rest, LateInv
    <2>3. CASE LateDelete
      <3>1. TableSound' /\ Len(rows') = Len(rows) - 1
        BY <2>3, RowDeleted DEF LateDelete, Rest
      <3> QED BY <1>0, <1>5, <3>1, BoundAssumption DEF Rest, LateInv
    <2> QED BY <2>1, <2>2, <2>3 DEF LateEdit
  <1>7. LateInv'
    BY <1>0, <1>1, <1>6 DEF Rest, LateInv, Running, InUse, controlVars
  <1> QED BY <1>2, <1>3, <1>4, <1>6, <1>7 DEF Rest

\* A step that touches no locked process, table, relay or engine list.
LEMMA RestQueue ==
  ASSUME TypeOK, Rest, NEW p \in Process, NEW q \in Step \ LockedSteps,
         pc[p] \notin LockedSteps, pc' = [pc EXCEPT ![p] = q],
         Running, OpRoles',
         op' \in [Process -> Op], \A r \in Process : r # p => op'[r] = op[r],
         sample' = sample \/ p = Worker,
         UNCHANGED <<proc, rows, unsettled, outdated, relayEnabled, active, holder, call, engine, strayed>>
  PROVE  Rest'
  <1>1. LifeInv' /\ LockInv' /\ CallInv'
    BY DEF Rest, LifeInv, Running, LockInv, CallInv, TypeOK, LockedSteps, PatchSteps
  <1>2. StepRoles'
    BY DEF Rest, StepRoles, TypeOK, LockedSteps, PatchSteps, Process
  <1>3. ActiveIsEnabledRows' /\ EngineFollows' /\ TableSound'
    BY DEF Rest, ActiveIsEnabledRows, EngineFollows, Controlling, TableSound
  <1>4. LateInv' /\ PositionsInv'
    BY DEF Rest, LateInv, PositionsInv, Running
  <1> QED BY <1>1, <1>2, <1>3, <1>4 DEF Rest

\* Every step of a request keeps IInv, its cancellation included.
LEMMA RestClient ==
  \A c \in Client :
    TypeOK /\ Rest /\ (Arrive(c) \/ CancelQueued(c) \/ CancelHolding(c)) => Rest'
  <1> SUFFICES ASSUME NEW c \in Client, TypeOK, Rest,
                      Arrive(c) \/ CancelQueued(c) \/ CancelHolding(c)
               PROVE  Rest'
    OBVIOUS
  <1>0. c \in Process /\ OpRoles
    BY DEF Process, Rest
  <1>1. CASE Arrive(c)
    <2>1. PICK o \in {"start", "stop", "restart", "edit"} : Enqueue(c, o)
      BY <1>1 DEF Arrive
    <2>2. /\ pc[c] = "idle" /\ pc' = [pc EXCEPT ![c] = "queued"]
          /\ op' = [op EXCEPT ![c] = o]
          /\ UNCHANGED <<proc, rows, unsettled, outdated, relayEnabled, active, holder, call, sample, engine, strayed>>
      BY <1>1, <2>1 DEF Arrive, Enqueue, editVars, controlVars, workerVars, engineVars
    <2>3. Running
      BY <1>1 DEF Arrive, Running
    <2>4. op' \in [Process -> Op] /\ OpRoles'
      BY <1>0, <2>2, ProcessAssumption DEF TypeOK, Op, OpRoles, Process
    <2>5. \A r \in Process : r # c => op'[r] = op[r]
      BY <2>2 DEF TypeOK
    <2>6. "queued" \in Step \ LockedSteps /\ pc[c] \notin LockedSteps
      BY <2>2 DEF Step, LockedSteps, PatchSteps
    <2> QED BY <1>0, <2>2, <2>3, <2>4, <2>5, <2>6, RestQueue
  <1>2. CASE CancelQueued(c)
    <2>1. CASE pc[c] \in LockedSteps
      <3>1. LockInv' /\ CallInv' /\ StepRoles' /\ OpRoles'
        BY <1>0, <1>2, ProcessAssumption
        DEF Rest, CancelQueued, LockInv, CallInv, StepRoles, OpRoles, TypeOK,
            LockedSteps, PatchSteps, Process, editVars, controlVars, workerVars
      <3>2. LifeInv'
        BY <1>0, <1>2, <2>1, RestRunning
        DEF Rest, LifeInv, Running, CancelQueued, LockedSteps, PatchSteps
      <3>3. ActiveIsEnabledRows' /\ EngineFollows' /\ TableSound'
        BY <1>2 DEF Rest, ActiveIsEnabledRows, EngineFollows, Controlling, TableSound,
                    CancelQueued, editVars, controlVars, engineVars
      <3>4. LateInv' /\ PositionsInv'
        BY <1>2 DEF Rest, LateInv, PositionsInv, Running, CancelQueued, editVars, controlVars
      <3> QED BY <3>1, <3>2, <3>3, <3>4 DEF Rest
    <2>2. CASE pc[c] \notin LockedSteps
      <3>1. /\ pc' = [pc EXCEPT ![c] = "idle"]
            /\ op' = [op EXCEPT ![c] = "none"]
            /\ queue # <<>>
            /\ UNCHANGED <<proc, rows, unsettled, outdated, relayEnabled, active, holder, call, sample, engine, strayed>>
        <4>1. queue # <<>>
          BY <1>2, EmptySeq DEF CancelQueued
        <4> QED BY <1>2, <4>1 DEF CancelQueued, editVars, controlVars, workerVars, engineVars
      <3>2. Running
        BY <3>1 DEF Rest, LifeInv
      <3>3. op' \in [Process -> Op] /\ OpRoles'
        BY <1>0, <3>1, ProcessAssumption DEF TypeOK, Op, OpRoles, Process
      <3>4. \A r \in Process : r # c => op'[r] = op[r]
        BY <3>1 DEF TypeOK
      <3>5. "idle" \in Step \ LockedSteps
        BY DEF Step, LockedSteps, PatchSteps
      <3> QED BY <1>0, <2>2, <3>1, <3>2, <3>3, <3>4, <3>5, RestQueue
    <2> QED BY <2>1, <2>2
  <1>3. CASE CancelHolding(c)
    BY <1>0, <1>3, RestLeave DEF CancelHolding
  <1> QED BY <1>1, <1>2, <1>3

\* Every step of the worker keeps IInv.
LEMMA RestWorker == TypeOK /\ Rest /\ WorkerStep => Rest'
  <1> SUFFICES ASSUME TypeOK, Rest, WorkerStep PROVE Rest'
    OBVIOUS
  <1>0. Worker \in Process /\ OpRoles
    BY DEF Process, Rest
  <1>1. CASE Poll
    <2>1. /\ pc[Worker] = "idle" /\ pc' = [pc EXCEPT ![Worker] = "queued"]
          /\ op' = [op EXCEPT ![Worker] = "poll"]
          /\ UNCHANGED <<proc, rows, unsettled, outdated, relayEnabled, active, holder, call, engine, strayed>>
      BY <1>1 DEF Poll, Enqueue, editVars, controlVars, engineVars
    <2>2. Running
      BY <1>1 DEF Poll, Running
    <2>3. op' \in [Process -> Op] /\ OpRoles'
      BY <1>0, <2>1, ProcessAssumption DEF TypeOK, Op, OpRoles, Process
    <2>4. \A r \in Process : r # Worker => op'[r] = op[r]
      BY <2>1 DEF TypeOK
    <2>5. "queued" \in Step \ LockedSteps /\ pc[Worker] \notin LockedSteps
      BY <2>1 DEF Step, LockedSteps, PatchSteps
    <2> QED BY <1>0, <2>1, <2>2, <2>3, <2>4, <2>5, RestQueue
  <1>2. ASSUME NEW q \in {"poll_forwards", "poll_end", "on_rows"},
               pc[Worker] \in {"poll_rows", "poll_forwards"},
               pc' = [pc EXCEPT ![Worker] = q],
               q = "on_rows" => relayEnabled,
               q = "poll_forwards" => sample'.relay = relayEnabled,
               UNCHANGED <<proc, rows, unsettled, outdated, relayEnabled, active, holder, queue, op, call,
                           engine, strayed>>
        PROVE  Rest'
    <2>0. pc[Worker] \in LockedSteps /\ pc[Worker] # "idle"
      BY <1>2 DEF LockedSteps
    <2>1. \A r \in Process : r # Worker => pc[r] \notin LockedSteps
      BY <1>0, <2>0, OnlyHolderLocked DEF Rest
    <2>2. LifeInv'
      BY <1>0, <1>2, <2>0, RestRunning DEF Rest, LifeInv, Running
    <2>3. LockInv'
      BY <1>0, <1>2, <2>0 DEF Rest, LockInv, TypeOK
    <2>4. CallInv'
      BY <1>2, <2>1 DEF CallInv, TypeOK, LockedSteps, PatchSteps
    <2>5. StepRoles' /\ OpRoles'
      BY <1>0, <1>2, <2>1, ProcessAssumption
      DEF StepRoles, OpRoles, TypeOK, LockedSteps, PatchSteps, Process
    <2>6. ActiveIsEnabledRows' /\ EngineFollows' /\ TableSound'
      BY <1>2 DEF Rest, ActiveIsEnabledRows, EngineFollows, Controlling, TableSound
    <2>7. LateInv' /\ PositionsInv'
      BY <1>2 DEF Rest, LateInv, PositionsInv, Running
    <2> QED BY <2>2, <2>3, <2>4, <2>5, <2>6, <2>7 DEF Rest
  <1>3. CASE PollRows
    <2>1. sample'.relay = relayEnabled
      BY <1>3 DEF PollRows, FlagUnderLock, TypeOK
    <2> QED BY <1>2, <1>3, <2>1 DEF PollRows, editVars, controlVars, engineVars
  <1>4. CASE PollRowsFail
    <2>1. pc[Worker] \in LockedSteps
      BY <1>4 DEF PollRowsFail, LockedSteps
    <2> QED BY <1>0, <1>4, <2>1, RestLeave DEF PollRowsFail
  <1>5. CASE PollForwards
    <2>1. PICK known \in {sample.online /\ engineUp, FALSE} :
            pc' = [pc EXCEPT ![Worker] = IF RestoreDue(known) THEN "on_rows" ELSE "poll_end"]
      BY <1>5 DEF PollForwards
    <2>2. sample.relay = relayEnabled
      BY <1>5 DEF PollForwards, Rest, StepRoles
    <2>3. CASE RestoreDue(known)
      BY <1>2, <1>5, <2>1, <2>2, <2>3 DEF RestoreDue, PollForwards, editVars, controlVars, engineVars
    <2>4. CASE ~RestoreDue(known)
      BY <1>2, <1>5, <2>1, <2>4 DEF PollForwards, editVars, controlVars, engineVars
    <2> QED BY <2>3, <2>4
  <1>6. CASE PollEnd
    <2>1. pc[Worker] \in LockedSteps
      BY <1>6 DEF PollEnd, LockedSteps
    <2> QED BY <1>0, <1>6, <2>1, RestLeave DEF PollEnd
  <1>7. CASE Apply(Worker)
    BY <1>0, <1>7, RestApply
  <1> QED BY <1>1, <1>3, <1>4, <1>5, <1>6, <1>7 DEF WorkerStep

\* Every step of the shutdown future keeps IInv.
LEMMA RestShutdown == TypeOK /\ Rest /\ ShutdownStep => Rest'
  <1> SUFFICES ASSUME TypeOK, Rest, ShutdownStep PROVE Rest'
    OBVIOUS
  <1>0. Shutdown \in Process /\ pc[Shutdown] \in LockedSteps /\ Release(Shutdown)
        /\ proc' \in {"draining", "draining_dirty"}
        /\ UNCHANGED <<rows, unsettled, outdated, relayEnabled, active>>
    BY DEF Process, ShutdownStep, ShutdownConfigures, ShutdownConfigureFails,
           LockedSteps, PatchSteps, editVars, controlVars
  <1>1. NoneLocked' /\ OpRoles' /\ LockInv' /\ CallInv' /\ StepRoles'
    BY <1>0, RestRelease, NoneLockedRestNext
  <1>2. LifeInv'
    BY <1>0 DEF LifeInv, Running
  <1>3. ActiveIsEnabledRows' /\ TableSound'
    BY <1>0 DEF Rest, ActiveIsEnabledRows, TableSound
  <1>4. EngineFollows'
    <2>1. CASE ShutdownConfigures
      BY <2>1 DEF ShutdownConfigures, EngineRuns, EngineFollows
    <2>2. CASE ShutdownConfigureFails
      <3>1. Running /\ Controlling
        BY <1>0, RestRunning DEF LockedSteps, PatchSteps
      <3> QED BY <1>0, <2>2, <3>1 DEF Rest, ShutdownConfigureFails, GiveUp, EngineFollows
    <2> QED BY <2>1, <2>2 DEF ShutdownStep
  <1>5. LateInv' /\ PositionsInv'
    BY <1>0, EmptyInjective DEF Rest, LateInv, PositionsInv, Running, Release
  <1> QED BY <1>1, <1>2, <1>3, <1>4, <1>5 DEF Rest

\* Boot, shutdown and crash keep IInv.
LEMMA RestLife == TypeOK /\ Rest /\ Life => Rest'
  <1> SUFFICES ASSUME TypeOK, Rest, Life PROVE Rest'
    OBVIOUS
  <1>0. /\ rows \in Seq(Row) /\ Len(rows) \in Nat /\ DOMAIN rows = 1..Len(rows)
        /\ \A i \in DOMAIN rows : rows[i] \in Row
    BY LenProperties, ElementOfSeq DEF TypeOK
  \* Before serving nothing is in progress and the relay is off.
  <1>1. ASSUME ~Running, TableSound', UNCHANGED <<editVars, controlVars, lockVars, workerVars>>,
               proc' = "seeding" => Len(rows') = 1,
               Controlling' /\ ~strayed' => engine' = <<>>
        PROVE  Rest'
    <2>1. ~relayEnabled /\ queue = <<>> /\ \A p \in Process : pc[p] = "idle"
      BY <1>1 DEF Rest, LifeInv
    <2>2. LifeInv'
      BY <1>1, <2>1 DEF LifeInv, editVars, controlVars, lockVars
    <2>3. NoneLocked'
      BY <1>1, <2>1 DEF NoneLocked, LockedSteps, PatchSteps, lockVars
    <2>4. OpRoles'
      BY <1>1 DEF Rest, OpRoles, lockVars
    <2>5. ActiveIsEnabledRows' /\ EngineFollows'
      BY <1>1, <2>1 DEF Rest, ActiveIsEnabledRows, EngineFollows, controlVars
    <2>6. LateInv' /\ PositionsInv'
      BY <1>1, <2>1 DEF Rest, LateInv, PositionsInv, editVars, controlVars, lockVars
    <2> QED BY <1>1, <2>2, <2>3, <2>4, <2>5, <2>6, NoneLockedRestNext DEF Rest
  \* After the process is gone, too.
  <1>2. ASSUME Reset, proc' \in {"down", "stopped"}, UNCHANGED rows
        PROVE  Rest'
    <2>1. NoneLocked' /\ OpRoles'
      BY <1>2, ProcessAssumption DEF Reset, NoneLocked, OpRoles, Process, LockedSteps, PatchSteps
    <2>2. LifeInv' /\ ActiveIsEnabledRows' /\ EngineFollows' /\ TableSound'
      BY <1>2 DEF Rest, Reset, LifeInv, ActiveIsEnabledRows, EngineFollows, Controlling, TableSound
    <2>3. LateInv' /\ PositionsInv'
      BY <1>2, EmptyInjective DEF Reset, LateInv, PositionsInv
    <2> QED BY <2>1, <2>2, <2>3, NoneLockedRestNext DEF Rest
  <1>3. CASE Boot
    <2>1. PICK key \in [DOMAIN rows -> Key] :
            /\ \A i \in DOMAIN rows : key[i] = "none" <=> rows[i].key = "none"
            /\ rows' = [i \in DOMAIN rows |-> [rows[i] EXCEPT !.key = key[i]]]
      BY <1>3 DEF Boot
    <2>2. /\ DOMAIN rows' = DOMAIN rows
          /\ \A i \in DOMAIN rows :
               /\ rows'[i].id = rows[i].id
               /\ rows'[i].enabled = rows[i].enabled
               /\ rows[i].key # "none" => rows'[i].key # "none"
      BY <1>0, <2>1 DEF Row
    <2>3. rows' \in Seq(Row)
      BY <1>3, TypeLife DEF TypeOK, Life
    <2>4. Len(rows') = Len(rows)
      BY <1>0, <2>2, <2>3, LenProperties
    <2>5. TableSound'
      BY <2>2, <2>4 DEF Rest, TableSound
    <2> QED BY <1>1, <1>3, <2>5 DEF Boot, Running, Controlling
  <1>4. CASE BootReset
    <2>1. TableSound'
      BY <1>4 DEF Rest, BootReset, TableSound
    <2> QED BY <1>1, <1>4, <2>1 DEF BootReset, EngineRuns, Running
  <1>5. CASE BootResetFails
    <2>1. TableSound'
      BY <1>5 DEF Rest, BootResetFails, TableSound
    <2> QED BY <1>1, <1>5, <2>1 DEF BootResetFails, Running, Controlling
  <1>6. ASSUME proc \in {"reading", "seeding"}, proc' \in {"seeding", "serving"},
               UNCHANGED engineVars
        PROVE  ~Running /\ (Controlling' /\ ~strayed' => engine' = <<>>)
    <2>1. ~Running /\ Controlling
      BY <1>6 DEF Running, Controlling
    <2>2. active = <<>>
      BY <2>1 DEF Rest, LifeInv, ActiveIsEnabledRows
    <2> QED BY <1>6, <2>1, <2>2 DEF Rest, EngineFollows, engineVars
  <1>7. CASE BootRead
    <2>1. CASE UNCHANGED rows /\ proc' = "serving"
      <3>1. TableSound'
        BY <2>1 DEF Rest, TableSound
      <3> QED BY <1>1, <1>6, <1>7, <2>1, <3>1 DEF BootRead
    <2>2. CASE proc' = "seeding" /\ \E d \in Dest, k \in Key : rows' = <<Seed(d, k)>>
      <3>1. PICK d \in Dest, k \in Key : rows' = <<Seed(d, k)>>
        BY <2>2
      <3>2. Len(rows') = 1 /\ DOMAIN rows' = 1..1 /\ rows'[1] = Seed(d, k)
        BY <3>1
      <3>3. TableSound'
        BY <3>2, BoundAssumption DEF TableSound, Seed
      <3> QED BY <1>1, <1>6, <1>7, <2>2, <3>2, <3>3 DEF BootRead
    <2> QED BY <1>7, <2>1, <2>2 DEF BootRead
  <1>8. CASE BootSeed
    <2>1. PICK d \in Dest \ Ids(rows), k \in Key : rows' = Append(rows, Seed(d, k))
      BY <1>8 DEF BootSeed
    <2>2. Seed(d, k) \in Row
      BY DEF Seed, Row
    <2>3. Len(rows) = 1
      BY <1>8 DEF Rest, LifeInv, BootSeed
    <2>7. rows' \in Seq(Row) /\ Len(rows') = 2 /\ rows'[1] = rows[1] /\ rows'[2] = Seed(d, k)
      <3> DEFINE r == Seed(d, k)
      <3>1. rows' = Append(rows, r) /\ r \in Row
        BY <2>1, <2>2
      <3> HIDE DEF r
      <3>2. /\ rows' \in Seq(Row) /\ Len(rows') = Len(rows) + 1
            /\ \A i \in 1..Len(rows) : rows'[i] = rows[i]
            /\ rows'[Len(rows) + 1] = r
        BY <1>0, <3>1, AppendProperties
      <3>3. rows'[1] = rows[1] /\ rows'[2] = r
        BY <2>3, <3>2
      <3> QED BY <2>3, <3>2, <3>3 DEF r
    <2>4. DOMAIN rows' = 1..2
      BY <2>7, LenProperties
    <2>5. rows[1].id # d
      BY <1>0, <2>3 DEF Ids
    <2>6. TableSound'
      BY <1>0, <2>3, <2>4, <2>5, <2>7, BoundAssumption DEF Rest, TableSound, Seed
    <2> QED BY <1>1, <1>6, <1>8, <2>6 DEF BootSeed
  <1>9. CASE Sigterm
    <2>1. /\ proc = "serving" /\ proc' = "stopping"
          /\ pc' = [pc EXCEPT ![Worker] = "idle", ![Shutdown] = "queued"]
          /\ op' = [op EXCEPT ![Worker] = "none", ![Shutdown] = "shutdown"]
          /\ holder' = IF holder = Worker THEN Nobody ELSE holder
          /\ call' = IF holder = Worker THEN <<>> ELSE call
          /\ UNCHANGED <<rows, unsettled, outdated, relayEnabled, active, engine, strayed>>
      BY <1>9 DEF Sigterm, GiveUp, editVars, controlVars, engineVars
    <2>2. Worker \in Process /\ Shutdown \in Process /\ Worker # Shutdown
          /\ \A c \in Client : c # Worker /\ c # Shutdown
      BY ProcessAssumption DEF Process
    <2>3. LifeInv'
      BY <2>1 DEF LifeInv, Running
    <2>4. ASSUME NEW p \in Process, pc'[p] \in LockedSteps
          PROVE  pc'[p] = pc[p] /\ p # Worker /\ p # Shutdown /\ holder = p
      BY <2>1, <2>2, <2>4 DEF Rest, LockInv, TypeOK, LockedSteps, PatchSteps
    <2>5. LockInv'
      BY <2>1, <2>4 DEF LockInv
    <2>6. CallInv'
      BY <2>1, <2>4 DEF Rest, CallInv, LockedSteps, PatchSteps
    <2>7. StepRoles' /\ OpRoles'
      BY <2>1, <2>2 DEF Rest, StepRoles, OpRoles, TypeOK, Process
    <2>8. ActiveIsEnabledRows' /\ EngineFollows' /\ TableSound'
      BY <2>1 DEF Rest, ActiveIsEnabledRows, EngineFollows, Controlling, TableSound
    <2>9. LateInv' /\ PositionsInv'
      BY <2>1, EmptyInjective DEF Rest, LateInv, PositionsInv, Running
    <2> QED BY <2>3, <2>5, <2>6, <2>7, <2>8, <2>9 DEF Rest
  <1>10. CASE Exit
    BY <1>2, <1>10 DEF Exit
  <1>11. CASE Crash
    BY <1>2, <1>11 DEF Crash
  <1> QED BY <1>3, <1>4, <1>5, <1>7, <1>8, <1>9, <1>10, <1>11 DEF Life

\* IInv is an invariant: what holds between the lock and its release, together
\* with the safety properties that depend on it.
THEOREM InductiveInvariant == Spec => []IInv
  <1>1. TypeOK /\ Rest /\ [Next]_vars => Rest'
    <2> SUFFICES ASSUME TypeOK, Rest, [Next]_vars PROVE Rest'
      OBVIOUS
    <2>1. CASE Grant
      BY <2>1, RestGrant
    <2>2. ASSUME NEW c \in Client,
                 Arrive(c) \/ Request(c) \/ CancelQueued(c) \/ CancelHolding(c)
          PROVE  Rest'
      BY <2>2, RestApply, RestEdit, RestClient DEF Request, Process
    <2>8. CASE LateEdit
      BY <2>8, RestLate
    <2>3. CASE WorkerStep
      BY <2>3, RestWorker
    <2>4. CASE ShutdownStep
      BY <2>4, RestShutdown
    <2>5. CASE Life
      BY <2>5, RestLife
    <2>6. CASE Engine
      BY <2>6, RestEngine
    <2>7. CASE UNCHANGED vars
      BY <2>7 DEF Rest, LifeInv, Running, LockInv, CallInv, OpRoles, StepRoles,
                  ActiveIsEnabledRows, EngineFollows, Controlling, TableSound, LateInv,
                  PositionsInv, vars, editVars, controlVars, lockVars, workerVars, engineVars
    <2> QED BY <2>1, <2>2, <2>3, <2>4, <2>5, <2>6, <2>7, <2>8 DEF Next
  <1> QED BY <1>1, RestInit, TypeCorrect, IInvIsRest, PTL DEF Spec

\* With the relay on, the active list is the enabled rows of the table, all of
\* them usable; with the relay off it is empty.
THEOREM ActiveMatchesTable == Spec => []ActiveIsEnabledRows
  <1>1. IInv => ActiveIsEnabledRows
    BY DEF IInv
  <1> QED BY <1>1, InductiveInvariant, PTL

\* Unless a request given up on was the last to reach it, the engine forwards
\* to nothing or to exactly the active list.
THEOREM EngineObeys == Spec => []EngineFollows
  <1>1. IInv => EngineFollows
    BY DEF IInv
  <1> QED BY <1>1, InductiveInvariant, PTL

\* Destinations stay distinct, within the limit, and keyed when enabled.
THEOREM TableIsSound == Spec => []TableSound
  <1>1. IInv => TableSound
    BY DEF IInv
  <1> QED BY <1>1, InductiveInvariant, PTL
-----------------------------------------------------------------------------
(***************************************************************************)
(* The mutex is never lost, and nobody who waits for it is.                *)
(***************************************************************************)
\* The queue is a list of distinct elements; these are the elements.
Lists(q, S) == IsInjective(q) /\ Range(q) = S

\* One who was not in the queue joins it.
LEMMA ListsAppend ==
  ASSUME NEW T, NEW q \in Seq(T), NEW S, Lists(q, S), NEW p \in T, p \notin S
  PROVE  Lists(Append(q, p), S \cup {p})
  <1> DEFINE r == Append(q, p)
  <1>1. Len(q) \in Nat /\ Len(r) = Len(q) + 1 /\ DOMAIN r = 1..Len(q) + 1 /\ DOMAIN q = 1..Len(q)
        /\ r[Len(q) + 1] = p /\ \A i \in 1..Len(q) : r[i] = q[i]
    BY AppendProperties
  <1> HIDE DEF r
  <1>2. \A i \in 1..Len(q) : q[i] \in S
    BY <1>1 DEF Lists, Range
  <1>3. IsInjective(r)
    <2> SUFFICES ASSUME NEW i \in DOMAIN r, NEW j \in DOMAIN r, r[i] = r[j] PROVE i = j
      BY DEF IsInjective
    <2>1. \A k \in DOMAIN r : k \in 1..Len(q) \/ k = Len(q) + 1
      BY <1>1
    <2>2. CASE i \in 1..Len(q) /\ j \in 1..Len(q)
      BY <1>1, <2>2 DEF Lists, IsInjective
    <2>3. CASE i = Len(q) + 1 /\ j = Len(q) + 1
      BY <2>3
    <2>4. CASE (i \in 1..Len(q)) # (j \in 1..Len(q))
      BY <1>1, <1>2, <2>1, <2>4
    <2> QED BY <2>1, <2>2, <2>3, <2>4
  <1>4. Range(r) = S \cup {p}
    <2>1. ASSUME NEW x \in Range(r) PROVE x \in S \cup {p}
      <3>1. PICK i \in DOMAIN r : x = r[i]
        BY DEF Range
      <3>2. i \in 1..Len(q) \/ i = Len(q) + 1
        BY <1>1
      <3> QED BY <1>1, <1>2, <3>1, <3>2
    <2>2. ASSUME NEW x \in S PROVE x \in Range(r)
      <3>1. PICK i \in 1..Len(q) : x = q[i]
        BY <1>1 DEF Lists, Range
      <3>2. i \in DOMAIN r /\ r[i] = x
        BY <1>1, <3>1
      <3> QED BY <3>2 DEF Range
    <2>3. p \in Range(r)
      <3>1. Len(q) + 1 \in DOMAIN r
        BY <1>1
      <3> QED BY <1>1, <3>1 DEF Range
    <2> QED BY <2>1, <2>2, <2>3
  <1> QED BY <1>3, <1>4 DEF Lists, r

\* One of the queue leaves it.
LEMMA ListsRemove ==
  ASSUME NEW T, NEW q \in Seq(T), NEW S, Lists(q, S), NEW i \in DOMAIN q
  PROVE  RemoveAt(q, i) \in Seq(T) /\ Lists(RemoveAt(q, i), S \ {q[i]}) /\ q[i] \in S
  <1> DEFINE r == RemoveAt(q, i)
             at(j) == IF j < i THEN j ELSE j + 1
  <1>1. /\ Len(q) \in Nat /\ DOMAIN q = 1..Len(q) /\ i \in 1..Len(q)
        /\ r \in Seq(T) /\ Len(r) = Len(q) - 1 /\ DOMAIN r = 1..Len(q) - 1
        /\ \A j \in 1..Len(q) - 1 : r[j] = IF j < i THEN q[j] ELSE q[j + 1]
    <2>1. r \in Seq(T) /\ Len(r) = Len(q) - 1
          /\ \A j \in 1..(Len(q) - 1) : r[j] = IF j < i THEN q[j] ELSE q[j + 1]
      BY RemoveAtProperties
    <2> HIDE DEF r
    <2>2. Len(q) \in Nat /\ DOMAIN q = 1..Len(q) /\ DOMAIN r = 1..Len(r)
      BY <2>1, LenProperties
    <2> QED BY <2>1, <2>2
  <1> HIDE DEF r
  <1>2. \A j \in 1..Len(q) - 1 : r[j] = q[at(j)] /\ at(j) \in 1..Len(q) /\ at(j) # i
    BY <1>1
  <1>3. \A k \in 1..Len(q) : k # i => \E j \in 1..Len(q) - 1 : at(j) = k
    <2> SUFFICES ASSUME NEW k \in 1..Len(q), k # i PROVE \E j \in 1..Len(q) - 1 : at(j) = k
      OBVIOUS
    <2>1. CASE k < i
      BY <1>1, <2>1
    <2>2. CASE k > i
      <3>1. k - 1 \in 1..Len(q) - 1 /\ at(k - 1) = k
        BY <1>1, <2>2
      <3> QED BY <3>1
    <2> QED BY <1>1, <2>1, <2>2
  <1>4. \A j, k \in 1..Len(q) - 1 : at(j) = at(k) => j = k
    BY <1>1
  <1> HIDE DEF at
  <1>5. \A j, k \in 1..Len(q) : q[j] = q[k] => j = k
    BY <1>1 DEF Lists, IsInjective
  <1>6. IsInjective(r)
    BY <1>1, <1>2, <1>4, <1>5 DEF IsInjective
  <1>7. Range(r) = {q[k] : k \in 1..Len(q)} \ {q[i]}
    <2>1. ASSUME NEW x \in Range(r) PROVE x \in {q[k] : k \in 1..Len(q)} \ {q[i]}
      <3>1. PICK j \in 1..Len(q) - 1 : x = r[j]
        BY <1>1 DEF Range
      <3>2. x = q[at(j)] /\ at(j) \in 1..Len(q) /\ at(j) # i
        BY <1>2, <3>1
      <3> QED BY <1>1, <1>5, <3>2
    <2>2. ASSUME NEW k \in 1..Len(q), q[k] # q[i] PROVE q[k] \in Range(r)
      <3>1. PICK j \in 1..Len(q) - 1 : at(j) = k
        BY <1>3, <2>2
      <3>2. r[j] = q[k] /\ j \in DOMAIN r
        BY <1>1, <1>2, <3>1
      <3> QED BY <3>2 DEF Range
    <2> QED BY <2>1, <2>2
  <1>8. S = {q[k] : k \in 1..Len(q)}
    BY <1>1 DEF Lists, Range
  <1>9. q[i] \in S
    BY <1>1, <1>8
  <1> QED BY <1>1, <1>6, <1>7, <1>8, <1>9 DEF Lists, r

\* The first of the queue leaves it.
LEMMA ListsTail ==
  ASSUME NEW T, NEW q \in Seq(T), NEW S, Lists(q, S), q # <<>>
  PROVE  Lists(Tail(q), S \ {Head(q)}) /\ Head(q) \in S /\ Head(q) \in T
  <1> DEFINE r == Tail(q)
  <1>1. /\ Len(q) \in Nat /\ DOMAIN q = 1..Len(q) /\ Len(q) > 0
        /\ DOMAIN r = 1..Len(q) - 1 /\ \A j \in 1..Len(q) - 1 : r[j] = q[j + 1]
        /\ Head(q) = q[1] /\ q[1] \in T
    <2>1. r \in Seq(T) /\ Len(r) = Len(q) - 1 /\ \A j \in 1..Len(r) : r[j] = q[j + 1]
      BY HeadTailProperties
    <2> HIDE DEF r
    <2>2. Len(q) \in Nat /\ DOMAIN q = 1..Len(q) /\ DOMAIN r = 1..Len(r) /\ Len(q) > 0
      BY <2>1, EmptySeq
    <2>3. Head(q) = q[1]
      OBVIOUS
    <2>4. q[1] \in T
      BY <2>2
    <2> QED BY <2>1, <2>2, <2>3, <2>4
  <1> HIDE DEF r
  <1>2. \A j, k \in 1..Len(q) : q[j] = q[k] => j = k
    BY <1>1 DEF Lists, IsInjective
  <1>3. IsInjective(r)
    <2> SUFFICES ASSUME NEW j \in 1..Len(q) - 1, NEW k \in 1..Len(q) - 1, r[j] = r[k] PROVE j = k
      BY <1>1 DEF IsInjective
    <2>1. j + 1 \in 1..Len(q) /\ k + 1 \in 1..Len(q) /\ q[j + 1] = q[k + 1]
      BY <1>1
    <2>2. j + 1 = k + 1
      BY <1>2, <2>1
    <2> QED BY <1>1, <2>2
  <1>4. Range(r) = {q[k] : k \in 1..Len(q)} \ {q[1]}
    <2>1. ASSUME NEW x \in Range(r) PROVE x \in {q[k] : k \in 1..Len(q)} \ {q[1]}
      <3>1. PICK j \in 1..Len(q) - 1 : x = r[j]
        BY <1>1 DEF Range
      <3>2. x = q[j + 1] /\ j + 1 \in 1..Len(q) /\ 1 \in 1..Len(q) /\ j + 1 # 1
        BY <1>1, <3>1
      <3> QED BY <1>2, <3>2
    <2>2. ASSUME NEW k \in 1..Len(q), q[k] # q[1] PROVE q[k] \in Range(r)
      <3>1. k - 1 \in 1..Len(q) - 1 /\ (k - 1) + 1 = k
        BY <1>1, <2>2
      <3>2. r[k - 1] = q[k] /\ k - 1 \in DOMAIN r
        BY <1>1, <3>1
      <3> QED BY <3>2 DEF Range
    <2> QED BY <2>1, <2>2
  <1>5. S = {q[k] : k \in 1..Len(q)}
    BY <1>1 DEF Lists, Range
  <1>6. q[1] \in S
    BY <1>1, <1>5
  <1> QED BY <1>1, <1>3, <1>4, <1>5, <1>6 DEF Lists, r

Queued == {p \in Process : pc[p] = "queued"}

\* The process at p goes on to another locked step, or releases the mutex.
Moves(p) ==
    /\ pc[p] \in LockedSteps /\ queue' = queue
    /\ \/ \E s \in LockedSteps : holder' = holder /\ pc' = [pc EXCEPT ![p] = s]
       \/ holder' = Nobody /\ pc' = [pc EXCEPT ![p] = "idle"]

LEMMA TurnHolder ==
  ASSUME TypeOK, TurnInv, NEW p \in Process, Moves(p)
  PROVE  TurnInv'
  <1>1. pc \in [Process -> Step] /\ "queued" \notin LockedSteps /\ holder \in Process \cup {Nobody}
    BY DEF TypeOK, LockedSteps, PatchSteps
  <1>2. Queued' = Queued /\ queue' = queue
    BY <1>1 DEF Queued, Moves
  <1>3. holder' # Nobody => pc'[holder'] \in LockedSteps
    BY <1>1 DEF TurnInv, Moves
  <1> QED BY <1>2, <1>3 DEF TurnInv, Queued

\* A process that is idle comes to wait.
LEMMA TurnEnqueue ==
  ASSUME TypeOK, TurnInv, NEW p \in Process, NEW o, Enqueue(p, o)
  PROVE  TurnInv'
  <1>1. pc \in [Process -> Step] /\ queue \in Seq(Process) /\ holder \in Process \cup {Nobody}
    BY DEF TypeOK
  <1>2. /\ pc[p] = "idle" /\ pc' = [pc EXCEPT ![p] = "queued"]
        /\ queue' = Append(queue, p) /\ holder' = holder
    BY DEF Enqueue
  <1>3. p \notin Queued /\ Queued' = Queued \cup {p}
    BY <1>1, <1>2 DEF Queued
  <1>4. Lists(queue, Queued)
    BY DEF TurnInv, Lists, Queued
  <1>5. Lists(queue', Queued')
    BY <1>1, <1>2, <1>3, <1>4, ListsAppend
  <1>6. holder' # Nobody => pc'[holder'] \in LockedSteps
    BY <1>1, <1>2 DEF TurnInv, LockedSteps, PatchSteps
  <1> QED BY <1>5, <1>6 DEF TurnInv, Lists, Queued

\* The mutex goes to the first who waits.
LEMMA TurnGrant == TypeOK /\ TurnInv /\ Grant => TurnInv'
  <1> SUFFICES ASSUME TypeOK, TurnInv, Grant PROVE TurnInv'
    OBVIOUS
  <1> DEFINE p == Head(queue)
  <1>1. pc \in [Process -> Step] /\ queue \in Seq(Process) /\ queue # <<>>
    BY DEF TypeOK, Grant
  <1>2. Lists(queue, Queued)
    BY DEF TurnInv, Lists, Queued
  <1>3. Lists(Tail(queue), Queued \ {p}) /\ p \in Process
    BY <1>1, <1>2, ListsTail
  <1>4. FirstStep(op[p]) \in LockedSteps /\ "queued" \notin LockedSteps
    BY DEF FirstStep, LockedSteps, PatchSteps
  <1>5. holder' = p /\ queue' = Tail(queue) /\ pc' = [pc EXCEPT ![p] = FirstStep(op[p])]
    BY DEF Grant
  <1> HIDE DEF p
  <1>6. Queued' = Queued \ {p}
    BY <1>1, <1>3, <1>4, <1>5 DEF Queued
  <1>7. pc'[holder'] \in LockedSteps
    BY <1>1, <1>3, <1>4, <1>5
  <1> QED BY <1>3, <1>5, <1>6, <1>7 DEF TurnInv, Lists, Queued

\* One who waits gives up.
LEMMA TurnCancel == \A c \in Client : TypeOK /\ TurnInv /\ CancelQueued(c) => TurnInv'
  <1> SUFFICES ASSUME TypeOK, TurnInv, NEW c \in Client, CancelQueued(c) PROVE TurnInv'
    OBVIOUS
  <1>1. pc \in [Process -> Step] /\ queue \in Seq(Process) /\ c \in Process
        /\ holder \in Process \cup {Nobody}
    BY DEF TypeOK, Process
  <1>2. Lists(queue, Queued)
    BY DEF TurnInv, Lists, Queued
  <1>3. PICK i \in DOMAIN queue : queue[i] = c /\ queue' = RemoveAt(queue, i)
    BY DEF CancelQueued
  <1>4. Lists(queue', Queued \ {c}) /\ c \in Queued
    BY <1>1, <1>2, <1>3, ListsRemove
  <1>5. pc' = [pc EXCEPT ![c] = "idle"] /\ holder' = holder
    BY DEF CancelQueued
  <1>6. Queued' = Queued \ {c}
    BY <1>1, <1>5 DEF Queued
  <1>7. holder' # Nobody => pc'[holder'] \in LockedSteps
    BY <1>1, <1>4, <1>5 DEF TurnInv, Queued, LockedSteps, PatchSteps
  <1> QED BY <1>4, <1>6, <1>7 DEF TurnInv, Lists, Queued

\* SIGTERM takes the worker out and puts the shutdown future in.
LEMMA TurnSigterm == TypeOK /\ TurnInv /\ AbortInv /\ Sigterm => TurnInv'
  <1> SUFFICES ASSUME TypeOK, TurnInv, AbortInv, Sigterm PROVE TurnInv'
    OBVIOUS
  <1>1. /\ pc \in [Process -> Step] /\ queue \in Seq(Process) /\ holder \in Process \cup {Nobody}
        /\ Worker \in Process /\ Shutdown \in Process /\ Worker # Shutdown
        /\ Nobody \notin Process
    BY ProcessAssumption DEF TypeOK, Process
  <1>2. Lists(queue, Queued)
    BY DEF TurnInv, Lists, Queued
  <1>3. /\ pc' = [pc EXCEPT ![Worker] = "idle", ![Shutdown] = "queued"]
        /\ holder' = IF holder = Worker THEN Nobody ELSE holder
    BY DEF Sigterm
  <1>4. pc[Shutdown] = "idle"
    BY DEF Sigterm, AbortInv
  <1>5. Queued' = (Queued \ {Worker}) \cup {Shutdown} /\ Shutdown \notin Queued
    BY <1>1, <1>3, <1>4 DEF Queued
  <1>6. Lists(queue', Queued')
    <2>1. CASE pc[Worker] # "queued" /\ queue' = Append(queue, Shutdown)
      <3>1. Queued \ {Worker} = Queued
        BY <2>1 DEF Queued
      <3> QED BY <1>1, <1>2, <1>5, <2>1, <3>1, ListsAppend
    <2>2. CASE \E i \in DOMAIN queue :
                  queue[i] = Worker /\ queue' = Append(RemoveAt(queue, i), Shutdown)
      <3>1. PICK i \in DOMAIN queue :
                queue[i] = Worker /\ queue' = Append(RemoveAt(queue, i), Shutdown)
        BY <2>2
      <3> DEFINE q == RemoveAt(queue, i)
      <3>2. q \in Seq(Process) /\ Lists(q, Queued \ {Worker})
        BY <1>1, <1>2, <3>1, ListsRemove
      <3>3. Shutdown \notin Queued \ {Worker} /\ queue' = Append(q, Shutdown)
        BY <1>5, <3>1
      <3> HIDE DEF q
      <3> QED BY <1>1, <1>5, <3>2, <3>3, ListsAppend
    <2> QED BY <2>1, <2>2 DEF Sigterm
  <1>7. holder' # Nobody => pc'[holder'] \in LockedSteps
    <2> SUFFICES ASSUME holder' # Nobody PROVE pc'[holder'] \in LockedSteps
      OBVIOUS
    <2>1. holder' = holder /\ holder # Worker /\ holder \in Process
      BY <1>1, <1>3
    <2>2. pc[holder] \in LockedSteps
      BY <2>1 DEF TurnInv
    <2>3. holder # Shutdown
      BY <1>4, <2>2 DEF LockedSteps, PatchSteps
    <2> QED BY <1>1, <1>3, <2>1, <2>2, <2>3
  <1> QED BY <1>6, <1>7 DEF TurnInv, Lists, Queued

\* Nothing of the mutex outlives the process.
LEMMA TurnReset ==
  ASSUME queue' = <<>>, holder' = Nobody, pc' = [p \in Process |-> "idle"]
  PROVE  TurnInv'
  <1>1. DOMAIN queue' = {}
    BY EmptySeq
  <1>2. IsInjective(queue')
    BY <1>1 DEF IsInjective
  <1>3. Range(queue') = {}
    BY <1>1 DEF Range
  <1>4. {p \in Process : pc'[p] = "queued"} = {}
    OBVIOUS
  <1> QED BY <1>2, <1>3, <1>4 DEF TurnInv

\* What the holder of the mutex does.
LEMMA ApplyMoves == \A p \in Process : Apply(p) => Moves(p) /\ proc' = proc
  <1> SUFFICES ASSUME NEW p \in Process, Apply(p) PROVE Moves(p) /\ proc' = proc
    OBVIOUS
  <1>1. CASE ApplyReads(p)
    BY <1>1 DEF ApplyReads, Moves, LockedSteps, PatchSteps
  <1>2. CASE ApplyRefuses(p)
    BY <1>2 DEF ApplyRefuses, Release, Moves, LockedSteps, PatchSteps
  <1>3. CASE ApplyOn(p)
    BY <1>3 DEF ApplyOn, Release, Moves, LockedSteps, PatchSteps
  <1>4. CASE ApplyOff(p)
    BY <1>4 DEF ApplyOff, Release, Moves, LockedSteps, PatchSteps
  <1>5. CASE ConfigureFails(p)
    BY <1>5 DEF ConfigureFails, Release, Moves, LockedSteps, PatchSteps
  <1> QED BY <1>1, <1>2, <1>3, <1>4, <1>5 DEF Apply

LEMMA EditMoves == \A c \in Client : Edit(c) \/ CancelHolding(c) => Moves(c) /\ proc' = proc
  <1> SUFFICES ASSUME NEW c \in Client, Edit(c) \/ CancelHolding(c)
               PROVE  Moves(c) /\ proc' = proc
    OBVIOUS
  <1>1. CASE EditChecks(c)
    BY <1>1 DEF EditChecks, Release, Moves, LockedSteps, PatchSteps
  <1>2. CASE SaveCreate(c) \/ SaveUpdate(c) \/ Delete(c) \/ EditRefused(c)
    BY <1>2 DEF SaveCreate, SaveUpdate, Delete, EditRefused, Release, Moves, LockedSteps, PatchSteps
  <1>3. CASE CancelHolding(c)
    BY <1>3 DEF CancelHolding, Release, Moves
  <1> QED BY <1>1, <1>2, <1>3 DEF Edit

LEMMA WorkerMoves == PollRows \/ PollRowsFail \/ PollForwards \/ PollEnd => Moves(Worker) /\ proc' = proc
  <1> SUFFICES ASSUME PollRows \/ PollRowsFail \/ PollForwards \/ PollEnd
               PROVE  Moves(Worker) /\ proc' = proc
    OBVIOUS
  <1>1. CASE PollRows
    BY <1>1 DEF PollRows, Moves, LockedSteps, PatchSteps
  <1>2. CASE PollRowsFail \/ PollEnd
    BY <1>2 DEF PollRowsFail, PollEnd, Release, Moves, LockedSteps, PatchSteps
  <1>3. CASE PollForwards
    BY <1>3 DEF PollForwards, Moves, LockedSteps, PatchSteps
  <1> QED BY <1>1, <1>2, <1>3

LEMMA ShutdownMoves == ShutdownStep => Moves(Shutdown) /\ proc' # "stopping"
                                       /\ pc' = [pc EXCEPT ![Shutdown] = "idle"]
  BY DEF ShutdownStep, ShutdownConfigures, ShutdownConfigureFails, Release, Moves, LockedSteps,
         PatchSteps

\* A step of a request or of the worker leaves the shutdown future where it is.
LEMMA AbortMoves ==
  ASSUME TypeOK, AbortInv, NEW p \in Client \cup {Worker}, pc[p] # "idle", proc' = proc,
         NEW s, pc' = [pc EXCEPT ![p] = s]
  PROVE  AbortInv'
  BY ProcessAssumption DEF AbortInv, TypeOK, Process

\* The mutex and those who wait for it are sound.
MutexInv == TurnInv /\ AbortInv

LEMMA MutexWork ==
  ASSUME TypeOK, MutexInv, NEW p \in Client \cup {Worker}, Moves(p), proc' = proc
  PROVE  MutexInv'
  <1>1. p \in Process /\ pc[p] # "idle" /\ \E s : pc' = [pc EXCEPT ![p] = s]
    BY DEF Process, Moves, LockedSteps, PatchSteps
  <1> QED BY <1>1, TurnHolder, AbortMoves DEF MutexInv

LEMMA MutexClient ==
  ASSUME TypeOK, MutexInv, NEW c \in Client, Arrive(c) \/ CancelQueued(c)
  PROVE  MutexInv'
  <1>0. c \in Process /\ c # Worker /\ c # Shutdown /\ pc \in [Process -> Step]
    BY ProcessAssumption DEF Process, TypeOK
  <1>1. TurnInv'
    BY <1>0, TurnEnqueue, TurnCancel DEF MutexInv, Arrive
  <1>2. AbortInv'
    <2>1. proc' = proc /\ \E s : pc' = [pc EXCEPT ![c] = s]
      BY DEF Arrive, Enqueue, CancelQueued
    <2> QED BY <1>0, <2>1 DEF MutexInv, AbortInv
  <1> QED BY <1>1, <1>2 DEF MutexInv

LEMMA MutexPoll == TypeOK /\ MutexInv /\ Poll => MutexInv'
  <1> SUFFICES ASSUME TypeOK, MutexInv, Poll PROVE MutexInv'
    OBVIOUS
  <1>0. Worker \in Process /\ Worker # Shutdown /\ pc \in [Process -> Step]
    BY ProcessAssumption DEF Process, TypeOK
  <1>1. TurnInv'
    BY <1>0, TurnEnqueue DEF MutexInv, Poll
  <1>2. AbortInv'
    BY <1>0 DEF MutexInv, AbortInv, Poll, Enqueue
  <1> QED BY <1>1, <1>2 DEF MutexInv

LEMMA MutexGrant == TypeOK /\ MutexInv /\ Grant => MutexInv'
  <1> SUFFICES ASSUME TypeOK, MutexInv, Grant PROVE MutexInv'
    OBVIOUS
  <1>1. TurnInv'
    BY TurnGrant DEF MutexInv
  <1>2. AbortInv'
    <2>1. pc \in [Process -> Step] /\ queue \in Seq(Process) /\ Lists(queue, Queued)
      BY DEF TypeOK, MutexInv, TurnInv, Lists, Queued
    <2>2. Head(queue) \in Queued
      BY <2>1, ListsTail DEF Grant
    <2>3. \A o : FirstStep(o) # "idle"
      BY DEF FirstStep
    <2>4. proc' = proc /\ \E o : pc' = [pc EXCEPT ![Head(queue)] = FirstStep(o)]
      BY DEF Grant
    <2>5. \A p \in Process : pc'[p] = "idle" <=> pc[p] = "idle"
      BY <2>1, <2>2, <2>3, <2>4 DEF Queued
    <2> QED BY <2>4, <2>5 DEF MutexInv, AbortInv, Process
  <1> QED BY <1>1, <1>2 DEF MutexInv

LEMMA MutexShutdown == TypeOK /\ MutexInv /\ ShutdownStep => MutexInv'
  <1> SUFFICES ASSUME TypeOK, MutexInv, ShutdownStep PROVE MutexInv'
    OBVIOUS
  <1>0. /\ Shutdown \in Process /\ Worker \in Process /\ Worker # Shutdown
        /\ pc \in [Process -> Step]
    BY ProcessAssumption DEF Process, TypeOK
  <1>1. TurnInv'
    BY <1>0, ShutdownMoves, TurnHolder DEF MutexInv
  <1>2. pc[Shutdown] # "idle" /\ pc' = [pc EXCEPT ![Shutdown] = "idle"] /\ proc' # "stopping"
    BY ShutdownMoves DEF Moves, LockedSteps, PatchSteps
  <1>3. AbortInv'
    BY <1>0, <1>2 DEF MutexInv, AbortInv
  <1> QED BY <1>1, <1>3 DEF MutexInv

LEMMA MutexLife == TypeOK /\ MutexInv /\ Life => MutexInv'
  <1> SUFFICES ASSUME TypeOK, MutexInv, Life PROVE MutexInv'
    OBVIOUS
  <1>0. /\ Shutdown \in Process /\ Worker \in Process /\ Worker # Shutdown
        /\ pc \in [Process -> Step]
    BY ProcessAssumption DEF Process, TypeOK
  <1>1. CASE Boot \/ BootReset \/ BootResetFails \/ BootRead \/ BootSeed
    <2>1. UNCHANGED <<holder, queue, pc>> /\ proc # "serving" /\ proc # "stopping" /\ proc' # "stopping"
      BY <1>1 DEF Boot, BootReset, BootResetFails, BootRead, BootSeed, lockVars
    <2> QED BY <2>1 DEF MutexInv, TurnInv, AbortInv
  <1>2. CASE Sigterm
    <2>1. TurnInv'
      BY <1>2, TurnSigterm DEF MutexInv
    <2>2. pc' = [pc EXCEPT ![Worker] = "idle", ![Shutdown] = "queued"] /\ proc' = "stopping"
      BY <1>2 DEF Sigterm
    <2> QED BY <1>0, <2>1, <2>2 DEF MutexInv, AbortInv
  <1>3. CASE Exit \/ Crash
    <2>1. /\ queue' = <<>> /\ holder' = Nobody /\ pc' = [p \in Process |-> "idle"]
          /\ proc' # "stopping"
      BY <1>3 DEF Exit, Crash, Reset
    <2>2. TurnInv'
      BY <2>1, TurnReset
    <2> QED BY <1>0, <2>1, <2>2 DEF MutexInv, AbortInv
  <1> QED BY <1>1, <1>2, <1>3 DEF Life

\* Whoever waits for the control mutex is in its queue, once, until it is granted
\* or given up; whoever holds it is on the way to its release; the worker is gone
\* once SIGTERM has come, and the shutdown future stays until the engine has
\* answered or failed (tokio's mutex; main.rs: shutdown).
THEOREM MutexIsNeverLost == Spec => [](TurnInv /\ AbortInv)
  <1>1. Init => MutexInv
    <2> SUFFICES ASSUME Init PROVE MutexInv
      OBVIOUS
    <2>1. queue = <<>> /\ holder = Nobody /\ pc = [p \in Process |-> "idle"] /\ proc = "down"
      BY DEF Init
    <2>2. DOMAIN queue = {}
      BY <2>1, EmptySeq
    <2>3. TurnInv
      BY <2>1, <2>2 DEF TurnInv, IsInjective, Range
    <2> QED BY <2>1, <2>3 DEF MutexInv, AbortInv, Process
  <1>2. TypeOK /\ MutexInv /\ [Next]_vars => MutexInv'
    <2> SUFFICES ASSUME TypeOK, MutexInv, [Next]_vars PROVE MutexInv'
      OBVIOUS
    <2>1. CASE Grant
      BY <2>1, MutexGrant
    <2>2. ASSUME NEW c \in Client,
                 Arrive(c) \/ Request(c) \/ CancelQueued(c) \/ CancelHolding(c)
          PROVE  MutexInv'
      BY <2>2, MutexClient, ApplyMoves, EditMoves, MutexWork DEF Request, Process
    <2>3. CASE WorkerStep
      BY <2>3, MutexPoll, ApplyMoves, WorkerMoves, MutexWork DEF WorkerStep, Process
    <2>4. CASE ShutdownStep
      BY <2>4, MutexShutdown
    <2>5. CASE Life
      BY <2>5, MutexLife
    <2>6. CASE LateEdit \/ Engine \/ UNCHANGED vars
      <3>1. UNCHANGED <<proc, holder, queue, pc>>
        BY <2>6 DEF LateEdit, LateCreate, LateUpdate, LateDelete, Settles, Engine, LateApply,
                    EngineStops, EngineStarts, ObsToggles, lockVars, vars
      <3> QED BY <3>1 DEF MutexInv, TurnInv, AbortInv
    <2> QED BY <2>1, <2>2, <2>3, <2>4, <2>5, <2>6 DEF Next
  <1>3. MutexInv => TurnInv /\ AbortInv
    BY DEF MutexInv
  <1> QED BY <1>1, <1>2, <1>3, TypeCorrect, PTL DEF Spec

\* Every other step leaves the relay off and the engine's list empty, if they were.
LEMMA OthersReviveNothing ==
  \/ \E c \in Client : Arrive(c) \/ Edit(c) \/ CancelQueued(c) \/ CancelHolding(c)
  \/ Poll \/ PollRows \/ PollRowsFail \/ PollForwards \/ PollEnd
  \/ ShutdownStep \/ Life \/ Engine \/ LateEdit \/ Grant \/ UNCHANGED vars
  => ~Revived
  <1>1. ASSUME NEW c \in Client, Arrive(c) \/ Edit(c) \/ CancelQueued(c) \/ CancelHolding(c)
        PROVE  ~Revived
    BY <1>1 DEF Revived, Arrive, Edit, EditChecks, SaveCreate, SaveUpdate, Delete, EditRefused,
                CancelQueued, CancelHolding, GiveUp, editVars, controlVars, engineVars
  <1>2. CASE Poll \/ PollRows \/ PollRowsFail \/ PollForwards \/ PollEnd
    BY <1>2 DEF Revived, Poll, PollRows, PollRowsFail, PollForwards, PollEnd, editVars,
                controlVars, engineVars
  <1>3. CASE ShutdownStep
    BY <1>3 DEF Revived, ShutdownStep, ShutdownConfigures, ShutdownConfigureFails, EngineRuns,
                GiveUp, editVars, controlVars
  <1>4. CASE Life
    BY <1>4 DEF Revived, Life, Boot, BootReset, BootResetFails, BootRead, BootSeed, Sigterm,
                Exit, Crash, Reset, EngineRuns, GiveUp, editVars, controlVars, engineVars
  <1>5. CASE Engine
    BY <1>5 DEF Revived, Engine, LateApply, EngineStops, EngineStarts, ObsToggles, editVars, controlVars
  <1>6. CASE LateEdit \/ Grant \/ UNCHANGED vars
    BY <1>6 DEF Revived, LateEdit, LateCreate, LateUpdate, LateDelete, Settles, Grant, vars,
                controlVars, engineVars
  <1> QED BY <1>1, <1>2, <1>3, <1>4, <1>5, <1>6

\* The relay is turned on only by a start, or by the second half of a restart;
\* and once the worker is aborted only they, and what was given up on, make the
\* engine forward (streaming.rs: apply; dashboard.rs: run; main.rs: shutdown).
THEOREM OnlyStartEnablesRelay == Spec => OnlyStartEnables
  <1> DEFINE Starting == \E c \in Client : holder = c /\ op[c] = "start"
  <1>1. IInv /\ AbortInv /\ [Next]_vars => (Revived => Starting)
    <2> SUFFICES ASSUME IInv, AbortInv, [Next]_vars, Revived PROVE Starting
      OBVIOUS
    <2>1. ASSUME NEW p \in Process, Apply(p) PROVE Starting
      <3>1. pc[p] = "on_patch"
        <4>1. pc[p] = "off_patch" => call = <<>>
          BY DEF IInv, CallInv
        <4>2. ~(ApplyReads(p) \/ ApplyRefuses(p) \/ ConfigureFails(p))
          BY DEF Revived, ApplyReads, ApplyRefuses, ConfigureFails, GiveUp, editVars, controlVars,
                 engineVars
        <4>3. ~ApplyOff(p)
          BY <4>1 DEF Revived, ApplyOff, EngineRuns
        <4> QED BY <2>1, <4>2, <4>3 DEF Apply, ApplyOn
      <3>2. p # Worker
        <4>1. ASSUME p = Worker PROVE FALSE
          <5>1. relayEnabled /\ proc = "serving"
            BY <3>1, <4>1 DEF IInv, StepRoles, AbortInv
          <5> QED BY <5>1 DEF Revived
        <4> QED BY <4>1
      <3>3. p \in Client /\ op[p] = "start"
        BY <3>1, <3>2 DEF IInv, StepRoles, Process
      <3>4. holder = p
        BY <3>1 DEF IInv, LockInv, LockedSteps, PatchSteps
      <3> QED BY <3>3, <3>4
    <2> QED BY <2>1, OthersReviveNothing DEF Next, Request, WorkerStep, Process
  <1>2. Spec => [][Revived => Starting]_vars
    BY <1>1, InductiveInvariant, MutexIsNeverLost, PTL DEF Spec
  <1> QED BY <1>2 DEF OnlyStartEnables

\* While the engine runs what it was last told to, the dashboard shows for
\* each destination the status of its own forwarder.
THEOREM StatusesAreOwn == Spec => StatusOfOwnForwarder
  <1> DEFINE Own == view' # view /\ ~strayed =>
                      \A d \in DOMAIN view' : view'[d] \in Dest => view'[d] = d
  <1>1. IInv /\ [Next]_vars => Own
    <2> SUFFICES ASSUME IInv, [Next]_vars, view' # view, ~strayed,
                        NEW d \in DOMAIN view', view'[d] \in Dest
                 PROVE  view'[d] = d
      OBVIOUS
    <2>1. CASE PollForwards
      <3>1. PICK known \in {sample.online /\ engineUp, FALSE} :
              view' = [e \in MappedRows |-> StatusOf(e, known, Answer)]
        BY <2>1 DEF PollForwards
      <3>2. d \in MappedRows /\ view'[d] = StatusOf(d, known, Answer)
        BY <3>1
      <3>3. Worker \in Process /\ pc[Worker] = "poll_forwards"
        BY <2>1 DEF PollForwards, Process
      <3>4. Running /\ Controlling
        BY <3>3, RestRunning, IInvIsRest
      <3>6. IsInjective(active) /\ engine \in {<<>>, active}
        BY <3>4 DEF IInv, PositionsInv, EngineFollows
      <3>7. PICK e \in DOMAIN Answer :
              d \in DOMAIN active /\ Answer[e] = active[d] /\ view'[d] = e
        BY <3>2, StatusAssumption DEF StatusOf, PositionOf
      <3>8. Answer = active
        <4>1. DOMAIN <<>> = {}
          BY EmptySeq
        <4> QED BY <3>6, <3>7, <4>1 DEF Answer
      <3>9. e = d
        BY <3>6, <3>7, <3>8 DEF IsInjective
      <3> QED BY <3>7, <3>9
    <2>2. CASE view' = <<>>
      <3>1. DOMAIN <<>> = {}
        BY EmptySeq
      <3> QED BY <2>2, <3>1
    <2>3. CASE ~PollForwards
      <3>1. ASSUME NEW p \in Process, Apply(p) PROVE view' = <<>>
        BY <3>1 DEF Apply, ApplyReads, ApplyRefuses, ApplyOn, ApplyOff, ConfigureFails,
                    Release, workerVars
      <3>2. ASSUME NEW c \in Client, Arrive(c) \/ Edit(c) \/ CancelQueued(c) \/ CancelHolding(c)
            PROVE  view' = <<>>
        BY <3>2 DEF Arrive, Edit, EditChecks, SaveCreate, SaveUpdate, Delete, EditRefused,
                    CancelQueued, CancelHolding, Release, workerVars
      <3>3. ASSUME Poll \/ PollRows \/ PollRowsFail \/ PollEnd PROVE view' = <<>>
        BY <3>3 DEF Poll, PollRows, PollRowsFail, PollEnd, Release
      <3>4. ASSUME ShutdownStep PROVE view' = <<>>
        BY <3>4 DEF ShutdownStep, ShutdownConfigures, ShutdownConfigureFails, Release
      <3>5. ASSUME Life PROVE view' = <<>>
        BY <3>5 DEF Life, Boot, BootReset, BootResetFails, BootRead, BootSeed, Sigterm,
                    Exit, Crash, Reset, workerVars
      <3>6. ASSUME Engine PROVE view' = <<>>
        BY <3>6 DEF Engine, LateApply, EngineStops, EngineStarts, ObsToggles, workerVars
      <3>7. ASSUME LateEdit \/ Grant \/ UNCHANGED vars PROVE view' = <<>>
        BY <3>7 DEF LateEdit, LateCreate, LateUpdate, LateDelete, Settles, Grant, vars, workerVars
      <3>8. view' = <<>>
        BY <2>3, <3>1, <3>2, <3>3, <3>4, <3>5, <3>6, <3>7
        DEF Next, Request, WorkerStep, Process
      <3> QED BY <2>2, <3>8
    <2> QED BY <2>1, <2>3
  <1>2. Spec => [][Own]_vars
    BY <1>1, InductiveInvariant, PTL DEF Spec
  <1> QED BY <1>2 DEF StatusOfOwnForwarder
-----------------------------------------------------------------------------
(***************************************************************************)
(* Relay control implements RelayContract.                                 *)
(***************************************************************************)
\* A late edit has changed the table since the active list was read.
IsOutdated == "active" \in outdated

\* A step the contract does not see.
LEMMA ContractStutter ==
  ASSUME UNCHANGED <<rows, relayEnabled, engine, strayed, Controlling, IsOutdated>>
  PROVE  UNCHANGED Contract!vars
  BY DEF Contract!vars, Controlling, IsOutdated

\* A change of the table while the relay is off is the contract's Edit.
LEMMA ContractEdit ==
  ASSUME TypeOK', ~relayEnabled,
         UNCHANGED <<relayEnabled, engine, strayed, Controlling, IsOutdated>>
  PROVE  Contract!Next
  <1>1. IsList(ForwardList(rows'))
    BY ForwardListType DEF TypeOK
  <1>2. Contract!IsList(ForwardList(rows'))
    BY <1>1 DEF IsList, Contract!IsList
  <1> QED BY <1>2 DEF Contract!Next, Contract!Edit, Controlling, IsOutdated

\* A table apply(true) accepts gives a list that is not empty.
LEMMA ForwardListNotEmpty ==
  ASSUME NEW rs, CanForward(rs)
  PROVE  ForwardList(rs) # <<>>
  <1>1. DOMAIN ForwardList(rs) # {}
    BY DEF CanForward, ForwardList
  <1>2. DOMAIN <<>> = {}
    BY EmptySeq
  <1> QED BY <1>1, <1>2

\* Every step of apply is a step of the contract or a stutter.
LEMMA ContractApply ==
  ASSUME IInv, NEW p \in Process, Apply(p)
  PROVE  Contract!Next \/ UNCHANGED Contract!vars
  <1>0. pc[p] # "idle" /\ UNCHANGED <<proc, rows>>
    BY DEF Apply, ApplyReads, ApplyRefuses, ApplyOn, ApplyOff, ConfigureFails
  <1>1. Controlling /\ Controlling'
    BY <1>0, RestRunning, IInvIsRest DEF Controlling
  <1>2. CASE ApplyReads(p) \/ ApplyRefuses(p) \/ ConfigureFails(p)
    <2>1. UNCHANGED <<relayEnabled, engine, strayed, IsOutdated>>
      BY <1>2 DEF ApplyReads, ApplyRefuses, ConfigureFails, GiveUp, editVars, controlVars,
                  engineVars, IsOutdated
    <2> QED BY <1>0, <1>1, <2>1, ContractStutter
  <1>3. CASE ApplyOn(p)
    <2>1. CASE "call" \in outdated
      <3>1. Contract!IsList(engine')
        BY <1>3 DEF IInv, TypeOK, ApplyOn, EngineRuns, IsList, Contract!IsList
      <3> QED BY <1>0, <1>3, <2>1, <3>1 DEF ApplyOn, Contract!Next, Contract!SwitchOnOutdated
    <2>2. CASE "call" \notin outdated
      <3>1. CanForward(rows) /\ call = ForwardList(rows)
        BY <1>3, <2>2 DEF IInv, CallInv, ApplyOn
      <3>2. ForwardList(rows) # <<>>
        BY <3>1, ForwardListNotEmpty
      <3> QED BY <1>0, <1>1, <1>3, <2>2, <3>1, <3>2
          DEF ApplyOn, EngineRuns, Contract!Next, Contract!SwitchOn
    <2> QED BY <2>1, <2>2
  <1>4. CASE ApplyOff(p)
    <2>1. call = <<>>
      BY <1>4 DEF IInv, CallInv, ApplyOff
    <2> QED BY <1>0, <1>1, <1>4, <2>1
        DEF ApplyOff, EngineRuns, Contract!Next, Contract!SwitchOff
  <1> QED BY <1>2, <1>3, <1>4 DEF Apply

\* A late edit is the contract's Edit with the relay off, and its Creep with it on.
LEMMA ContractLate ==
  ASSUME IInv, TypeOK', LateEdit
  PROVE  Contract!Next
  <1>1. /\ UNCHANGED <<relayEnabled, engine, strayed, Controlling>>
        /\ IsOutdated' <=> relayEnabled
    BY DEF LateEdit, LateCreate, LateUpdate, LateDelete, Settles, InUse, IsOutdated, Controlling,
           controlVars, engineVars
  <1>2. CASE ~relayEnabled
    <2>1. UNCHANGED IsOutdated
      BY <1>1, <1>2 DEF IInv, LateInv, IsOutdated
    <2> QED BY <1>1, <1>2, <2>1, ContractEdit
  <1>3. CASE relayEnabled
    <2>1. IsList(ForwardList(rows'))
      BY ForwardListType DEF TypeOK
    <2>2. Contract!IsList(ForwardList(rows'))
      BY <2>1 DEF IsList, Contract!IsList
    <2> QED BY <1>1, <1>3, <2>2 DEF Contract!Next, Contract!Creep, IsOutdated
  <1> QED BY <1>2, <1>3

\* Every step of a request is a step of the contract or a stutter.
LEMMA ContractClient ==
  ASSUME IInv, TypeOK', NEW c \in Client,
         Arrive(c) \/ Edit(c) \/ CancelQueued(c) \/ CancelHolding(c)
  PROVE  Contract!Next \/ UNCHANGED Contract!vars
  <1>1. UNCHANGED <<relayEnabled, engine, strayed, Controlling, IsOutdated>>
    BY DEF Arrive, Edit, EditChecks, SaveCreate, SaveUpdate, Delete, EditRefused,
           CancelQueued, CancelHolding, Unsettle, GiveUp, editVars, controlVars, engineVars,
           Controlling, IsOutdated
  <1>2. CASE UNCHANGED rows
    BY <1>1, <1>2, ContractStutter
  <1>3. CASE rows' # rows
    <2>1. pc[c] = "commit" /\ c \in Process
      BY <1>3 DEF Arrive, Edit, EditChecks, SaveCreate, SaveUpdate, Delete, EditRefused,
                  CancelQueued, CancelHolding, Process
    <2>2. ~relayEnabled
      BY <2>1 DEF IInv, CallInv
    <2> QED BY <1>1, <2>2, ContractEdit
  <1> QED BY <1>2, <1>3

\* Boot, shutdown and crash are steps of the contract or stutters.
LEMMA ContractLife ==
  ASSUME IInv, TypeOK', Life
  PROVE  Contract!Next \/ UNCHANGED Contract!vars
  <1>1. CASE Boot \/ BootRead \/ BootSeed
    <2>1. ~Running /\ UNCHANGED <<relayEnabled, engine, strayed, Controlling, IsOutdated>>
      BY <1>1 DEF Boot, BootRead, BootSeed, Running, Controlling, editVars, controlVars,
                  engineVars, IsOutdated
    <2>2. ~relayEnabled
      BY <2>1 DEF IInv, LifeInv
    <2> QED BY <2>1, <2>2, ContractEdit
  <1>2. CASE BootReset
    <2>1. ~relayEnabled' /\ "active" \notin outdated'
      BY <1>2 DEF BootReset, LateInv, editVars, IInv, LifeInv, Running, TypeOK, controlVars
    <2> QED BY <1>2, <2>1 DEF BootReset, EngineRuns, Controlling, TypeOK,
                              Contract!Next, Contract!SwitchOff
  <1>3. CASE BootResetFails
    <2>1. UNCHANGED <<rows, relayEnabled, engine, strayed, Controlling, IsOutdated>>
      BY <1>3 DEF BootResetFails, GiveUp, Controlling, editVars, controlVars, IsOutdated
    <2> QED BY <2>1, ContractStutter
  <1>4. CASE Sigterm
    <2>1. UNCHANGED <<rows, relayEnabled, engine, strayed, Controlling, IsOutdated>>
      BY <1>4 DEF Sigterm, GiveUp, Controlling, editVars, controlVars, IsOutdated, engineVars
    <2> QED BY <2>1, ContractStutter
  <1>5. CASE Exit \/ Crash
    <2>1. ~relayEnabled' /\ ~Controlling' /\ UNCHANGED <<rows, engine>>
      BY <1>5 DEF Exit, Crash, Reset, GiveUp, Controlling, engineVars
    <2> QED BY <1>5, <2>1 DEF Exit, Crash, Reset, Contract!Next, Contract!Halt
  <1> QED BY <1>1, <1>2, <1>3, <1>4, <1>5 DEF Life

\* Every step of the shutdown future is a step of the contract or a stutter.
LEMMA ContractShutdown ==
  ASSUME IInv, ShutdownStep
  PROVE  Contract!Next \/ UNCHANGED Contract!vars
  <1>1. CASE ShutdownConfigures
    BY <1>1 DEF ShutdownConfigures, EngineRuns, Controlling, editVars, controlVars,
                Contract!Next, Contract!Silence
  <1>2. CASE ShutdownConfigureFails
    <2>1. pc[Shutdown] # "idle" /\ Shutdown \in Process
      BY <1>2 DEF ShutdownConfigureFails, Process
    <2>2. Controlling /\ Controlling'
      BY <1>2, <2>1, RestRunning, IInvIsRest DEF ShutdownConfigureFails, Controlling
    <2>3. UNCHANGED <<rows, relayEnabled, engine, strayed, IsOutdated>>
      BY <1>2 DEF ShutdownConfigureFails, GiveUp, editVars, controlVars, IsOutdated
    <2> QED BY <2>2, <2>3, ContractStutter
  <1> QED BY <1>1, <1>2 DEF ShutdownStep

\* Every step of MediaMTX and OBS is a step of the contract or a stutter.
LEMMA ContractEngine ==
  ASSUME IInv, TypeOK', Engine
  PROVE  Contract!Next \/ UNCHANGED Contract!vars
  <1>1. CASE LateApply
    <2>1. Contract!IsList(engine')
      BY DEF TypeOK, IsList, Contract!IsList
    <2> QED BY <1>1, <2>1 DEF LateApply, editVars, controlVars, Contract!Next, Contract!Stray
  <1>2. CASE EngineStops
    BY <1>2 DEF EngineStops, Controlling, editVars, controlVars, Contract!Next, Contract!Silence
  <1>3. CASE EngineStarts \/ ObsToggles
    <2>1. UNCHANGED <<rows, relayEnabled, engine, strayed, Controlling, IsOutdated>>
      BY <1>3 DEF EngineStarts, ObsToggles, Controlling, editVars, controlVars, IsOutdated
    <2> QED BY <2>1, ContractStutter
  <1> QED BY <1>1, <1>2, <1>3 DEF Engine

\* Every behaviour of the handlers, the worker, boot, shutdown, crashes and the
\* engine is one the contract allows: destinations change only while the relay
\* is off, and a commanded feed is empty or the enabled destinations.
THEOREM Implementation == Spec => ImplementsContract
  <1>1. Init => Contract!Init
    <2> SUFFICES ASSUME Init PROVE Contract!Init
      OBVIOUS
    <2>1. DOMAIN <<>> = {}
      BY EmptySeq
    <2>2. EnabledRows(<<>>) = {}
      BY <2>1 DEF EnabledRows
    <2>3. ForwardList(<<>>) \in [{} -> Nat]
      BY <2>2 DEF ForwardList
    <2>4. <<>> \in [{} -> Nat]
      BY <2>1, EmptySeq
    <2>5. ForwardList(<<>>) = <<>>
      BY <2>3, <2>4
    <2> QED BY <2>5 DEF Init, Contract!Init, Controlling
  <1>2. IInv /\ TypeOK' /\ [Next]_vars => [Contract!Next]_(Contract!vars)
    <2> SUFFICES ASSUME IInv, TypeOK', [Next]_vars
                 PROVE  Contract!Next \/ UNCHANGED Contract!vars
      OBVIOUS
    <2>1. CASE Grant \/ Poll \/ PollRows \/ PollRowsFail \/ PollForwards \/ PollEnd \/ UNCHANGED vars
      <3>1. UNCHANGED <<rows, relayEnabled, engine, strayed, Controlling, IsOutdated>>
        BY <2>1 DEF Grant, Poll, PollRows, PollRowsFail, PollForwards, PollEnd,
                    vars, editVars, controlVars, engineVars, Controlling, IsOutdated
      <3> QED BY <3>1, ContractStutter
    <2>2. ASSUME NEW p \in Process, Apply(p)
          PROVE  Contract!Next \/ UNCHANGED Contract!vars
      BY <2>2, ContractApply
    <2>3. ASSUME NEW c \in Client,
                 Arrive(c) \/ Edit(c) \/ CancelQueued(c) \/ CancelHolding(c)
          PROVE  Contract!Next \/ UNCHANGED Contract!vars
      BY <2>3, ContractClient
    <2>4. CASE ShutdownStep
      BY <2>4, ContractShutdown
    <2>5. CASE Life
      BY <2>5, ContractLife
    <2>6. CASE Engine
      BY <2>6, ContractEngine
    <2>7. CASE LateEdit
      BY <2>7, ContractLate
    <2> QED BY <2>1, <2>2, <2>3, <2>4, <2>5, <2>6, <2>7 DEF Next, Request, WorkerStep, Process
  <1> QED BY <1>1, <1>2, InductiveInvariant, TypeCorrect, PTL
      DEF Spec, ImplementsContract, Contract!Spec

\* The contract keeps its own promise.
LEMMA ContractInCommand == Contract!Spec => []Contract!InCommand
  <1>1. Contract!Init => Contract!InCommand
    BY DEF Contract!Init, Contract!InCommand
  <1>2. Contract!InCommand /\ [Contract!Next]_Contract!vars => Contract!InCommand'
    BY DEF Contract!InCommand, Contract!Next, Contract!vars, Contract!Edit, Contract!SwitchOn,
           Contract!SwitchOff, Contract!Silence, Contract!Stray, Contract!Creep,
           Contract!SwitchOnOutdated, Contract!Halt
  <1> QED BY <1>1, <1>2, PTL DEF Contract!Spec

\* Whoever knows the contract only knows this of the code: while the controller is
\* in command, the engine forwards to nothing that is not an enabled destination
\* of a relay that is on.
THEOREM ContractIsKept == Spec => []Contract!InCommand
  BY Implementation, ContractInCommand, PTL DEF ImplementsContract
=============================================================================
