--------------------------- MODULE ManagementProofs ---------------------------
(***************************************************************************)
(* A tenant keeps the one key that was made for it, and a walk through a   *)
(* listing misses no row, for any number of admins, tenants and audit rows *)
(* and any failures of PostgreSQL and KMS.                                 *)
(***************************************************************************)
EXTENDS ManagementInvariants, FiniteSetTheorems, TLAPS

-----------------------------------------------------------------------------
(* Steps *)

\* A call that leaves rows and keys alone, of a request that is not answered
\* 201, keeps the invariant if the request is fit for the step it goes to.
LEMMA OtherCalls ==
  ASSUME TenantsOK, UNCHANGED <<tenantRow, kmsKey>>,
         NEW r \in Requests, pc[r] # "done",
         NEW a, req' = [req EXCEPT ![r] = a],
         NEW step \in {"find", "createKey", "updateStatus", "done"} \cup WalkSteps,
         pc' = [pc EXCEPT ![r] = step],
         step \in AdminSteps => a \in AdminRequests,
         step = "updateStatus" => tenantRow[a.tenant] # Nil,
         NEW c \in Nat, c # 201 \/ c = code[r], code' = [code EXCEPT ![r] = c]
  PROVE  TenantsOK'
PROOF
  <1>1. code[r] # 201
    BY DEF TenantsOK, AdminOK
  <1>2. TenantTypeOK'
    BY DEF TenantsOK, TenantTypeOK, AdminSteps, WalkSteps
  <1>3. AdminOK'
    BY <1>1 DEF TenantsOK, TenantTypeOK, AdminOK, AdminSteps, WalkSteps
  <1>4. KeysOK'
    BY DEF TenantsOK, TenantTypeOK, KeysOK, TenantRows
  <1>5. CreateAnswerHolds'
    BY <1>1 DEF TenantsOK, TenantTypeOK, AdminOK, CreateAnswerHolds
  <1> QED
    BY <1>2, <1>3, <1>4, <1>5 DEF TenantsOK

\* In particular if it only answers.
LEMMA PlainAnswer ==
  ASSUME TenantsOK, UNCHANGED <<tenantRow, kmsKey, req>>,
         NEW r \in Requests, pc[r] # "done", pc' = [pc EXCEPT ![r] = "done"],
         code'[r] \in Nat \ {201}, code' = [code EXCEPT ![r] = code'[r]]
  PROVE  TenantsOK'
PROOF
  <1>1. req' = [req EXCEPT ![r] = req[r]]
    BY DEF TenantsOK, TenantTypeOK
  <1>2. "done" \notin AdminSteps /\ "done" # "updateStatus"
    BY DEF AdminSteps
  <1> QED
    BY <1>1, <1>2, OtherCalls

\* An action of one listing request.
LEMMA ListingSteps ==
  ASSUME TenantsOK, NEW r \in Requests,
         Walk(r) \/ NextPage(r) \/ ListCount(r) \/ ListPage(r)
  PROVE  TenantsOK'
PROOF
  <1> USE DEF Goto, Reply, Fail, dbVars, listVars, WalkSteps, AdminSteps
  <1>1. req = [req EXCEPT ![r] = req[r]] /\ code = [code EXCEPT ![r] = code[r]] /\ code[r] \in Nat
    BY DEF TenantsOK, TenantTypeOK
  <1>2. ASSUME NEW a, req' = [req EXCEPT ![r] = a], Admit(r, a), pc[r] # "done",
               UNCHANGED <<tenantRow, kmsKey>>
        PROVE  TenantsOK'
    <2>1. PICK c \in Nat, step \in {"count", "done"} :
            /\ c # 201 \/ c = code[r]
            /\ code' = [code EXCEPT ![r] = c] /\ pc' = [pc EXCEPT ![r] = step]
      BY <1>1, <1>2 DEF Admit
    <2> QED
      BY <1>2, <2>1, OtherCalls
  <1>3. CASE Walk(r)
    BY <1>2, <1>3 DEF Walk
  <1>4. CASE NextPage(r)
    BY <1>2, <1>4 DEF NextPage
  <1>5. CASE ListCount(r)
    <2>1. PICK c \in Nat, step \in {"page", "done"} :
            /\ c # 201 \/ c = code[r]
            /\ code' = [code EXCEPT ![r] = c] /\ pc' = [pc EXCEPT ![r] = step]
      BY <1>1, <1>5 DEF ListCount
    <2>2. pc[r] # "done" /\ UNCHANGED <<tenantRow, kmsKey, req>>
      BY <1>5 DEF ListCount
    <2> QED
      BY <1>1, <2>1, <2>2, OtherCalls
  <1>6. CASE ListPage(r)
    <2>1. PICK c \in Nat, step \in {"paged", "done"} :
            /\ c # 201 \/ c = code[r]
            /\ code' = [code EXCEPT ![r] = c] /\ pc' = [pc EXCEPT ![r] = step]
      BY <1>1, <1>6 DEF ListPage
    <2>2. pc[r] # "done" /\ UNCHANGED <<tenantRow, kmsKey, req>>
      BY <1>6 DEF ListPage
    <2> QED
      BY <1>1, <2>1, <2>2, OtherCalls
  <1> QED
    BY <1>3, <1>4, <1>5, <1>6

\* The arrival of an admin's request, its lookup, and a deactivation's update.
LEMMA LookupSteps ==
  ASSUME TenantsOK, NEW r \in Requests,
         Reject(r) \/ Administer(r) \/ FindByTenantID(r)
  PROVE  TenantsOK'
PROOF
  <1> USE DEF Goto, Reply, Fail, dbVars, listVars, WalkSteps, AdminSteps
  <1>1. req = [req EXCEPT ![r] = req[r]] /\ code = [code EXCEPT ![r] = code[r]] /\ code[r] \in Nat
    BY DEF TenantsOK, TenantTypeOK
  <1>2. CASE Reject(r)
    <2>1. code'[r] \in Nat \ {201} /\ code' = [code EXCEPT ![r] = code'[r]]
      BY <1>2 DEF Reject, TenantsOK, TenantTypeOK
    <2>2. /\ pc[r] # "done" /\ UNCHANGED <<tenantRow, kmsKey, req>>
          /\ pc' = [pc EXCEPT ![r] = "done"]
      BY <1>2 DEF Reject
    <2> QED
      BY <2>1, <2>2, PlainAnswer
  <1>3. CASE Administer(r)
    <2>1. PICK a \in AdminRequests : req' = [req EXCEPT ![r] = a]
      BY <1>3 DEF Administer
    <2>2. PICK c \in Nat, step \in {"find"} :
            /\ c # 201 \/ c = code[r]
            /\ code' = [code EXCEPT ![r] = c] /\ pc' = [pc EXCEPT ![r] = step]
      BY <1>1, <1>3 DEF Administer
    <2>3. pc[r] # "done" /\ UNCHANGED <<tenantRow, kmsKey>>
      BY <1>3 DEF Administer
    <2> QED
      BY <2>1, <2>2, <2>3, OtherCalls
  <1>4. CASE FindByTenantID(r)
    <2>1. pc[r] = "find" /\ UNCHANGED <<tenantRow, kmsKey, req>>
      BY <1>4 DEF FindByTenantID
    <2>2. req[r] \in AdminRequests
      BY <2>1 DEF TenantsOK, AdminOK
    <2>3. PICK c \in Nat, step \in {"createKey", "updateStatus", "done"} :
            /\ c # 201 \/ c = code[r]
            /\ step = "updateStatus" => tenantRow[req[r].tenant] # Nil
            /\ code' = [code EXCEPT ![r] = c] /\ pc' = [pc EXCEPT ![r] = step]
      BY <1>1, <1>4 DEF FindByTenantID
    <2> QED
      BY <1>1, <2>1, <2>2, <2>3, OtherCalls
  <1> QED
    BY <1>2, <1>3, <1>4

\* KMS creates a key: the request holds no other, and no row names it yet.
LEMMA CreateKeyStep ==
  ASSUME TenantsOK, NEW r \in Requests, CreateKey(r)
  PROVE  TenantsOK'
PROOF
  <1>1. /\ pc[r] = "createKey" /\ UNCHANGED <<tenantRow, req>>
        /\ req[r] \in AdminRequests /\ req[r].tenant \in Tenants /\ code[r] # 201
    BY DEF CreateKey, dbVars, TenantsOK, AdminOK, AdminSteps, AdminRequests
  <1>2. kmsKey' = [kmsKey EXCEPT ![r] = req[r].tenant] \/ UNCHANGED kmsKey
    BY DEF CreateKey
  <1>3. \/ /\ pc' = [pc EXCEPT ![r] = "insert"] /\ UNCHANGED code
           /\ kmsKey' = [kmsKey EXCEPT ![r] = req[r].tenant]
        \/ pc' = [pc EXCEPT ![r] = "done"] /\ code' = [code EXCEPT ![r] = 503]
    BY DEF CreateKey, Goto, Fail, Reply
  <1>4. TenantTypeOK'
    BY <1>1, <1>2, <1>3 DEF TenantsOK, TenantTypeOK, AdminSteps
  <1>5. AdminOK'
    BY <1>1, <1>2, <1>3 DEF TenantsOK, TenantTypeOK, AdminOK, AdminSteps
  <1>6. KeysOK'
    BY <1>1, <1>2, <1>3 DEF TenantsOK, TenantTypeOK, KeysOK, TenantRows
  <1>7. CreateAnswerHolds'
    BY <1>1, <1>3 DEF TenantsOK, TenantTypeOK, CreateAnswerHolds
  <1> QED
    BY <1>4, <1>5, <1>6, <1>7 DEF TenantsOK

\* The row is inserted once; after that the unique index refuses another.
LEMMA TenantCreateStep ==
  ASSUME TenantsOK, NEW r \in Requests, TenantCreate(r)
  PROVE  TenantsOK'
PROOF
  <1>1. /\ pc[r] = "insert" /\ UNCHANGED <<kmsKey, req>> /\ code[r] # 201
        /\ req[r].tenant \in Tenants /\ kmsKey[r] = req[r].tenant
    BY DEF TenantCreate, TenantsOK, AdminOK, AdminSteps, AdminRequests
  <1>2. pc' = [pc EXCEPT ![r] = "done"] /\ pc[r] # "done"
    BY <1>1 DEF TenantCreate, Fail, Reply
  <1>3. CASE UNCHANGED tenantRow /\ Reply(r, 500)
    <2>1. code'[r] \in Nat \ {201} /\ code' = [code EXCEPT ![r] = code'[r]]
      BY <1>3 DEF Reply, TenantsOK, TenantTypeOK
    <2> QED
      BY <1>1, <1>2, <1>3, <2>1, PlainAnswer
  <1>4. ASSUME NEW stamp \in Stamps,
               tenantRow[req[r].tenant] = Nil, tenantRow' = NewTenant(r, stamp),
               NEW c \in {201, 500}, code' = [code EXCEPT ![r] = c]
        PROVE  TenantsOK'
    <2> DEFINE row == [key |-> r, status |-> "active", createdAt |-> stamp]
    <2>2. row \in TenantRows /\ row.key = r /\ row # Nil
      BY NilAssumption DEF TenantRows
    <2>3. tenantRow' = [tenantRow EXCEPT ![req[r].tenant] = row]
      BY <1>4 DEF NewTenant
    <2> HIDE DEF row
    <2>4. TenantTypeOK'
      BY <1>1, <1>2, <1>4, <2>2, <2>3 DEF TenantsOK, TenantTypeOK
    <2>5. AdminOK'
      BY <1>1, <1>2, <1>4, <2>2, <2>3
      DEF TenantsOK, TenantTypeOK, AdminOK, AdminSteps, AdminRequests
    <2>6. KeysOK'
      BY <1>1, <1>2, <1>4, <2>2, <2>3 DEF TenantsOK, TenantTypeOK, KeysOK, TenantRows
    <2>7. CreateAnswerHolds'
      BY <1>1, <1>2, <1>4, <2>2, <2>3 DEF TenantsOK, TenantTypeOK, CreateAnswerHolds
    <2> QED
      BY <2>4, <2>5, <2>6, <2>7 DEF TenantsOK
  <1> QED
    BY <1>3, <1>4 DEF TenantCreate, Fail, Reply

\* The update of a deactivation leaves the tenant's key alone.
LEMMA TenantUpdateStatusStep ==
  ASSUME TenantsOK, NEW r \in Requests, TenantUpdateStatus(r)
  PROVE  TenantsOK'
PROOF
  <1>1. /\ pc[r] = "updateStatus" /\ UNCHANGED <<kmsKey, req>> /\ code[r] # 201
        /\ req[r].tenant \in Tenants /\ tenantRow[req[r].tenant] \in TenantRows
    BY DEF TenantUpdateStatus, TenantsOK, TenantTypeOK, AdminOK, AdminSteps, AdminRequests
  <1>2. /\ pc' = [pc EXCEPT ![r] = "done"] /\ pc[r] # "done"
        /\ code'[r] \in Nat \ {201} /\ code' = [code EXCEPT ![r] = code'[r]]
    BY <1>1 DEF TenantUpdateStatus, Fail, Reply, TenantsOK, TenantTypeOK
  <1>3. CASE UNCHANGED tenantRow
    BY <1>1, <1>2, <1>3, PlainAnswer
  <1>4. CASE tenantRow' = [tenantRow EXCEPT ![req[r].tenant].status = "inactive"]
    <2> DEFINE row == [tenantRow[req[r].tenant] EXCEPT !.status = "inactive"]
    <2>1. row \in TenantRows /\ row.key = tenantRow[req[r].tenant].key /\ row # Nil
      BY <1>1, NilAssumption DEF TenantRows
    <2>2. tenantRow' = [tenantRow EXCEPT ![req[r].tenant] = row]
      BY <1>4
    <2> HIDE DEF row
    <2>3. tenantRow[req[r].tenant] # Nil
      BY <1>1, NilAssumption
    <2>4. TenantTypeOK'
      BY <1>1, <1>2, <2>1, <2>2 DEF TenantsOK, TenantTypeOK
    <2>5. AdminOK'
      BY <1>1, <1>2, <2>1, <2>2 DEF TenantsOK, TenantTypeOK, AdminOK, AdminSteps, AdminRequests
    <2>6. KeysOK'
      BY <1>1, <1>2, <2>1, <2>2, <2>3 DEF TenantsOK, TenantTypeOK, KeysOK, TenantRows
    <2>7. CreateAnswerHolds'
      BY <1>1, <1>2, <2>1, <2>2, <2>3 DEF TenantsOK, TenantTypeOK, CreateAnswerHolds
    <2> QED
      BY <2>4, <2>5, <2>6, <2>7 DEF TenantsOK
  <1> QED
    BY <1>3, <1>4 DEF TenantUpdateStatus

-----------------------------------------------------------------------------
(* The theorems *)

\* There is no tenant, no key and no request at the start.
LEMMA TenantsInit == Init => TenantsOK
  BY DEF Init, NoRequest, TenantsOK, TenantTypeOK, AdminOK, AdminSteps, KeysOK, CreateAnswerHolds

\* Every step of Management keeps the invariant of the tenants.
LEMMA TenantsNext == TenantsOK /\ [Next]_vars => TenantsOK'
PROOF
  <1> SUFFICES ASSUME TenantsOK, [Next]_vars PROVE TenantsOK'
    OBVIOUS
  <1>1. CASE UNCHANGED <<tenantRow, kmsKey, pc, req, code>>
    BY <1>1 DEF TenantsOK, TenantTypeOK, AdminOK, KeysOK, CreateAnswerHolds
  <1>2. ASSUME NEW r \in Requests,
               Reject(r) \/ Administer(r) \/ Walk(r) \/ NextPage(r) \/ Serve(r)
        PROVE  TenantsOK'
    BY <1>2, ListingSteps, LookupSteps, CreateKeyStep, TenantCreateStep,
       TenantUpdateStatusStep DEF Serve
  <1>3. ASSUME NEW t \in Tenants, NEW k \in TokenIDs, Log(t, k)
        PROVE  TenantsOK'
    BY <1>1, <1>3 DEF Log
  <1> QED
    BY <1>1, <1>2, <1>3 DEF Next, vars, dbVars

\* The whole invariant.
THEOREM TenantsInvariant == Spec => []TenantsOK
PROOF
  <1> QED
    BY TenantsInit, TenantsNext, PTL DEF Spec

\* Every tenant has a KMS key that was created for it and for no other, however
\* creations race and wherever they fail (tenant.go:67-98).
THEOREM TenantsHaveTheirOwnKey == Spec => []DedicatedKeys
PROOF
  <1>1. TenantsOK => DedicatedKeys
    BY DEF TenantsOK, KeysOK, DedicatedKeys
  <1> QED
    BY <1>1, TenantsInvariant, PTL

\* A creation that was answered 201 stays true: no later one replaces the tenant
\* or its key, so of racing creations one at most is answered 201.
THEOREM CreationsHold == Spec => []CreateAnswerHolds
PROOF
  <1>1. TenantsOK => CreateAnswerHolds
    BY DEF TenantsOK
  <1> QED
    BY <1>1, TenantsInvariant, PTL

\* No step takes a tenant away, changes its key or brings it back.
THEOREM TenantsLiveOnce == Spec => TenantLifecycle
PROOF
  <1> DEFINE Step ==
        \A t \in Tenants :
          tenantRow[t] # Nil =>
            /\ tenantRow'[t] # Nil /\ tenantRow'[t].key = tenantRow[t].key
            /\ tenantRow[t].status = "inactive" => tenantRow'[t].status = "inactive"
  <1>1. TenantsOK /\ [Next]_vars => [Step]_vars
    <2> SUFFICES ASSUME TenantsOK, Next, NEW t \in Tenants, tenantRow[t] # Nil
                 PROVE  /\ tenantRow'[t] # Nil /\ tenantRow'[t].key = tenantRow[t].key
                        /\ tenantRow[t].status = "inactive" => tenantRow'[t].status = "inactive"
      OBVIOUS
    <2>1. CASE UNCHANGED tenantRow
      BY <2>1
    <2>2. ASSUME NEW r \in Requests, TenantCreate(r), ~UNCHANGED tenantRow
          PROVE  UNCHANGED tenantRow[t]
      BY <2>2 DEF TenantCreate, NewTenant, TenantsOK, TenantTypeOK
    <2>3. ASSUME NEW r \in Requests, TenantUpdateStatus(r), ~UNCHANGED tenantRow
          PROVE  /\ tenantRow'[t] # Nil /\ tenantRow'[t].key = tenantRow[t].key
                 /\ tenantRow[t].status = "inactive" => tenantRow'[t].status = "inactive"
      <3>1. tenantRow[t] \in TenantRows
        BY DEF TenantsOK, TenantTypeOK
      <3>2. tenantRow'[t] \in {tenantRow[t], [tenantRow[t] EXCEPT !.status = "inactive"]}
        BY <2>3 DEF TenantUpdateStatus, TenantsOK, TenantTypeOK
      <3>3. [tenantRow[t] EXCEPT !.status = "inactive"] \in TenantRows
        BY <3>1 DEF TenantRows
      <3> QED
        BY <3>1, <3>2, <3>3, NilAssumption DEF TenantRows
    <2> QED
      BY <2>1, <2>2, <2>3
      DEF Next, Reject, Administer, Walk, NextPage, Serve, ListCount, ListPage,
          FindByTenantID, CreateKey, Log, dbVars
  <1> QED
    BY <1>1, TenantsInvariant, PTL DEF Spec, TenantLifecycle

-----------------------------------------------------------------------------
(* Pages *)

\* A page is part of the listing, and as long as the limit and what is left allow.
LEMMA PageSize ==
  ASSUME NEW rows, IsFiniteSet(rows), NEW limit \in Nat, NEW offset \in Nat,
         NEW P \in Pages(rows, limit, offset)
  PROVE  /\ P \subseteq rows /\ IsFiniteSet(P)
         /\ Cardinality(rows) \in Nat /\ Cardinality(P) \in Nat
         /\ Cardinality(P) = Least(limit, Cardinality(rows) - Least(offset, Cardinality(rows)))
PROOF
  <1>1. P \subseteq rows
    BY DEF Pages
  <1>2. IsFiniteSet(P)
    BY <1>1, FS_Subset
  <1> QED
    BY <1>1, <1>2, FS_CardinalityType DEF Pages

\* A row that is not on the page, with at least offset newer ones before it and
\* none that is as old, comes after a full page.
LEMMA PageMisses ==
  ASSUME NEW rows, IsFiniteSet(rows), NEW limit \in Nat, NEW offset \in Nat,
         \A x \in rows : x.createdAt \in Int,
         \A x, y \in rows : x.id = y.id => x = y,
         NEW P \in Pages(rows, limit, offset),
         NEW row \in rows, row \notin P, ~Tied(row, rows),
         offset <= Cardinality(Newer(row, rows))
  PROVE  Cardinality(P) = limit /\ offset + limit <= Cardinality(Newer(row, rows))
PROOF
  <1> DEFINE n == Cardinality(rows)
             skipped == Least(offset, n)
             newer == Newer(row, rows)
  <1>1. PICK A \in SUBSET (rows \ P) :
          /\ Cardinality(A) = skipped
          /\ NewestFirst(A, rows) /\ NewestFirst(A \cup P, rows)
    BY DEF Pages
  <1>2. /\ P \subseteq rows /\ A \subseteq rows /\ newer \subseteq rows
        /\ IsFiniteSet(P) /\ IsFiniteSet(A) /\ IsFiniteSet(newer) /\ IsFiniteSet(A \cup P)
        /\ A \cap P = {}
    <2>1. newer \subseteq rows
      BY DEF Newer
    <2>2. IsFiniteSet(A) /\ IsFiniteSet(newer) /\ IsFiniteSet(P)
      BY <1>1, <2>1, PageSize, FS_Subset
    <2> QED
      BY <1>1, <2>1, <2>2, PageSize, FS_Union
  <1>3. /\ n \in Nat /\ Cardinality(P) \in Nat /\ Cardinality(A) \in Nat
        /\ Cardinality(newer) \in Nat
        /\ Cardinality(P) = Least(limit, n - skipped)
        /\ Cardinality(A \cup P) = skipped + Cardinality(P)
    <2>1. Cardinality(A \cap P) = 0
      BY <1>2, FS_EmptySet
    <2>2. n \in Nat /\ Cardinality(P) \in Nat /\ Cardinality(P) = Least(limit, n - skipped)
      BY PageSize
    <2>3. Cardinality(A) \in Nat /\ Cardinality(newer) \in Nat
      BY <1>2, FS_CardinalityType
    <2>4. Cardinality(A \cup P) = Cardinality(A) + Cardinality(P) - Cardinality(A \cap P)
      BY <1>2, FS_Union
    <2> QED
      BY <1>1, <2>1, <2>2, <2>3, <2>4
  <1>4. row \notin A
    <2> SUFFICES ASSUME row \in A PROVE FALSE
      OBVIOUS
    <2>1. newer \subseteq A \ {row}
      BY <1>1, <1>2 DEF NewestFirst, Newer
    <2>2. IsFiniteSet(A \ {row}) /\ Cardinality(A \ {row}) = skipped - 1
      BY <1>1, <1>2, FS_RemoveElement
    <2>3. Cardinality(newer) <= skipped - 1
      BY <2>1, <2>2, FS_Subset
    <2> QED
      BY <1>3, <2>3 DEF Least
  <1>5. A \cup P \subseteq newer
    <2> SUFFICES ASSUME NEW x \in A \cup P PROVE x \in newer
      OBVIOUS
    <2>1. x \in rows /\ x # row /\ x.id # row.id
      BY <1>2, <1>4
    <2>2. x.createdAt >= row.createdAt
      BY <1>1, <1>4 DEF NewestFirst
    <2>3. x.createdAt # row.createdAt
      BY <2>1 DEF Tied
    <2> QED
      BY <2>1, <2>2, <2>3 DEF Newer
  <1>6. A \cup P \subseteq rows \ {row}
    BY <1>2, <1>4
  <1>7. Cardinality(A \cup P) <= Cardinality(newer)
    BY <1>2, <1>5, FS_Subset
  <1>8. Cardinality(A \cup P) <= n - 1
    <2>1. IsFiniteSet(rows \ {row}) /\ Cardinality(rows \ {row}) = n - 1
      BY FS_RemoveElement
    <2> QED
      BY <1>6, <2>1, FS_Subset
  <1> QED
    BY <1>3, <1>7, <1>8 DEF Least

\* The limit of a page is the one asked for, unless that is too high.
LEMMA LimitOfPage ==
  ASSUME NEW l \in AskedLimits
  PROVE  /\ l \in Nat \ {0} /\ PageLimit(l) \in 1..MaxLimit /\ PageLimit(l) <= l
         /\ l <= MaxLimit => PageLimit(l) = l
PROOF
  BY LimitAssumption DEF PageLimit

-----------------------------------------------------------------------------
(* Listings *)

\* What there is to know of the rows of a listing: finitely many, each with an
\* identifier of its own.
RowsOK(rows) ==
  /\ rows \subseteq Listing /\ IsFiniteSet(rows)
  /\ Cardinality(rows) \in 0..MostRows
  /\ \A x, y \in rows : x.id = y.id => x = y

\* Every listing is such, whatever is asked for.
LEMMA ListingsAreFinite ==
  ASSUME TypeOK, NEW a
  PROVE  RowsOK(Listed(a))
PROOF
  <1> DEFINE tenants == {u \in Tenants : tenantRow[u] # Nil}
             entries == {x \in Entries : /\ auditRow[x] # Nil
                                         /\ auditRow[x].tenant = a.tenant
                                         /\ auditRow[x].masked = MaskTokenID(a.token)}
             TenantLine == [t \in tenants |-> [id |-> t, createdAt |-> tenantRow[t].createdAt]]
             EntryLine == [e \in entries |-> [id |-> e, createdAt |-> auditRow[e].createdAt]]
  <1>1. /\ IsFiniteSet(Tenants) /\ Cardinality(Tenants) \in Nat
        /\ IsFiniteSet(Entries) /\ Cardinality(Entries) = MaxEntries /\ MaxEntries \in Nat
    <2>1. IsFiniteSet(Entries) /\ Cardinality(Entries) = IF 1 > MaxEntries THEN 0 ELSE MaxEntries
      BY BoundAssumption, FS_Interval DEF Entries
    <2> QED
      BY <2>1, TenantsAssumption, BoundAssumption, FS_CardinalityType
  <1>2. /\ \A t \in tenants : tenantRow[t] \in TenantRows
        /\ \A e \in entries : auditRow[e] \in AuditRows
    BY DEF TypeOK
  <1>3. CASE a.op = "list"
    <2>1. Listed(a) = {TenantLine[t] : t \in tenants}
      BY <1>3 DEF Listed
    <2>2. Listed(a) \subseteq Listing /\ \A x, y \in Listed(a) : x.id = y.id => x = y
      <3>1. \A t \in tenants :
              TenantLine[t] \in Listing /\ TenantLine[t].id = t
        BY <1>2 DEF Listing, TenantRows
      <3> HIDE DEF TenantLine, tenants
      <3> QED
        BY <2>1, <3>1
    <2>3. IsFiniteSet(tenants) /\ Cardinality(tenants) <= Cardinality(Tenants)
      BY <1>1, FS_Subset
    <2>4. TenantLine \in Surjection(tenants, Listed(a))
      BY <2>1 DEF Surjection
    <2>5. IsFiniteSet(Listed(a)) /\ Cardinality(Listed(a)) <= Cardinality(tenants)
      BY <2>3, <2>4, FS_Surjection
    <2>6. Cardinality(Listed(a)) \in Nat /\ Cardinality(tenants) \in Nat
      BY <2>3, <2>5, FS_CardinalityType
    <2> QED
      BY <1>1, <2>2, <2>3, <2>5, <2>6 DEF RowsOK, MostRows
  <1>4. CASE a.op # "list"
    <2>1. Listed(a) = {EntryLine[e] : e \in entries}
      BY <1>4 DEF Listed
    <2>2. Listed(a) \subseteq Listing /\ \A x, y \in Listed(a) : x.id = y.id => x = y
      <3>1. \A e \in entries :
              EntryLine[e] \in Listing /\ EntryLine[e].id = e
        BY <1>2 DEF Listing, AuditRows
      <3> HIDE DEF EntryLine, entries
      <3> QED
        BY <2>1, <3>1
    <2>3. IsFiniteSet(entries) /\ Cardinality(entries) <= Cardinality(Entries)
      BY <1>1, FS_Subset
    <2>4. EntryLine \in Surjection(entries, Listed(a))
      BY <2>1 DEF Surjection
    <2>5. IsFiniteSet(Listed(a)) /\ Cardinality(Listed(a)) <= Cardinality(entries)
      BY <2>3, <2>4, FS_Surjection
    <2>6. Cardinality(Listed(a)) \in Nat /\ Cardinality(entries) \in Nat
      BY <2>3, <2>5, FS_CardinalityType
    <2> QED
      BY <1>1, <2>2, <2>3, <2>5, <2>6 DEF RowsOK, MostRows
  <1> QED
    BY <1>3, <1>4

\* Rows that are there stay, and keep their time of creation.
RowsStay ==
  /\ \A t \in Tenants :
       tenantRow[t] # Nil => /\ tenantRow'[t] # Nil
                             /\ tenantRow'[t].createdAt = tenantRow[t].createdAt
  /\ \A e \in Entries : auditRow[e] # Nil => auditRow'[e] = auditRow[e]

\* No statement deletes a row or touches created_at.
LEMMA RowsAreKept ==
  ASSUME TypeOK, TenantsOK, [Next]_vars
  PROVE  RowsStay
PROOF
  <1>1. /\ tenantRow \in [Tenants -> TenantRows \cup {Nil}]
        /\ auditRow \in [Entries -> AuditRows \cup {Nil}]
    BY DEF TypeOK
  <1>2. CASE UNCHANGED dbVars
    BY <1>2 DEF RowsStay, dbVars
  <1>3. ASSUME NEW r \in Requests, TenantCreate(r)
        PROVE  RowsStay
    <2>1. req[r].tenant \in Tenants /\ UNCHANGED auditRow
      BY <1>3 DEF TenantCreate, TenantsOK, AdminOK, AdminSteps, AdminRequests
    <2>2. \/ UNCHANGED tenantRow
          \/ /\ tenantRow[req[r].tenant] = Nil
             /\ \E stamp \in Stamps : tenantRow' = NewTenant(r, stamp)
      BY <1>3 DEF TenantCreate
    <2> QED
      BY <1>1, <2>1, <2>2 DEF NewTenant, RowsStay
  <1>4. ASSUME NEW r \in Requests, TenantUpdateStatus(r)
        PROVE  RowsStay
    <2> DEFINE t == req[r].tenant
               row == [tenantRow[t] EXCEPT !.status = "inactive"]
    <2>1. t \in Tenants /\ tenantRow[t] \in TenantRows
      BY <1>1, <1>4 DEF TenantUpdateStatus, TenantsOK, AdminOK, AdminSteps, AdminRequests
    <2>2. row \in TenantRows /\ row.createdAt = tenantRow[t].createdAt /\ row # Nil
      BY <2>1, NilAssumption DEF TenantRows
    <2>3. tenantRow' = [tenantRow EXCEPT ![t] = row] \/ UNCHANGED tenantRow
      BY <1>4 DEF TenantUpdateStatus
    <2>4. UNCHANGED auditRow
      BY <1>4 DEF TenantUpdateStatus
    <2> HIDE DEF t, row
    <2> QED
      BY <1>1, <2>1, <2>2, <2>3, <2>4 DEF RowsStay
  <1>5. ASSUME NEW t \in Tenants, NEW k \in TokenIDs, Log(t, k)
        PROVE  RowsStay
    <2>1. UNCHANGED tenantRow
      BY <1>5 DEF Log
    <2>2. ASSUME NEW x \in Entries, auditRow[x] # Nil PROVE auditRow'[x] = auditRow[x]
      BY <1>1, <1>5, <2>2, BoundAssumption DEF Log, Entries
    <2> QED
      BY <2>1, <2>2 DEF RowsStay
  <1> QED
    BY <1>2, <1>3, <1>4, <1>5
    DEF Next, vars, dbVars, Serve, Reject, Administer, Walk, NextPage, ListCount, ListPage,
        FindByTenantID, CreateKey

\* The request asks for the same listing as before.
SameListing(r) ==
  req'[r].op = req[r].op /\ req'[r].tenant = req[r].tenant /\ req'[r].token = req[r].token

\* While it does, the listing only gets longer.
LEMMA ListingsGrow ==
  ASSUME RowsStay, NEW r \in Requests, SameListing(r)
  PROVE  Listed(req[r]) \subseteq Listed(req[r])'
PROOF
  <1>1. CASE req[r].op = "list"
    BY <1>1 DEF Listed, RowsStay, SameListing
  <1>2. CASE req[r].op # "list"
    BY <1>2 DEF Listed, RowsStay, SameListing
  <1> QED
    BY <1>1, <1>2

\* With no row added, it stays as it is.
LEMMA ListingStays ==
  ASSUME UNCHANGED dbVars, NEW r \in Requests, SameListing(r)
  PROVE  Listed(req[r])' = Listed(req[r])
PROOF
  BY DEF Listed, dbVars, SameListing

\* In the next state, too.
LEMMA NextListingsAreFinite == TypeOK' => \A r \in Requests : RowsOK(Listed(req[r]))'
PROOF
  <1> DEFINE All == \A r \in Requests : RowsOK(Listed(req[r]))
  <1>1. TypeOK => All
    BY ListingsAreFinite
  <1> HIDE DEF All
  <1>2. TypeOK' => All'
    BY <1>1, PTL
  <1> QED
    BY <1>2 DEF All

-----------------------------------------------------------------------------
(* Steps of the walks *)

\* PageCoversTotal, of one request.
CoversTotal(r) ==
  pc[r] = "paged" /\ ~cut[r] =>
    Cardinality(page[r]) >= Least(PageLimit(req[r].limit), total[r] - req[r].offset)

RequestOK(r) == WithinListing(r) /\ TotalOK(r) /\ WalkOK(r) /\ CoversTotal(r)

Untouched(r) ==
  /\ pc'[r] = pc[r] /\ req'[r] = req[r]
  /\ total'[r] = total[r] /\ page'[r] = page[r] /\ seen'[r] = seen[r]
  /\ began'[r] = began[r] /\ cut'[r] = cut[r]

\* Newer rows of a longer listing: as many, or more.
LEMMA NewerGrows ==
  ASSUME NEW rows, NEW more, rows \subseteq more, IsFiniteSet(more), NEW row
  PROVE  /\ Cardinality(Newer(row, rows)) \in Nat /\ Cardinality(Newer(row, more)) \in Nat
         /\ Cardinality(Newer(row, rows)) <= Cardinality(Newer(row, more))
PROOF
  <1>1. Newer(row, rows) \subseteq Newer(row, more) /\ Newer(row, more) \subseteq more
    BY DEF Newer
  <1>2. IsFiniteSet(Newer(row, more)) /\ IsFiniteSet(Newer(row, rows))
    BY <1>1, FS_Subset
  <1>3. Cardinality(Newer(row, rows)) \in Nat /\ Cardinality(Newer(row, more)) \in Nat
    BY <1>2, FS_CardinalityType
  <1>4. Cardinality(Newer(row, rows)) <= Cardinality(Newer(row, more))
    BY <1>1, <1>2, FS_Subset
  <1> QED
    BY <1>3, <1>4

\* What a request of a walk asks for.
LEMMA WalkRequests ==
  ASSUME TypeOK, NEW r \in Requests
  PROVE  /\ req[r].offset \in 0..MostRows /\ MostRows \in Nat
         /\ req[r].limit \in Nat
PROOF
  <1>1. MostRows \in Nat
    BY TenantsAssumption, BoundAssumption, FS_CardinalityType DEF MostRows
  <1>2. req[r] \in AnyRequest
    BY DEF TypeOK
  <1>3. req[r].offset \in {0} \cup 0..MostRows /\ req[r].limit \in {0} \cup AskedLimits
    BY <1>2 DEF AnyRequest, AdminRequests, ListRequests, TrailRequests, NoRequest
  <1>4. req[r].offset \in 0..MostRows
    BY <1>1, <1>3
  <1>5. req[r].limit \in Nat
    <2>1. \A l \in {0} \cup AskedLimits : l \in Nat
      BY LimitAssumption
    <2> QED
      BY <1>3, <2>1
  <1> QED
    BY <1>1, <1>4, <1>5

\* The rows that others add are no harm to a request that does nothing meanwhile.
LEMMA Bystanders ==
  ASSUME TypeOK, TypeOK', RowsStay, NEW r \in Requests, RequestOK(r), Untouched(r)
  PROVE  RequestOK(r)'
PROOF
  <1> DEFINE rows == Listed(req[r])
             more == Listed(req[r])'
  <1>1. rows \subseteq more
    BY ListingsGrow DEF SameListing, Untouched
  <1>2. RowsOK(Listed(req[r])) /\ RowsOK(Listed(req[r]))'
    BY ListingsAreFinite, NextListingsAreFinite
  <1>3. /\ IsFiniteSet(more) /\ Cardinality(rows) \in Nat /\ Cardinality(more) \in Nat
        /\ Cardinality(rows) <= Cardinality(more)
    <2>1. IsFiniteSet(more) /\ IsFiniteSet(rows)
      BY <1>2 DEF RowsOK
    <2> QED
      BY <1>1, <2>1, FS_Subset, FS_CardinalityType
  <1>4. NextOffset(r)' = NextOffset(r) /\ WalkEnded(r)' = WalkEnded(r)
    BY DEF Untouched, NextOffset, WalkEnded
  <1>5. NextOffset(r) \in Int /\ total[r] \in Int
    BY WalkRequests DEF NextOffset, TypeOK
  <1>6. ASSUME NEW row
        PROVE  /\ Shown(r, row)' <=> Shown(r, row)
               /\ Tied(row, rows) => Tied(row, more)
               /\ Cardinality(Newer(row, rows)) \in Nat /\ Cardinality(Newer(row, more)) \in Nat
               /\ Cardinality(Newer(row, rows)) <= Cardinality(Newer(row, more))
    <2>1. Shown(r, row)' <=> Shown(r, row)
      BY DEF Untouched, Shown
    <2>2. Tied(row, rows) => Tied(row, more)
      BY <1>1 DEF Tied
    <2> HIDE DEF rows, more
    <2> QED
      BY <1>1, <1>3, <2>1, <2>2, NewerGrows
  <1>7. WithinListing(r)'
    BY <1>3, <1>4, <1>5 DEF RequestOK, WithinListing, Untouched
  <1>8. TotalOK(r)'
    BY <1>3, <1>5 DEF RequestOK, TotalOK, Untouched
  <1>9. WalkOK(r)'
    BY <1>1, <1>4, <1>5, <1>6 DEF RequestOK, WalkOK, Untouched
  <1>10. CoversTotal(r)'
    BY DEF RequestOK, CoversTotal, Untouched
  <1> QED
    BY <1>7, <1>8, <1>9, <1>10 DEF RequestOK

\* A request that is in no walk, or no longer.
LEMMA OutsideWalks ==
  ASSUME NEW r \in Requests, pc'[r] \notin WalkSteps
  PROVE  RequestOK(r)'
PROOF
  BY DEF RequestOK, WithinListing, TotalOK, WalkOK, CoversTotal, WalkSteps

\* Everything but the rows and the requests keeps its type.
LEMMA OtherTypes ==
  ASSUME TypeOK, TenantsOK', auditRow' \in [Entries -> AuditRows \cup {Nil}],
         code' \in [Requests -> Codes], req' \in [Requests -> AnyRequest],
         total' \in [Requests -> 0..MostRows], began' \in [Requests -> SUBSET Listing],
         UNCHANGED <<page, seen, cut>>
  PROVE  TypeOK'
PROOF
  <1>1. /\ tenantRow' \in [Tenants -> TenantRows \cup {Nil}]
        /\ kmsKey' \in [Requests -> Tenants \cup {Nil}]
        /\ pc' \in [Requests -> Steps \cup {"idle", "paged", "done"}]
    BY DEF TenantsOK, TenantTypeOK, WalkSteps, AdminSteps, Steps
  <1> QED
    BY <1>1 DEF TypeOK

\* The admin's requests are in no walk.
LEMMA AdminCalls ==
  ASSUME ManagementInv, TenantsOK', NEW r \in Requests,
         \/ Reject(r) \/ Administer(r) \/ FindByTenantID(r)
         \/ CreateKey(r) \/ TenantCreate(r) \/ TenantUpdateStatus(r)
  PROVE  TypeOK' /\ RequestOK(r)' /\ \A x \in Requests \ {r} : Untouched(x)
PROOF
  <1> USE DEF Goto, Reply, Fail, dbVars, listVars
  <1>1. /\ UNCHANGED <<auditRow, listVars>>
        /\ UNCHANGED req \/ \E a \in AdminRequests : req' = [req EXCEPT ![r] = a]
    BY DEF Reject, Administer, FindByTenantID, CreateKey, TenantCreate, TenantUpdateStatus
  <1>2. /\ \/ UNCHANGED code
           \/ \E c \in Codes : code' = [code EXCEPT ![r] = c]
        /\ \E step \in AdminSteps \cup {"done"} : pc' = [pc EXCEPT ![r] = step]
    BY DEF Reject, Administer, FindByTenantID, CreateKey, TenantCreate, TenantUpdateStatus,
           AdminSteps, Codes
  <1>3. TypeOK
    BY DEF ManagementInv
  <1>4. TypeOK'
    <2>1. /\ auditRow' \in [Entries -> AuditRows \cup {Nil}]
          /\ req' \in [Requests -> AnyRequest] /\ code' \in [Requests -> Codes]
          /\ total' \in [Requests -> 0..MostRows] /\ began' \in [Requests -> SUBSET Listing]
      BY <1>1, <1>2, <1>3 DEF TypeOK, AnyRequest
    <2> QED
      BY <1>1, <1>3, <2>1, OtherTypes
  <1>5. pc'[r] \notin WalkSteps
    BY <1>2, <1>3 DEF TypeOK, WalkSteps, AdminSteps
  <1>6. \A x \in Requests \ {r} : Untouched(x)
    BY <1>1, <1>2, <1>3 DEF TypeOK, Untouched
  <1> QED
    BY <1>4, <1>5, <1>6, OutsideWalks

\* COUNT counts the rows there are.
LEMMA ListCountStep ==
  ASSUME ManagementInv, TenantsOK', NEW r \in Requests, ListCount(r)
  PROVE  TypeOK' /\ RequestOK(r)' /\ \A x \in Requests \ {r} : Untouched(x)
PROOF
  <1> DEFINE rows == Listed(req[r])
  <1>1. TypeOK /\ RequestOK(r) /\ RowsOK(Listed(req[r]))
    BY ListingsAreFinite
    DEF ManagementInv, ListingsOK, RequestOK, PageCoversTotal, CoversTotal
  <1>2. /\ pc[r] = "count"
        /\ UNCHANGED <<dbVars, kmsKey, req, page, seen, began, cut>>
        /\ \/ /\ total' = [total EXCEPT ![r] = Cardinality(rows)]
              /\ pc' = [pc EXCEPT ![r] = "page"] /\ UNCHANGED code
           \/ /\ UNCHANGED total /\ pc' = [pc EXCEPT ![r] = "done"]
              /\ code' = [code EXCEPT ![r] = 500]
    BY DEF ListCount, Goto, Fail, Reply
  <1>3. Cardinality(rows) \in 0..MostRows /\ Cardinality(rows) <= Cardinality(rows)
    BY <1>1 DEF RowsOK
  <1>4. Listed(req[r])' = rows
    BY <1>2, ListingStays DEF SameListing
  <1> HIDE DEF rows
  <1>5. TypeOK'
    <2>1. /\ auditRow' \in [Entries -> AuditRows \cup {Nil}]
          /\ req' \in [Requests -> AnyRequest] /\ code' \in [Requests -> Codes]
          /\ began' \in [Requests -> SUBSET Listing]
      BY <1>1, <1>2 DEF TypeOK, dbVars, Codes
    <2>2. total' \in [Requests -> 0..MostRows]
      BY <1>1, <1>2, <1>3 DEF TypeOK
    <2> QED
      BY <1>1, <1>2, <2>1, <2>2, OtherTypes
  <1>6. ASSUME pc'[r] = "done" PROVE RequestOK(r)'
    BY <1>6, OutsideWalks DEF WalkSteps
  <1>7. ASSUME pc'[r] # "done" PROVE RequestOK(r)'
    <2>1. pc'[r] = "page" /\ total'[r] = Cardinality(rows)
      BY <1>1, <1>2, <1>7 DEF TypeOK
    <2>2. /\ ~WalkEnded(r) /\ ~WalkEnded(r)' /\ NextOffset(r)' = NextOffset(r)
          /\ pc[r] \in WalkSteps
      BY <1>2, <2>1 DEF WalkEnded, NextOffset, WalkSteps
    <2>3. TotalOK(r)' /\ CoversTotal(r)'
      BY <1>3, <1>4, <2>1 DEF TotalOK, CoversTotal
    <2>4. WithinListing(r)'
      BY <1>1, <1>4, <2>2 DEF RequestOK, WithinListing, rows
    <2>5. WalkOK(r)'
      BY <1>1, <1>2, <1>4, <2>2 DEF RequestOK, WalkOK, Shown, rows
    <2> QED
      BY <2>3, <2>4, <2>5 DEF RequestOK
  <1>8. \A x \in Requests \ {r} : Untouched(x)
    BY <1>1, <1>2 DEF TypeOK, Untouched
  <1> QED
    BY <1>5, <1>6, <1>7, <1>8

\* A walk starts at the first row, with every row of its listing to come.
LEMMA WalkStep ==
  ASSUME ManagementInv, TenantsOK', NEW r \in Requests, Walk(r)
  PROVE  TypeOK' /\ RequestOK(r)' /\ \A x \in Requests \ {r} : Untouched(x)
PROOF
  <1>1. TypeOK
    BY DEF ManagementInv
  <1>2. PICK a \in ListRequests({0}) \cup TrailRequests({0}) :
          /\ req' = [req EXCEPT ![r] = a]
          /\ began' = [began EXCEPT ![r] = Meant(a)]
          /\ Admit(r, a)
    BY DEF Walk
  <1>3. /\ a.offset = 0 /\ a.limit \in AskedLimits /\ a \in AnyRequest
        /\ Meant(a) \subseteq Listed(a) /\ RowsOK(Listed(a))
    <2>1. a.offset = 0 /\ a.limit \in AskedLimits /\ a \in AnyRequest
      <3>1. MostRows \in Nat
        BY <1>1, WalkRequests
      <3> QED
        BY <3>1 DEF AnyRequest, ListRequests, TrailRequests
    <2> QED
      BY <1>1, <2>1, ListingsAreFinite DEF Meant
  <1>4. UNCHANGED <<dbVars, kmsKey, total, page, seen, cut>>
    BY DEF Walk
  <1>5. /\ \E step \in {"count", "done"} : pc' = [pc EXCEPT ![r] = step]
        /\ UNCHANGED code \/ \E c \in Codes : code' = [code EXCEPT ![r] = c]
    BY <1>2 DEF Admit, Goto, Fail, Reply, Codes
  <1>6. req'[r] = a /\ began'[r] = Meant(a) /\ Listed(req[r])' = Listed(a)
    BY <1>1, <1>2, <1>4 DEF TypeOK, Listed, dbVars
  <1>7. TypeOK'
    <2>1. /\ auditRow' \in [Entries -> AuditRows \cup {Nil}]
          /\ req' \in [Requests -> AnyRequest] /\ code' \in [Requests -> Codes]
          /\ total' \in [Requests -> 0..MostRows]
      BY <1>1, <1>2, <1>3, <1>4, <1>5 DEF TypeOK, dbVars
    <2>2. began' \in [Requests -> SUBSET Listing]
      BY <1>1, <1>2, <1>3 DEF TypeOK, RowsOK
    <2> QED
      BY <1>1, <1>4, <2>1, <2>2, OtherTypes
  <1>8. ASSUME pc'[r] = "done" PROVE RequestOK(r)'
    BY <1>8, OutsideWalks DEF WalkSteps
  <1>9. ASSUME pc'[r] # "done" PROVE RequestOK(r)'
    <2>1. pc'[r] = "count"
      BY <1>1, <1>5, <1>9 DEF TypeOK
    <2>2. TotalOK(r)' /\ CoversTotal(r)' /\ ~WalkEnded(r)' /\ NextOffset(r)' = 0
      BY <1>3, <1>6, <2>1 DEF TotalOK, CoversTotal, WalkEnded, NextOffset
    <2>3. WithinListing(r)'
      BY <1>3, <1>6, <2>2 DEF WithinListing, RowsOK
    <2>4. \A row : 0 <= Cardinality(Newer(row, Listed(a)))
      BY <1>3, NewerGrows DEF RowsOK
    <2>5. WalkOK(r)'
      BY <1>3, <1>6, <2>2, <2>4 DEF WalkOK
    <2> QED
      BY <2>2, <2>3, <2>5 DEF RequestOK
  <1>10. \A x \in Requests \ {r} : Untouched(x)
    BY <1>1, <1>2, <1>4, <1>5 DEF TypeOK, Untouched
  <1> QED
    BY <1>7, <1>8, <1>9, <1>10

\* The next page begins where the last one ended.
LEMMA NextPageStep ==
  ASSUME ManagementInv, TenantsOK', NEW r \in Requests, NextPage(r)
  PROVE  TypeOK' /\ RequestOK(r)' /\ \A x \in Requests \ {r} : Untouched(x)
PROOF
  <1> DEFINE a == [req[r] EXCEPT !.offset = @ + req[r].limit]
             rows == Listed(req[r])
  <1>1. TypeOK /\ RequestOK(r) /\ RowsOK(rows)
    BY ListingsAreFinite
    DEF ManagementInv, ListingsOK, RequestOK, PageCoversTotal, CoversTotal
  <1>2. /\ pc[r] = "paged" /\ ~WalkEnded(r) /\ pc[r] \in WalkSteps
        /\ req' = [req EXCEPT ![r] = a] /\ Admit(r, a)
        /\ UNCHANGED <<dbVars, kmsKey, total, page, seen, began, cut>>
    BY DEF NextPage, listVars, WalkSteps
  <1>3. /\ \E step \in {"count", "done"} : pc' = [pc EXCEPT ![r] = step]
        /\ UNCHANGED code \/ \E c \in Codes : code' = [code EXCEPT ![r] = c]
    BY <1>2 DEF Admit, Goto, Fail, Reply, Codes
  <1>4. NextOffset(r) <= Cardinality(rows) /\ req[r].limit \in AskedLimits
    BY <1>1, <1>2 DEF RequestOK, WithinListing, WalkOK
  <1>5. req[r].offset + req[r].limit \in 0..MostRows /\ req[r].limit \in Nat \ {0}
    BY <1>1, <1>2, <1>4, WalkRequests, LimitOfPage DEF NextOffset, RowsOK
  <1>6. /\ a \in AnyRequest /\ a.offset = req[r].offset + req[r].limit
        /\ a.op = req[r].op /\ a.tenant = req[r].tenant
        /\ a.token = req[r].token /\ a.limit = req[r].limit
    <2>1. req[r] \in ListRequests(0..MostRows) \cup TrailRequests(0..MostRows)
      BY <1>1, <1>5 DEF TypeOK, AnyRequest, AdminRequests, NoRequest
    <2> QED
      BY <1>5, <2>1 DEF AnyRequest, ListRequests, TrailRequests
  <1> HIDE DEF a
  <1>7. req'[r] = a
    BY <1>1, <1>2 DEF TypeOK
  <1>8. Listed(req[r])' = rows
    BY <1>2, <1>6, <1>7, ListingStays DEF SameListing
  <1>9. TypeOK'
    <2>1. /\ auditRow' \in [Entries -> AuditRows \cup {Nil}]
          /\ req' \in [Requests -> AnyRequest] /\ code' \in [Requests -> Codes]
          /\ total' \in [Requests -> 0..MostRows] /\ began' \in [Requests -> SUBSET Listing]
      BY <1>1, <1>2, <1>3, <1>6 DEF TypeOK, dbVars
    <2> QED
      BY <1>1, <1>2, <2>1, OtherTypes
  <1>10. ASSUME pc'[r] = "done" PROVE RequestOK(r)'
    BY <1>10, OutsideWalks DEF WalkSteps
  <1>11. ASSUME pc'[r] # "done" PROVE RequestOK(r)'
    <2>1. pc'[r] = "count"
      BY <1>1, <1>3, <1>11 DEF TypeOK
    <2>2. /\ TotalOK(r)' /\ CoversTotal(r)' /\ ~WalkEnded(r)'
          /\ NextOffset(r)' = NextOffset(r)
      BY <1>2, <1>6, <1>7, <2>1 DEF TotalOK, CoversTotal, WalkEnded, NextOffset
    <2>3. WithinListing(r)'
      BY <1>4, <1>8, <2>2 DEF WithinListing
    <2>4. WalkOK(r)'
      BY <1>1, <1>2, <1>4, <1>6, <1>7, <1>8, <2>2 DEF RequestOK, WalkOK, Shown
    <2> QED
      BY <2>2, <2>3, <2>4 DEF RequestOK
  <1>12. \A x \in Requests \ {r} : Untouched(x)
    BY <1>1, <1>2, <1>3 DEF TypeOK, Untouched
  <1> QED
    BY <1>9, <1>10, <1>11, <1>12

\* A page, whole or cut off, of a walk that reads limit rows at a time: what it
\* leaves out lies beyond it, and if it is full there were that many rows.
LEMMA PageRead ==
  ASSUME ManagementInv, NEW r \in Requests, pc[r] = "page", NEW m \in Nat,
         NEW P \in Pages(Listed(req[r]), m, req[r].offset),
         m <= PageLimit(req[r].limit),
         UNCHANGED <<dbVars, req, total, began>>,
         pc'[r] = "paged", page'[r] = P, seen'[r] = seen[r] \cup P, cut'[r] \in BOOLEAN,
         ~cut'[r] => ~cut[r] /\ m = PageLimit(req[r].limit)
  PROVE  RequestOK(r)'
PROOF
  <1> DEFINE rows == Listed(req[r])
             n == Cardinality(rows)
             offset == req[r].offset
             l == req[r].limit
  <1>1. TypeOK /\ RequestOK(r) /\ RowsOK(rows)
    BY ListingsAreFinite
    DEF ManagementInv, ListingsOK, RequestOK, PageCoversTotal, CoversTotal
  <1>2. /\ pc[r] \in WalkSteps /\ ~WalkEnded(r) /\ NextOffset(r) = offset
        /\ total[r] <= n
    BY <1>1 DEF WalkSteps, WalkEnded, NextOffset, RequestOK, TotalOK
  <1>3. /\ l \in AskedLimits /\ l \in Nat \ {0} /\ PageLimit(l) \in Nat /\ PageLimit(l) <= l
        /\ l <= MaxLimit => PageLimit(l) = l
        /\ offset \in Nat /\ total[r] \in Nat /\ n \in Nat
    <2>1. l \in AskedLimits
      BY <1>1, <1>2 DEF RequestOK, WalkOK
    <2>2. offset \in Nat /\ total[r] \in Nat /\ n \in Nat
      BY <1>1, WalkRequests DEF TypeOK, RowsOK
    <2> QED
      BY <2>1, <2>2, LimitOfPage
  <1>4. Listed(req[r])' = rows
    BY ListingStays DEF SameListing
  <1>5. /\ P \subseteq rows /\ Cardinality(P) \in Nat
        /\ Cardinality(P) = Least(m, n - Least(offset, n))
    BY <1>1, <1>3, PageSize DEF RowsOK
  <1>6. /\ WalkEnded(r)' <=> Cardinality(P) < l
        /\ NextOffset(r)' = offset + l
    BY DEF WalkEnded, NextOffset
  <1>7. WithinListing(r)'
    BY <1>3, <1>4, <1>5, <1>6 DEF WithinListing, Least
  <1>8. CoversTotal(r)' /\ TotalOK(r)'
    BY <1>2, <1>3, <1>5 DEF CoversTotal, TotalOK, Least
  <1>9. ASSUME l <= MaxLimit, ~cut'[r], NEW row \in began[r]
        PROVE  \/ Shown(r, row)'
               \/ Tied(row, rows)
               \/ Cardinality(P) = l /\ offset + l <= Cardinality(Newer(row, rows))
    <2>1. \/ Shown(r, row)
          \/ Tied(row, rows)
          \/ offset <= Cardinality(Newer(row, rows))
      BY <1>1, <1>2, <1>9 DEF RequestOK, WalkOK
    <2>2. row \in rows /\ m = l
      BY <1>1, <1>2, <1>3, <1>9 DEF RequestOK, WalkOK
    <2>3. /\ \A x \in rows : x.createdAt \in Int
          /\ IsFiniteSet(rows) /\ \A x, y \in rows : x.id = y.id => x = y
      BY <1>1 DEF RowsOK, Listing, Stamps
    <2>4. CASE Shown(r, row) \/ row \in P
      BY <2>4 DEF Shown
    <2>5. CASE row \notin P /\ ~Tied(row, rows) /\ offset <= Cardinality(Newer(row, rows))
      <3> HIDE DEF rows, n, offset, l
      <3>1. P \in Pages(rows, l, offset)
        BY <2>2 DEF rows, offset
      <3> QED
        BY <1>3, <2>2, <2>3, <2>5, <3>1, PageMisses
    <2> QED
      BY <2>1, <2>4, <2>5
  <1>10. WalkOK(r)'
    BY <1>1, <1>2, <1>3, <1>4, <1>6, <1>9 DEF RequestOK, WalkOK
  <1> QED
    BY <1>7, <1>8, <1>10 DEF RequestOK

\* A page is read: whole, cut off without a word, or not at all.
LEMMA ListPageStep ==
  ASSUME ManagementInv, TenantsOK', NEW r \in Requests, ListPage(r)
  PROVE  TypeOK' /\ RequestOK(r)' /\ \A x \in Requests \ {r} : Untouched(x)
PROOF
  <1> DEFINE rows == Listed(req[r])
             limit == PageLimit(req[r].limit)
             Show(P) == /\ page' = [page EXCEPT ![r] = P]
                        /\ seen' = [seen EXCEPT ![r] = @ \cup P]
                        /\ pc' = [pc EXCEPT ![r] = "paged"]
                        /\ code' = [code EXCEPT ![r] = 200]
  <1>1. TypeOK /\ RequestOK(r) /\ RowsOK(rows) /\ pc[r] = "page"
    BY ListingsAreFinite
    DEF ManagementInv, ListingsOK, RequestOK, PageCoversTotal, CoversTotal, ListPage
  <1>2. UNCHANGED <<dbVars, kmsKey, req, total, began>>
    BY DEF ListPage
  <1>3. limit \in 1..MaxLimit /\ MaxLimit \in Nat /\ req[r].offset \in Nat
    <2>1. req[r].limit \in AskedLimits
      BY <1>1 DEF RequestOK, WalkOK, WalkSteps
    <2> QED
      BY <1>1, <2>1, LimitOfPage, LimitAssumption, WalkRequests
  <1>4. \/ \E m \in 0..limit : \E P \in Pages(rows, m, req[r].offset) :
             /\ Show(P)
             /\ \/ m = limit /\ UNCHANGED cut
                \/ cut' = [cut EXCEPT ![r] = TRUE]
        \/ /\ UNCHANGED <<page, seen, cut>> /\ pc' = [pc EXCEPT ![r] = "done"]
           /\ code' = [code EXCEPT ![r] = 500]
    BY <1>3 DEF ListPage, Fail, Reply
  <1>5. CASE /\ UNCHANGED <<page, seen, cut>> /\ pc' = [pc EXCEPT ![r] = "done"]
             /\ code' = [code EXCEPT ![r] = 500]
    <2>1. /\ auditRow' \in [Entries -> AuditRows \cup {Nil}]
          /\ req' \in [Requests -> AnyRequest] /\ code' \in [Requests -> Codes]
          /\ total' \in [Requests -> 0..MostRows] /\ began' \in [Requests -> SUBSET Listing]
      BY <1>1, <1>2, <1>5 DEF TypeOK, dbVars, Codes
    <2>2. TypeOK'
      BY <1>1, <1>5, <2>1, OtherTypes
    <2>3. pc'[r] = "done" /\ \A x \in Requests \ {r} : Untouched(x)
      BY <1>1, <1>2, <1>5 DEF TypeOK, Untouched
    <2> QED
      BY <2>2, <2>3, OutsideWalks DEF WalkSteps
  <1>6. ASSUME NEW m \in 0..limit, NEW P \in Pages(rows, m, req[r].offset), Show(P),
               \/ m = limit /\ UNCHANGED cut
               \/ cut' = [cut EXCEPT ![r] = TRUE]
        PROVE  TypeOK' /\ RequestOK(r)' /\ \A x \in Requests \ {r} : Untouched(x)
    <2>1. P \subseteq rows /\ Cardinality(P) \in Nat /\ Cardinality(P) <= m /\ m \in Nat
      <3>1. /\ P \subseteq rows /\ Cardinality(P) \in Nat /\ m \in Nat /\ Cardinality(rows) \in Nat
            /\ Cardinality(P) =
                 Least(m, Cardinality(rows) - Least(req[r].offset, Cardinality(rows)))
        BY <1>1, <1>3, PageSize DEF RowsOK
      <3> QED
        BY <1>3, <3>1 DEF Least
    <2>2. P \in SUBSET Listing /\ Cardinality(P) \in 0..MaxLimit
      BY <1>1, <1>3, <2>1 DEF RowsOK
    <2>3. /\ pc'[r] = "paged" /\ page'[r] = P /\ seen'[r] = seen[r] \cup P
          /\ cut'[r] \in BOOLEAN /\ (~cut'[r] => ~cut[r] /\ m = limit)
      BY <1>1, <1>6 DEF TypeOK
    <2>4. \A x \in Requests \ {r} : Untouched(x) /\ page'[x] = page[x] /\ seen'[x] = seen[x]
      BY <1>1, <1>2, <1>6 DEF TypeOK, Untouched
    <2>5. /\ page' \in [Requests -> SUBSET Listing] /\ seen' \in [Requests -> SUBSET Listing]
          /\ cut' \in [Requests -> BOOLEAN] /\ code' \in [Requests -> Codes]
      <3>1. seen[r] \cup P \in SUBSET Listing
        BY <1>1, <2>2 DEF TypeOK
      <3>2. /\ page' \in [Requests -> SUBSET Listing] /\ seen' \in [Requests -> SUBSET Listing]
        BY <1>1, <1>6, <2>2, <3>1 DEF TypeOK
      <3>3. cut' \in [Requests -> BOOLEAN]
        <4>1. cut \in [Requests -> BOOLEAN] /\ (cut' = cut \/ cut' = [cut EXCEPT ![r] = TRUE])
          BY <1>1, <1>6 DEF TypeOK
        <4> QED
          BY <4>1
      <3>4. code' \in [Requests -> Codes]
        <4>1. code \in [Requests -> Codes] /\ code' = [code EXCEPT ![r] = 200] /\ 200 \in Codes
          BY <1>1, <1>6 DEF TypeOK, Codes
        <4> QED
          BY <4>1
      <3> QED
        BY <3>2, <3>3, <3>4
    <2>6. \A x \in Requests : page'[x] \subseteq seen'[x] /\ Cardinality(page'[x]) \in 0..MaxLimit
      BY <1>1, <2>2, <2>3, <2>4 DEF TypeOK
    <2>7. /\ tenantRow' \in [Tenants -> TenantRows \cup {Nil}]
          /\ kmsKey' \in [Requests -> Tenants \cup {Nil}]
          /\ pc' \in [Requests -> Steps \cup {"idle", "paged", "done"}]
          /\ auditRow' \in [Entries -> AuditRows \cup {Nil}]
          /\ req' \in [Requests -> AnyRequest]
          /\ total' \in [Requests -> 0..MostRows] /\ began' \in [Requests -> SUBSET Listing]
      BY <1>1, <1>2, <1>6 DEF TypeOK, dbVars
    <2>8. TypeOK'
      BY <2>5, <2>6, <2>7 DEF TypeOK
    <2>9. RequestOK(r)'
      <3>1. m <= PageLimit(req[r].limit) /\ P \in Pages(Listed(req[r]), m, req[r].offset)
        BY <1>3
      <3> HIDE DEF Show
      <3> QED
        BY <1>1, <1>2, <2>1, <2>3, <3>1, PageRead
    <2> QED
      BY <2>4, <2>8, <2>9
  <1> QED
    BY <1>4, <1>5, <1>6

\* Every step of Management keeps the invariant.
LEMMA ManagementNext == ManagementInv /\ [Next]_vars => ManagementInv'
PROOF
  <1> SUFFICES ASSUME ManagementInv, [Next]_vars PROVE ManagementInv'
    OBVIOUS
  <1>1. TenantsOK' /\ RowsStay /\ TypeOK
    BY TenantsNext, RowsAreKept DEF ManagementInv
  <1>2. \A x \in Requests : RequestOK(x)
    BY DEF ManagementInv, ListingsOK, RequestOK, PageCoversTotal, CoversTotal
  <1>3. TypeOK' /\ \A x \in Requests : RequestOK(x)' \/ Untouched(x)
    <2>1. CASE UNCHANGED vars
      BY <1>1, <2>1 DEF TypeOK, Untouched, vars, dbVars, listVars
    <2>2. ASSUME NEW t \in Tenants, NEW k \in TokenIDs, Log(t, k)
          PROVE  TypeOK' /\ \A x \in Requests : Untouched(x)
      <3>1. auditRow' \in [Entries -> AuditRows \cup {Nil}]
        <4>1. PICK e \in Entries, stamp \in Stamps :
                auditRow' = [auditRow EXCEPT ![e] =
                  [tenant |-> t, masked |-> MaskTokenID(k), token |-> k, createdAt |-> stamp]]
          BY <2>2 DEF Log
        <4>2. [tenant |-> t, masked |-> MaskTokenID(k), token |-> k, createdAt |-> stamp]
                \in AuditRows
          BY DEF AuditRows, MaskTokenID, TokenIDs
        <4> QED
          BY <1>1, <4>1, <4>2 DEF TypeOK
      <3> QED
        BY <1>1, <2>2, <3>1 DEF TypeOK, Log, Untouched, listVars
    <2>3. ASSUME NEW r \in Requests,
                 Reject(r) \/ Administer(r) \/ Walk(r) \/ NextPage(r) \/ Serve(r)
          PROVE  TypeOK' /\ RequestOK(r)' /\ \A x \in Requests \ {r} : Untouched(x)
      BY <1>1, <2>3, AdminCalls, ListCountStep, ListPageStep, WalkStep, NextPageStep DEF Serve
    <2> QED
      BY <2>1, <2>2, <2>3 DEF Next
  <1>4. \A x \in Requests : RequestOK(x)'
    BY <1>1, <1>2, <1>3, Bystanders
  <1> QED
    BY <1>1, <1>3, <1>4 DEF ManagementInv, ListingsOK, RequestOK, PageCoversTotal, CoversTotal

\* At the start nothing is listed.
LEMMA ManagementStart == Init => ManagementInv
PROOF
  <1> SUFFICES ASSUME Init PROVE ManagementInv
    OBVIOUS
  <1>1. TypeOK
    <2>1. MostRows \in Nat /\ 0 \in 0..MaxLimit
      BY TenantsAssumption, BoundAssumption, LimitAssumption, FS_CardinalityType DEF MostRows
    <2>2. Cardinality({}) = 0
      BY FS_EmptySet
    <2> QED
      BY <2>1, <2>2 DEF Init, TypeOK, AnyRequest, Codes
  <1>2. \A r \in Requests : pc[r] \notin WalkSteps
    BY DEF Init, WalkSteps
  <1> QED
    BY <1>1, <1>2, TenantsInit
    DEF ManagementInv, ListingsOK, WithinListing, TotalOK, WalkOK, PageCoversTotal, WalkSteps

-----------------------------------------------------------------------------
(* The theorems on the listings *)

\* The whole inductive invariant: the tenants, the types, and for every walk
\* that the rows it has not come to lie beyond the pages it has read.
THEOREM ManagementInvariant == Spec => []ManagementInv
PROOF
  BY ManagementStart, ManagementNext, PTL DEF Spec

\* The types: no page is longer than the highest limit, whatever a client asks
\* for, and no walk asks for rows beyond the table (token_manage.go:177).
THEOREM ManagementTypes == Spec => []TypeOK
PROOF
  <1>1. ManagementInv => TypeOK
    BY DEF ManagementInv
  <1> QED
    BY <1>1, ManagementInvariant, PTL

\* A page is as long as the total that was counted before it promises
\* (audit_repo.go:33-49, tenant_repo.go:48-73), unless the connection broke.
THEOREM PagesCoverTheirTotal == Spec => []PageCoversTotal
PROOF
  <1>1. ManagementInv => PageCoversTotal
    BY DEF ManagementInv
  <1> QED
    BY <1>1, ManagementInvariant, PTL

\* A walk from page to page misses no row that was there when it began, however
\* many rows are added meanwhile, for any limit up to the highest: OFFSET counts
\* from the newest row, and added rows only push the others further back.
THEOREM WalksMissNothing == Spec => []WalkMissesNothing
PROOF
  <1>1. ManagementInv => WalkMissesNothing
    <2> SUFFICES ASSUME ManagementInv, NEW r \in Requests, WalkEnded(r),
                        req[r].limit <= MaxLimit, ~cut[r], NEW row \in began[r]
                 PROVE  \/ \E shown \in seen[r] : shown.id = row.id
                        \/ \E other \in Listed(req[r]) :
                             other.id # row.id /\ other.createdAt = row.createdAt
      BY DEF WalkMissesNothing
    <2>1. pc[r] \in WalkSteps /\ WalkOK(r)
      BY DEF WalkEnded, WalkSteps, ManagementInv, ListingsOK
    <2>2. Shown(r, row) \/ Tied(row, Listed(req[r]))
      BY <2>1 DEF WalkOK
    <2> QED
      BY <2>2 DEF Shown, Tied
  <1> QED
    BY <1>1, ManagementInvariant, PTL
===============================================================================
