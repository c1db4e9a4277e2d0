------------------------------ MODULE Management ------------------------------
(***************************************************************************)
(* The endpoints beside the data path: the tenants of the service, each    *)
(* with a KMS key of its own, and the audit trail of a token.  Requests    *)
(* overlap as in Tokenizer: one action is one statement or one KMS call.   *)
(*                                                                         *)
(* The two listings are pages of a table that goes on growing.  A client   *)
(* walks through one with a fixed limit, a request for each page, until a  *)
(* page is shorter than the limit it asked for.                            *)
(***************************************************************************)
EXTENDS Integers, FiniteSets

CONSTANTS
  Requests,     \* an admin's request, or a client's walk through a listing
  Tenants,      \* tenant identifiers
  Prefixes,     \* the first 12 characters of token identifiers ...
  Rests,        \* ... and what follows them
  Nil,
  Faults,       \* the services that may fail, a subset of {"db", "kms"}
  AskedLimits,  \* the limits that clients ask for
  DefaultLimit, \* 50 in the code
  MaxLimit,     \* 200 in the code
  MaxEntries,   \* bound: rows of audit_log
  MaxStamp      \* bound: values of created_at

ASSUME LimitAssumption ==
  /\ AskedLimits \subseteq Nat \ {0}
  /\ DefaultLimit \in Nat \ {0} /\ MaxLimit \in Nat /\ DefaultLimit <= MaxLimit
ASSUME TenantsAssumption == IsFiniteSet(Tenants)
ASSUME BoundAssumption == MaxEntries \in Nat /\ MaxStamp \in Nat

VARIABLES
  tenantRow,   \* tenantRow[t]: row of "tenants" with tenant_id = t, or Nil
  kmsKey,      \* kmsKey[r]: the tenant for which r created a KMS key, or Nil
  auditRow,    \* auditRow[e]: row e of "audit_log", or Nil
  pc,          \* pc[r]: the call the handler of r makes next
  req,         \* req[r]: the request as received
  code,        \* code[r]: the HTTP status of the latest answer to r
  total,       \* total[r]: what COUNT has returned
  page,        \* page[r]: the rows of the latest page
  seen,        \* history: the rows of all the pages of the walk
  began,       \* history: the rows there were when the walk began
  cut          \* history: rows of some page of the walk were lost

dbVars == <<tenantRow, auditRow>>
listVars == <<total, page, seen, began, cut>>
vars == <<dbVars, kmsKey, pc, req, code, listVars>>

-----------------------------------------------------------------------------
(* Rows and requests *)

Stamps == 1..MaxStamp
Entries == 1..MaxEntries
TokenIDs == Prefixes \X Rests

\* MaskTokenID keeps the first 12 of the 44 characters.
MaskTokenID(k) == k[1]

\* A KMS key is named by the request that created it.
TenantRows == [key : Requests, status : {"active", "inactive"}, createdAt : Stamps]
\* token is history: the table holds the masked identifier only.
AuditRows == [tenant : Tenants, masked : Prefixes, token : TokenIDs, createdAt : Stamps]

ASSUME NilAssumption == Nil \notin TenantRows

\* What a listing shows of a row.
Listing == [id : Tenants \cup Entries, createdAt : Stamps]

AdminRequests ==
  [op : {"create", "get", "deactivate"}, tenant : Tenants, token : {Nil},
   limit : {0}, offset : {0}]
ListRequests(offsets) ==
  [op : {"list"}, tenant : {Nil}, token : {Nil}, limit : AskedLimits, offset : offsets]
TrailRequests(offsets) ==
  [op : {"trail"}, tenant : Tenants, token : TokenIDs, limit : AskedLimits, offset : offsets]
NoRequest == [op |-> "none", tenant |-> Nil, token |-> Nil, limit |-> 0, offset |-> 0]

\* No listing has more rows.
MostRows == Cardinality(Tenants) + MaxEntries

AnyRequest ==
  AdminRequests \cup ListRequests(0..MostRows) \cup TrailRequests(0..MostRows) \cup {NoRequest}

Codes == {0, 200, 201, 400, 403, 404, 409, 500, 503}
Steps == {"find", "createKey", "insert", "updateStatus", "count", "page"}

TypeOK ==
  /\ tenantRow \in [Tenants -> TenantRows \cup {Nil}]
  /\ kmsKey \in [Requests -> Tenants \cup {Nil}]
  /\ auditRow \in [Entries -> AuditRows \cup {Nil}]
  /\ pc \in [Requests -> Steps \cup {"idle", "paged", "done"}]
  /\ req \in [Requests -> AnyRequest]
  /\ code \in [Requests -> Codes]
  /\ total \in [Requests -> 0..MostRows]
  /\ page \in [Requests -> SUBSET Listing]
  /\ seen \in [Requests -> SUBSET Listing]
  /\ began \in [Requests -> SUBSET Listing]
  /\ cut \in [Requests -> BOOLEAN]
  /\ \A r \in Requests : page[r] \subseteq seen[r] /\ Cardinality(page[r]) \in 0..MaxLimit

Init ==
  /\ tenantRow = [t \in Tenants |-> Nil]
  /\ kmsKey = [r \in Requests |-> Nil]
  /\ auditRow = [e \in Entries |-> Nil]
  /\ pc = [r \in Requests |-> "idle"]
  /\ req = [r \in Requests |-> NoRequest]
  /\ code = [r \in Requests |-> 0]
  /\ total = [r \in Requests |-> 0]
  /\ page = [r \in Requests |-> {}]
  /\ seen = [r \in Requests |-> {}]
  /\ began = [r \in Requests |-> {}]
  /\ cut = [r \in Requests |-> FALSE]

Goto(r, step) == pc' = [pc EXCEPT ![r] = step] /\ UNCHANGED code
Reply(r, c) == pc' = [pc EXCEPT ![r] = "done"] /\ code' = [code EXCEPT ![r] = c]
Fail(service, r, c) == service \in Faults /\ Reply(r, c)

-----------------------------------------------------------------------------
(* The listings: SELECT COUNT, then SELECT ... LIMIT limit OFFSET offset *)

Least(a, b) == IF a < b THEN a ELSE b

\* The rows a request lists: all tenants, or the trail of one masked token.
Listed(a) ==
  IF a.op = "list"
  THEN {[id |-> t, createdAt |-> tenantRow[t].createdAt] :
          t \in {u \in Tenants : tenantRow[u] # Nil}}
  ELSE {[id |-> e, createdAt |-> auditRow[e].createdAt] :
          e \in {x \in Entries : /\ auditRow[x] # Nil
                                 /\ auditRow[x].tenant = a.tenant
                                 /\ auditRow[x].masked = MaskTokenID(a.token)}}

\* The rows a request is meant to list: of the token itself.
Meant(a) ==
  IF a.op = "list" THEN Listed(a)
  ELSE {row \in Listed(a) : auditRow[row.id].token = a.token}

\* Mutant: the highest limit that is allowed is taken for a wrong one.
PageLimitBelowMax(l) == IF l > 0 /\ l < MaxLimit THEN l ELSE DefaultLimit

\* Mutant: any limit is allowed.
PageLimitUncapped(l) == IF l > 0 THEN l ELSE DefaultLimit

PageLimit(l) == IF l > 0 /\ l <= MaxLimit THEN l ELSE DefaultLimit

\* No row of A comes after a row outside it.
NewestFirst(A, rows) == \A x \in A, y \in rows \ A : x.createdAt >= y.createdAt

\* Mutant: no ORDER BY, so the rows come in any order.
PagesUnordered(rows, limit, offset) ==
  {P \in SUBSET rows :
     Cardinality(P) = Least(limit, Cardinality(rows) - Least(offset, Cardinality(rows)))}

\* The pages that ORDER BY created_at DESC LIMIT limit OFFSET offset may give:
\* rows with the same created_at come in any order, a new one each time.
Pages(rows, limit, offset) ==
  LET n == Cardinality(rows)
      skipped == Least(offset, n)
  IN  {P \in SUBSET rows :
         /\ Cardinality(P) = Least(limit, n - skipped)
         /\ \E A \in SUBSET (rows \ P) :
              Cardinality(A) = skipped /\ NewestFirst(A, rows) /\ NewestFirst(A \cup P, rows)}

\* Mutant: COUNT is not given the filter of the page.
ListCountAll(r) ==
  /\ pc[r] = "count"
  /\ \/ /\ total' = [total EXCEPT ![r] =
             IF req[r].op = "list" THEN Cardinality(Listed(req[r]))
             ELSE Cardinality({e \in Entries : auditRow[e] # Nil})]
        /\ Goto(r, "page")
     \/ UNCHANGED total /\ Fail("db", r, 500)
  /\ UNCHANGED <<dbVars, kmsKey, req, page, seen, began, cut>>

ListCount(r) ==
  /\ pc[r] = "count"
  /\ \/ total' = [total EXCEPT ![r] = Cardinality(Listed(req[r]))] /\ Goto(r, "page")
     \/ UNCHANGED total /\ Fail("db", r, 500)
  /\ UNCHANGED <<dbVars, kmsKey, req, page, seen, began, cut>>

\* A second statement.  rows.Err() is never looked at: when the connection breaks
\* the loop just ends, and what has been read so far is answered 200.
ListPage(r) ==
  /\ pc[r] = "page"
  /\ LET limit == PageLimit(req[r].limit)
         Show(P) == /\ page' = [page EXCEPT ![r] = P]
                    /\ seen' = [seen EXCEPT ![r] = @ \cup P]
                    /\ pc' = [pc EXCEPT ![r] = "paged"]
                    /\ code' = [code EXCEPT ![r] = 200]
     IN  \/ /\ \E P \in Pages(Listed(req[r]), limit, req[r].offset) : Show(P)
            /\ UNCHANGED cut
         \/ /\ "db" \in Faults
            /\ \E n \in 0..(limit - 1) :
                 \E P \in Pages(Listed(req[r]), n, req[r].offset) : Show(P)
            /\ cut' = [cut EXCEPT ![r] = TRUE]
         \/ UNCHANGED <<page, seen, cut>> /\ Fail("db", r, 500)
  /\ UNCHANGED <<dbVars, kmsKey, req, total, began>>

\* RequireTenant stands before the trail, not before the tenants.
Admit(r, a) ==
  IF a.op = "list" THEN Goto(r, "count")
  ELSE \/ tenantRow[a.tenant] = Nil /\ Reply(r, 404)
       \/ /\ tenantRow[a.tenant] # Nil
          /\ IF tenantRow[a.tenant].status # "active" THEN Reply(r, 403) ELSE Goto(r, "count")
       \/ Fail("db", r, 500)

Walk(r) ==
  /\ pc[r] = "idle"
  /\ \E a \in ListRequests({0}) \cup TrailRequests({0}) :
       /\ req' = [req EXCEPT ![r] = a]
       /\ began' = [began EXCEPT ![r] = Meant(a)]
       /\ Admit(r, a)
  /\ UNCHANGED <<dbVars, kmsKey, total, page, seen, cut>>

WalkEnded(r) == pc[r] = "paged" /\ Cardinality(page[r]) < req[r].limit

\* The client goes on to the next page while the pages are full.
NextPage(r) ==
  /\ pc[r] = "paged" /\ ~WalkEnded(r)
  /\ LET a == [req[r] EXCEPT !.offset = @ + req[r].limit]
     IN  req' = [req EXCEPT ![r] = a] /\ Admit(r, a)
  /\ UNCHANGED <<dbVars, kmsKey, listVars>>

-----------------------------------------------------------------------------
(* /admin/tenants *)

\* A body, identifier or name that is refused before any store is used; also
\* BearerAuth, whose answer is 401.
Reject(r) ==
  /\ pc[r] = "idle"
  /\ Reply(r, 400)
  /\ UNCHANGED <<dbVars, kmsKey, req, listVars>>

Administer(r) ==
  /\ pc[r] = "idle"
  /\ \E a \in AdminRequests : req' = [req EXCEPT ![r] = a]
  /\ Goto(r, "find")
  /\ UNCHANGED <<dbVars, kmsKey, listVars>>

FindByTenantID(r) ==
  /\ pc[r] = "find"
  /\ LET found == tenantRow[req[r].tenant] # Nil
     IN  \/ req[r].op = "create" /\ (IF found THEN Reply(r, 409) ELSE Goto(r, "createKey"))
         \/ req[r].op = "get" /\ Reply(r, IF found THEN 200 ELSE 404)
         \/ req[r].op = "deactivate" /\ (IF found THEN Goto(r, "updateStatus") ELSE Reply(r, 404))
         \/ Fail("db", r, 500)
  /\ UNCHANGED <<dbVars, kmsKey, req, listVars>>

\* Mutant: the handler goes on when KMS has failed.
CreateKeyNoReturn(r) ==
  /\ pc[r] = "createKey"
  /\ \/ kmsKey' = [kmsKey EXCEPT ![r] = req[r].tenant]
     \/ "kms" \in Faults /\ UNCHANGED kmsKey
  /\ Goto(r, "insert")
  /\ UNCHANGED <<dbVars, req, listVars>>

\* Nothing removes the key again if the request fails from here on.
CreateKey(r) ==
  /\ pc[r] = "createKey"
  /\ \/ /\ kmsKey' = [kmsKey EXCEPT ![r] = req[r].tenant]
        /\ Goto(r, "insert") \/ Fail("kms", r, 503)
     \/ UNCHANGED kmsKey /\ Fail("kms", r, 503)
  /\ UNCHANGED <<dbVars, req, listVars>>

\* created_at is when the statement began: rows need not be committed in its order.
NewTenant(r, stamp) ==
  [tenantRow EXCEPT ![req[r].tenant] = [key |-> r, status |-> "active", createdAt |-> stamp]]

\* Mutant: INSERT ... ON CONFLICT (tenant_id) DO UPDATE.
TenantCreateUpsert(r) ==
  /\ pc[r] = "insert"
  /\ \/ /\ \E stamp \in Stamps : tenantRow' = NewTenant(r, stamp)
        /\ Reply(r, 201) \/ Fail("db", r, 500)
     \/ UNCHANGED tenantRow /\ Fail("db", r, 500)
  /\ UNCHANGED <<auditRow, kmsKey, req, listVars>>

\* The unique index on tenant_id refuses a second row.
TenantCreate(r) ==
  /\ pc[r] = "insert"
  /\ \/ /\ tenantRow[req[r].tenant] = Nil
        /\ \E stamp \in Stamps : tenantRow' = NewTenant(r, stamp)
        /\ Reply(r, 201) \/ Fail("db", r, 500)
     \/ tenantRow[req[r].tenant] # Nil /\ UNCHANGED tenantRow /\ Reply(r, 500)
     \/ UNCHANGED tenantRow /\ Fail("db", r, 500)
  /\ UNCHANGED <<auditRow, kmsKey, req, listVars>>

TenantUpdateStatus(r) ==
  /\ pc[r] = "updateStatus"
  /\ \/ /\ tenantRow' = [tenantRow EXCEPT ![req[r].tenant].status = "inactive"]
        /\ Reply(r, 200) \/ Fail("db", r, 500)
     \/ UNCHANGED tenantRow /\ Fail("db", r, 500)
  /\ UNCHANGED <<auditRow, kmsKey, req, listVars>>

-----------------------------------------------------------------------------
(* The whole *)

\* Log, called by an endpoint of the tokenizer for a tenant RequireTenant let pass.
Log(t, k) ==
  /\ tenantRow[t] # Nil
  /\ \E e \in Entries, stamp \in Stamps :
       /\ \A x \in Entries : auditRow[x] = Nil <=> x >= e
       /\ auditRow' = [auditRow EXCEPT ![e] =
            [tenant |-> t, masked |-> MaskTokenID(k), token |-> k, createdAt |-> stamp]]
  /\ UNCHANGED <<tenantRow, kmsKey, pc, req, code, listVars>>

Serve(r) ==
  \/ ListCount(r)
  \/ ListPage(r)
  \/ FindByTenantID(r)
  \/ CreateKey(r)
  \/ TenantCreate(r)
  \/ TenantUpdateStatus(r)

\* A handler that dies is one that takes no further step, which Spec allows.
Next ==
  \/ \E r \in Requests :
       Reject(r) \/ Administer(r) \/ Walk(r) \/ NextPage(r) \/ Serve(r)
  \/ \E t \in Tenants, k \in TokenIDs : Log(t, k)

Spec == Init /\ [][Next]_vars

-----------------------------------------------------------------------------
(* Tenants and their keys *)

\* Every tenant has a KMS key that was created for it and for no other, however
\* creations of one tenant race and wherever they fail (002 spec.md, FR-011).
DedicatedKeys ==
  \A t \in Tenants : tenantRow[t] # Nil => kmsKey[tenantRow[t].key] = t

\* What the answer to a creation says stays true: the tenant is there, under the
\* key named in the answer, so no two creations of one tenant are both answered 201.
CreateAnswerHolds ==
  \A r \in Requests :
    code[r] = 201 => /\ tenantRow[req[r].tenant] # Nil
                     /\ tenantRow[req[r].tenant].key = r

\* A tenant's key never changes, because the data keys of all its PANs are wrapped
\* under it, and no creation that was under way brings a deactivated tenant back.
TenantLifecycle ==
  [][\A t \in Tenants :
       tenantRow[t] # Nil =>
         /\ tenantRow'[t] # Nil /\ tenantRow'[t].key = tenantRow[t].key
         /\ tenantRow[t].status = "inactive" => tenantRow'[t].status = "inactive"]_vars

-----------------------------------------------------------------------------
(* Listings *)

\* COUNT runs first and rows are never deleted: a page is as long as total and
\* limit promise, unless the connection broke while it was read.
PageCoversTotal ==
  \A r \in Requests :
    pc[r] = "paged" /\ ~cut[r] =>
      Cardinality(page[r]) >= Least(PageLimit(req[r].limit), total[r] - req[r].offset)

\* While rows are added, a walk from page to page misses no row that was there
\* when it began: added rows push it to later pages only.  Rows that share their
\* created_at are excepted, because their order changes from page to page.
WalkMissesNothing ==
  \A r \in Requests :
    WalkEnded(r) /\ req[r].limit <= MaxLimit /\ ~cut[r] =>
      \A row \in began[r] :
        \/ \E shown \in seen[r] : shown.id = row.id
        \/ \E other \in Listed(req[r]) : other.id # row.id /\ other.createdAt = row.createdAt

-----------------------------------------------------------------------------
(* Statements of the documents under specs/ that the code does not keep *)

\* The audit trail is the history of one token (001 spec.md, FR-012).
TrailOfOneToken ==
  \A r \in Requests :
    req[r].op = "trail" => \A row \in seen[r] : auditRow[row.id].token = req[r].token
===============================================================================
