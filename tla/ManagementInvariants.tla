------------------------- MODULE ManagementInvariants -------------------------
(***************************************************************************)
(* The inductive invariants behind the safety properties of Management:    *)
(* what a tenant's row and key come from, and which rows a walk through a  *)
(* listing has still to come to.                                           *)
(***************************************************************************)
EXTENDS Management

WalkSteps == {"count", "page", "paged"}
AdminSteps == {"find", "createKey", "insert", "updateStatus"}

-----------------------------------------------------------------------------
(* Tenants and their keys *)

TenantTypeOK ==
  /\ tenantRow \in [Tenants -> TenantRows \cup {Nil}]
  /\ kmsKey \in [Requests -> Tenants \cup {Nil}]
  /\ pc \in [Requests -> AdminSteps \cup WalkSteps \cup {"idle", "done"}]
  /\ req = [r \in Requests |-> req[r]]
  /\ code \in [Requests -> Nat]

\* What a handler has established when it gets to one of its calls.
AdminOK ==
  \A r \in Requests :
    /\ pc[r] \in AdminSteps => req[r] \in AdminRequests
    /\ pc[r] = "insert" => kmsKey[r] = req[r].tenant
    /\ pc[r] = "updateStatus" => tenantRow[req[r].tenant] # Nil
    /\ code[r] = 201 => pc[r] = "done"

\* The request that made a tenant's key is over, and so can make no other.
KeysOK ==
  \A t \in Tenants :
    tenantRow[t] # Nil =>
      /\ pc[tenantRow[t].key] = "done"
      /\ kmsKey[tenantRow[t].key] = t

TenantsOK == TenantTypeOK /\ AdminOK /\ KeysOK /\ CreateAnswerHolds

-----------------------------------------------------------------------------
(* Listings *)

Newer(row, rows) == {x \in rows : x.createdAt > row.createdAt}
Tied(row, rows) == \E x \in rows : x.id # row.id /\ x.createdAt = row.createdAt
Shown(r, row) == \E shown \in seen[r] : shown.id = row.id

\* Where the walk goes on: at the page it asks for, or after the one it has.
NextOffset(r) == IF pc[r] = "paged" THEN req[r].offset + req[r].limit ELSE req[r].offset

\* The client goes on only while there have been that many rows.
WithinListing(r) ==
  pc[r] \in WalkSteps /\ ~WalkEnded(r) => NextOffset(r) <= Cardinality(Listed(req[r]))

\* COUNT ran before the page, and the rows it counted are still there.
TotalOK(r) == pc[r] = "page" => total[r] <= Cardinality(Listed(req[r]))

\* A row that the walk has not come to lies beyond the pages it has read.
WalkOK(r) ==
  pc[r] \in WalkSteps =>
    /\ req[r].limit \in AskedLimits
    /\ began[r] \subseteq Listed(req[r])
    /\ req[r].limit <= MaxLimit /\ ~cut[r] =>
         \A row \in began[r] :
           \/ Shown(r, row)
           \/ Tied(row, Listed(req[r]))
           \/ /\ ~WalkEnded(r)
              /\ NextOffset(r) <= Cardinality(Newer(row, Listed(req[r])))

ListingsOK == \A r \in Requests : WithinListing(r) /\ TotalOK(r) /\ WalkOK(r)

\* The inductive invariant of Management.
ManagementInv == TenantsOK /\ TypeOK /\ ListingsOK /\ PageCoversTotal
===============================================================================
