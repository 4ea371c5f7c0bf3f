----------------------------- MODULE LirLedger -----------------------------
(***************************************************************************)
(* The registry as an allocation ledger: where a request stands follows    *)
(* from its own row and its allocation's, and a tenant holds the addresses *)
(* of a prefix that is not yet returned.                                   *)
(***************************************************************************)
EXTENDS LirRegistry

Standing(r) ==
    CASE requests[r].status = "absent" -> "new"
      [] requests[r].status = "pending_approval" -> "asked"
      [] requests[r].status = "cancelled" -> "withdrawn"
      [] requests[r].status = "rejected" -> "refused"
      [] requests[r].status = "approved" ->
             CASE allocs[r].status = "active" -> "granted"
               [] allocs[r].status = "return_requested" -> "returning"
               [] allocs[r].status = "returned" -> "returned"

HeldAddresses(r) == IF Live(allocs[r]) THEN Addresses(allocs[r].prefix) ELSE {}

Ledger == INSTANCE AllocationLedger WITH
    Tenants <- Requests,
    AddressSpace <- 0 .. (2^AddrBits - 1),
    standing <- [r \in Requests |-> Standing(r)],
    held <- [r \in Requests |-> HeldAddresses(r)]

\* Every step of every handler is a step of the ledger or none: no block is
\* given to two tenants, no grant is taken back but by a confirmed return,
\* and no answer is changed (lir/approval.go, lir/returns.go).
RegistryKeepsLedger == Ledger!LedgerSpec
=============================================================================
