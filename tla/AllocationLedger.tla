-------------------------- MODULE AllocationLedger --------------------------
(***************************************************************************)
(* What the address registry is for, without pools, sources, sessions or   *)
(* ARIN: a tenant asks once, the NIC answers once, a grant is a block of   *)
(* addresses that nobody else holds, and what was granted stays with the   *)
(* tenant until the return is confirmed.                                   *)
(***************************************************************************)
CONSTANTS Tenants,     \* one request each
          AddressSpace

VARIABLES standing,    \* how far each request has come
          held         \* the addresses each tenant may use

ledgerVars == <<standing, held>>

Standings == {"new", "asked", "withdrawn", "refused", "granted", "returning", "returned"}

LedgerInit ==
    /\ standing = [t \in Tenants |-> "new"]
    /\ held = [t \in Tenants |-> {}]

Move(t, from, to) ==
    standing[t] = from /\ standing' = [standing EXCEPT ![t] = to]

Ask(t) == Move(t, "new", "asked") /\ UNCHANGED held
Withdraw(t) == Move(t, "asked", "withdrawn") /\ UNCHANGED held
Refuse(t) == Move(t, "asked", "refused") /\ UNCHANGED held

\* Addresses that no other tenant holds, and at least one.
FreeFor(t, block) ==
    block # {} /\ \A u \in Tenants \ {t} : block \cap held[u] = {}

Grant(t) ==
    /\ Move(t, "asked", "granted")
    /\ \E block \in SUBSET AddressSpace :
           FreeFor(t, block) /\ held' = [held EXCEPT ![t] = block]

OfferReturn(t) == Move(t, "granted", "returning") /\ UNCHANGED held
TakeBack(t) == Move(t, "returning", "returned") /\ held' = [held EXCEPT ![t] = {}]

LedgerNext ==
    \E t \in Tenants :
        Ask(t) \/ Withdraw(t) \/ Refuse(t) \/ Grant(t) \/ OfferReturn(t) \/ TakeBack(t)

LedgerSpec == LedgerInit /\ [][LedgerNext]_ledgerVars
=============================================================================
