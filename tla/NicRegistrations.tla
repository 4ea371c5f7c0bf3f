-------------------------- MODULE NicRegistrations --------------------------
(***************************************************************************)
(* NIC registrations: a header with the life cycle, and a row with the     *)
(* fields in the table of its template type.  What the fields hold and how *)
(* templates.json validates them is left out.                              *)
(***************************************************************************)
EXTENDS Inventory

Templates == {"organization", "user", "host", "domain", "network", "asn", "dnskey"}
ArinEligible == {"network", "asn"}
Decided == {"approved", "rejected", "cancelled"}
Undecided == {"draft", "submitted"}

CreateNicRegistration(v, type, status) ==
    Inserted(db, "registration", NextId("registration"),
             v ++ [type |-> type, status |-> status, push |-> "unset", rev |-> 0])

\* The primary key of a detail row is its registration.
DetailRow(n) == [registration |-> n, rev |-> 0]
CreateNicRegOrganization(d, n) == Inserted(d, "nicOrganization", n, DetailRow(n))
CreateNicRegUser(d, n) == Inserted(d, "nicUser", n, DetailRow(n))
CreateNicRegHost(d, n) == Inserted(d, "nicHost", n, DetailRow(n))
CreateNicRegDomain(d, n) == Inserted(d, "nicDomain", n, DetailRow(n))
CreateNicRegNetwork(d, n) == Inserted(d, "nicNetwork", n, DetailRow(n))
CreateNicRegAsn(d, n) == Inserted(d, "nicAsn", n, DetailRow(n))
CreateNicRegDnskey(d, n) == Inserted(d, "nicDnskey", n, DetailRow(n))

insertDetail(d, n, type) ==
    CASE type = "organization" -> CreateNicRegOrganization(d, n)
      [] type = "user" -> CreateNicRegUser(d, n)
      [] type = "host" -> CreateNicRegHost(d, n)
      [] type = "domain" -> CreateNicRegDomain(d, n)
      [] type = "network" -> CreateNicRegNetwork(d, n)
      [] type = "asn" -> CreateNicRegAsn(d, n)
      [] type = "dnskey" -> CreateNicRegDnskey(d, n)

\* Header and detail in one transaction.
runCreate(v, type, status) ==
    /\ db' = insertDetail(CreateNicRegistration(v, type, status), NextId("registration"), type)
    /\ born' = [born EXCEPT !["registration"] = @ + 1]

create ==
    /\ Request
    /\ \E v \in Values("registration"), type \in Templates, status \in Undecided :
           runCreate(v, type, status)

\* UPDATE ... WHERE id = n AND status IN (from); no row is a 409.
Decide(n, from, v) ==
    db["registration"][n].status \in from /\ WriteRow("registration", n, v)

SubmitNicRegistration(n) == Decide(n, {"draft"}, [status |-> "submitted"])
CancelNicRegistration_Any(n) ==
    WriteRow("registration", n, [status |-> "cancelled"])
CancelNicRegistration(n) == Decide(n, Undecided, [status |-> "cancelled"])
ApproveNicRegistration(n, push) ==
    Decide(n, {"submitted"}, [status |-> "approved", push |-> push])
RejectNicRegistration(n) == Decide(n, {"submitted"}, [status |-> "rejected"])

submit == Request /\ \E n \in Live("registration") : SubmitNicRegistration(n)
cancel == Request /\ \E n \in Live("registration") : CancelNicRegistration(n)
approve ==
    /\ Request
    /\ \E n \in Live("registration"), push \in {"unset", "yes", "no"} :
           /\ push = "yes" => db["registration"][n].type \in ArinEligible
           /\ ApproveNicRegistration(n, push)
reject == Request /\ \E n \in Live("registration") : RejectNicRegistration(n)

NicRequests == create \/ submit \/ cancel \/ approve \/ reject
=============================================================================
