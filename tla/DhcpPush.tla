------------------------------ MODULE DhcpPush ------------------------------
(***************************************************************************)
(* DHCP scopes of one server and the Kea instance they are pushed to       *)
(* (packages/otter-go/internal/dhcp/{push,diff,bundle} and the scope       *)
(* handlers of internal/ipam).                                             *)
(*                                                                         *)
(* A push loads the scope, claims a kea_subnet_id on the first push, sends *)
(* subnet-add or subnet-update, asks Kea to write its configuration and    *)
(* records the outcome; none of it is in one transaction, so every         *)
(* database statement and every Kea call is a step of its own.  A call     *)
(* that is cancelled (the request's context ends) stops where it is: the   *)
(* roll back runs under the same context and does not happen either.       *)
(*                                                                         *)
(* Nothing orders the requests: two of them may work on one scope.         *)
(*                                                                         *)
(* Kea is external: subnets by family and id, since dhcp4 and dhcp6 are    *)
(* two servers.  A request may be lost, answered too late, or executed     *)
(* after the caller gave up.                                               *)
(*                                                                         *)
(* A scope's content is abstracted to one value: its own or its template's, *)
(* which is what MergeTemplateIntoScope selects for every field.           *)
(* Scopes are numbered in the order of their prefixes; each prefix is      *)
(* distinct (uq_dhcp_scope_server_prefix).                                 *)
(***************************************************************************)
EXTENDS Naturals, FiniteSets

CONSTANTS
    Scopes,          \* the scopes, numbered in prefix order
    Family,          \* the address family of a scope, 4 or 6
    Calls,           \* requests that push, delete or compare scopes
    MaxId,           \* subnet ids are 1..MaxId
    NewScopes,       \* what a scope may be created as: its text, enabled or not
    EditedScopes,    \* and what a PATCH may make of it
    MaxRequests,     \* bound on the requests and edits in a behaviour
    MaxEdits,        \* bound on the operators' edits in a behaviour
    MaxFaults,       \* bound on faults in a behaviour
    NONE

ASSUME ScopesAssumption == Scopes \subseteq Nat /\ IsFiniteSet(Scopes)
ASSUME MaxIdAssumption == MaxId \in Nat /\ Cardinality(Scopes) < MaxId
ASSUME FamilyAssumption == Family \in [Scopes -> {4, 6}]
ASSUME DhcpBoundsAssumption == MaxRequests \in Nat /\ MaxEdits \in Nat /\ MaxFaults \in Nat
ASSUME NewScopesAssumption ==
    NewScopes \cup EditedScopes \subseteq [text : {"stored", "linked"}, enabled : BOOLEAN]
ASSUME NoneAssumption == NONE \notin Scopes \cup Nat \cup {"x", "y"}

Ids == 1 .. MaxId
Families == {4, 6}

\* What a scope's fields hold: their own values, or the template's through the link.
Texts == {"stored", "linked"}

VARIABLES
    scopes,     \* dhcp_scopes
    tpl,        \* the scope template's text, NONE when there is no template
    serverOn,   \* dhcp_servers.enabled
    kea,        \* Kea's subnets by family and id
    late,       \* requests Kea has received and not yet executed
    calls,      \* where each request is, and what it has read
    undercut,   \* history: scopes and ids taken from them under a request (see TakeId)
    started, edits, faults   \* counters for the bounds

dhcpVars == <<scopes, tpl, serverOn, kea, late, calls, undercut, started, edits, faults>>

Absent == [row |-> "absent", text |-> "stored", enabled |-> FALSE, kid |-> NONE, diff |-> "null"]
Waiting == [kind |-> "none", pc |-> "idle", op |-> "none", s |-> NONE, kid |-> NONE,
            text |-> "none", status |-> "none", todo |-> {}]
Between(kind, todo) == [kind |-> kind, pc |-> "next", op |-> "none", s |-> NONE, kid |-> NONE,
                        text |-> "none", status |-> "none", todo |-> todo]

DhcpInit ==
    /\ scopes = [s \in Scopes |-> Absent]
    /\ tpl \in {"x", NONE}
    /\ serverOn = TRUE
    /\ kea = [k \in Families \X Ids |-> NONE]
    /\ late = {}
    /\ calls = [c \in Calls |-> Waiting]
    /\ undercut = {}
    /\ started = 0
    /\ edits = 0
    /\ faults = 0

\* MergeTemplateIntoScope: the scope's own value, else the template's.
Effective(sc) == IF sc.text = "linked" THEN tpl ELSE sc.text

Fault == faults < MaxFaults /\ faults' = faults + 1
NoFault == UNCHANGED faults

At(c, pc) == calls[c].pc = pc

-----------------------------------------------------------------------------
(* Operators' edits *)

\* Counted with the requests, and apart.
Edit ==
    /\ started + edits < MaxRequests /\ edits < MaxEdits
    /\ edits' = edits + 1

\* The template preflight of create and update.
TextOk(t) == t = "linked" => tpl # NONE

createDhcpScope(s) ==
    /\ scopes[s].row = "absent"
    /\ \E n \in NewScopes :
        /\ TextOk(n.text)
        /\ scopes' = [scopes EXCEPT ![s] = [row |-> "live", text |-> n.text, enabled |-> n.enabled,
                                            kid |-> NONE, diff |-> "null"]]
    /\ UNCHANGED <<undercut, started, tpl, serverOn, kea, late, calls, edits, faults>>

\* A PATCH reaches tombstones too; it leaves last_diff_status and the id alone.
updateDhcpScope(s) ==
    /\ scopes[s].row # "absent"
    /\ \E n \in EditedScopes :
        /\ TextOk(n.text)
        /\ n # [text |-> scopes[s].text, enabled |-> scopes[s].enabled]
        /\ scopes' = [scopes EXCEPT ![s].text = n.text, ![s].enabled = n.enabled]
    /\ Edit
    /\ UNCHANGED <<undercut, started, tpl, serverOn, kea, late, calls, faults>>

\* restoreDhcpScope does not push the scope again.  There are as many restores as
\* deletes, which are counted.
restoreDhcpScope(s) ==
    /\ scopes[s].row = "tombstone"
    /\ scopes' = [scopes EXCEPT ![s].row = "live"]
    /\ UNCHANGED <<undercut, started, tpl, serverOn, kea, late, calls, edits, faults>>

createDhcpScopeTemplate ==
    /\ tpl = NONE
    /\ tpl' = "x"
    /\ Edit
    /\ UNCHANGED <<undercut, started, scopes, serverOn, kea, late, calls, faults>>

updateDhcpScopeTemplate ==
    /\ tpl # NONE
    /\ tpl' = IF tpl = "x" THEN "y" ELSE "x"
    /\ Edit
    /\ UNCHANGED <<undercut, started, scopes, serverOn, kea, late, calls, faults>>

\* template_id is ON DELETE SET NULL: the scopes fall back to their own values.
deleteDhcpScopeTemplate ==
    /\ tpl # NONE
    /\ tpl' = NONE
    /\ scopes' = [s \in Scopes |->
            IF scopes[s].text = "linked" THEN [scopes[s] EXCEPT !.text = "stored"] ELSE scopes[s]]
    /\ Edit
    /\ UNCHANGED <<undercut, started, serverOn, kea, late, calls, faults>>

updateDhcpServer ==
    /\ serverOn' = ~serverOn
    /\ Edit
    /\ UNCHANGED <<undercut, started, scopes, tpl, kea, late, calls, faults>>

\* The daily purge of expired tombstones.  The retention is days and a request
\* lasts seconds, so none of the scope's requests is still under way.
PurgeExpiredTombstones(s) ==
    /\ scopes[s].row = "tombstone"
    /\ \A c \in Calls : calls[c].s # s
    /\ \A m \in late : m.s # s
    /\ scopes' = [scopes EXCEPT ![s] = Absent]
    /\ UNCHANGED <<undercut, started, tpl, serverOn, kea, late, calls, edits, faults>>

Operator ==
    \/ \E s \in Scopes : createDhcpScope(s) \/ updateDhcpScope(s) \/ restoreDhcpScope(s)
    \/ createDhcpScopeTemplate \/ updateDhcpScopeTemplate \/ deleteDhcpScopeTemplate
    \/ updateDhcpServer

-----------------------------------------------------------------------------
(* Kea *)

Request(c) == [op |-> calls[c].op, id |-> calls[c].kid, s |-> calls[c].s, text |-> calls[c].text]
Subnet(m) == [s |-> m.s, text |-> m.text]
Key(s, id) == <<Family[s], id>>
InFlight == late \cup {Request(c) : c \in {d \in Calls : At(d, "send")}}

\* What Kea accepts: an add of a new id and a new prefix, an update of an id it
\* has, a delete of anything (an unknown id is result 3, which counts as ok).
KeaAccepts(m) ==
    LET k == Key(m.s, m.id)
        elsewhere == \E o \in DOMAIN kea \ {k} : kea[o] # NONE /\ kea[o].s = m.s
    IN  CASE m.op = "add"    -> kea[k] = NONE /\ ~elsewhere
          [] m.op = "update" -> kea[k] # NONE /\ ~elsewhere
          [] m.op = "delete" -> TRUE

KeaApplied(m) ==
    [kea EXCEPT ![Key(m.s, m.id)] = IF ~KeaAccepts(m) THEN @ ELSE IF m.op = "delete" THEN NONE ELSE Subnet(m)]

\* A request the caller gave up on is executed after all.
KeaLate ==
    /\ \E m \in late :
        /\ kea' = KeaApplied(m)
        /\ late' = late \ {m}
    /\ UNCHANGED <<undercut, started, scopes, tpl, serverOn, calls, edits, faults>>

-----------------------------------------------------------------------------
(* Requests *)

Start(c, kind, todo) ==
    /\ At(c, "idle")
    /\ todo # {}
    /\ started + edits < MaxRequests
    /\ started' = started + 1
    /\ calls' = [calls EXCEPT ![c] = Between(kind, todo)]
    /\ UNCHANGED <<undercut, scopes, tpl, serverOn, kea, late, edits, faults>>

LiveScopes == {s \in Scopes : scopes[s].row = "live"}
EnabledScopes == {s \in LiveScopes : scopes[s].enabled}

pushDhcpScope(c) == \E s \in {s \in Scopes : scopes[s].row # "absent"} : Start(c, "push", {s})
PushAllScopes(c) == Start(c, "push", EnabledScopes)
PushDriftedScopes(c) == Start(c, "push", {s \in EnabledScopes : scopes[s].diff = "drifted"})
deleteDhcpScope(c) == \E s \in LiveScopes : Start(c, "delete", {s})
DiffAllScopes(c) == Start(c, "diff", LiveScopes)

\* The scopes of a bulk request are taken one after the other, in creation order,
\* which is any order here.
Takes(c, kind, s) ==
    /\ At(c, "next")
    /\ calls[c].kind = kind
    /\ s \in calls[c].todo

\* The request moves on to its next scope, or ends.
Proceed(c, todo) ==
    calls' = [calls EXCEPT ![c] = IF todo = {} THEN Waiting ELSE Between(calls[c].kind, todo)]

\* The request has read the scope: what it works with from here on is its copy.
Works(c, s, pc, op, kid) ==
    calls' = [calls EXCEPT ![c] =
        [kind |-> calls[c].kind, pc |-> pc, op |-> op, s |-> s, kid |-> kid,
         text |-> Effective(scopes[s]), status |-> "none", todo |-> calls[c].todo \ {s}]]

\* The next statement of the request, and what came of the last one.  The copy of
\* the scope is forgotten when no later statement uses it.
Moved(x, pc, status) ==
    [kind |-> x.kind, pc |-> pc, op |-> IF pc \in {"send", "write"} THEN x.op ELSE "none",
     s |-> x.s, kid |-> IF pc = "send" THEN x.kid ELSE NONE,
     text |-> IF pc = "send" THEN x.text ELSE "none", status |-> status, todo |-> x.todo]
Step(c, pc, status) == calls' = [calls EXCEPT ![c] = Moved(calls[c], pc, status)]

\* loadScopeForPush, loadEnabledServerForPush and loadTemplate.  A scope that is
\* gone or a disabled server is a refusal, after which a bulk push goes on.
PushLoad(c, s) ==
    /\ Takes(c, "push", s)
    /\ IF scopes[s].row # "live" \/ ~serverOn THEN Proceed(c, calls[c].todo \ {s})
       ELSE IF scopes[s].kid = NONE THEN Works(c, s, "list", "add", NONE)
       ELSE Works(c, s, "send", "update", scopes[s].kid)
    /\ UNCHANGED <<undercut, started, scopes, tpl, serverOn, kea, late, edits, faults>>

AllocateKeaSubnetID_FromZero ==
    LET used == {scopes[s].kid : s \in LiveScopes}
    IN  CHOOSE i \in 0 .. MaxId : i \notin used /\ \A j \in 0 .. i - 1 : j \in used

\* The lowest id that no live scope of the server, of either family, has claimed.
AllocateKeaSubnetID ==
    LET used == {scopes[s].kid : s \in LiveScopes}
    IN  CHOOSE i \in Ids : i \notin used /\ \A j \in 1 .. i - 1 : j \in used

Claiming(x, i) ==
    [kind |-> x.kind, pc |-> "claim", op |-> x.op, s |-> x.s, kid |-> i, text |-> x.text,
     status |-> x.status, todo |-> x.todo]

PushList(c) ==
    /\ At(c, "list")
    /\ calls' = [calls EXCEPT ![c] = Claiming(calls[c], AllocateKeaSubnetID)]
    /\ UNCHANGED <<undercut, started, scopes, tpl, serverOn, kea, late, edits, faults>>

ClaimOk_NoUniqueIndex(s, i) == TRUE

\* uq_dhcp_scopes_server_kea_id, which tombstones are in as well.
ClaimOk(s, i) == \A o \in Scopes \ {s} : scopes[o].kid # i

\* UpdateDhcpScopeKeaSubnetID: the row's id becomes `id`, whatever it is by now.
\* History remembers the id it takes from under an update or a delete.
TakeId(s, id) ==
    /\ scopes' = [scopes EXCEPT ![s].kid = id]
    /\ undercut' = undercut \cup
           {<<m.s, m.id>> : m \in {n \in InFlight : /\ n.s = s /\ n.op # "add"
                                                   /\ n.id = scopes[s].kid /\ n.id # id}}

\* A refused claim is an error, not a result: the
\* request ends, the scopes of a bulk push that are left are not pushed.
PushClaim(c) ==
    LET s == calls[c].s
        i == calls[c].kid
    IN  /\ At(c, "claim")
        /\ IF ClaimOk(s, i)
           THEN TakeId(s, i) /\ Step(c, "send", "none")
           ELSE /\ UNCHANGED <<scopes, undercut>>
                /\ calls' = [calls EXCEPT ![c] = Waiting]
        /\ UNCHANGED <<started, tpl, serverOn, kea, late, edits, faults>>

\* Where a request goes when Kea's answer is not ok.
AfterFailure(c) ==
    CASE calls[c].op = "add"    -> "rollback"
      [] calls[c].op = "update" -> "record"
      [] calls[c].op = "delete" -> "tomb"

\* callKea and callKeaDelete: subnet-add, subnet-update or subnet-del.
KeaCall(c) ==
    LET m == Request(c)
    IN  /\ At(c, "send")
        /\ \/ /\ kea' = KeaApplied(m)          \* answered
              /\ IF KeaAccepts(m) THEN Step(c, "write", "ok") ELSE Step(c, AfterFailure(c), "error")
              /\ UNCHANGED late
              /\ NoFault
           \/ /\ Fault                         \* the answer is lost, or never sent
              /\ Step(c, AfterFailure(c), "error")
              /\ \/ kea' \in {kea, KeaApplied(m)} /\ UNCHANGED late
                 \/ UNCHANGED kea /\ late' = late \cup {m}
        /\ UNCHANGED <<undercut, started, scopes, tpl, serverOn, edits>>

\* ConfigWrite.  Only a transport error is a failure: what Kea answers is not read.
ConfigWrite(c) ==
    /\ At(c, "write")
    /\ \/ Step(c, IF calls[c].op = "delete" THEN "tomb" ELSE "record", "ok") /\ NoFault
       \/ Fault /\ Step(c, AfterFailure(c), "error")
    /\ UNCHANGED <<undercut, started, scopes, tpl, serverOn, kea, late, edits>>

\* A first push that failed gives its id back.
PushRollback(c) ==
    /\ At(c, "rollback")
    /\ TakeId(calls[c].s, NONE)
    /\ Step(c, "record", "error")
    /\ UNCHANGED <<started, tpl, serverOn, kea, late, edits, faults>>

\* recordOutcome: last_push_* and the history are not modelled; a success marks
\* the scope in sync, whatever was edited since it was loaded.
PushRecord(c) ==
    /\ At(c, "record")
    /\ scopes' = IF calls[c].status = "ok" THEN [scopes EXCEPT ![calls[c].s].diff = "in_sync"] ELSE scopes
    /\ Proceed(c, calls[c].todo)
    /\ UNCHANGED <<undercut, started, tpl, serverOn, kea, late, edits, faults>>

\* deleteDhcpScope and DeleteScopeFromKea up to the call: nothing to delete in Kea
\* when the scope was never pushed, and no way to when the server is disabled.
DeleteLoad(c, s) ==
    /\ Takes(c, "delete", s)
    /\ IF scopes[s].row # "live" THEN Proceed(c, {})
       ELSE IF scopes[s].kid = NONE \/ ~serverOn THEN Works(c, s, "tomb", "delete", NONE)
       ELSE Works(c, s, "send", "delete", scopes[s].kid)
    /\ UNCHANGED <<undercut, started, scopes, tpl, serverOn, kea, late, edits, faults>>

\* SoftDeleteDhcpScope, whatever became of the delete in Kea; the id is kept.
DeleteTombstone(c) ==
    LET s == calls[c].s
    IN  /\ At(c, "tomb")
        /\ scopes' = IF scopes[s].row = "live" THEN [scopes EXCEPT ![s].row = "tombstone"] ELSE scopes
        /\ calls' = [calls EXCEPT ![c] = Waiting]
        /\ UNCHANGED <<undercut, started, tpl, serverOn, kea, late, edits, faults>>

\* What comparing a scope as it was read with Kea as it is now says.
Verdict(s, kid, text) ==
    IF kid = NONE THEN "never_pushed"
    ELSE IF kea[Key(s, kid)] = NONE THEN "missing_from_kea"
    ELSE IF kea[Key(s, kid)] = [s |-> s, text |-> text] THEN "in_sync" ELSE "drifted"

\* DiffScope reads the scope; one that is gone is an error whose verdict is
\* written to no row.
DiffLoad(c, s) ==
    /\ Takes(c, "diff", s)
    /\ IF scopes[s].row # "live" THEN Proceed(c, calls[c].todo \ {s})
       ELSE Works(c, s, "fetch", "get", scopes[s].kid)
    /\ UNCHANGED <<undercut, started, scopes, tpl, serverOn, kea, late, edits, faults>>

DiffFetch(c) ==
    /\ At(c, "fetch")
    /\ \/ Step(c, "persist", Verdict(calls[c].s, calls[c].kid, calls[c].text)) /\ NoFault
       \/ Fault /\ calls[c].kid # NONE /\ Step(c, "persist", "error")
    /\ UNCHANGED <<undercut, started, scopes, tpl, serverOn, kea, late, edits>>

\* PersistDiffState: WriteDhcpScopeDiffState by id, tombstones included.
DiffPersist(c) ==
    LET s == calls[c].s
    IN  /\ At(c, "persist")
        /\ scopes' = IF scopes[s].row = "absent" THEN scopes
                     ELSE [scopes EXCEPT ![s].diff = calls[c].status]
        /\ Proceed(c, calls[c].todo)
        /\ UNCHANGED <<undercut, started, tpl, serverOn, kea, late, edits, faults>>

\* The request's context ends: nothing more is done, the roll back included; a
\* request on its way to Kea may still be executed.
Cancel(c) ==
    /\ calls[c].s # NONE
    /\ Fault
    /\ late' \in {late} \cup (IF At(c, "send") THEN {late \cup {Request(c)}} ELSE {})
    /\ calls' = [calls EXCEPT ![c] = Waiting]
    /\ UNCHANGED <<undercut, started, scopes, tpl, serverOn, kea, edits>>

CallStep(c) ==
    \/ \E s \in Scopes : PushLoad(c, s) \/ DeleteLoad(c, s) \/ DiffLoad(c, s)
    \/ PushList(c) \/ PushClaim(c) \/ KeaCall(c) \/ ConfigWrite(c) \/ PushRollback(c) \/ PushRecord(c)
    \/ DeleteTombstone(c) \/ DiffFetch(c) \/ DiffPersist(c)

CallStart(c) ==
    \/ pushDhcpScope(c) \/ PushAllScopes(c) \/ PushDriftedScopes(c)
    \/ deleteDhcpScope(c) \/ DiffAllScopes(c)

DhcpNext ==
    \/ Operator
    \/ \E s \in Scopes : PurgeExpiredTombstones(s)
    \/ \E c \in Calls : CallStart(c) \/ CallStep(c) \/ Cancel(c)
    \/ KeaLate

DhcpSpec == DhcpInit /\ [][DhcpNext]_dhcpVars

-----------------------------------------------------------------------------
(* The bundle a site's Kea is provisioned from *)

\* partitionScopes: the enabled scopes with an id, and the ones without.
Pinned == {s \in EnabledScopes : scopes[s].kid # NONE}
Deferred == EnabledScopes \ Pinned

nextID_FromOne(used, rank) == rank

\* The id a deferred scope gets when `rank` of them come up to it: nextID takes
\* the lowest free id and marks it used.
nextID(used, rank) ==
    CHOOSE i \in 1 .. 2 * MaxId : i \notin used /\ Cardinality((1 .. i) \ used) = rank

\* assembleSubnets: subnets by scope, each family for itself: pinned ids first,
\* then the deferred scopes in prefix order.
RenderKeaBundle ==
    LET used(f) == {scopes[s].kid : s \in {p \in Pinned : Family[p] = f}}
        rank(s) == Cardinality({d \in Deferred : Family[d] = Family[s] /\ d <= s})
    IN  [s \in EnabledScopes |->
            [id |-> IF s \in Pinned THEN scopes[s].kid ELSE nextID(used(Family[s]), rank(s)),
             text |-> Effective(scopes[s])]]

-----------------------------------------------------------------------------
(* What pushing promises *)

Rendered == {"stored", "x", "y"}
Subnets == {NONE} \cup [s : Scopes, text : Rendered]

DhcpTypeOK ==
    /\ scopes \in [Scopes -> [row : {"absent", "live", "tombstone"}, text : Texts,
                              enabled : BOOLEAN, kid : Ids \cup {NONE},
                              diff : {"null", "never_pushed", "missing_from_kea", "in_sync",
                                      "drifted", "error"}]]
    /\ tpl \in {"x", "y", NONE}
    /\ kea \in [Families \X Ids -> Subnets]
    /\ \A m \in late : m.id \in Ids /\ m.s \in Scopes /\ m.text \in Rendered
    /\ undercut \subseteq Scopes \X Ids
    /\ \A c \in Calls : calls[c].s \in Scopes \cup {NONE} /\ calls[c].todo \subseteq Scopes

\* A subnet that Kea serves for a scope whose row records its id is changed only by
\* a request of that scope, or by one whose own id a first push of its scope took
\* back, or exchanged, while it was under way: not when two scopes' first pushes race
\* for one id, when an answer or a config write is lost, when a request is executed
\* late or stops half-way, nor when an id comes back after a delete (push.go,
\* PushScope and DeleteScopeFromKea).
NoForeignChange ==
    [][\A f \in Families, i \in Ids :
            (/\ kea[<<f, i>>] # NONE
             /\ scopes[kea[<<f, i>>].s].kid = i
             /\ kea'[<<f, i>>] # kea[<<f, i>>])
                => \E m \in InFlight :
                      /\ kea' = KeaApplied(m)
                      /\ Key(m.s, m.id) = <<f, i>>
                      /\ m.s = kea[<<f, i>>].s \/ <<m.s, m.id>> \in undercut]_dhcpVars

\* An update goes out with the id that its scope has: "Update pushes leave
\* kea_subnet_id alone because the id was already claimed in a prior successful
\* push" (push.go:22-26).  It does not hold when that push was another one's, of the
\* same scope, and gives the id back.
UpdatesKeepTheirId ==
    \A m \in InFlight : m.op = "update" => scopes[m.s].kid = m.id

\* Every bundle that can be rendered gives each enabled scope a subnet id of its
\* own among the scopes of its family, and a scope that was pushed the id it has
\* (bundle.go, assembleSubnets).
BundleIdsAgree ==
    LET b == RenderKeaBundle
    IN  /\ \A s, o \in EnabledScopes : s # o /\ Family[s] = Family[o] => b[s].id # b[o].id
        /\ \A s \in EnabledScopes : scopes[s].kid # NONE => b[s].id = scopes[s].kid
=============================================================================
