--------------------------- MODULE DhcpPushProofs ---------------------------
(***************************************************************************)
(* What pushing promises for every number of scopes of either family and   *)
(* of requests, several of which may work on one scope, faults and edits.  *)
(***************************************************************************)
EXTENDS DhcpPush, FiniteSetTheorems, WellFoundedInduction, TLAPS

Rows == [row : {"absent", "live", "tombstone"}, text : Texts, enabled : BOOLEAN,
         kid : Ids \cup {NONE},
         diff : {"null", "never_pushed", "missing_from_kea", "in_sync", "drifted", "error"}]
Sessions == [kind : {"none", "push", "delete", "diff"},
             pc : {"idle", "next", "list", "claim", "send", "write", "rollback", "record",
                   "tomb", "fetch", "persist"},
             op : {"none", "add", "update", "delete", "get"},
             s : Scopes \cup {NONE}, kid : Ids \cup {NONE}, text : Rendered \cup {"none"},
             status : {"none", "ok", "never_pushed", "missing_from_kea", "in_sync",
                       "drifted", "error"},
             todo : SUBSET Scopes]
Requests == [op : {"add", "update", "delete"}, id : Ids, s : Scopes, text : Rendered]
Keas == [Families \X Ids -> Subnets]

\* The tables and requests hold what the handlers write, a scope is linked only
\* to a template that exists, and a purged row has no id.
DhcpTypes ==
    /\ scopes \in [Scopes -> Rows]
    /\ tpl \in {"x", "y", NONE}
    /\ kea \in Keas
    /\ undercut \in SUBSET (Scopes \X Ids)
    /\ late \in SUBSET Requests
    /\ calls \in [Calls -> Sessions]
    /\ \A s \in Scopes : scopes[s].text = "linked" => tpl # NONE
    /\ \A s \in Scopes : scopes[s].row = "absent" => scopes[s].kid = NONE

\* uq_dhcp_scopes_server_kea_id.
UniqueIds ==
    \A s, o \in Scopes : s # o /\ scopes[s].kid # NONE => scopes[s].kid # scopes[o].kid

\* What a request under way has in hand.
Resting == {"idle", "next"}
Pushing == {"list", "claim", "rollback", "record"}
Diffing == {"fetch", "persist"}
Sending == {"send", "write"}
SessionOk(x) ==
    /\ x.s = NONE <=> x.pc \in Resting
    /\ x.pc \in Pushing => x.kind = "push"
    /\ x.pc = "tomb" => x.kind = "delete"
    /\ x.pc \in Diffing => x.kind = "diff"
    /\ x.pc \in Sending => x.op \in {"add", "update", "delete"}
    /\ x.pc \in Sending => x.kind = IF x.op = "delete" THEN "delete" ELSE "push"
    /\ x.pc \in {"list", "claim"} => x.op = "add"
    /\ x.op = "add" => x.pc \in {"list", "claim", "send", "write"}
    /\ x.pc = "claim" => x.kid # NONE
    /\ x.pc = "send" => x.kid # NONE
    /\ x.pc \in {"list", "claim", "send"} => x.text # "none"
    /\ x.pc = "persist" => x.status \notin {"none", "ok"}
    /\ x.pc = "next" => x.kind # "none"

\* The scope a request works on stays.
ReadOk(x) == x.s # NONE => scopes[x.s].row # "absent"

\* An update or a delete under way is for the id its scope has, or for one that was
\* taken from the scope meanwhile.
SentOk(m) == m.op # "add" => scopes[m.s].kid = m.id \/ <<m.s, m.id>> \in undercut

DhcpInv ==
    /\ DhcpTypes
    /\ UniqueIds
    /\ \A c \in Calls : SessionOk(calls[c]) /\ ReadOk(calls[c])
    /\ \A m \in InFlight : SentOk(m)

-----------------------------------------------------------------------------
(* What a step may change *)

LEMMA IdFacts == NONE \notin Ids /\ NONE \notin Scopes /\ Ids \subseteq Nat
  BY NoneAssumption, MaxIdAssumption DEF Ids

\* The text a scope is pushed with.
LEMMA EffectiveText ==
  ASSUME DhcpTypes, NEW s \in Scopes
  PROVE  Effective(scopes[s]) \in Rendered
<1>1. scopes[s] \in Rows
  BY DEF DhcpTypes
<1> QED BY <1>1 DEF DhcpTypes, Effective, Rows, Texts, Rendered

\* The messages under way are those of a late set and of the requests that send.
LEMMA Messages ==
  /\ InFlight = late \cup {Request(c) : c \in {d \in Calls : calls[d].pc = "send"}}
  /\ \A c \in Calls : calls[c].pc = "send" => Request(c) \in InFlight
  BY DEF InFlight, At

\* An edit, or Kea, or the purge: no request moves, and no id is given or taken
\* but from a scope that nothing works on.
LEMMA TablesChange ==
  ASSUME DhcpInv, UNCHANGED <<calls, undercut>>, late' \subseteq late,
         scopes' \in [Scopes -> Rows], tpl' \in {"x", "y", NONE}, kea' \in Keas,
         \A s \in Scopes :
             /\ scopes'[s].text = "linked" => tpl' # NONE
             /\ scopes'[s].row = "absent" =>
                    /\ scopes'[s].kid = NONE
                    /\ scopes[s].row = "absent" \/ \A c \in Calls : calls[c].s # s
             /\ \/ scopes'[s].kid = scopes[s].kid
                \/ /\ scopes'[s].kid = NONE
                   /\ \A c \in Calls : calls[c].s # s
                   /\ \A m \in late : m.s # s
  PROVE  DhcpInv'
<1>1. DhcpTypes'
  BY DEF DhcpInv, DhcpTypes
<1>2. UniqueIds'
  BY DEF DhcpInv, UniqueIds
<1>3. ASSUME NEW c \in Calls PROVE SessionOk(calls[c])' /\ ReadOk(calls[c])'
  <2>1. SessionOk(calls[c]) /\ ReadOk(calls[c]) /\ calls[c] \in Sessions
    BY DEF DhcpInv, DhcpTypes
  <2>2. SessionOk(calls[c])'
    BY <2>1 DEF SessionOk
  <2>3. calls[c].s # NONE => calls[c].s \in Scopes
    BY <2>1 DEF Sessions
  <2> QED BY <2>1, <2>2, <2>3 DEF ReadOk
<1>4. ASSUME NEW m \in InFlight' PROVE SentOk(m)'
  <2>1. m \in InFlight /\ SentOk(m)
    BY DEF InFlight, Request, At, DhcpInv
  <2>2. m.s \in Scopes => scopes'[m.s].kid = scopes[m.s].kid
    BY <2>1 DEF InFlight, Request
  <2>3. m.op # "add" => m.s \in Scopes
    <3>1. CASE m \in late
      BY <3>1 DEF DhcpInv, DhcpTypes, Requests
    <3>2. ASSUME NEW c \in Calls, calls[c].pc = "send", m = Request(c) PROVE m.s \in Scopes
      BY <3>2 DEF DhcpInv, DhcpTypes, Sessions, SessionOk, Resting, Request
    <3> QED BY <2>1, <3>1, <3>2, Messages
  <2> QED BY <2>1, <2>2, <2>3 DEF SentOk
<1> QED BY <1>1, <1>2, <1>3, <1>4 DEF DhcpInv

\* A step of request c, which has x in hand after it: an id is only changed by TakeId.
LEMMA SessionChanges ==
  ASSUME DhcpInv, NEW c \in Calls, NEW x \in Sessions, SessionOk(x),
         calls' = [calls EXCEPT ![c] = x],
         scopes' \in [Scopes -> Rows], UNCHANGED tpl, kea' \in Keas,
         late' \in SUBSET Requests, UniqueIds', undercut' \in SUBSET (Scopes \X Ids),
         undercut \subseteq undercut',
         \A s \in Scopes : /\ scopes'[s].text = scopes[s].text
                           /\ scopes'[s].row = "absent" =>
                                  scopes[s].row = "absent" /\ scopes'[s].kid = NONE,
         x.s # NONE => scopes'[x.s].row # "absent",
         \A m \in InFlight : m.op # "add" =>
             scopes'[m.s].kid = scopes[m.s].kid \/ scopes'[m.s].kid = m.id \/ <<m.s, m.id>> \in undercut',
         \A m \in late' : m \in InFlight,
         x.pc = "send" => x.op = "add" \/ scopes'[x.s].kid = x.kid
  PROVE  DhcpInv'
<1>0. /\ calls' \in [Calls -> Sessions] /\ calls'[c] = x
      /\ \A d \in Calls \ {c} : calls'[d] = calls[d]
  BY DEF DhcpInv, DhcpTypes
<1>1. DhcpTypes'
  BY <1>0 DEF DhcpInv, DhcpTypes
<1>2. ASSUME NEW d \in Calls PROVE SessionOk(calls[d])' /\ ReadOk(calls[d])'
  <2>1. CASE d = c
    BY <1>0, <2>1 DEF SessionOk, ReadOk
  <2>2. CASE d # c
    <3>1. SessionOk(calls[d]) /\ ReadOk(calls[d]) /\ calls[d] \in Sessions /\ calls'[d] = calls[d]
      BY <1>0, <2>2 DEF DhcpInv, DhcpTypes
    <3>2. SessionOk(calls[d])'
      BY <3>1 DEF SessionOk
    <3>3. calls[d].s # NONE => calls[d].s \in Scopes
      BY <3>1 DEF Sessions
    <3> QED BY <3>1, <3>2, <3>3 DEF ReadOk
  <2> QED BY <2>1, <2>2
<1>3. ASSUME NEW m \in InFlight' PROVE SentOk(m)'
  <2>1. CASE m \in InFlight
    <3>1. SentOk(m)
      BY <2>1 DEF DhcpInv
    <3> QED BY <2>1, <3>1 DEF SentOk
  <2>2. ASSUME x.pc = "send", m.op = x.op, m.s = x.s, m.id = x.kid PROVE SentOk(m)'
    BY <2>2 DEF SentOk
  <2>3. m \in InFlight \/ (x.pc = "send" /\ m.op = x.op /\ m.s = x.s /\ m.id = x.kid)
    <3>1. m \in late' \/ \E d \in Calls : calls'[d].pc = "send" /\ m = Request(d)'
      BY DEF InFlight, At
    <3>2. ASSUME NEW d \in Calls \ {c}, calls'[d].pc = "send", m = Request(d)' PROVE m \in InFlight
      <4>1. calls[d].pc = "send" /\ m = Request(d)
        BY <1>0, <3>2 DEF Request
      <4> QED BY <4>1, Messages
    <3>3. ASSUME calls'[c].pc = "send", m = Request(c)'
          PROVE  x.pc = "send" /\ m.op = x.op /\ m.s = x.s /\ m.id = x.kid
      BY <1>0, <3>3 DEF Request
    <3> QED BY <3>1, <3>2, <3>3
  <2> QED BY <2>1, <2>2, <2>3
<1> QED BY <1>1, <1>2, <1>3 DEF DhcpInv

\* A message that Kea executes leaves subnets of scopes.
LEMMA KeaTypes ==
  ASSUME DhcpTypes, NEW m \in Requests
  PROVE  KeaApplied(m) \in Keas
<1>1. m.id \in Ids /\ Subnet(m) \in Subnets /\ Key(m.s, m.id) \in Families \X Ids
  BY FamilyAssumption DEF Requests, Subnet, Subnets, Key, Families
<1>2. kea \in Keas /\ NONE \in Subnets
  BY DEF DhcpTypes, Subnets
<1> QED BY <1>1, <1>2 DEF KeaApplied, Keas

-----------------------------------------------------------------------------
(* The steps *)

LEMMA OperatorMoves == ASSUME DhcpInv, Operator PROVE DhcpInv'
<1>0. /\ scopes \in [Scopes -> Rows] /\ kea \in Keas /\ tpl \in {"x", "y", NONE}
      /\ \A s \in Scopes : /\ scopes[s] \in Rows /\ (scopes[s].text = "linked" => tpl # NONE)
                           /\ (scopes[s].row = "absent" => scopes[s].kid = NONE)
  BY DEF DhcpInv, DhcpTypes
<1>1. UNCHANGED <<calls, late, kea, undercut>>
  BY DEF Operator, createDhcpScope, updateDhcpScope, restoreDhcpScope, createDhcpScopeTemplate,
         updateDhcpScopeTemplate, deleteDhcpScopeTemplate, updateDhcpServer
<1>2. \A s \in Scopes : scopes[s].row = "absent" => scopes[s].kid = NONE
  BY DEF DhcpInv, DhcpTypes
<1>3. ASSUME NEW s \in Scopes, createDhcpScope(s) PROVE DhcpInv'
  <2>1. PICK n \in NewScopes :
            /\ TextOk(n.text)
            /\ scopes' = [scopes EXCEPT ![s] = [row |-> "live", text |-> n.text, enabled |-> n.enabled,
                                                kid |-> NONE, diff |-> "null"]]
    BY <1>3 DEF createDhcpScope
  <2>2. n.text \in Texts /\ n.enabled \in BOOLEAN /\ (n.text = "linked" => tpl # NONE)
    BY <2>1, NewScopesAssumption DEF Texts, TextOk
  <2>3. [row |-> "live", text |-> n.text, enabled |-> n.enabled, kid |-> NONE, diff |-> "null"] \in Rows
    BY <2>2 DEF Rows
  <2>4. scopes[s].kid = NONE /\ UNCHANGED tpl
    BY <1>2, <1>3 DEF createDhcpScope
  <2> QED BY <1>0, <1>1, <2>1, <2>2, <2>3, <2>4, TablesChange
<1>4. ASSUME NEW s \in Scopes, updateDhcpScope(s) PROVE DhcpInv'
  <2>1. PICK n \in EditedScopes :
            TextOk(n.text) /\ scopes' = [scopes EXCEPT ![s].text = n.text, ![s].enabled = n.enabled]
    BY <1>4 DEF updateDhcpScope
  <2>2. UNCHANGED tpl /\ (n.text = "linked" => tpl # NONE)
    BY <1>4, <2>1 DEF TextOk, updateDhcpScope
  <2>3. n.text \in Texts /\ n.enabled \in BOOLEAN
    BY NewScopesAssumption DEF Texts
  <2>4. /\ scopes' \in [Scopes -> Rows] /\ scopes'[s].text = n.text /\ scopes'[s].kid = scopes[s].kid
        /\ scopes'[s].row = scopes[s].row
        /\ \A o \in Scopes \ {s} : scopes'[o] = scopes[o]
    BY <1>0, <2>1, <2>3 DEF Rows
  <2> QED BY <1>0, <1>1, <2>2, <2>3, <2>4, TablesChange
<1>5. ASSUME NEW s \in Scopes, restoreDhcpScope(s) PROVE DhcpInv'
  <2>1. /\ scopes' \in [Scopes -> Rows] /\ UNCHANGED tpl
        /\ \A o \in Scopes : /\ scopes'[o].text = scopes[o].text /\ scopes'[o].kid = scopes[o].kid
                             /\ scopes'[o].row = "absent" => scopes[o].row = "absent"
    BY <1>0, <1>5 DEF restoreDhcpScope, Rows
  <2> QED BY <1>0, <1>1, <2>1, TablesChange
<1>6. CASE createDhcpScopeTemplate \/ updateDhcpScopeTemplate
  <2>1. UNCHANGED scopes /\ tpl' \in {"x", "y"} /\ (tpl' = NONE => tpl = NONE)
    BY <1>0, <1>6, NoneAssumption DEF createDhcpScopeTemplate, updateDhcpScopeTemplate
  <2> QED BY <1>0, <1>1, <2>1, TablesChange
<1>7. CASE deleteDhcpScopeTemplate
  <2>1. /\ scopes' \in [Scopes -> Rows] /\ tpl' = NONE
        /\ \A o \in Scopes : /\ scopes'[o].text # "linked" /\ scopes'[o].kid = scopes[o].kid
                             /\ scopes'[o].row = scopes[o].row
    BY <1>0, <1>7 DEF deleteDhcpScopeTemplate, Rows, Texts
  <2> QED BY <1>0, <1>1, <2>1, TablesChange
<1>8. CASE updateDhcpServer
  BY <1>0, <1>1, <1>8, TablesChange DEF updateDhcpServer
<1> QED BY <1>3, <1>4, <1>5, <1>6, <1>7, <1>8 DEF Operator

LEMMA PurgeMoves ==
  ASSUME DhcpInv, NEW s \in Scopes, PurgeExpiredTombstones(s)
  PROVE  DhcpInv'
<1>1. Absent \in Rows /\ Absent.kid = NONE /\ Absent.text = "stored"
  BY DEF Absent, Rows, Texts
<1>2. /\ scopes' = [scopes EXCEPT ![s] = Absent]
      /\ UNCHANGED <<calls, late, kea, tpl, undercut>>
      /\ \A c \in Calls : calls[c].s # s
      /\ \A m \in late : m.s # s
  BY DEF PurgeExpiredTombstones
<1> QED BY <1>1, <1>2, TablesChange DEF DhcpInv, DhcpTypes

LEMMA LateMoves == ASSUME DhcpInv, KeaLate PROVE DhcpInv'
<1>1. PICK m \in late : kea' = KeaApplied(m) /\ late' = late \ {m}
  BY DEF KeaLate
<1>2. kea' \in Keas
  BY <1>1, KeaTypes DEF DhcpInv, DhcpTypes
<1> QED BY <1>1, <1>2, TablesChange DEF KeaLate, DhcpInv, DhcpTypes

-----------------------------------------------------------------------------
(* The ids *)

\* A non-empty set of naturals has a least element.
LEMMA LeastElement ==
  ASSUME NEW S \in SUBSET Nat, S # {}
  PROVE  \E x \in S : \A y \in S : x <= y
<1>1. IsWellFoundedOn(OpToRel(<, Nat), Nat)
  BY NatLessThanWellFounded, Zenon
<1>2. PICK x \in S : \A y \in S : ~(<<y, x>> \in OpToRel(<, Nat))
  BY <1>1, WFMin, Zenon
<1>3. ASSUME NEW y \in S PROVE x <= y
  <2>1. ~(y < x)
    BY <1>2 DEF OpToRel
  <2>2. x \in Nat /\ y \in Nat
    OBVIOUS
  <2> QED BY <2>1, <2>2
<1> QED BY <1>3

\* There are more ids than scopes, so one is left that no scope has.
LEMMA IdLeft ==
  ASSUME DhcpTypes
  PROVE  \E i \in Ids : \A o \in Scopes : scopes[o].kid # i
<1> SUFFICES ASSUME \A i \in Ids : \E o \in Scopes : scopes[o].kid = i
             PROVE  FALSE
  OBVIOUS
<1> DEFINE f == [i \in Ids |-> CHOOSE o \in Scopes : scopes[o].kid = i]
<1>1. \A i \in Ids : f[i] \in Scopes /\ scopes[f[i]].kid = i
  OBVIOUS
<1>2. IsFiniteSet(Scopes) /\ Cardinality(Scopes) \in Nat
  BY ScopesAssumption, FS_CardinalityType
<1>3. IsFiniteSet(Ids) /\ Cardinality(Ids) = MaxId
  <2>1. Cardinality(1 .. MaxId) = IF 1 > MaxId THEN 0 ELSE MaxId - 1 + 1
    BY MaxIdAssumption, FS_Interval
  <2>2. IsFiniteSet(1 .. MaxId)
    BY MaxIdAssumption, FS_Interval
  <2> QED BY <2>1, <2>2, MaxIdAssumption DEF Ids
<1>4. f \in [Ids -> Scopes]
  BY <1>1
<1> HIDE DEF f
<1>5. \E x, y \in Ids : x # y /\ f[x] = f[y]
  BY <1>2, <1>3, <1>4, MaxIdAssumption, FS_PigeonHole
<1> QED BY <1>1, <1>5

LEMMA AllocatedId ==
  ASSUME DhcpTypes
  PROVE  AllocateKeaSubnetID \in Ids
<1> DEFINE used == {scopes[o].kid : o \in LiveScopes}
           U == {i \in Ids : i \notin used}
<1>1. U \in SUBSET Nat /\ U # {}
  BY IdLeft, IdFacts DEF LiveScopes
<1>2. PICK i \in U : \A j \in U : i <= j
  BY <1>1, LeastElement
<1>3. \A j \in 1 .. i - 1 : j \in used
  <2> SUFFICES ASSUME NEW j \in 1 .. i - 1, j \notin used PROVE FALSE
    OBVIOUS
  <2>1. j \in Ids /\ ~(i <= j)
    BY MaxIdAssumption DEF Ids
  <2> QED BY <1>2, <2>1
<1>4. i \in Ids /\ i \notin used
  OBVIOUS
<1> HIDE DEF used
<1>5. (CHOOSE k \in Ids : k \notin used /\ \A j \in 1 .. k - 1 : j \in used) \in Ids
  BY <1>3, <1>4
<1> QED BY <1>5 DEF AllocateKeaSubnetID, used

-----------------------------------------------------------------------------
(* The steps of a request *)

LEMMA SessionFacts ==
  ASSUME DhcpInv, NEW c \in Calls
  PROVE  /\ calls[c] \in Sessions /\ SessionOk(calls[c]) /\ ReadOk(calls[c])
         /\ calls[c].pc \notin Resting => calls[c].s \in Scopes
         /\ calls[c].pc # "idle" => calls[c].kind \in {"push", "delete", "diff"}
         /\ calls[c].todo \in SUBSET Scopes
<1>1. calls[c] \in Sessions /\ SessionOk(calls[c]) /\ ReadOk(calls[c])
  BY DEF DhcpInv, DhcpTypes
<1> QED BY <1>1 DEF Sessions, SessionOk, Resting, Pushing, Diffing, Sending

\* A step of a request that leaves the tables and Kea alone.
LEMMA SessionOnly ==
  ASSUME DhcpInv, NEW c \in Calls, NEW x \in Sessions, SessionOk(x), ReadOk(x),
         calls' = [calls EXCEPT ![c] = x], UNCHANGED <<scopes, tpl, kea, late, undercut>>,
         x.pc = "send" => x.op = "add" \/ scopes[x.s].kid = x.kid
  PROVE  DhcpInv'
<1>1. UniqueIds'
  BY DEF DhcpInv, UniqueIds
<1>2. /\ scopes' \in [Scopes -> Rows] /\ kea' \in Keas /\ late' \in SUBSET Requests
      /\ undercut' \in SUBSET (Scopes \X Ids)
      /\ \A s \in Scopes : scopes'[s].row = "absent" =>
            scopes[s].row = "absent" /\ scopes'[s].kid = NONE
  BY DEF DhcpInv, DhcpTypes
<1>3. \A m \in late' : m \in InFlight
  BY DEF InFlight
<1> QED BY <1>1, <1>2, <1>3, SessionChanges DEF ReadOk

\* A request between two scopes, or at its end.
LEMMA RestFacts ==
  /\ Waiting \in Sessions /\ SessionOk(Waiting) /\ Waiting.s = NONE
  /\ Waiting.op = "none" /\ Waiting.pc = "idle"
  /\ \A kind \in {"push", "delete", "diff"}, todo \in SUBSET Scopes :
        /\ Between(kind, todo) \in Sessions /\ SessionOk(Between(kind, todo))
        /\ Between(kind, todo).s = NONE /\ Between(kind, todo).op = "none"
        /\ Between(kind, todo).pc = "next"
<1>1. Waiting \in Sessions /\ SessionOk(Waiting) /\ Waiting.s = NONE /\ Waiting.op = "none" /\ Waiting.pc = "idle"
  BY DEF Waiting, Sessions, SessionOk, Resting, Pushing, Diffing, Sending
<1>2. ASSUME NEW kind \in {"push", "delete", "diff"}, NEW todo \in SUBSET Scopes
      PROVE  /\ Between(kind, todo) \in Sessions /\ SessionOk(Between(kind, todo))
             /\ Between(kind, todo).s = NONE /\ Between(kind, todo).op = "none"
             /\ Between(kind, todo).pc = "next"
  BY DEF Between, Sessions, SessionOk, Resting, Pushing, Diffing, Sending
<1> QED BY <1>1, <1>2

LEMMA ProceedRests ==
  ASSUME DhcpInv, NEW c \in Calls, NEW todo \in SUBSET Scopes, calls[c].pc # "idle", Proceed(c, todo)
  PROVE  \E x \in Sessions :
             /\ SessionOk(x) /\ x.s = NONE /\ x.op = "none" /\ x.pc \in Resting
             /\ calls' = [calls EXCEPT ![c] = x]
<1>1. calls[c].kind \in {"push", "delete", "diff"}
  BY SessionFacts
<1> QED BY <1>1, RestFacts DEF Proceed, Resting

\* A request that goes on, or ends, without having done anything.
LEMMA RestMoves ==
  ASSUME DhcpInv, NEW c \in Calls, UNCHANGED <<scopes, tpl, kea, late, undercut>>,
         NEW x \in Sessions, SessionOk(x), x.s = NONE, x.op = "none", x.pc \in Resting,
         calls' = [calls EXCEPT ![c] = x]
  PROVE  DhcpInv'
<1>1. ReadOk(x) /\ x.pc # "send"
  BY DEF ReadOk, Resting
<1> QED BY <1>1, SessionOnly

LEMMA StartMoves == ASSUME DhcpInv, NEW c \in Calls, CallStart(c) PROVE DhcpInv'
<1>1. PICK kind \in {"push", "delete", "diff"}, todo \in SUBSET Scopes : Start(c, kind, todo)
  BY DEF CallStart, pushDhcpScope, PushAllScopes, PushDriftedScopes, deleteDhcpScope, DiffAllScopes,
         LiveScopes, EnabledScopes
<1>2. UNCHANGED <<scopes, tpl, kea, late, undercut>> /\ calls' = [calls EXCEPT ![c] = Between(kind, todo)]
  BY <1>1 DEF Start
<1> QED BY <1>2, RestFacts, RestMoves DEF Resting

\* A request that has read its scope: what it has in hand.
LEMMA WorksOn ==
  ASSUME DhcpInv, NEW c \in Calls, calls[c].pc = "next", NEW s \in Scopes,
         NEW kid \in Ids \cup {NONE}, NEW pc, NEW op, pc = "send" => kid = scopes[s].kid,
         Works(c, s, pc, op, kid),
         \/ pc = "list" /\ op = "add" /\ calls[c].kind = "push"
         \/ pc = "send" /\ op = "update" /\ calls[c].kind = "push" /\ kid # NONE
         \/ pc = "send" /\ op = "delete" /\ calls[c].kind = "delete" /\ kid # NONE
         \/ pc = "tomb" /\ op = "delete" /\ calls[c].kind = "delete"
         \/ pc = "fetch" /\ op = "get" /\ calls[c].kind = "diff",
         scopes[s].row = "live", UNCHANGED <<scopes, tpl, kea, late, undercut>>
  PROVE  DhcpInv'
<1> DEFINE x == [kind |-> calls[c].kind, pc |-> pc, op |-> op, s |-> s, kid |-> kid,
                 text |-> Effective(scopes[s]), status |-> "none", todo |-> calls[c].todo \ {s}]
<1>1. Effective(scopes[s]) \in Rendered /\ Effective(scopes[s]) # "none"
  BY EffectiveText DEF DhcpInv, Rendered
<1>2. calls[c].kind \in {"push", "delete", "diff"} /\ calls[c].todo \in SUBSET Scopes
  BY SessionFacts
<1>3. x \in Sessions
  BY <1>1, <1>2 DEF Sessions
<1>4. calls' = [calls EXCEPT ![c] = x]
  BY DEF Works
<1>5. /\ x.kind = calls[c].kind /\ x.pc = pc /\ x.op = op /\ x.s = s /\ x.kid = kid
      /\ x.text # "none"
  BY <1>1
<1> HIDE DEF x
<1>6. SessionOk(x)
  BY <1>5, IdFacts DEF SessionOk, Resting, Pushing, Diffing, Sending
<1>7. ReadOk(x)
  BY <1>5 DEF ReadOk
<1>8. x.pc = "send" => scopes[x.s].kid = x.kid
  BY <1>5
<1> QED BY <1>3, <1>4, <1>6, <1>7, <1>8, SessionOnly

LEMMA LoadMoves ==
  ASSUME DhcpInv, NEW c \in Calls, NEW s \in Scopes,
         PushLoad(c, s) \/ DeleteLoad(c, s) \/ DiffLoad(c, s)
  PROVE  DhcpInv'
<1>1. UNCHANGED <<scopes, tpl, kea, late, undercut>> /\ calls[c].pc = "next"
  BY DEF PushLoad, DeleteLoad, DiffLoad, Takes, At
<1>2. scopes[s].kid \in Ids \cup {NONE} /\ NONE \in Ids \cup {NONE}
  BY DEF DhcpInv, DhcpTypes, Rows
<1>3. ASSUME NEW todo \in SUBSET Scopes, Proceed(c, todo) PROVE DhcpInv'
  BY <1>1, <1>3, ProceedRests, RestMoves
<1>4. calls[c].todo \ {s} \in SUBSET Scopes /\ {} \in SUBSET Scopes
  BY SessionFacts
<1>5. CASE PushLoad(c, s)
  <2>1. calls[c].kind = "push"
    BY <1>5 DEF PushLoad, Takes
  <2>2. \/ Proceed(c, calls[c].todo \ {s})
        \/ scopes[s].row = "live" /\ scopes[s].kid = NONE /\ Works(c, s, "list", "add", NONE)
        \/ /\ scopes[s].row = "live" /\ scopes[s].kid # NONE
           /\ Works(c, s, "send", "update", scopes[s].kid)
    BY <1>5 DEF PushLoad
  <2>3. CASE scopes[s].row = "live" /\ scopes[s].kid = NONE /\ Works(c, s, "list", "add", NONE)
    BY <1>1, <1>2, <2>1, <2>3, WorksOn
  <2>4. CASE /\ scopes[s].row = "live" /\ scopes[s].kid # NONE
             /\ Works(c, s, "send", "update", scopes[s].kid)
    BY <1>1, <1>2, <2>1, <2>4, WorksOn
  <2> QED BY <1>3, <1>4, <2>2, <2>3, <2>4
<1>6. CASE DeleteLoad(c, s)
  <2>1. calls[c].kind = "delete"
    BY <1>6 DEF DeleteLoad, Takes
  <2>2. \/ Proceed(c, {})
        \/ scopes[s].row = "live" /\ Works(c, s, "tomb", "delete", NONE)
        \/ /\ scopes[s].row = "live" /\ scopes[s].kid # NONE
           /\ Works(c, s, "send", "delete", scopes[s].kid)
    BY <1>6 DEF DeleteLoad
  <2>3. CASE scopes[s].row = "live" /\ Works(c, s, "tomb", "delete", NONE)
    BY <1>1, <1>2, <2>1, <2>3, WorksOn
  <2>4. CASE /\ scopes[s].row = "live" /\ scopes[s].kid # NONE
             /\ Works(c, s, "send", "delete", scopes[s].kid)
    BY <1>1, <1>2, <2>1, <2>4, WorksOn
  <2> QED BY <1>3, <1>4, <2>2, <2>3, <2>4
<1>7. CASE DiffLoad(c, s)
  <2>1. calls[c].kind = "diff"
    BY <1>7 DEF DiffLoad, Takes
  <2>2. \/ Proceed(c, calls[c].todo \ {s})
        \/ scopes[s].row = "live" /\ Works(c, s, "fetch", "get", scopes[s].kid)
    BY <1>7 DEF DiffLoad
  <2>3. CASE scopes[s].row = "live" /\ Works(c, s, "fetch", "get", scopes[s].kid)
    BY <1>1, <1>2, <2>1, <2>3, WorksOn
  <2> QED BY <1>3, <1>4, <2>2, <2>3
<1> QED BY <1>5, <1>6, <1>7

LEMMA ListMoves == ASSUME DhcpInv, NEW c \in Calls, PushList(c) PROVE DhcpInv'
<1>1. /\ calls[c].pc = "list" /\ UNCHANGED <<scopes, tpl, kea, late, undercut>>
      /\ calls' = [calls EXCEPT ![c] = Claiming(calls[c], AllocateKeaSubnetID)]
  BY DEF PushList, At
<1>2. /\ calls[c] \in Sessions /\ SessionOk(calls[c]) /\ calls[c].s \in Scopes
      /\ scopes[calls[c].s].row # "absent"
  BY <1>1, IdFacts, SessionFacts DEF Resting, ReadOk
<1>3. AllocateKeaSubnetID \in Ids
  BY AllocatedId DEF DhcpInv
<1> DEFINE x == Claiming(calls[c], AllocateKeaSubnetID)
<1>4. x \in Sessions
  BY <1>2, <1>3 DEF Claiming, Sessions
<1>5. calls' = [calls EXCEPT ![c] = x]
  BY <1>1
<1>6. /\ x.kind = calls[c].kind /\ x.pc = "claim" /\ x.op = calls[c].op /\ x.s = calls[c].s
      /\ x.kid \in Ids /\ x.text = calls[c].text
  BY <1>3 DEF Claiming
<1> HIDE DEF x
<1>7. SessionOk(x)
  BY <1>1, <1>2, <1>6, IdFacts DEF SessionOk, Resting, Pushing, Diffing, Sending
<1>8. ReadOk(x)
  BY <1>2, <1>6 DEF ReadOk
<1> QED BY <1>1, <1>4, <1>5, <1>6, <1>7, <1>8, SessionOnly

\* The next statement of a request, with what it still has in hand.
LEMMA MovedFacts ==
  ASSUME DhcpInv, NEW c \in Calls, NEW status \in {"none", "ok", "never_pushed",
             "missing_from_kea", "in_sync", "drifted", "error"},
         NEW pc \in {"send", "write", "rollback", "record", "tomb", "persist"}
  PROVE  LET x == Moved(calls[c], pc, status)
         IN  /\ x \in Sessions
             /\ x.kind = calls[c].kind /\ x.pc = pc /\ x.s = calls[c].s /\ x.status = status
             /\ x.op = IF pc \in Sending THEN calls[c].op ELSE "none"
             /\ pc = "send" => x.kid = calls[c].kid /\ x.text = calls[c].text
<1>1. calls[c] \in Sessions
  BY SessionFacts
<1> QED BY <1>1 DEF Moved, Sessions, Sending

\* A request that a step leaves with its scope: the request is at a later
\* statement, the tables are as they were.
LEMMA StepMoves ==
  ASSUME DhcpInv, NEW c \in Calls, calls[c].pc \notin Resting,
         NEW status \in {"none", "ok", "never_pushed", "missing_from_kea", "in_sync",
                         "drifted", "error"},
         NEW pc \in {"write", "rollback", "record", "tomb", "persist"}, Step(c, pc, status),
         pc \in {"rollback", "record"} => calls[c].kind = "push",
         pc = "rollback" => calls[c].op = "add",
         pc = "tomb" => calls[c].kind = "delete",
         pc = "persist" => calls[c].kind = "diff" /\ status \notin {"none", "ok"},
         pc = "write" => calls[c].pc = "send",
         UNCHANGED <<scopes, tpl, undercut>>, kea' \in Keas, late' \in SUBSET Requests,
         late' \subseteq InFlight
  PROVE  DhcpInv'
<1> DEFINE x == Moved(calls[c], pc, status)
<1>1. /\ x \in Sessions /\ calls' = [calls EXCEPT ![c] = x]
      /\ x.kind = calls[c].kind /\ x.pc = pc /\ x.s = calls[c].s /\ x.status = status
      /\ x.op = IF pc \in Sending THEN calls[c].op ELSE "none"
  BY MovedFacts DEF Step
<1> HIDE DEF x
<1>2. /\ SessionOk(calls[c]) /\ calls[c].s \in Scopes /\ calls[c].s # NONE
      /\ scopes[calls[c].s].row # "absent"
  BY SessionFacts, IdFacts DEF ReadOk
<1>3. SessionOk(x)
  BY <1>1, <1>2 DEF SessionOk, Resting, Pushing, Diffing, Sending
<1>4. /\ UniqueIds' /\ scopes' \in [Scopes -> Rows] /\ undercut' \in SUBSET (Scopes \X Ids)
      /\ \A s \in Scopes : scopes'[s].row = "absent" =>
            scopes[s].row = "absent" /\ scopes'[s].kid = NONE
      /\ scopes'[x.s].row # "absent" /\ x.pc # "send"
  BY <1>1, <1>2 DEF DhcpInv, UniqueIds, DhcpTypes
<1> QED BY <1>1, <1>3, <1>4, SessionChanges

\* The request a session sends.
LEMMA RequestFacts ==
  ASSUME DhcpInv, NEW c \in Calls, calls[c].pc = "send"
  PROVE  Request(c) \in Requests /\ Request(c) \in InFlight
<1>1. /\ calls[c] \in Sessions /\ SessionOk(calls[c]) /\ calls[c].s \in Scopes
  BY SessionFacts DEF Resting
<1>2. /\ calls[c].op \in {"add", "update", "delete"} /\ calls[c].kid \in Ids
      /\ calls[c].text \in Rendered
  BY <1>1 DEF SessionOk, Sending, Sessions
<1> QED BY <1>1, <1>2, Messages DEF Request, Requests

LEMMA InFlightTypes ==
  ASSUME DhcpInv
  PROVE  InFlight \in SUBSET Requests /\ late \subseteq InFlight
  BY RequestFacts, Messages DEF DhcpInv, DhcpTypes

\* An id that is written, or taken back: the messages it is taken from are remembered.
LEMMA IdTaken ==
  ASSUME DhcpInv, NEW s \in Scopes, NEW id \in Ids \cup {NONE}, scopes[s].row # "absent",
         id # NONE => ClaimOk(s, id), TakeId(s, id)
  PROVE  /\ scopes' \in [Scopes -> Rows] /\ scopes'[s].kid = id /\ UniqueIds'
         /\ scopes'[s].row # "absent"
         /\ \A o \in Scopes : /\ scopes'[o].text = scopes[o].text
                              /\ scopes'[o].row = "absent" =>
                                     scopes[o].row = "absent" /\ scopes'[o].kid = NONE
         /\ undercut' \in SUBSET (Scopes \X Ids) /\ undercut \subseteq undercut'
         /\ \A m \in InFlight : m.op # "add" =>
               \/ scopes'[m.s].kid = scopes[m.s].kid
               \/ scopes'[m.s].kid = m.id
               \/ <<m.s, m.id>> \in undercut'
<1>1. scopes \in [Scopes -> Rows] /\ undercut \in SUBSET (Scopes \X Ids)
  BY DEF DhcpInv, DhcpTypes
<1>2. /\ scopes' \in [Scopes -> Rows] /\ scopes'[s].kid = id
      /\ scopes'[s].text = scopes[s].text /\ scopes'[s].row = scopes[s].row
      /\ \A o \in Scopes \ {s} : scopes'[o] = scopes[o]
  BY <1>1 DEF TakeId, Rows
<1>3. UniqueIds'
  BY <1>2 DEF DhcpInv, UniqueIds, ClaimOk
<1>4. \A o \in Scopes : scopes[o].row = "absent" => scopes[o].kid = NONE
  BY DEF DhcpInv, DhcpTypes
<1> DEFINE taken == {n \in InFlight : /\ n.s = s /\ n.op # "add"
                                     /\ n.id = scopes[s].kid /\ n.id # id}
<1>5. undercut' = undercut \cup {<<m.s, m.id>> : m \in taken}
  BY DEF TakeId
<1>6. \A m \in InFlight : m.s \in Scopes /\ m.id \in Ids /\ SentOk(m)
  BY InFlightTypes DEF Requests, DhcpInv
<1>7. undercut' \in SUBSET (Scopes \X Ids) /\ undercut \subseteq undercut'
  BY <1>1, <1>5, <1>6
<1>8. ASSUME NEW m \in InFlight, m.op # "add", scopes'[m.s].kid # scopes[m.s].kid,
             scopes'[m.s].kid # m.id
      PROVE  <<m.s, m.id>> \in undercut'
  <2>1. m.s = s
    BY <1>2, <1>6, <1>8
  <2>2. CASE scopes[s].kid = m.id
    <3>1. m \in taken
      BY <1>2, <1>8, <2>1, <2>2
    <3> QED BY <1>5, <3>1
  <2>3. CASE scopes[s].kid # m.id
    BY <1>6, <1>7, <1>8, <2>1, <2>3 DEF SentOk
  <2> QED BY <2>2, <2>3
<1> QED BY <1>2, <1>3, <1>4, <1>7, <1>8

LEMMA ClaimMoves == ASSUME DhcpInv, NEW c \in Calls, PushClaim(c) PROVE DhcpInv'
<1> DEFINE s == calls[c].s
           i == calls[c].kid
           x == Moved(calls[c], "send", "none")
<1>1. calls[c].pc = "claim" /\ UNCHANGED <<tpl, kea, late>>
  BY DEF PushClaim, At
<1>2. /\ calls[c] \in Sessions /\ SessionOk(calls[c]) /\ s \in Scopes /\ scopes[s].row # "absent"
  BY <1>1, IdFacts, SessionFacts DEF Resting, ReadOk
<1>3. i \in Ids /\ i # NONE /\ calls[c].kind = "push" /\ calls[c].op = "add"
  BY <1>1, <1>2, IdFacts DEF Sessions, SessionOk, Pushing
<1>4. CASE UNCHANGED <<scopes, undercut>> /\ calls' = [calls EXCEPT ![c] = Waiting]
  BY <1>1, <1>4, RestFacts, RestMoves DEF Resting
<1>5. CASE ClaimOk(s, i) /\ TakeId(s, i) /\ calls' = [calls EXCEPT ![c] = x]
  <2>1. kea' \in Keas /\ late' \in SUBSET Requests /\ late' \subseteq InFlight /\ UNCHANGED tpl
    BY <1>1, InFlightTypes DEF DhcpInv, DhcpTypes
  <2>2. /\ x \in Sessions /\ x.kind = "push" /\ x.pc = "send" /\ x.s = s /\ x.op = "add"
        /\ x.kid = i /\ x.text = calls[c].text
    BY <1>3, MovedFacts DEF Sending
  <2>3. SessionOk(x)
    BY <1>1, <1>2, <1>3, <2>2, IdFacts DEF SessionOk, Resting, Pushing, Diffing, Sending
  <2> HIDE DEF x, s, i
  <2> QED BY <1>2, <1>3, <1>5, <2>1, <2>2, <2>3, IdTaken, SessionChanges
<1> QED BY <1>1, <1>4, <1>5 DEF PushClaim, Step

\* Where a request goes after a failure fits its kind.
LEMMA FailureFacts ==
  ASSUME DhcpInv, NEW c \in Calls, calls[c].pc \in Sending
  PROVE  \/ AfterFailure(c) = "rollback" /\ calls[c].op = "add" /\ calls[c].kind = "push"
         \/ AfterFailure(c) = "record" /\ calls[c].op = "update" /\ calls[c].kind = "push"
         \/ AfterFailure(c) = "tomb" /\ calls[c].op = "delete" /\ calls[c].kind = "delete"
<1>1. SessionOk(calls[c])
  BY SessionFacts
<1> QED BY <1>1 DEF SessionOk, AfterFailure

LEMMA KeaCallMoves == ASSUME DhcpInv, NEW c \in Calls, KeaCall(c) PROVE DhcpInv'
<1> DEFINE m == Request(c)
<1>1. calls[c].pc = "send" /\ UNCHANGED <<scopes, tpl, undercut>>
  BY DEF KeaCall, At
<1>2. m \in Requests /\ m \in InFlight
  BY <1>1, RequestFacts
<1>3. kea \in Keas /\ KeaApplied(m) \in Keas /\ late \in SUBSET Requests
  BY <1>2, KeaTypes DEF DhcpInv, DhcpTypes
<1>4. /\ kea' \in {kea, KeaApplied(m)} /\ late' \in {late, late \cup {m}}
      /\ Step(c, "write", "ok") \/ Step(c, AfterFailure(c), "error")
  BY DEF KeaCall
<1> HIDE DEF m
<1>5. kea' \in Keas /\ late' \in SUBSET Requests
  BY <1>2, <1>3, <1>4
<1>6. late' \subseteq InFlight
  BY <1>2, <1>4, InFlightTypes
<1>7. calls[c].pc \notin Resting /\ calls[c].pc \in Sending
  BY <1>1 DEF Resting, Sending
<1>8. CASE Step(c, "write", "ok")
  BY <1>1, <1>5, <1>6, <1>7, <1>8, StepMoves
<1>9. CASE Step(c, AfterFailure(c), "error")
  BY <1>1, <1>5, <1>6, <1>7, <1>9, FailureFacts, StepMoves
<1> QED BY <1>4, <1>8, <1>9

LEMMA WriteMoves == ASSUME DhcpInv, NEW c \in Calls, ConfigWrite(c) PROVE DhcpInv'
<1>1. calls[c].pc = "write" /\ UNCHANGED <<scopes, tpl, kea, late, undercut>>
  BY DEF ConfigWrite, At
<1>2. calls[c].pc \notin Resting /\ calls[c].pc \in Sending
  BY <1>1 DEF Resting, Sending
<1>3. kea' \in Keas /\ late' \in SUBSET Requests /\ late' \subseteq InFlight
  BY <1>1, InFlightTypes DEF DhcpInv, DhcpTypes
<1>4. CASE Step(c, IF calls[c].op = "delete" THEN "tomb" ELSE "record", "ok")
  <2>1. CASE calls[c].op = "delete"
    <3>1. calls[c].kind = "delete"
      BY <1>2, <2>1, FailureFacts
    <3> QED BY <1>1, <1>2, <1>3, <1>4, <2>1, <3>1, StepMoves
  <2>2. CASE calls[c].op # "delete"
    <3>1. calls[c].kind = "push"
      BY <1>2, <2>2, FailureFacts
    <3> QED BY <1>1, <1>2, <1>3, <1>4, <2>2, <3>1, StepMoves
  <2> QED BY <2>1, <2>2
<1>5. CASE Step(c, AfterFailure(c), "error")
  BY <1>1, <1>2, <1>3, <1>5, FailureFacts, StepMoves
<1> QED BY <1>4, <1>5 DEF ConfigWrite

LEMMA FetchMoves == ASSUME DhcpInv, NEW c \in Calls, DiffFetch(c) PROVE DhcpInv'
<1>1. calls[c].pc = "fetch" /\ UNCHANGED <<scopes, tpl, kea, late, undercut>>
  BY DEF DiffFetch, At
<1>2. calls[c].pc \notin Resting /\ calls[c].kind = "diff"
  BY <1>1, SessionFacts DEF Resting, SessionOk, Diffing
<1>3. kea' \in Keas /\ late' \in SUBSET Requests /\ late' \subseteq InFlight
  BY <1>1, InFlightTypes DEF DhcpInv, DhcpTypes
<1>4. Verdict(calls[c].s, calls[c].kid, calls[c].text)
          \in {"never_pushed", "missing_from_kea", "in_sync", "drifted"}
  BY DEF Verdict
<1>5. PICK status \in {"never_pushed", "missing_from_kea", "in_sync", "drifted", "error"} :
          Step(c, "persist", status)
  BY <1>4 DEF DiffFetch
<1> QED BY <1>1, <1>2, <1>3, <1>5, StepMoves

\* A request that goes on, or ends, with a write to its scope's row.
LEMMA RestWrites ==
  ASSUME DhcpInv, NEW c \in Calls, UNCHANGED <<tpl, kea, late, undercut>>, scopes' \in [Scopes -> Rows],
         \A s \in Scopes :
             /\ scopes'[s].kid = scopes[s].kid /\ scopes'[s].text = scopes[s].text
             /\ scopes'[s].row = "absent" => scopes[s].row = "absent",
         NEW x \in Sessions, SessionOk(x), x.s = NONE, x.op = "none", x.pc \in Resting,
         calls' = [calls EXCEPT ![c] = x]
  PROVE  DhcpInv'
<1>1. UniqueIds' /\ x.pc # "send"
  BY DEF DhcpInv, UniqueIds, Resting
<1>2. /\ kea' \in Keas /\ late' \in SUBSET Requests /\ late' \subseteq InFlight
      /\ undercut' \in SUBSET (Scopes \X Ids)
      /\ \A s \in Scopes : scopes'[s].row = "absent" =>
            scopes[s].row = "absent" /\ scopes'[s].kid = NONE
  BY InFlightTypes DEF DhcpInv, DhcpTypes
<1>3. \A m \in InFlight : m.op # "add" => scopes'[m.s].kid = scopes[m.s].kid
  BY InFlightTypes DEF Requests
<1> QED BY <1>1, <1>2, <1>3, SessionChanges

LEMMA RecordMoves == ASSUME DhcpInv, NEW c \in Calls, PushRecord(c) PROVE DhcpInv'
<1>1. /\ calls[c].pc = "record" /\ Proceed(c, calls[c].todo) /\ UNCHANGED <<tpl, kea, late, undercut>>
      /\ scopes' = scopes \/ scopes' = [scopes EXCEPT ![calls[c].s].diff = "in_sync"]
  BY DEF PushRecord, At
<1>2. scopes \in [Scopes -> Rows] /\ calls[c].s \in Scopes /\ calls[c].todo \in SUBSET Scopes
  BY <1>1, SessionFacts DEF DhcpInv, DhcpTypes, Resting
<1>3. /\ scopes' \in [Scopes -> Rows]
      /\ \A s \in Scopes : /\ scopes'[s].kid = scopes[s].kid /\ scopes'[s].text = scopes[s].text
                           /\ scopes'[s].row = scopes[s].row
  BY <1>1, <1>2 DEF Rows
<1> QED BY <1>1, <1>2, <1>3, ProceedRests, RestWrites

LEMMA TombstoneMoves == ASSUME DhcpInv, NEW c \in Calls, DeleteTombstone(c) PROVE DhcpInv'
<1>1. /\ calls' = [calls EXCEPT ![c] = Waiting] /\ UNCHANGED <<tpl, kea, late, undercut>>
      /\ scopes' = scopes \/ scopes' = [scopes EXCEPT ![calls[c].s].row = "tombstone"]
  BY DEF DeleteTombstone
<1>2. scopes \in [Scopes -> Rows] /\ (calls[c].pc = "tomb" => calls[c].s \in Scopes)
  BY SessionFacts DEF DhcpInv, DhcpTypes, Resting
<1>3. calls[c].s \in Scopes
  BY <1>2 DEF DeleteTombstone, At
<1>4. /\ scopes' \in [Scopes -> Rows]
      /\ \A s \in Scopes : /\ scopes'[s].kid = scopes[s].kid /\ scopes'[s].text = scopes[s].text
                           /\ scopes'[s].row = "absent" => scopes[s].row = "absent"
  BY <1>1, <1>2, <1>3 DEF Rows
<1> QED BY <1>1, <1>4, RestFacts, RestWrites DEF Resting

LEMMA PersistMoves == ASSUME DhcpInv, NEW c \in Calls, DiffPersist(c) PROVE DhcpInv'
<1>1. /\ calls[c].pc = "persist" /\ Proceed(c, calls[c].todo) /\ UNCHANGED <<tpl, kea, late, undercut>>
      /\ scopes' = scopes \/ scopes' = [scopes EXCEPT ![calls[c].s].diff = calls[c].status]
  BY DEF DiffPersist, At
<1>2. scopes \in [Scopes -> Rows] /\ calls[c].s \in Scopes /\ calls[c].todo \in SUBSET Scopes
  BY <1>1, SessionFacts DEF DhcpInv, DhcpTypes, Resting
<1>3. calls[c].status \in {"never_pushed", "missing_from_kea", "in_sync", "drifted", "error"}
  BY <1>1, SessionFacts DEF SessionOk, Sessions
<1>4. /\ scopes' \in [Scopes -> Rows]
      /\ \A s \in Scopes : /\ scopes'[s].kid = scopes[s].kid /\ scopes'[s].text = scopes[s].text
                           /\ scopes'[s].row = scopes[s].row
  BY <1>1, <1>2, <1>3 DEF Rows
<1> QED BY <1>1, <1>2, <1>4, ProceedRests, RestWrites

\* A first push that failed gives its id back.
LEMMA RollbackMoves == ASSUME DhcpInv, NEW c \in Calls, PushRollback(c) PROVE DhcpInv'
<1> DEFINE x == Moved(calls[c], "record", "error")
<1>1. /\ calls[c].pc = "rollback" /\ UNCHANGED <<tpl, kea, late>> /\ TakeId(calls[c].s, NONE)
      /\ calls' = [calls EXCEPT ![c] = x]
  BY DEF PushRollback, At, Step
<1>2. calls[c].s \in Scopes /\ calls[c].kind = "push" /\ scopes[calls[c].s].row # "absent"
  BY <1>1, IdFacts, SessionFacts DEF Resting, SessionOk, Pushing, ReadOk
<1>3. /\ x \in Sessions /\ x.kind = "push" /\ x.pc = "record" /\ x.s = calls[c].s /\ x.op = "none"
  BY <1>2, MovedFacts DEF Sending
<1> HIDE DEF x
<1>4. SessionOk(x)
  BY <1>2, <1>3, IdFacts DEF SessionOk, Resting, Pushing, Diffing, Sending
<1>5. kea' \in Keas /\ late' \in SUBSET Requests /\ late' \subseteq InFlight /\ UNCHANGED tpl
  BY <1>1, InFlightTypes DEF DhcpInv, DhcpTypes
<1> QED BY <1>1, <1>2, <1>3, <1>4, <1>5, IdTaken, SessionChanges

\* A request that is cancelled may leave its message on the way to Kea.
LEMMA CancelMoves == ASSUME DhcpInv, NEW c \in Calls, Cancel(c) PROVE DhcpInv'
<1>1. /\ calls' = [calls EXCEPT ![c] = Waiting] /\ UNCHANGED <<scopes, tpl, kea, undercut>>
      /\ late' = late \/ (calls[c].pc = "send" /\ late' = late \cup {Request(c)})
  BY DEF Cancel, At
<1>2. /\ Waiting \in Sessions /\ SessionOk(Waiting) /\ Waiting.s = NONE /\ Waiting.pc = "idle"
  BY RestFacts
<1>3. late' \in SUBSET Requests /\ late' \subseteq InFlight
  BY <1>1, RequestFacts, InFlightTypes DEF DhcpInv, DhcpTypes
<1>4. /\ scopes' \in [Scopes -> Rows] /\ kea' \in Keas /\ UniqueIds'
      /\ undercut' \in SUBSET (Scopes \X Ids)
      /\ \A s \in Scopes : scopes'[s].row = "absent" =>
            scopes[s].row = "absent" /\ scopes'[s].kid = NONE
  BY <1>1 DEF DhcpInv, DhcpTypes, UniqueIds
<1> QED BY <1>1, <1>2, <1>3, <1>4, SessionChanges

-----------------------------------------------------------------------------
(* The invariant *)

LEMMA InitDhcpInv == DhcpInit => DhcpInv
<1> SUFFICES ASSUME DhcpInit PROVE DhcpInv
  OBVIOUS
<1>1. Absent \in Rows /\ Absent.kid = NONE /\ Absent.text = "stored"
  BY DEF Absent, Rows, Texts
<1>2. DhcpTypes
  BY <1>1, RestFacts DEF DhcpInit, DhcpTypes, Subnets, Keas
<1>3. UniqueIds /\ InFlight = {}
  BY <1>1, RestFacts, Messages DEF DhcpInit, UniqueIds
<1>4. \A c \in Calls : SessionOk(calls[c]) /\ ReadOk(calls[c])
  BY RestFacts DEF DhcpInit, ReadOk
<1> QED BY <1>2, <1>3, <1>4 DEF DhcpInv

LEMMA StepDhcpInv == DhcpInv /\ [DhcpNext]_dhcpVars => DhcpInv'
<1> SUFFICES ASSUME DhcpInv, [DhcpNext]_dhcpVars PROVE DhcpInv'
  OBVIOUS
<1>1. CASE UNCHANGED dhcpVars
  <2>1. UNCHANGED <<scopes, tpl, kea, late, calls, undercut>>
    BY <1>1 DEF dhcpVars
  <2> QED BY <2>1, TablesChange DEF DhcpInv, DhcpTypes
<1>2. CASE Operator \/ KeaLate \/ \E s \in Scopes : PurgeExpiredTombstones(s)
  BY <1>2, OperatorMoves, LateMoves, PurgeMoves
<1>3. CASE \E c \in Calls : CallStart(c) \/ Cancel(c)
  BY <1>3, StartMoves, CancelMoves
<1>4. CASE \E c \in Calls : CallStep(c)
  BY <1>4, LoadMoves, ListMoves, ClaimMoves, KeaCallMoves, WriteMoves, RollbackMoves, RecordMoves,
     TombstoneMoves, FetchMoves, PersistMoves DEF CallStep
<1> QED BY <1>1, <1>2, <1>3, <1>4 DEF DhcpNext

LEMMA DhcpInvariant == DhcpSpec => []DhcpInv
<1>1. DhcpInv /\ [DhcpNext]_dhcpVars => DhcpInv'
  BY StepDhcpInv
<1> QED BY <1>1, InitDhcpInv, PTL DEF DhcpSpec

-----------------------------------------------------------------------------
(* What pushing promises *)

\* The tables, Kea and the requests hold what the handlers write, for every
\* number of scopes and requests (internal/dhcp/push and the scope handlers of
\* internal/ipam).
THEOREM DhcpTypeCorrect == DhcpSpec => []DhcpTypeOK
<1>1. DhcpInv => DhcpTypeOK
  <2> SUFFICES ASSUME DhcpInv PROVE DhcpTypeOK
    OBVIOUS
  <2>1. \A m \in late : m.id \in Ids /\ m.s \in Scopes /\ m.text \in Rendered
    BY DEF DhcpInv, DhcpTypes, Requests
  <2>2. \A c \in Calls : calls[c].s \in Scopes \cup {NONE} /\ calls[c].todo \subseteq Scopes
    BY DEF DhcpInv, DhcpTypes, Sessions
  <2> QED BY <2>1, <2>2 DEF DhcpInv, DhcpTypes, DhcpTypeOK, Rows, Keas
<1>2. DhcpSpec => []DhcpInv
  BY DhcpInvariant
<1> QED BY <1>1, <1>2, PTL

\* What one message does to Kea: it changes the subnet of its own key, and only a
\* delete or an update changes what is there.
LEMMA MessageChanges ==
  ASSUME DhcpInv, NEW m \in InFlight, kea' = KeaApplied(m),
         NEW f \in Families, NEW i \in Ids, kea[<<f, i>>] # NONE,
         scopes[kea[<<f, i>>].s].kid = i, kea'[<<f, i>>] # kea[<<f, i>>]
  PROVE  /\ Key(m.s, m.id) = <<f, i>>
         /\ m.s = kea[<<f, i>>].s \/ <<m.s, m.id>> \in undercut
<1>1. kea \in Keas /\ m \in Requests /\ SentOk(m)
  BY InFlightTypes DEF DhcpInv, DhcpTypes
<1>2. Key(m.s, m.id) = <<f, i>> /\ KeaAccepts(m)
  BY <1>1 DEF KeaApplied, Keas
<1>3. m.id = i
  BY <1>2 DEF Key
<1>4. m.op # "add"
  BY <1>1, <1>2 DEF KeaAccepts, Requests
<1>5. m.s \in Scopes /\ kea[<<f, i>>].s \in Scopes /\ i # NONE
  BY <1>1, IdFacts DEF Keas, Subnets, Requests
<1>6. CASE scopes[m.s].kid = m.id
  BY <1>2, <1>3, <1>5, <1>6 DEF DhcpInv, UniqueIds
<1>7. CASE scopes[m.s].kid # m.id
  BY <1>1, <1>2, <1>4, <1>7 DEF SentOk
<1> QED BY <1>6, <1>7

\* A subnet that Kea serves for a scope whose row records its id is changed only by
\* a request of that scope, or by one whose own id was taken from under it by a
\* first push of the same scope, over every interleaving of pushes, deletes,
\* cancelled requests, lost answers and late executions (push.go, PushScope and
\* DeleteScopeFromKea).
THEOREM ServedSubnetIsKept == DhcpSpec => NoForeignChange
<1> DEFINE Kept == \A f \in Families, i \in Ids :
               (/\ kea[<<f, i>>] # NONE
                /\ scopes[kea[<<f, i>>].s].kid = i
                /\ kea'[<<f, i>>] # kea[<<f, i>>])
                   => \E m \in InFlight :
                         /\ kea' = KeaApplied(m)
                         /\ Key(m.s, m.id) = <<f, i>>
                         /\ m.s = kea[<<f, i>>].s \/ <<m.s, m.id>> \in undercut
<1>1. ASSUME DhcpInv, [DhcpNext]_dhcpVars PROVE Kept
  <2>1. CASE UNCHANGED kea
    BY <2>1
  <2>2. ASSUME NEW m \in InFlight, kea' = KeaApplied(m) PROVE Kept
    BY <1>1, <2>2, MessageChanges
  <2>3. UNCHANGED kea \/ \E m \in InFlight : kea' = KeaApplied(m)
    <3>1. KeaLate => \E m \in InFlight : kea' = KeaApplied(m)
      BY DEF KeaLate, InFlight
    <3>2. \A c \in Calls : KeaCall(c) =>
              UNCHANGED kea \/ (Request(c) \in InFlight /\ kea' = KeaApplied(Request(c)))
      BY Messages DEF KeaCall, At
    <3>3. (\E c \in Calls : KeaCall(c)) \/ KeaLate \/ UNCHANGED kea
      BY <1>1 DEF DhcpNext, Operator, createDhcpScope, updateDhcpScope, restoreDhcpScope,
         createDhcpScopeTemplate, updateDhcpScopeTemplate, deleteDhcpScopeTemplate,
         updateDhcpServer, PurgeExpiredTombstones, CallStart, Start, pushDhcpScope,
         PushAllScopes, PushDriftedScopes, deleteDhcpScope, DiffAllScopes, CallStep, PushLoad,
         DeleteLoad, DiffLoad, PushList, PushClaim, ConfigWrite, PushRollback, PushRecord,
         DeleteTombstone, DiffFetch, DiffPersist, Cancel, dhcpVars
    <3> QED BY <3>1, <3>2, <3>3
  <2> QED BY <2>1, <2>2, <2>3
<1>2. DhcpInv /\ [DhcpNext]_dhcpVars => [Kept]_dhcpVars
  BY <1>1
<1>3. DhcpSpec => []DhcpInv
  BY DhcpInvariant
<1> QED BY <1>2, <1>3, PTL DEF DhcpSpec, NoForeignChange

-----------------------------------------------------------------------------
(* The bundle *)

\* One more id is free below i + 1 than below i, or as many if i + 1 is used.
LEMMA FreeBelow ==
  ASSUME NEW used, NEW i \in Nat
  PROVE  /\ IsFiniteSet((1 .. i) \ used) /\ Cardinality((1 .. i) \ used) \in Nat
         /\ Cardinality((1 .. (i + 1)) \ used) =
               IF i + 1 \in used THEN Cardinality((1 .. i) \ used)
               ELSE Cardinality((1 .. i) \ used) + 1
<1> DEFINE F == (1 .. i) \ used
           G == (1 .. (i + 1)) \ used
<1>1. IsFiniteSet(1 .. i) /\ F \in SUBSET (1 .. i)
  BY FS_Interval
<1>2. IsFiniteSet(F) /\ Cardinality(F) \in Nat
  BY <1>1, FS_Subset, FS_CardinalityType
<1>3. i + 1 \notin F /\ G = IF i + 1 \in used THEN F ELSE F \cup {i + 1}
  OBVIOUS
<1> HIDE DEF F, G
<1>4. Cardinality(G) = IF i + 1 \in used THEN Cardinality(F) ELSE Cardinality(F) + 1
  BY <1>2, <1>3, FS_AddElement
<1> QED BY <1>2, <1>4 DEF F, G

\* nextID finds the k-th id that is not used.
LEMMA NthFree ==
  ASSUME NEW used \in SUBSET Ids, NEW k \in 1 .. MaxId
  PROVE  /\ nextID(used, k) \notin used
         /\ Cardinality((1 .. nextID(used, k)) \ used) = k
<1> DEFINE f(i) == Cardinality((1 .. i) \ used)
           S == {i \in Nat : f(i) >= k}
<1>1. /\ \A i \in Nat : f(i) \in Nat
      /\ \A i \in Nat : f(i + 1) = IF i + 1 \in used THEN f(i) ELSE f(i) + 1
  BY FreeBelow
<1>2. f(0) = 0
  <2>1. (1 .. 0) \ used = {}
    OBVIOUS
  <2> QED BY <2>1, FS_EmptySet
<1>3. 2 * MaxId \in S
  <2>1. MaxId \in Nat /\ 2 * MaxId \in Nat /\ MaxId + 1 \in Int
    BY MaxIdAssumption
  <2>2. ((MaxId + 1) .. 2 * MaxId) \in SUBSET ((1 .. 2 * MaxId) \ used)
    BY <2>1 DEF Ids
  <2>3. Cardinality((MaxId + 1) .. (2 * MaxId)) =
            IF MaxId + 1 > 2 * MaxId THEN 0 ELSE 2 * MaxId - (MaxId + 1) + 1
    BY <2>1, FS_Interval
  <2>4. IsFiniteSet((1 .. 2 * MaxId) \ used)
    BY <2>1, FreeBelow
  <2>5. Cardinality((MaxId + 1) .. (2 * MaxId)) <= f(2 * MaxId)
    BY <2>2, <2>4, FS_Subset
  <2>6. Cardinality((MaxId + 1) .. (2 * MaxId)) = MaxId
    BY <2>1, <2>3
  <2>7. f(2 * MaxId) >= k
    BY <1>1, <2>1, <2>5, <2>6
  <2> QED BY <2>1, <2>7
<1> HIDE DEF f
<1>4. PICK n \in S : \A m \in S : n <= m
  <2>1. S \in SUBSET Nat /\ S # {}
    BY <1>3
  <2> QED BY <2>1, LeastElement
<1>5. n # 0 /\ n \in Nat /\ n - 1 \in Nat
  BY <1>2
<1>6. f(n - 1) < k
  <2>1. n - 1 \notin S
    BY <1>4, <1>5
  <2> QED BY <1>1, <1>5, <2>1
<1>7. f(n) = k /\ n \notin used
  <2>1. f(n) = IF n \in used THEN f(n - 1) ELSE f(n - 1) + 1
    <3>1. (n - 1) + 1 = n
      BY <1>5
    <3> QED BY <1>1, <1>5, <3>1
  <2>2. f(n) >= k /\ f(n - 1) \in Nat
    BY <1>1, <1>5
  <2> QED BY <1>6, <2>1, <2>2
<1>8. n \in 1 .. 2 * MaxId
  BY <1>3, <1>4, <1>5, MaxIdAssumption
<1>9. nextID(used, k) \notin used /\ f(nextID(used, k)) = k
  BY <1>7, <1>8 DEF nextID, f
<1> QED BY <1>9 DEF f

\* The rank of a deferred scope is between 1 and the number of scopes, and two
\* of them have two ranks.
LEMMA Ranks ==
  ASSUME NEW D \in SUBSET Scopes, NEW s \in D
  PROVE  /\ Cardinality({d \in D : d <= s}) \in 1 .. MaxId
         /\ \A o \in D : s < o => Cardinality({d \in D : d <= s}) < Cardinality({d \in D : d <= o})
<1> DEFINE R(o) == {d \in D : d <= o}
<1>1. IsFiniteSet(Scopes) /\ Cardinality(Scopes) \in Nat /\ Scopes \subseteq Nat
  BY ScopesAssumption, FS_CardinalityType
<1>2. \A o \in D : R(o) \in SUBSET Scopes
  OBVIOUS
<1>3. \A o \in D : IsFiniteSet(R(o)) /\ Cardinality(R(o)) \in Nat /\ Cardinality(R(o)) <= Cardinality(Scopes)
  BY <1>1, <1>2, FS_Subset, FS_CardinalityType
<1>4. s \in R(s)
  BY <1>1
<1>5. Cardinality(R(s)) # 0
  BY <1>3, <1>4, FS_EmptySet
<1>6. Cardinality(R(s)) \in 1 .. MaxId
  BY <1>1, <1>3, <1>5, MaxIdAssumption
<1>7. ASSUME NEW o \in D, s < o PROVE Cardinality(R(s)) < Cardinality(R(o))
  <2>0. \A d \in D : d \in Nat
    BY <1>1
  <2>1. R(s) \in SUBSET R(o) /\ o \in R(o) /\ o \notin R(s)
    <3>1. ASSUME NEW d \in R(s) PROVE d \in R(o)
      BY <1>7, <2>0
    <3>2. o <= o /\ ~(o <= s)
      BY <1>7, <2>0
    <3> QED BY <3>1, <3>2
  <2>2. Cardinality(R(s)) <= Cardinality(R(o)) /\ Cardinality(R(s)) # Cardinality(R(o))
    BY <1>3, <2>1, FS_Subset
  <2> QED BY <1>3, <2>2
<1> QED BY <1>6, <1>7

\* Every bundle gives each enabled scope a subnet id of its own among the scopes of
\* its family, and a scope that was pushed the id it has (bundle.go,
\* assembleSubnets).
THEOREM BundleIdsAreOwn == DhcpSpec => []BundleIdsAgree
<1>1. ASSUME DhcpInv PROVE BundleIdsAgree
  <2> DEFINE used(f) == {scopes[s].kid : s \in {p \in Pinned : Family[p] = f}}
             peers(s) == {d \in Deferred : Family[d] = Family[s]}
             rank(s) == Cardinality({d \in Deferred : Family[d] = Family[s] /\ d <= s})
             b == RenderKeaBundle
  <2>1. /\ Pinned \subseteq EnabledScopes /\ Deferred = EnabledScopes \ Pinned
        /\ EnabledScopes \subseteq Scopes
        /\ \A s \in EnabledScopes : s \in Pinned <=> scopes[s].kid # NONE
    BY DEF Pinned, Deferred, EnabledScopes, LiveScopes
  <2>2. \A f : used(f) \in SUBSET Ids
    <3>1. \A s \in Scopes : scopes[s].kid \in Ids \cup {NONE}
      BY <1>1 DEF DhcpInv, DhcpTypes, Rows
    <3> QED BY <2>1, <3>1
  <2>3. \A s \in EnabledScopes :
            b[s].id = IF s \in Pinned THEN scopes[s].kid ELSE nextID(used(Family[s]), rank(s))
    BY DEF RenderKeaBundle
  <2>4. \A s \in Pinned : b[s].id = scopes[s].kid /\ scopes[s].kid \in used(Family[s])
    BY <2>1, <2>3
  <2>5. ASSUME NEW s \in Deferred
        PROVE  /\ rank(s) \in 1 .. MaxId
               /\ b[s].id \notin used(Family[s])
               /\ Cardinality((1 .. b[s].id) \ used(Family[s])) = rank(s)
    <3>1. s \in EnabledScopes /\ s \notin Pinned /\ peers(s) \in SUBSET Scopes /\ s \in peers(s)
      BY <2>1
    <3>2. rank(s) = Cardinality({d \in peers(s) : d <= s})
      <4>1. {d \in peers(s) : d <= s} = {d \in Deferred : Family[d] = Family[s] /\ d <= s}
        OBVIOUS
      <4> QED BY <4>1
    <3>3. rank(s) \in 1 .. MaxId
      <4> HIDE DEF peers, rank
      <4> QED BY <3>1, <3>2, Ranks
    <3>4. b[s].id = nextID(used(Family[s]), rank(s)) /\ used(Family[s]) \in SUBSET Ids
      BY <2>2, <2>3, <3>1
    <3> HIDE DEF used, rank, b
    <3> QED BY <3>3, <3>4, NthFree
  <2>6. ASSUME NEW s \in Deferred, NEW o \in Deferred, s < o, Family[s] = Family[o]
        PROVE  rank(s) < rank(o)
    <3>1. peers(s) \in SUBSET Scopes /\ s \in peers(s) /\ o \in peers(s) /\ peers(o) = peers(s)
      BY <2>1, <2>6
    <3>2. /\ {d \in peers(s) : d <= s} = {d \in Deferred : Family[d] = Family[s] /\ d <= s}
          /\ {d \in peers(s) : d <= o} = {d \in Deferred : Family[d] = Family[o] /\ d <= o}
      BY <2>6
    <3>3. Cardinality({d \in peers(s) : d <= s}) < Cardinality({d \in peers(s) : d <= o})
      <4> HIDE DEF peers
      <4> QED BY <2>6, <3>1, Ranks
    <3> QED BY <3>2, <3>3
  <2>7. ASSUME NEW s \in EnabledScopes, NEW o \in EnabledScopes, s # o, Family[s] = Family[o]
        PROVE  b[s].id # b[o].id
    <3>1. CASE s \in Pinned /\ o \in Pinned
      BY <1>1, <2>1, <2>4, <2>7, <3>1 DEF DhcpInv, UniqueIds
    <3>2. CASE s \in Pinned <=> o \notin Pinned
      <4> HIDE DEF used, b, rank
      <4> QED BY <2>1, <2>4, <2>5, <2>7, <3>2
    <3>3. CASE s \in Deferred /\ o \in Deferred
      <4>1. s < o \/ o < s
        BY <2>1, <2>7, ScopesAssumption
      <4> HIDE DEF used, rank, b
      <4>2. rank(s) \in 1 .. MaxId /\ rank(o) \in 1 .. MaxId
        BY <2>5, <3>3
      <4>3. rank(s) # rank(o)
        BY <2>6, <2>7, <3>3, <4>1, <4>2
      <4> QED BY <2>5, <2>7, <3>3, <4>3
    <3> QED BY <2>1, <3>1, <3>2, <3>3
  <2> HIDE DEF b
  <2>8. \A s \in EnabledScopes : scopes[s].kid # NONE => b[s].id = scopes[s].kid
    BY <2>1, <2>4
  <2> QED BY <2>7, <2>8 DEF BundleIdsAgree, b
<1>2. DhcpSpec => []DhcpInv
  BY DhcpInvariant
<1>3. DhcpInv => BundleIdsAgree
  BY <1>1
<1> QED BY <1>2, <1>3, PTL
=============================================================================
