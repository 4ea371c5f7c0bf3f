----------------------------- MODULE DnssecKeys -----------------------------
(***************************************************************************)
(* The DNSSEC keys of a zone (packages/otter-go/internal/dns and the       *)
(* scheduler job dnssecrotate): enable, rotate, disable, delete and the    *)
(* daily rotation.                                                         *)
(*                                                                         *)
(* No handler opens a transaction, so a call takes one step per statement, *)
(* calls interleave, and a call may end after any statement (a database    *)
(* error, a cancelled request, a stopped pod).  What a call has read of    *)
(* the zone is never read again.                                           *)
(*                                                                         *)
(* Zones are independent, so one is modelled.  Key i is the i-th one       *)
(* inserted, which is the order of active_from; how long ago that was is   *)
(* an input of the daily job.  Key material, the fabric scope and the      *)
(* audit are left out, and so is updated_at: TouchDnsZone and the NSEC3    *)
(* settings change nothing that a call here reads.                         *)
(***************************************************************************)
EXTENDS Integers

CONSTANTS Callers,      \* concurrently served operator calls
          Crons,        \* running scheduler jobs
          MaxKeys       \* bound on the keys inserted in a behaviour

ASSUME MaxKeysAssumption == MaxKeys \in Nat
ASSUME CallersAssumption == Callers \cap Crons = {}

Keys == 1 .. MaxKeys
Roles == {"ksk", "zsk"}

VARIABLES
    signed, frozen,     \* the columns of dns_zones
    keys,               \* dns_keys: "absent" (not yet inserted), "active",
                        \* "retired" (retired_at is set), "deleted"
    minted,             \* keys inserted so far
    call                \* what each call or job has read so far

zone == <<signed, frozen>>
vars == <<signed, frozen, keys, minted, call>>

Idle == [pc |-> "idle", role |-> "zsk", signed |-> FALSE, listed |-> {}]

Init ==
    /\ signed = FALSE
    /\ frozen = FALSE
    /\ keys = [k \in Keys |-> [state |-> "absent", role |-> "zsk"]]
    /\ minted = 0
    /\ call = [c \in Callers \cup Crons |-> Idle]

\* retired_at IS NULL.
Active(role) == {k \in Keys : keys[k].state = "active" /\ keys[k].role = role}

\* ListDnsKeysByZone: the rows that exist, active or retired.
Rows == {k \in Keys : keys[k].state \in {"active", "retired"}}

GoTo(c, pc) == call' = [call EXCEPT ![c].pc = pc]
Return(c) == call' = [call EXCEPT ![c] = Idle]

\* CreateDnsKey: the new key is active at once.
CreateDnsKey(role) ==
    /\ minted < MaxKeys
    /\ minted' = minted + 1
    /\ keys' = [keys EXCEPT ![minted + 1] = [state |-> "active", role |-> role]]

-----------------------------------------------------------------------------
(* freeze, unfreeze *)

setFrozen(b) ==
    /\ frozen' = b
    /\ UNCHANGED <<signed, keys, minted, call>>

-----------------------------------------------------------------------------
(* enable-dnssec *)

\* GetDnsZone and the check of the freeze.
EnableLoad(c) ==
    /\ call[c].pc = "idle"
    /\ ~frozen
    /\ call' = [call EXCEPT ![c] = [Idle EXCEPT !.pc = "en_list", !.signed = signed]]
    /\ UNCHANGED <<zone, keys, minted>>

\* A zone that has any key is only flagged as signed, if it was not.
EnableList(c) ==
    /\ call[c].pc = "en_list"
    /\ CASE Rows = {}                       -> GoTo(c, "en_ksk")
         [] Rows # {} /\ ~call[c].signed    -> GoTo(c, "en_set")
         [] Rows # {} /\ call[c].signed     -> Return(c)
    /\ UNCHANGED <<zone, keys, minted>>

EnableCreate(c) ==
    /\ \/ call[c].pc = "en_ksk" /\ CreateDnsKey("ksk") /\ GoTo(c, "en_zsk")
       \/ call[c].pc = "en_zsk" /\ CreateDnsKey("zsk") /\ GoTo(c, "en_set")
    /\ UNCHANGED zone

EnableSet(c) ==
    /\ call[c].pc = "en_set"
    /\ signed' = TRUE
    /\ Return(c)
    /\ UNCHANGED <<frozen, keys, minted>>

-----------------------------------------------------------------------------
(* rotate-key and the daily job *)

\* rotateZoneKey: GetDnsZone; the zone is signed and not frozen.
RotateLoad(c, role) ==
    /\ call[c].pc = "idle"
    /\ signed /\ ~frozen
    /\ call' = [call EXCEPT ![c] = [Idle EXCEPT !.pc = "ro_list", !.role = role]]
    /\ UNCHANGED <<zone, keys, minted>>

\* The job reads the signed zones once and skips the frozen ones.
CronLoad(c) ==
    /\ call[c].pc = "idle"
    /\ signed /\ ~frozen
    /\ GoTo(c, "cron_list")
    /\ UNCHANGED <<zone, keys, minted>>

\* It rotates when the newest active ZSK is older than zsk_rotation_days, and
\* leaves a zone without one alone.
CronList(c) ==
    /\ call[c].pc = "cron_list"
    /\ \/ Active("zsk") # {} /\ GoTo(c, "ro_list")
       \/ Return(c)
    /\ UNCHANGED <<zone, keys, minted>>

\* RotateZoneKey: the keys to retire are listed before the new one is made.
RotateList(c) ==
    /\ call[c].pc = "ro_list"
    /\ call' = [call EXCEPT ![c].pc = "ro_create", ![c].listed = Active(call[c].role)]
    /\ UNCHANGED <<zone, keys, minted>>

RotateCreate_ListsAgain(c) ==
    /\ call[c].pc = "ro_create"
    /\ CreateDnsKey(call[c].role)
    /\ call' = [call EXCEPT ![c].pc = "ro_retire",
                            ![c].listed = Active(call[c].role) \cup {minted + 1}]
    /\ UNCHANGED zone

RotateCreate(c) ==
    /\ call[c].pc = "ro_create"
    /\ CreateDnsKey(call[c].role)
    /\ GoTo(c, "ro_retire")
    /\ UNCHANGED zone

RotateRetire_Revokes(c) ==
    /\ call[c].pc = "ro_retire"
    /\ \E k \in call[c].listed :
        /\ \A j \in call[c].listed : j <= k
        /\ keys' = [keys EXCEPT ![k].state = IF k \in Rows THEN "revoked" ELSE @]
        /\ call' = [call EXCEPT ![c].listed = @ \ {k}]
    /\ UNCHANGED <<zone, minted>>

\* RetireDnsKey for the next listed key, newest first; a key that was deleted
\* meanwhile is no row any more.
RotateRetire(c) ==
    /\ call[c].pc = "ro_retire"
    /\ \E k \in call[c].listed :
        /\ \A j \in call[c].listed : j <= k
        /\ keys' = [keys EXCEPT ![k].state = IF k \in Rows THEN "retired" ELSE @]
        /\ call' = [call EXCEPT ![c].listed = @ \ {k}]
    /\ UNCHANGED <<zone, minted>>

\* TouchDnsZone and the answer.
RotateDone(c) ==
    /\ call[c].pc = "ro_retire"
    /\ call[c].listed = {}
    /\ Return(c)
    /\ UNCHANGED <<zone, keys, minted>>

-----------------------------------------------------------------------------
(* disable-dnssec *)

DisableLoad(c) ==
    /\ call[c].pc = "idle"
    /\ ~frozen /\ signed
    /\ GoTo(c, "dis_delete")
    /\ UNCHANGED <<zone, keys, minted>>

\* DeleteAllDnsKeysForZone.
DisableDelete(c) ==
    /\ call[c].pc = "dis_delete"
    /\ keys' = [k \in Keys |-> IF k \in Rows THEN [keys[k] EXCEPT !.state = "deleted"]
                                             ELSE keys[k]]
    /\ GoTo(c, "dis_set")
    /\ UNCHANGED <<zone, minted>>

DisableSet(c) ==
    /\ call[c].pc = "dis_set"
    /\ signed' = FALSE
    /\ Return(c)
    /\ UNCHANGED <<frozen, keys, minted>>

-----------------------------------------------------------------------------
(* DELETE /keys/{id} *)

DeleteLoad_AnyKey(c, k) ==
    /\ call[c].pc = "idle"
    /\ k \in Rows
    /\ call' = [call EXCEPT ![c] = [Idle EXCEPT !.pc = "del_zone", !.listed = {k}]]
    /\ UNCHANGED <<zone, keys, minted>>

\* GetDnsKey: only a retired key may go.
DeleteLoad(c, k) ==
    /\ call[c].pc = "idle"
    /\ keys[k].state = "retired"
    /\ call' = [call EXCEPT ![c] = [Idle EXCEPT !.pc = "del_zone", !.listed = {k}]]
    /\ UNCHANGED <<zone, keys, minted>>

\* GetDnsZone of the key's zone: a frozen one ends the call, and a query that
\* fails goes on as if it were not frozen.
DeleteZone(c) ==
    /\ call[c].pc = "del_zone"
    /\ (frozen /\ Return(c)) \/ GoTo(c, "del_key")
    /\ UNCHANGED <<zone, keys, minted>>

DeleteDnsKey(c) ==
    /\ call[c].pc = "del_key"
    /\ keys' = [k \in Keys |-> IF k \in call[c].listed THEN [keys[k] EXCEPT !.state = "deleted"]
                                                       ELSE keys[k]]
    /\ Return(c)
    /\ UNCHANGED <<zone, minted>>

-----------------------------------------------------------------------------
\* A call or a job ends between two statements; what it wrote stays.
Abort(c) ==
    /\ call[c].pc # "idle"
    /\ Return(c)
    /\ UNCHANGED <<zone, keys, minted>>

EnableStep(c) == EnableLoad(c) \/ EnableList(c) \/ EnableCreate(c) \/ EnableSet(c)
RotateStep(c) == RotateList(c) \/ RotateCreate(c) \/ RotateRetire(c) \/ RotateDone(c)
DisableStep(c) == DisableLoad(c) \/ DisableDelete(c) \/ DisableSet(c)
DeleteStep(c) == (\E k \in Keys : DeleteLoad(c, k)) \/ DeleteZone(c) \/ DeleteDnsKey(c)

Next ==
    \/ \E b \in BOOLEAN : setFrozen(b)
    \/ \E c \in Callers :
            \/ EnableStep(c) \/ DisableStep(c) \/ DeleteStep(c)
            \/ \E role \in Roles : RotateLoad(c, role)
    \/ \E c \in Crons : CronLoad(c) \/ CronList(c)
    \/ \E c \in Callers \cup Crons : RotateStep(c) \/ Abort(c)

Spec == Init /\ [][Next]_vars

-----------------------------------------------------------------------------
(* What the key lifecycle promises *)

KeyState == {"absent", "active", "retired", "deleted"}
CallPc == {"idle", "en_list", "en_ksk", "en_zsk", "en_set", "ro_list", "ro_create",
           "ro_retire", "cron_list", "dis_delete", "dis_set", "del_zone", "del_key"}

\* The columns and the calls are well formed: the enum types of migration 00024.
TypeOK ==
    /\ signed \in BOOLEAN
    /\ frozen \in BOOLEAN
    /\ keys \in [Keys -> [state : KeyState, role : Roles]]
    /\ minted \in 0 .. MaxKeys
    /\ call \in [Callers \cup Crons -> [pc : CallPc, role : Roles, signed : BOOLEAN,
                                        listed : SUBSET Keys]]

\* The order of RotateZoneKey's statements: as long as a rotation may still
\* retire an active key, a newer key of that role is active.  Other rotations,
\* the daily job, a disable or a call that stops half way do not change that.
SuccessorInPlace ==
    \A c \in Callers \cup Crons : call[c].pc = "ro_retire" =>
        \A k \in call[c].listed \cap Active(call[c].role) :
            \E n \in Active(call[c].role) : n > k

\* dnssec_lifecycle.go: the rotation flow guarantees a successor before removal.
\* A role loses its last active key only when an operator disables DNSSEC.
SuccessorBeforeRemoval ==
    [][\A role \in Roles :
        (Active(role) # {} /\ Active(role)' = {})
            => \E c \in Callers : call[c].pc = "dis_delete"]_vars
=============================================================================
