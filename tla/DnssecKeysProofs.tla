-------------------------- MODULE DnssecKeysProofs --------------------------
(* SuccessorInPlace and SuccessorBeforeRemoval hold for any number of calls,  *)
(* jobs and keys.                                                            *)
EXTENDS DnssecKeys, TLAPS

Everyone == Callers \cup Crons

\* Key ids are handed out in order and a rotation lists only keys of its role
\* that exist, so the key it makes is newer than all of them.
ListedExist ==
    /\ \A k \in Keys : keys[k].state # "absent" => k <= minted
    /\ \A c \in Everyone : call[c].pc \in {"ro_create", "ro_retire"} =>
            \A k \in call[c].listed : keys[k].state # "absent" /\ keys[k].role = call[c].role

\* A key that was found retired is never active again.
DeletesRetired ==
    \A c \in Everyone : call[c].pc \in {"del_zone", "del_key"} =>
        \A k \in call[c].listed : keys[k].state \in {"retired", "deleted"}

KeyInv == TypeOK /\ ListedExist /\ DeletesRetired /\ SuccessorInPlace

\* The invariant holds of a zone that was never signed.
LEMMA InitKeyInv == Init => KeyInv
<1> SUFFICES ASSUME Init PROVE KeyInv
  OBVIOUS
<1>1. TypeOK
  <2>1. Idle \in [pc : CallPc, role : Roles, signed : BOOLEAN, listed : SUBSET Keys]
    BY Zenon DEF Idle, CallPc, Roles
  <2>2. call \in [Callers \cup Crons -> [pc : CallPc, role : Roles, signed : BOOLEAN,
                                        listed : SUBSET Keys]]
    BY <2>1 DEF Init
  <2>3. keys \in [Keys -> [state : KeyState, role : Roles]]
    BY DEF Init, KeyState, Roles
  <2>4. minted \in 0 .. MaxKeys
    BY MaxKeysAssumption DEF Init
  <2>5. signed \in BOOLEAN /\ frozen \in BOOLEAN
    BY DEF Init
  <2> QED BY <2>2, <2>3, <2>4, <2>5 DEF TypeOK
<1>2. \A c \in Everyone : call[c].pc = "idle"
  BY DEF Init, Idle, Everyone
<1>3. ListedExist
  BY <1>2 DEF Init, ListedExist
<1>4. DeletesRetired /\ SuccessorInPlace
  BY <1>2 DEF DeletesRetired, SuccessorInPlace, Everyone
<1> QED BY <1>1, <1>3, <1>4 DEF KeyInv

-----------------------------------------------------------------------------
(* The kinds of step *)

\* A step that leaves the keys alone and moves one call to a place where it
\* owes nothing: every read but the listing of a rotation.
Reads(c) ==
    /\ UNCHANGED <<keys, minted>>
    /\ signed' \in BOOLEAN /\ frozen' \in BOOLEAN
    /\ \E rec \in [pc : CallPc, role : Roles, signed : BOOLEAN, listed : SUBSET Keys] :
        /\ call' = [call EXCEPT ![c] = rec]
        /\ rec.pc \notin {"ro_create", "ro_retire"}
        /\ rec.pc \in {"del_zone", "del_key"} =>
                \A k \in rec.listed : keys[k].state \in {"retired", "deleted"}

\* Such a step preserves the invariant.
LEMMA ReadsPreserve ==
    ASSUME KeyInv, NEW c \in Everyone, Reads(c)
    PROVE  KeyInv'
<1> USE DEF KeyInv
<1>1. PICK rec \in [pc : CallPc, role : Roles, signed : BOOLEAN, listed : SUBSET Keys] :
        /\ call' = [call EXCEPT ![c] = rec]
        /\ rec.pc \notin {"ro_create", "ro_retire"}
        /\ rec.pc \in {"del_zone", "del_key"} =>
                \A k \in rec.listed : keys[k].state \in {"retired", "deleted"}
  BY DEF Reads
<1>2. keys' = keys /\ minted' = minted
  BY DEF Reads
<1>3. TypeOK'
  BY <1>1, <1>2 DEF Reads, TypeOK, Everyone
<1>4. \A d \in Everyone : call'[d] = IF d = c THEN rec ELSE call[d]
  BY <1>1 DEF TypeOK, Everyone
<1>5. ListedExist'
  BY <1>1, <1>2, <1>4 DEF ListedExist
<1>6. DeletesRetired'
  BY <1>1, <1>2, <1>4 DEF DeletesRetired
<1>7. \A role \in Roles : Active(role)' = Active(role)
  BY <1>2 DEF Active
<1>8. SuccessorInPlace'
  BY <1>1, <1>2, <1>4, <1>7 DEF SuccessorInPlace, Active, Everyone
<1> QED BY <1>3, <1>5, <1>6, <1>8

\* RotateList: the listed keys exist and have the rotation's role.
LEMMA ListPreserves ==
    ASSUME KeyInv, NEW c \in Everyone, RotateList(c)
    PROVE  KeyInv'
<1> USE DEF KeyInv
<1> DEFINE rec == [call[c] EXCEPT !.pc = "ro_create", !.listed = Active(call[c].role)]
<1>1. call[c] \in [pc : CallPc, role : Roles, signed : BOOLEAN, listed : SUBSET Keys]
  BY DEF TypeOK, Everyone
<1>2. /\ rec \in [pc : CallPc, role : Roles, signed : BOOLEAN, listed : SUBSET Keys]
      /\ rec.pc = "ro_create" /\ rec.role = call[c].role
      /\ rec.listed = Active(call[c].role)
  BY <1>1 DEF Active, CallPc
<1>3. call' = [call EXCEPT ![c] = rec]
  BY DEF RotateList
<1> HIDE DEF rec
<1>4. signed' = signed /\ frozen' = frozen /\ keys' = keys /\ minted' = minted
  BY DEF RotateList, zone
<1>5. \A d \in Everyone : call'[d] = IF d = c THEN rec ELSE call[d]
  BY <1>3 DEF TypeOK, Everyone
<1>6. TypeOK'
  BY <1>2, <1>3, <1>4 DEF TypeOK, Everyone
<1>7. ListedExist'
  BY <1>2, <1>4, <1>5 DEF ListedExist, Active
<1>8. DeletesRetired'
  BY <1>2, <1>4, <1>5 DEF DeletesRetired
<1>9. SuccessorInPlace'
  BY <1>2, <1>4, <1>5 DEF SuccessorInPlace, Active, Everyone
<1> QED BY <1>6, <1>7, <1>8, <1>9

\* A step that inserts a key: whatever a call has listed is older.
LEMMA CreatePreserves ==
    ASSUME KeyInv, NEW c \in Everyone, NEW role \in Roles, NEW pc \in CallPc,
           CreateDnsKey(role), GoTo(c, pc), UNCHANGED zone,
           pc \notin {"ro_create", "del_zone", "del_key"},
           pc = "ro_retire" => call[c].pc = "ro_create" /\ call[c].role = role
    PROVE  KeyInv'
<1> USE DEF KeyInv
<1>1. minted \in 0 .. MaxKeys /\ minted + 1 \in Keys /\ minted' = minted + 1
  BY MaxKeysAssumption DEF CreateDnsKey, TypeOK, Keys
<1>2. keys' = [keys EXCEPT ![minted + 1] = [state |-> "active", role |-> role]]
  BY DEF CreateDnsKey
<1>3. \A k \in Keys : keys'[k] = IF k = minted + 1 THEN [state |-> "active", role |-> role]
                                                   ELSE keys[k]
  BY <1>1, <1>2 DEF TypeOK
<1>4. \A d \in Everyone :
        /\ call'[d].listed = call[d].listed /\ call'[d].role = call[d].role
        /\ call'[d].pc = IF d = c THEN pc ELSE call[d].pc
        /\ call[d].listed \subseteq Keys /\ call[d].role \in Roles
  BY DEF GoTo, TypeOK, Everyone
<1>5. TypeOK'
  <2>1. keys' \in [Keys -> [state : KeyState, role : Roles]]
    BY <1>1, <1>2 DEF TypeOK, KeyState
  <2>2. call' \in [Callers \cup Crons -> [pc : CallPc, role : Roles, signed : BOOLEAN,
                                         listed : SUBSET Keys]]
    BY DEF TypeOK, GoTo, Everyone
  <2> QED BY <1>1, <2>1, <2>2, MaxKeysAssumption DEF TypeOK, zone, Keys
<1>6. \A k \in Keys : keys[k].state # "absent" => k <= minted /\ k # minted + 1
  BY <1>1 DEF ListedExist, Keys
<1>7. ListedExist'
  <2>1. \A k \in Keys : keys'[k].state # "absent" => k <= minted'
    BY <1>1, <1>3, <1>6 DEF Keys
  <2>2. \A d \in Everyone : call'[d].pc \in {"ro_create", "ro_retire"} =>
            \A k \in call'[d].listed : keys'[k].state # "absent" /\ keys'[k].role = call'[d].role
    BY <1>3, <1>4, <1>6 DEF ListedExist
  <2> QED BY <2>1, <2>2 DEF ListedExist
<1>8. DeletesRetired'
  BY <1>3, <1>4, <1>6 DEF DeletesRetired
<1>9. SuccessorInPlace'
  <2> SUFFICES ASSUME NEW d \in Everyone, call'[d].pc = "ro_retire",
                      NEW k \in call'[d].listed, k \in Active(call[d].role)'
               PROVE  \E n \in Active(call[d].role)' : n > k
    BY DEF SuccessorInPlace, Everyone
  <2>1. k \in Keys /\ k \in call[d].listed
    BY <1>4
  <2>2. call[d].pc \in {"ro_create", "ro_retire"}
    BY <1>4
  <2>3. k <= minted /\ k # minted + 1 /\ keys[k].role = call[d].role
    BY <1>6, <2>1, <2>2 DEF ListedExist
  <2>4. CASE call[d].role = role
    <3>1. minted + 1 \in Active(call[d].role)'
      BY <1>1, <1>3, <1>4, <2>4 DEF Active
    <3> QED BY <3>1, <1>1, <2>1, <2>3 DEF Keys
  <2>5. CASE call[d].role # role
    <3>1. call[d].pc = "ro_retire"
      BY <1>4, <2>2, <2>5
    <3>2. k \in Active(call[d].role)
      BY <1>3, <1>4, <2>1, <2>3 DEF Active
    <3>3. PICK n \in Active(call[d].role) : n > k
      BY <2>1, <3>1, <3>2 DEF SuccessorInPlace, Everyone
    <3>4. n \in Active(call[d].role)'
      BY <1>3, <1>4, <1>6, <3>3 DEF Active
    <3> QED BY <3>3, <3>4
  <2> QED BY <2>4, <2>5
<1> QED BY <1>5, <1>7, <1>8, <1>9

\* A step after which some keys are no longer active: what makes it safe is that
\* none of them is the newest of its role, or that all of them go at once.
LEMMA RemovalPreserves ==
    ASSUME KeyInv, NEW c \in Everyone, NEW gone \in SUBSET Keys,
           NEW rec \in [pc : CallPc, role : Roles, signed : BOOLEAN, listed : SUBSET Keys],
           UNCHANGED <<zone, minted>>,
           call' = [call EXCEPT ![c] = rec],
           rec.pc \notin {"ro_create", "del_zone", "del_key"},
           rec.pc = "ro_retire" => /\ call[c].pc = "ro_retire"
                                   /\ rec.role = call[c].role
                                   /\ rec.listed \subseteq call[c].listed,
           keys' \in [Keys -> [state : KeyState, role : Roles]],
           \A k \in Keys : keys'[k].role = keys[k].role,
           \A k \in Keys \ gone : keys'[k] = keys[k],
           \A k \in gone : keys[k].state # "absent" /\ keys'[k].state \in {"retired", "deleted"},
           \A k \in gone, role \in Roles : k \in Active(role) =>
                \/ Active(role) \subseteq gone
                \/ \E n \in Active(role) \ gone : n > k
    PROVE  KeyInv'
<1> USE DEF KeyInv
<1>1. \A d \in Everyone : call'[d] = IF d = c THEN rec ELSE call[d]
  BY DEF TypeOK, Everyone
<1>2. TypeOK'
  BY DEF TypeOK, zone, Everyone
<1>3. \A k \in Keys : keys'[k].state # "absent" <=> keys[k].state # "absent"
  OBVIOUS
<1>4. \A d \in Everyone : call[d].listed \subseteq Keys /\ call'[d].listed \subseteq Keys
  BY <1>1 DEF TypeOK, Everyone
<1>5. ListedExist'
  BY <1>1, <1>3, <1>4 DEF ListedExist
<1>6. DeletesRetired'
  BY <1>1, <1>4 DEF DeletesRetired
<1>7. \A role \in Roles : Active(role)' = Active(role) \ gone
  BY DEF Active
<1>8. SuccessorInPlace'
  <2> SUFFICES ASSUME NEW d \in Everyone, call'[d].pc = "ro_retire",
                      NEW k \in call'[d].listed, k \in Active(call[d].role)'
               PROVE  \E n \in Active(call[d].role)' : n > k
    BY DEF SuccessorInPlace, Everyone
  <2>1. call[d].pc = "ro_retire" /\ call'[d].role = call[d].role /\ k \in call[d].listed
        /\ call[d].role \in Roles
    BY <1>1 DEF TypeOK, Everyone
  <2>2. Active(call[d].role)' = Active(call[d].role) \ gone
    BY <1>7, <2>1 DEF Active
  <2>3. PICK n \in Active(call[d].role) : n > k
    BY <2>1, <2>2 DEF SuccessorInPlace, Everyone
  <2>4. CASE n \notin gone
    BY <2>2, <2>3, <2>4
  <2>5. CASE n \in gone
    <3>1. ~(Active(call[d].role) \subseteq gone)
      BY <2>2
    <3>2. PICK m \in Active(call[d].role) \ gone : m > n
      BY <2>1, <2>3, <2>5, <3>1
    <3>3. m \in Int /\ n \in Int /\ k \in Int
      BY <2>2, <2>3, <3>2, MaxKeysAssumption DEF Active, Keys
    <3> QED BY <2>2, <2>3, <3>2, <3>3
  <2> QED BY <2>4, <2>5
<1> QED BY <1>2, <1>5, <1>6, <1>8

\* RotateRetire: the retired key has a newer active one, by SuccessorInPlace.
LEMMA RetirePreserves ==
    ASSUME KeyInv, NEW c \in Everyone, RotateRetire(c)
    PROVE  /\ KeyInv'
           /\ \A role \in Roles : Active(role) # {} => Active(role)' # {}
<1> USE DEF KeyInv
<1>1. PICK k \in call[c].listed :
        /\ keys' = [keys EXCEPT ![k].state = IF k \in Rows THEN "retired" ELSE @]
        /\ call' = [call EXCEPT ![c].listed = @ \ {k}]
  BY DEF RotateRetire
<1>2. /\ call[c] \in [pc : CallPc, role : Roles, signed : BOOLEAN, listed : SUBSET Keys]
      /\ call[c].pc = "ro_retire"
  BY DEF TypeOK, Everyone, RotateRetire
<1>3. k \in Keys /\ keys[k].state # "absent" /\ keys[k].role = call[c].role
  BY <1>2 DEF ListedExist
<1> DEFINE rec == [call[c] EXCEPT !.listed = @ \ {k}]
           gone == IF k \in Rows THEN {k} ELSE {}
<1>4. /\ rec \in [pc : CallPc, role : Roles, signed : BOOLEAN, listed : SUBSET Keys]
      /\ rec.pc = "ro_retire" /\ rec.role = call[c].role /\ rec.listed \subseteq call[c].listed
  BY <1>2
<1>5. call' = [call EXCEPT ![c] = rec]
  BY <1>1
<1>6. \A j \in Keys : /\ keys'[j].role = keys[j].role
                      /\ j \notin gone => keys'[j] = keys[j]
                      /\ j \in gone => keys'[j].state = "retired"
  BY <1>1, <1>3 DEF TypeOK
<1>7. keys' \in [Keys -> [state : KeyState, role : Roles]]
  BY <1>1, <1>3 DEF TypeOK, KeyState
<1>8. gone \in SUBSET Keys /\ \A j \in gone : keys[j].state # "absent"
  BY <1>3
<1>9. \A j \in gone, role \in Roles : j \in Active(role) => \E n \in Active(role) \ gone : n > j
  <2> SUFFICES ASSUME NEW role \in Roles, k \in Rows, k \in Active(role)
               PROVE  \E n \in Active(role) \ {k} : n > k
    OBVIOUS
  <2>1. role = call[c].role
    BY <1>3 DEF Active
  <2>2. PICK n \in Active(role) : n > k
    BY <1>2, <2>1 DEF SuccessorInPlace, Everyone
  <2> QED BY <2>2, <1>3, MaxKeysAssumption DEF Active, Keys
<1>10. UNCHANGED <<zone, minted>>
  BY DEF RotateRetire
<1> HIDE DEF rec, gone
<1>11. KeyInv'
  <2>1. \A j \in Keys \ gone : keys'[j] = keys[j]
    BY <1>6
  <2>2. \A j \in gone : keys[j].state # "absent" /\ keys'[j].state \in {"retired", "deleted"}
    BY <1>6, <1>8
  <2>3. \A j \in gone, role \in Roles : j \in Active(role) =>
            \/ Active(role) \subseteq gone
            \/ \E n \in Active(role) \ gone : n > j
    BY <1>9
  <2>4. \A j \in Keys : keys'[j].role = keys[j].role
    BY <1>6
  <2> QED BY <1>2, <1>4, <1>5, <1>7, <1>8, <1>10, <2>1, <2>2, <2>3, <2>4, RemovalPreserves
<1>12. ASSUME NEW role \in Roles, Active(role) # {} PROVE Active(role)' # {}
  <2>1. Active(role)' = Active(role) \ gone
    BY <1>6, <1>8 DEF Active
  <2> QED BY <2>1, <1>9, <1>12
<1> QED BY <1>11, <1>12

\* DisableDelete: all keys of the zone go at once.
LEMMA DisablePreserves ==
    ASSUME KeyInv, NEW c \in Everyone, DisableDelete(c)
    PROVE  KeyInv'
<1> USE DEF KeyInv
<1> DEFINE rec == [call[c] EXCEPT !.pc = "dis_set"]
<1>1. call[c] \in [pc : CallPc, role : Roles, signed : BOOLEAN, listed : SUBSET Keys]
  BY DEF TypeOK, Everyone
<1>2. /\ rec \in [pc : CallPc, role : Roles, signed : BOOLEAN, listed : SUBSET Keys]
      /\ rec.pc = "dis_set"
  BY <1>1 DEF CallPc
<1>3. call' = [call EXCEPT ![c] = rec] /\ UNCHANGED <<zone, minted>>
  BY DEF DisableDelete, GoTo
<1> HIDE DEF rec
<1>4. keys' = [k \in Keys |-> IF k \in Rows THEN [keys[k] EXCEPT !.state = "deleted"] ELSE keys[k]]
  BY DEF DisableDelete
<1>5. \A k \in Keys : keys[k] \in [state : KeyState, role : Roles]
  BY DEF TypeOK
<1>6. keys' \in [Keys -> [state : KeyState, role : Roles]]
  BY <1>4, <1>5 DEF KeyState
<1>7. \A k \in Keys : /\ keys'[k].role = keys[k].role
                      /\ k \notin Rows => keys'[k] = keys[k]
                      /\ k \in Rows => keys'[k].state = "deleted" /\ keys[k].state # "absent"
  BY <1>4, <1>5 DEF Rows
<1>8. Rows \in SUBSET Keys /\ \A role \in Roles : Active(role) \subseteq Rows
  BY DEF Rows, Active
<1> QED BY <1>2, <1>3, <1>6, <1>7, <1>8, RemovalPreserves

\* DeleteDnsKey: only keys that are retired for good go.
LEMMA DeletePreserves ==
    ASSUME KeyInv, NEW c \in Everyone, DeleteDnsKey(c)
    PROVE  /\ KeyInv'
           /\ \A role \in Roles : Active(role)' = Active(role)
<1> USE DEF KeyInv
<1> DEFINE gone == call[c].listed
<1>1. call[c] \in [pc : CallPc, role : Roles, signed : BOOLEAN, listed : SUBSET Keys]
  BY DEF TypeOK, Everyone
<1>2. gone \in SUBSET Keys /\ \A k \in gone : keys[k].state \in {"retired", "deleted"}
  BY <1>1 DEF DeleteDnsKey, DeletesRetired
<1>3. /\ Idle \in [pc : CallPc, role : Roles, signed : BOOLEAN, listed : SUBSET Keys]
      /\ Idle.pc = "idle"
  BY Zenon DEF Idle, CallPc, Roles
<1>4. call' = [call EXCEPT ![c] = Idle] /\ UNCHANGED <<zone, minted>>
  BY DEF DeleteDnsKey, Return
<1>5. keys' = [k \in Keys |-> IF k \in gone THEN [keys[k] EXCEPT !.state = "deleted"] ELSE keys[k]]
  BY DEF DeleteDnsKey
<1>6. \A k \in Keys : keys[k] \in [state : KeyState, role : Roles]
  BY DEF TypeOK
<1>7. keys' \in [Keys -> [state : KeyState, role : Roles]]
  BY <1>5, <1>6 DEF KeyState
<1>8. \A k \in Keys : /\ keys'[k].role = keys[k].role
                      /\ k \notin gone => keys'[k] = keys[k]
                      /\ k \in gone => keys'[k].state = "deleted"
  BY <1>5, <1>6
<1> HIDE DEF gone
<1>9. \A k \in gone, role \in Roles : k \notin Active(role)
  BY <1>2 DEF Active
<1>10. KeyInv'
  <2>1. \A k \in Keys \ gone : keys'[k] = keys[k]
    BY <1>8
  <2>2. \A k \in gone : keys[k].state # "absent" /\ keys'[k].state \in {"retired", "deleted"}
    BY <1>2, <1>8
  <2>3. \A k \in gone, role \in Roles : k \in Active(role) =>
            \/ Active(role) \subseteq gone
            \/ \E n \in Active(role) \ gone : n > k
    BY <1>9
  <2>4. \A k \in Keys : keys'[k].role = keys[k].role
    BY <1>8
  <2>5. Idle.pc \notin {"ro_create", "del_zone", "del_key"} /\ Idle.pc # "ro_retire"
    BY <1>3
  <2> QED BY <1>2, <1>3, <1>4, <1>7, <2>1, <2>2, <2>3, <2>4, <2>5, RemovalPreserves
<1>11. \A role \in Roles : Active(role)' = Active(role)
  BY <1>2, <1>8, <1>9 DEF Active
<1> QED BY <1>10, <1>11

\* A call that returns, or that moves on without having listed anything to
\* retire or to delete, only read.
LEMMA ReturnReads ==
    ASSUME KeyInv, NEW c \in Everyone, Return(c), UNCHANGED <<keys, minted>>,
           signed' \in BOOLEAN, frozen' \in BOOLEAN
    PROVE  Reads(c)
<1>1. /\ Idle \in [pc : CallPc, role : Roles, signed : BOOLEAN, listed : SUBSET Keys]
      /\ Idle.pc = "idle"
  BY Zenon DEF Idle, CallPc, Roles
<1> QED BY <1>1 DEF Reads, Return

LEMMA GoToReads ==
    ASSUME KeyInv, NEW c \in Everyone, NEW pc \in CallPc, GoTo(c, pc),
           UNCHANGED <<zone, keys, minted>>,
           pc \notin {"ro_create", "ro_retire", "del_zone"},
           pc = "del_key" => call[c].pc = "del_zone"
    PROVE  Reads(c)
<1> DEFINE rec == [call[c] EXCEPT !.pc = pc]
<1>1. call[c] \in [pc : CallPc, role : Roles, signed : BOOLEAN, listed : SUBSET Keys]
  BY DEF KeyInv, TypeOK, Everyone
<1>2. /\ rec \in [pc : CallPc, role : Roles, signed : BOOLEAN, listed : SUBSET Keys]
      /\ rec.pc = pc /\ rec.listed = call[c].listed
  BY <1>1
<1>3. call' = [call EXCEPT ![c] = rec]
  BY DEF GoTo
<1> HIDE DEF rec
<1>4. rec.pc \in {"del_zone", "del_key"} =>
            \A k \in rec.listed : keys[k].state \in {"retired", "deleted"}
  BY <1>2 DEF KeyInv, DeletesRetired
<1>5. signed' \in BOOLEAN /\ frozen' \in BOOLEAN
  BY DEF KeyInv, TypeOK, zone
<1> QED BY <1>2, <1>3, <1>4, <1>5 DEF Reads

\* A call that begins with a fresh record.
LEMMA LoadReads ==
    ASSUME KeyInv, NEW c \in Everyone, UNCHANGED <<zone, keys, minted>>,
           NEW rec \in [pc : CallPc, role : Roles, signed : BOOLEAN, listed : SUBSET Keys],
           call' = [call EXCEPT ![c] = rec],
           rec.pc \notin {"ro_create", "ro_retire"},
           \A k \in rec.listed : keys[k].state \in {"retired", "deleted"}
    PROVE  Reads(c)
<1>1. signed' \in BOOLEAN /\ frozen' \in BOOLEAN
  BY DEF KeyInv, TypeOK, zone
<1> QED BY <1>1 DEF Reads

\* enable-dnssec.
LEMMA EnablePreserves ==
    ASSUME KeyInv, NEW c \in Everyone, EnableStep(c)
    PROVE  KeyInv'
<1>1. signed \in BOOLEAN /\ frozen \in BOOLEAN
  BY DEF KeyInv, TypeOK
<1>2. CASE EnableLoad(c)
  <2> DEFINE rec == [Idle EXCEPT !.pc = "en_list", !.signed = signed]
  <2>1. /\ rec \in [pc : CallPc, role : Roles, signed : BOOLEAN, listed : SUBSET Keys]
        /\ rec.pc = "en_list" /\ rec.listed = {}
    BY <1>1 DEF Idle, CallPc, Roles
  <2>2. UNCHANGED <<zone, keys, minted>> /\ call' = [call EXCEPT ![c] = rec]
    BY <1>2 DEF EnableLoad
  <2> HIDE DEF rec
  <2>3. Reads(c)
    BY <2>1, <2>2, LoadReads
  <2> QED BY <2>3, ReadsPreserve
<1>3. CASE EnableList(c)
  <2>1. UNCHANGED <<zone, keys, minted>> /\ signed' \in BOOLEAN /\ frozen' \in BOOLEAN
    BY <1>1, <1>3 DEF EnableList, zone
  <2>2. GoTo(c, "en_ksk") \/ GoTo(c, "en_set") \/ Return(c)
    BY <1>3 DEF EnableList
  <2>3. "en_ksk" \in CallPc /\ "en_set" \in CallPc
    BY DEF CallPc
  <2>4. Reads(c)
    BY <2>1, <2>2, <2>3, GoToReads, ReturnReads
  <2> QED BY <2>4, ReadsPreserve
<1>4. CASE EnableCreate(c)
  <2>1. UNCHANGED zone /\ \E role \in Roles : CreateDnsKey(role)
                                /\ \E pc \in {"en_zsk", "en_set"} : GoTo(c, pc)
    BY <1>4 DEF EnableCreate, Roles
  <2>2. "en_zsk" \in CallPc /\ "en_set" \in CallPc
    BY DEF CallPc
  <2> QED BY <2>1, <2>2, CreatePreserves
<1>5. CASE EnableSet(c)
  <2>1. Return(c) /\ UNCHANGED <<keys, minted>> /\ signed' \in BOOLEAN /\ frozen' \in BOOLEAN
    BY <1>1, <1>5 DEF EnableSet
  <2> QED BY <2>1, ReturnReads, ReadsPreserve
<1> QED BY <1>2, <1>3, <1>4, <1>5 DEF EnableStep

\* RotateZoneKey, called by an operator or by the daily job.
LEMMA RotatePreserves ==
    ASSUME KeyInv, NEW c \in Everyone, RotateStep(c)
    PROVE  KeyInv'
<1>1. CASE RotateList(c)
  BY <1>1, ListPreserves
<1>2. CASE RotateCreate(c)
  <2>1. /\ CreateDnsKey(call[c].role) /\ GoTo(c, "ro_retire") /\ UNCHANGED zone
        /\ call[c].pc = "ro_create"
    BY <1>2 DEF RotateCreate
  <2>2. call[c].role \in Roles /\ "ro_retire" \in CallPc
    BY DEF KeyInv, TypeOK, Everyone, CallPc
  <2> QED BY <2>1, <2>2, CreatePreserves
<1>3. CASE RotateRetire(c)
  BY <1>3, RetirePreserves
<1>4. CASE RotateDone(c)
  <2>1. Return(c) /\ UNCHANGED <<keys, minted>> /\ signed' \in BOOLEAN /\ frozen' \in BOOLEAN
    BY <1>4 DEF RotateDone, zone, KeyInv, TypeOK
  <2> QED BY <2>1, ReturnReads, ReadsPreserve
<1> QED BY <1>1, <1>2, <1>3, <1>4 DEF RotateStep

\* disable-dnssec and DELETE /keys/{id}.
LEMMA DisableStepPreserves ==
    ASSUME KeyInv, NEW c \in Everyone, DisableStep(c)
    PROVE  KeyInv'
<1>1. CASE DisableLoad(c)
  <2>1. GoTo(c, "dis_delete") /\ UNCHANGED <<zone, keys, minted>> /\ "dis_delete" \in CallPc
    BY <1>1 DEF DisableLoad, CallPc
  <2> QED BY <2>1, GoToReads, ReadsPreserve
<1>2. CASE DisableDelete(c)
  BY <1>2, DisablePreserves
<1>3. CASE DisableSet(c)
  <2>1. Return(c) /\ UNCHANGED <<keys, minted>> /\ signed' \in BOOLEAN /\ frozen' \in BOOLEAN
    BY <1>3 DEF DisableSet, KeyInv, TypeOK
  <2> QED BY <2>1, ReturnReads, ReadsPreserve
<1> QED BY <1>1, <1>2, <1>3 DEF DisableStep

LEMMA DeleteStepPreserves ==
    ASSUME KeyInv, NEW c \in Everyone, DeleteStep(c)
    PROVE  KeyInv'
<1>1. CASE \E k \in Keys : DeleteLoad(c, k)
  <2>1. PICK k \in Keys : DeleteLoad(c, k)
    BY <1>1
  <2> DEFINE rec == [Idle EXCEPT !.pc = "del_zone", !.listed = {k}]
  <2>2. /\ rec \in [pc : CallPc, role : Roles, signed : BOOLEAN, listed : SUBSET Keys]
        /\ rec.pc = "del_zone" /\ rec.listed = {k}
    BY DEF Idle, CallPc, Roles
  <2>3. /\ UNCHANGED <<zone, keys, minted>> /\ keys[k].state = "retired"
        /\ call' = [call EXCEPT ![c] = rec]
    BY <2>1 DEF DeleteLoad
  <2> HIDE DEF rec
  <2>4. Reads(c)
    BY <2>2, <2>3, LoadReads
  <2> QED BY <2>4, ReadsPreserve
<1>2. CASE DeleteZone(c)
  <2>1. /\ UNCHANGED <<zone, keys, minted>> /\ signed' \in BOOLEAN /\ frozen' \in BOOLEAN
        /\ call[c].pc = "del_zone"
    BY <1>2 DEF DeleteZone, zone, KeyInv, TypeOK
  <2>2. Return(c) \/ GoTo(c, "del_key")
    BY <1>2 DEF DeleteZone
  <2>3. "del_key" \in CallPc
    BY DEF CallPc
  <2>4. Reads(c)
    BY <2>1, <2>2, <2>3, GoToReads, ReturnReads
  <2> QED BY <2>4, ReadsPreserve
<1>3. CASE DeleteDnsKey(c)
  BY <1>3, DeletePreserves
<1> QED BY <1>1, <1>2, <1>3 DEF DeleteStep

-----------------------------------------------------------------------------
(* The whole specification *)

\* Every step preserves the invariant.
LEMMA NextPreserves == KeyInv /\ [Next]_vars => KeyInv'
<1> SUFFICES ASSUME KeyInv, [Next]_vars PROVE KeyInv'
  OBVIOUS
<1>1. CASE UNCHANGED vars
  BY <1>1 DEF vars, KeyInv, TypeOK, ListedExist, DeletesRetired, SuccessorInPlace, Active
<1>2. CASE \E b \in BOOLEAN : setFrozen(b)
  BY <1>2 DEF setFrozen, KeyInv, TypeOK, ListedExist, DeletesRetired, SuccessorInPlace, Active
<1>3. ASSUME NEW c \in Callers, EnableStep(c) \/ DisableStep(c) \/ DeleteStep(c) PROVE KeyInv'
  BY <1>3, EnablePreserves, DisableStepPreserves, DeleteStepPreserves DEF Everyone
<1>4. ASSUME NEW c \in Callers, NEW role \in Roles, RotateLoad(c, role) PROVE KeyInv'
  <2> DEFINE rec == [Idle EXCEPT !.pc = "ro_list", !.role = role]
  <2>1. /\ rec \in [pc : CallPc, role : Roles, signed : BOOLEAN, listed : SUBSET Keys]
        /\ rec.pc = "ro_list" /\ rec.listed = {}
    BY DEF Idle, CallPc
  <2>2. UNCHANGED <<zone, keys, minted>> /\ call' = [call EXCEPT ![c] = rec]
    BY <1>4 DEF RotateLoad
  <2> HIDE DEF rec
  <2>3. c \in Everyone
    BY DEF Everyone
  <2>4. Reads(c)
    BY <2>1, <2>2, <2>3, LoadReads
  <2> QED BY <2>3, <2>4, ReadsPreserve
<1>5. ASSUME NEW c \in Crons, CronLoad(c) \/ CronList(c) PROVE KeyInv'
  <2>1. c \in Everyone /\ "cron_list" \in CallPc /\ "ro_list" \in CallPc
    BY DEF Everyone, CallPc
  <2>2. UNCHANGED <<zone, keys, minted>> /\ signed' \in BOOLEAN /\ frozen' \in BOOLEAN
    BY <1>5 DEF CronLoad, CronList, zone, KeyInv, TypeOK
  <2>3. GoTo(c, "cron_list") \/ GoTo(c, "ro_list") \/ Return(c)
    BY <1>5 DEF CronLoad, CronList
  <2>4. Reads(c)
    BY <2>1, <2>2, <2>3, GoToReads, ReturnReads
  <2> QED BY <2>1, <2>4, ReadsPreserve
<1>6. ASSUME NEW c \in Everyone, RotateStep(c) PROVE KeyInv'
  BY <1>6, RotatePreserves
<1>7. ASSUME NEW c \in Everyone, Abort(c) PROVE KeyInv'
  <2>1. Return(c) /\ UNCHANGED <<keys, minted>> /\ signed' \in BOOLEAN /\ frozen' \in BOOLEAN
    BY <1>7 DEF Abort, zone, KeyInv, TypeOK
  <2> QED BY <2>1, ReturnReads, ReadsPreserve
<1> QED BY <1>1, <1>2, <1>3, <1>4, <1>5, <1>6, <1>7 DEF Next, Everyone

\* As long as a rotation may still retire an active key, a newer key of its role
\* is active: RotateZoneKey's order of statements suffices without a transaction,
\* for any number of concurrent rotations, jobs, disables, deletes and stops.
THEOREM SuccessorsInPlace == Spec => []SuccessorInPlace
<1>1. KeyInv => SuccessorInPlace
  BY DEF KeyInv
<1> QED BY InitKeyInv, NextPreserves, <1>1, PTL DEF Spec

\* The columns and the calls keep their types.
THEOREM KeysTypeCorrect == Spec => []TypeOK
<1>1. KeyInv => TypeOK
  BY DEF KeyInv
<1> QED BY InitKeyInv, NextPreserves, <1>1, PTL DEF Spec

\* What a step may do to the active keys of a role.
LEMMA KeepsActive ==
    ASSUME KeyInv, [Next]_vars, NEW role \in Roles, Active(role) # {}, Active(role)' = {}
    PROVE  \E c \in Callers : call[c].pc = "dis_delete"
<1>1. ~(UNCHANGED keys)
  BY DEF Active
<1>2. ASSUME NEW new \in Roles, CreateDnsKey(new) PROVE FALSE
  <2>1. minted + 1 \in Keys /\ minted \in 0 .. MaxKeys
    BY <1>2, MaxKeysAssumption DEF CreateDnsKey, KeyInv, TypeOK, Keys
  <2>2. \A k \in Keys : keys[k].state # "absent" => k # minted + 1
    BY <2>1 DEF KeyInv, ListedExist, Keys
  <2>3. \A k \in Keys : k # minted + 1 => keys'[k] = keys[k]
    BY <1>2, <2>1 DEF CreateDnsKey, KeyInv, TypeOK
  <2> QED BY <2>2, <2>3 DEF Active
<1>3. ASSUME NEW c \in Everyone, RotateRetire(c) \/ DeleteDnsKey(c) PROVE FALSE
  BY <1>3, RetirePreserves, DeletePreserves
<1>4. CASE UNCHANGED vars \/ \E b \in BOOLEAN : setFrozen(b)
  BY <1>1, <1>4 DEF vars, setFrozen
<1>5. ASSUME NEW c \in Callers, EnableStep(c) PROVE FALSE
  BY <1>1, <1>2, <1>5 DEF EnableStep, EnableLoad, EnableList, EnableCreate, EnableSet, Roles
<1>6. ASSUME NEW c \in Callers, DisableStep(c) PROVE call[c].pc = "dis_delete"
  BY <1>1, <1>6 DEF DisableStep, DisableLoad, DisableDelete, DisableSet
<1>7. ASSUME NEW c \in Callers, DeleteStep(c) PROVE FALSE
  BY <1>1, <1>3, <1>7 DEF DeleteStep, DeleteLoad, DeleteZone, Everyone
<1>8. ASSUME NEW c \in Callers, NEW r \in Roles, RotateLoad(c, r) PROVE FALSE
  BY <1>1, <1>8 DEF RotateLoad
<1>9. ASSUME NEW c \in Crons, CronLoad(c) \/ CronList(c) PROVE FALSE
  BY <1>1, <1>9 DEF CronLoad, CronList
<1>10. ASSUME NEW c \in Everyone, RotateStep(c) \/ Abort(c) PROVE FALSE
  <2>1. call[c].role \in Roles
    BY DEF KeyInv, TypeOK, Everyone
  <2> QED BY <1>1, <1>2, <1>3, <1>10, <2>1 DEF RotateStep, RotateList, RotateCreate,
             RotateDone, Abort
<1> QED BY <1>4, <1>5, <1>6, <1>7, <1>8, <1>9, <1>10 DEF Next, Everyone

\* A role loses its last active key only when an operator disables DNSSEC: no
\* interleaving of rotations, jobs and deletes leaves a zone without a successor.
THEOREM SuccessorsBeforeRemoval == Spec => SuccessorBeforeRemoval
<1> DEFINE Kept == \A role \in Roles :
                        (Active(role) # {} /\ Active(role)' = {})
                            => \E c \in Callers : call[c].pc = "dis_delete"
<1>1. KeyInv /\ [Next]_vars => [Kept]_vars
  BY KeepsActive
<1>2. SuccessorBeforeRemoval <=> [][Kept]_vars
  BY DEF SuccessorBeforeRemoval
<1> HIDE DEF Kept
<1> QED BY InitKeyInv, NextPreserves, <1>1, <1>2, PTL DEF Spec
=============================================================================
