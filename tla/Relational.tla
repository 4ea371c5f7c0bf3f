----------------------------- MODULE Relational -----------------------------
(***************************************************************************)
(* What PostgreSQL does with the foreign keys of the migrations.  A        *)
(* database d gives for every table its live rows: d[t][n] is the record   *)
(* of row n of table t.  Schema[t] describes the reference columns of t;   *)
(* a row may have other columns, which no statement here looks at.         *)
(***************************************************************************)
EXTENDS Naturals

CONSTANT Schema    \* [table -> [column -> [parent, nullable, onDelete]]]

Tables == DOMAIN Schema
Columns(t) == DOMAIN Schema[t]

ASSUME SchemaAssumption ==
    \A t \in Tables : \A c \in Columns(t) :
        /\ Schema[t][c].parent \in Tables
        /\ Schema[t][c].onDelete = "setNull" => Schema[t][c].nullable

NULL == 0

\* The foreign keys of a row that is inserted or updated.
FkHolds(d, t, v) ==
    \A c \in Columns(t) :
        \/ v[c] = NULL /\ Schema[t][c].nullable
        \/ v[c] \in DOMAIN d[Schema[t][c].parent]

\* The foreign keys <<table, column>> that name a parent, by ON DELETE.
Actions == {"restrict", "cascade", "setNull"}
KeysOf ==
    [p \in Tables |-> [action \in Actions |->
        UNION {{<<t, c>> : c \in {e \in Columns(t) : /\ Schema[t][e].parent = p
                                                     /\ Schema[t][e].onDelete = action}} :
               t \in Tables}]]

\* The rows that name one of the rows S through such a key.
Naming(d, S, action) ==
    UNION {UNION {{<<k[1], n>> : n \in {m \in DOMAIN d[k[1]] : d[k[1]][m][k[2]] = r[2]}} :
                  k \in KeysOf[r[1]][action]} : r \in S}

\* What ON DELETE CASCADE takes along: no chain of cascades of the schema is
\* longer than two.
Along(d, S) == S \cup Naming(d, S, "cascade")
Gone(d, S) == Along(d, Along(d, S))

Deletable_Unchecked(d, S) == TRUE
Deletable(d, S) ==
    LET G == Gone(d, S)
    IN  Naming(d, G, "restrict") \cup Naming(d, G, "cascade") \subseteq G

Inserted(d, t, n, v) ==
    [d EXCEPT ![t] = [m \in DOMAIN d[t] \cup {n} |-> IF m = n THEN v ELSE d[t][m]]]

Deleted(d, S) ==
    LET G == Gone(d, S)
        In(t, n, c) == <<Schema[t][c].parent, d[t][n][c]>> \in G
    IN  [t \in Tables |-> [n \in {m \in DOMAIN d[t] : <<t, m>> \notin G} |->
            [c \in DOMAIN d[t][n] |->
                IF c \in Columns(t) /\ In(t, n, c) THEN NULL ELSE d[t][n][c]]]]

\* Every reference of every row is NULL where it may be, or names a live row.
Nulls == [t \in Tables |-> [c \in Columns(t) |-> IF Schema[t][c].nullable THEN {NULL} ELSE {}]]
ReferencesLive(d) ==
    \A p \in Tables : \A action \in Actions : \A k \in KeysOf[p][action] :
        {d[k[1]][n][k[2]] : n \in DOMAIN d[k[1]]} \subseteq DOMAIN d[p] \cup Nulls[k[1]][k[2]]
=============================================================================
