----------------------------- MODULE BindTable -----------------------------
(***************************************************************************)
(* What one named bind source promises its users (clientdb/store.go and    *)
(* clientdb/live.go): a table of binds with at most one bind per ID, kept  *)
(* in the order in which the binds were last put.  A lookup answers with   *)
(* every bind that matches the query, in that order, as of one instant.    *)
(***************************************************************************)
EXTENDS Integers, Sequences

CONSTANTS
    Binds,          \* the binds a source may hold: records with a field id
    IDs,            \* record IDs of the external source
    Queries,        \* the lookups scripts may ask
    Readers,        \* goroutines that run lookups
    Matches(_, _),  \* Matches(b, q): bind b belongs to the answer of query q
    NoAnswer        \* a reader that has not been answered yet

VARIABLES
    table,          \* the binds, the most recently put one last
    answer          \* per reader, the answer of its last lookup

tableVars == <<table, answer>>

\* The table without the bind of that ID, if it holds one.
Others(id) ==
    LET hits == {i \in DOMAIN table : table[i].id = id}
        at   == CHOOSE i \in hits : TRUE
    IN  IF hits = {} THEN table ELSE SubSeq(table, 1, at - 1) \o SubSeq(table, at + 1, Len(table))

\* s lists the binds of the table that match q, all of them and each once, in
\* the order of the table, which determines s.
Selects(s, q) ==
    /\ \A i, j \in DOMAIN s : \E m, n \in DOMAIN table :
           table[m] = s[i] /\ table[n] = s[j] /\ (i < j => m < n)
    /\ \A i \in DOMAIN s : Matches(s[i], q)
    /\ \A j \in DOMAIN table : Matches(table[j], q) => \E i \in DOMAIN s : s[i] = table[j]

TableInit ==
    /\ table = << >>
    /\ answer = [r \in Readers |-> NoAnswer]

PutBind(b) ==
    /\ table' = Append(Others(b.id), b)
    /\ UNCHANGED answer

DeleteBind(id) ==
    /\ table' = Others(id)
    /\ UNCHANGED answer

Answer(r, q) ==
    /\ Selects(answer'[r], q)
    /\ answer' = [answer EXCEPT ![r] = answer'[r]]
    /\ UNCHANGED table

TableNext ==
    \/ \E b \in Binds : PutBind(b)
    \/ \E id \in IDs : DeleteBind(id)
    \/ \E r \in Readers, q \in Queries : Answer(r, q)

TableSpec == TableInit /\ [][TableNext]_tableVars
=============================================================================
