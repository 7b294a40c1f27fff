-------------------------- MODULE NamedTransactions --------------------------
(***************************************************************************)
(* What one-off connections promise (bonddb_new_full: they are there "to   *)
(* do something in a transaction"), without connections, servers, counts   *)
(* or replication: under every name there is at most one transaction,      *)
(* whose rows reach the store all at once or not at all, while everybody   *)
(* else changes the store row by row.  BondConnection implements it.       *)
(***************************************************************************)
EXTENDS Naturals

CONSTANTS
  Name,     \* names of transactions
  Row,      \* rows
  NoTxn     \* no transaction under this name

VARIABLES
  store,    \* the rows everybody can see
  pending   \* of each name, the rows its transaction has saved, or NoTxn

tvars == <<store, pending>>

Open == {n \in Name : pending[n] # NoTxn}
InNone(r) == \A n \in Open : r \notin pending[n]

Start(n) ==
  /\ pending[n] = NoTxn
  /\ pending' = [pending EXCEPT ![n] = {}] /\ UNCHANGED store

\* A new row: nobody has it yet.
Save(n, r) ==
  /\ n \in Open /\ r \notin store /\ InNone(r)
  /\ pending' = [pending EXCEPT ![n] = @ \cup {r}] /\ UNCHANGED store

Commit(n) ==
  /\ n \in Open
  /\ store' = store \cup pending[n]
  /\ pending' = [pending EXCEPT ![n] = NoTxn]

Rollback(n) ==
  /\ n \in Open
  /\ pending' = [pending EXCEPT ![n] = NoTxn] /\ UNCHANGED store

\* Outside transactions, of a row that no transaction has saved.
Put(r) == InNone(r) /\ store' = store \cup {r} /\ UNCHANGED pending
Remove(r) == InNone(r) /\ store' = store \ {r} /\ UNCHANGED pending

TInit == store = {} /\ pending = [n \in Name |-> NoTxn]
TNext ==
  \/ \E n \in Name : Start(n) \/ Commit(n) \/ Rollback(n)
                     \/ \E r \in Row : Save(n, r)
  \/ \E r \in Row : Put(r) \/ Remove(r)
TSpec == TInit /\ [][TNext]_tvars
=============================================================================
