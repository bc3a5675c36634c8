---------------------------- MODULE Transactions ----------------------------
(***************************************************************************)
(* What the components of a household share: the transactions of their     *)
(* requests, the rows these hold until they end, and the clock.            *)
(*                                                                         *)
(* Every operation is a transaction at READ COMMITTED.  A row is held from *)
(* the statement that locks or writes it to the end; a statement that      *)
(* waited sees what was committed meanwhile.  An entry of a unique index   *)
(* and an advisory lock are rows as well.                                  *)
(***************************************************************************)
EXTENDS Integers, FiniteSets

CONSTANTS Txns,
          MaxMinute    \* bound: the clock

ASSUME TransactionAssumption == MaxMinute \in Nat

VARIABLES minute,  \* the clock of the database and of the servers
          hold     \* the rows that are held, each with the transaction that holds it

ClockTicks ==
  /\ minute < MaxMinute
  /\ minute' = minute + 1
  /\ hold' = hold

Obtainable(t, row) == \A h \in hold : h[1] = row => h[2] = t
Takes(t, rows) == hold' = hold \cup (rows \X {t})
Releases(t) == hold' = {h \in hold : h[2] # t}
=============================================================================
