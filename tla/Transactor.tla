----------------------------- MODULE Transactor -----------------------------
(***************************************************************************)
(* How the pipe's transactor picks the sequence number of a transaction    *)
(* (Transact, Send and TransactNameReg of erisdb/pipe/transactor.go): it   *)
(* reads the account from the mempool's cache and broadcasts the signed    *)
(* transaction, both under txMtx.                                          *)
(*                                                                         *)
(* One account is modelled, with all the calls that use its key.           *)
(* Transactions signed elsewhere reach the mempool through BroadcastTx or  *)
(* from peers without txMtx, and a committed block resets the mempool.     *)
(* The reset holds the mempool's own lock, which AddTx needs, but GetCache *)
(* does not take it: a call may read a cache that is half built.           *)
(*                                                                         *)
(* The vendored mempool is modelled by what it does with sequence numbers: *)
(* a transaction is valid if its number is one more than the account's,    *)
(* and may be refused for another reason (its fee, a permission).  One     *)
(* that creates a contract uses up two numbers in the cache, but only one  *)
(* in a block if the contract's code fails.                                *)
(***************************************************************************)
EXTENDS Naturals, Sequences

CONSTANTS Calls,      \* calls of the transactor
          Creators,   \* those that create a contract
          Other,      \* a transaction of the account made elsewhere
          MaxOthers,  \* bound: such transactions
          MaxBlocks,  \* bound: blocks committed
          None        \* no call

ASSUME TransactorConstants ==
  /\ Creators \subseteq Calls
  /\ Other \notin Calls
  /\ None \notin Calls
  /\ MaxOthers \in Nat
  /\ MaxBlocks \in Nat

VARIABLES
  state,      \* the account's sequence number in the last committed state
  cache,      \* the same in the mempool's cache
  txs,        \* the mempool's transactions
  rest,       \* while the mempool is reset: those not executed again yet
  resetting,  \* the mempool is being reset, its lock is held
  txMtx,      \* the call that holds the transactor's lock, or None
  at,         \* where a call is
  sequence,   \* the sequence number it chose
  overtaken,  \* calls that broadcast after the cache they read has changed
  others,     \* number of transactions made elsewhere
  blocks      \* number of blocks committed

vars == <<state, cache, txs, rest, resetting, txMtx, at, sequence, overtaken,
          others, blocks>>

Init ==
  /\ state = 0
  /\ cache = 0
  /\ txs = <<>>
  /\ rest = <<>>
  /\ resetting = FALSE
  /\ txMtx = None
  /\ at = [t \in Calls |-> "start"]
  /\ sequence = [t \in Calls |-> 0]
  /\ overtaken = {}
  /\ others = 0
  /\ blocks = 0

Tx(t, seq) == [id |-> t, seq |-> seq]

\* Sequence numbers a transaction uses up when the mempool executes it.
Used(tx) == IF tx.id \in Creators THEN 2 ELSE 1

\* Calls that have read the account and not broadcast yet.
Between == {t \in Calls : at[t] = "signed"}

-----------------------------------------------------------------------------
(* The transactor.                                                          *)

\* Faulty variant: the account is read before the lock is taken.
LockNotNeeded(t) == TRUE

LockFree(t) == txMtx = None

\* Faulty variant: the number of the last transaction is used again.
LastSequence == cache

NextSequence == cache + 1

\* The account is read, and the transaction is made and signed.
readSequence(t) ==
  /\ at[t] = "start"
  /\ LockFree(t)
  /\ txMtx' = t
  /\ sequence' = [sequence EXCEPT ![t] = NextSequence]
  /\ at' = [at EXCEPT ![t] = "signed"]
  /\ UNCHANGED <<state, cache, txs, rest, resetting, overtaken, others, blocks>>

\* The check of the sequence number when the mempool executes tx.
Valid(tx) == tx.seq = cache + 1

\* Mempool.AddTx of a transaction that is valid.
AddTx(tx) ==
  /\ ~resetting
  /\ Valid(tx)
  /\ cache' = cache + Used(tx)
  /\ txs' = Append(txs, tx)

accepted(t) ==
  /\ at[t] = "signed"
  /\ AddTx(Tx(t, sequence[t]))
  /\ at' = [at EXCEPT ![t] = "accepted"]
  /\ txMtx' = None
  /\ UNCHANGED <<state, rest, resetting, sequence, overtaken, others, blocks>>

\* The number is not the next one any more.
rejected(t) ==
  /\ at[t] = "signed"
  /\ ~resetting
  /\ ~Valid(Tx(t, sequence[t]))
  /\ at' = [at EXCEPT ![t] = "rejected"]
  /\ txMtx' = None
  /\ UNCHANGED <<state, cache, txs, rest, resetting, sequence, overtaken, others, blocks>>

\* The transaction cannot be signed, or it is invalid for another reason.
refused(t) ==
  /\ at[t] = "signed"
  /\ ~resetting
  /\ at' = [at EXCEPT ![t] = "refused"]
  /\ txMtx' = None
  /\ UNCHANGED <<state, cache, txs, rest, resetting, sequence, overtaken, others, blocks>>

-----------------------------------------------------------------------------
(* The rest of the node.                                                    *)

\* A transaction of the same account arrives over RPC or from a peer.
otherTx ==
  /\ others < MaxOthers
  /\ others' = others + 1
  /\ AddTx(Tx(Other, cache + 1))
  /\ overtaken' = overtaken \cup Between
  /\ UNCHANGED <<state, rest, resetting, txMtx, at, sequence, blocks>>

\* ResetForBlockAndState begins: a new cache on the new state, in which the
\* account's number is n.  remaining are the mempool's transactions that are
\* not in the block.
ResetForBlockAndState(n, remaining) ==
  /\ ~resetting
  /\ blocks < MaxBlocks
  /\ blocks' = blocks + 1
  /\ resetting' = TRUE
  /\ state' = n
  /\ cache' = n
  /\ txs' = <<>>
  /\ rest' = remaining
  /\ overtaken' = overtaken \cup Between
  /\ UNCHANGED <<txMtx, at, sequence, others>>

\* A block with the first transaction of the mempool, whose contract, if it
\* creates one, may fail.
commitFirst ==
  /\ txs # <<>>
  /\ \E used \in 1..Used(Head(txs)) : ResetForBlockAndState(state + used, Tail(txs))

\* A block with a transaction of the account that is not in the mempool, or
\* with none.
commitOther == \E used \in {0, 1} : ResetForBlockAndState(state + used, txs)

\* Faulty variant: what remains in the mempool is kept without executing it.
KeptUnexecuted(tx) == cache' = cache /\ txs' = Append(txs, tx)

Executed(tx) ==
  \/ Valid(tx) /\ cache' = cache + Used(tx) /\ txs' = Append(txs, tx)
  \/ UNCHANGED <<cache, txs>>  \* its number, or what it costs, is no longer valid

\* The reset executes the next of the remaining transactions.
executeNext ==
  /\ resetting
  /\ rest # <<>>
  /\ Executed(Head(rest))
  /\ rest' = Tail(rest)
  /\ overtaken' = overtaken \cup Between
  /\ UNCHANGED <<state, resetting, txMtx, at, sequence, others, blocks>>

resetDone ==
  /\ resetting
  /\ rest = <<>>
  /\ resetting' = FALSE
  /\ UNCHANGED <<state, cache, txs, rest, txMtx, at, sequence, overtaken, others, blocks>>

Next ==
  \/ \E t \in Calls : readSequence(t) \/ accepted(t) \/ rejected(t) \/ refused(t)
  \/ otherTx \/ commitFirst \/ commitOther \/ executeNext \/ resetDone

Spec == Init /\ [][Next]_vars

-----------------------------------------------------------------------------
(* Properties.                                                              *)

\* The types of the transactor's and the mempool's state; sequence numbers
\* start at 1 (transactor.go:143).
TypeOK ==
  /\ state \in Nat
  /\ cache \in Nat
  /\ txs \in Seq([id : Calls \cup {Other}, seq : Nat])
  /\ rest \in Seq([id : Calls \cup {Other}, seq : Nat])
  /\ resetting \in BOOLEAN
  /\ txMtx \in Calls \cup {None}
  /\ at \in [Calls -> {"start", "signed", "accepted", "rejected", "refused"}]
  /\ sequence \in [Calls -> Nat]
  /\ \A t \in Calls : at[t] # "start" => sequence[t] > 0
  /\ overtaken \subseteq Calls
  /\ others \in 0..MaxOthers
  /\ blocks \in 0..MaxBlocks

\* Calls of the transactor never get in each other's way: a transaction is
\* rejected for its sequence number only if a transaction from elsewhere or a
\* block came between reading the account (transactor.go:140) and
\* broadcasting (transactor.go:166).
RejectedOnlyIfOvertaken ==
  \A t \in Calls : at[t] = "rejected" => t \in overtaken

\* The mempool's transactions can be executed in order on the committed state
\* and lead to the cache that the next call reads: their numbers follow each
\* other without a gap from the state's to the cache's, through rejected
\* calls, blocks with other transactions and resets that are half done.
PoolExecutable ==
  LET End(i) == IF i = 0 THEN state ELSE txs[i].seq + Used(txs[i]) - 1 IN
  /\ \A i \in DOMAIN txs : txs[i].seq = End(i - 1) + 1
  /\ cache = End(Len(txs))
=============================================================================
