-------------------------- MODULE Transactor_proofs --------------------------
(***************************************************************************)
(* Proofs about Transactor, for any set of calls, any of which create      *)
(* contracts, and any number of blocks and of other transactions.          *)
(***************************************************************************)
EXTENDS Transactor, TLAPS

Txs == [id : Calls \cup {Other}, seq : Nat]

\* A call that has read the account holds the lock, and the number it read is
\* the next one unless it has been overtaken.
SignedIsNext ==
  \A t \in Calls : at[t] = "signed" => /\ txMtx = t
                                       /\ t \in overtaken \/ sequence[t] = cache + 1

IInv == TypeOK /\ SignedIsNext /\ RejectedOnlyIfOvertaken /\ PoolExecutable

\* A transaction uses up at least one number.
LEMMA UsedType == \A tx : Used(tx) \in {1, 2}
  BY DEF Used

\* Appending a transaction with the number after the cache's keeps the
\* mempool executable, and the cache moves to the transaction's last number.
LEMMA AppendExecutable ==
  ASSUME TypeOK, PoolExecutable, NEW tx \in Txs, Valid(tx),
         cache' = cache + Used(tx), txs' = Append(txs, tx), state' = state
  PROVE  PoolExecutable' /\ cache' \in Nat /\ txs' \in Seq(Txs)
<1> DEFINE End(i) == IF i = 0 THEN state ELSE txs[i].seq + Used(txs[i]) - 1
<1>1. /\ state \in Nat /\ cache \in Nat /\ txs \in Seq(Txs)
      /\ Used(tx) \in {1, 2} /\ tx.seq = cache + 1 /\ tx.seq \in Nat
  BY UsedType DEF TypeOK, Valid, Txs
<1>2. cache' \in Nat /\ txs' \in Seq(Txs)
  BY <1>1
<1>3. Len(txs') = Len(txs) + 1 /\ txs'[Len(txs) + 1] = tx
      /\ \A i \in 1..Len(txs) : txs'[i] = txs[i]
  BY <1>1
<1>4. cache' = txs'[Len(txs')].seq + Used(txs'[Len(txs')]) - 1
  BY <1>1, <1>3
<1>5. ASSUME NEW i \in DOMAIN txs'
      PROVE  txs'[i].seq = (IF i - 1 = 0 THEN state'
                            ELSE txs'[i - 1].seq + Used(txs'[i - 1]) - 1) + 1
  <2>1. i \in 1..(Len(txs) + 1)
    BY <1>1, <1>2, <1>3
  <2>2. CASE i = Len(txs) + 1
    <3>1. tx.seq = End(Len(txs)) + 1
      BY <1>1 DEF PoolExecutable
    <3>2. CASE Len(txs) = 0
      BY <1>1, <1>3, <2>2, <3>1, <3>2
    <3>3. CASE Len(txs) # 0
      <4>1. Len(txs) \in 1..Len(txs) /\ i - 1 = Len(txs)
        BY <1>1, <2>2, <3>3
      <4> QED
        BY <1>3, <2>2, <3>1, <3>3, <4>1
    <3> QED
      BY <3>2, <3>3
  <2>3. CASE i \in 1..Len(txs)
    <3>1. txs[i].seq = End(i - 1) + 1
      <4>1. i \in DOMAIN txs
        BY <1>1, <2>3
      <4> QED
        BY <4>1 DEF PoolExecutable
    <3>2. i - 1 = 0 \/ i - 1 \in 1..Len(txs)
      BY <1>1, <2>3
    <3> QED
      BY <1>3, <2>3, <3>1, <3>2
  <2> QED
    BY <1>1, <2>1, <2>2, <2>3
<1>6. Len(txs') # 0
  BY <1>1, <1>3
<1> QED
  BY <1>2, <1>4, <1>5, <1>6 DEF PoolExecutable

\* The inductive invariant holds initially.
LEMMA InitIInv == Init => IInv
<1> SUFFICES ASSUME Init PROVE IInv
  OBVIOUS
<1>1. txs \in Seq(Txs) /\ rest \in Seq(Txs)
  BY DEF Init
<1>2. TypeOK
  <2>1. state \in Nat /\ cache \in Nat /\ others \in 0..MaxOthers /\ blocks \in 0..MaxBlocks
    BY TransactorConstants DEF Init
  <2>3. resetting \in BOOLEAN /\ txMtx \in Calls \cup {None} /\ overtaken \subseteq Calls
    BY DEF Init
  <2>2. /\ at \in [Calls -> {"start", "signed", "accepted", "rejected", "refused"}]
        /\ sequence \in [Calls -> Nat]
        /\ \A t \in Calls : at[t] # "start" => sequence[t] > 0
    BY DEF Init
  <2> QED
    BY <1>1, <2>1, <2>2, <2>3 DEF TypeOK, Txs
<1>3. SignedIsNext /\ RejectedOnlyIfOvertaken
  BY DEF Init, SignedIsNext, RejectedOnlyIfOvertaken
<1>4. PoolExecutable
  BY DEF Init, PoolExecutable
<1> QED
  BY <1>2, <1>3, <1>4 DEF IInv

\* A call that reads the account or broadcasts preserves it.
LEMMA CallIInv ==
  ASSUME IInv, NEW t \in Calls, readSequence(t) \/ accepted(t) \/ rejected(t) \/ refused(t)
  PROVE  IInv'
<1> USE TransactorConstants DEF IInv
<1>1. CASE readSequence(t)
  <2>1. TypeOK'
    BY <1>1 DEF readSequence, NextSequence, TypeOK
  <2>2. PoolExecutable'
    BY <1>1 DEF readSequence, PoolExecutable
  <2>3. SignedIsNext' /\ RejectedOnlyIfOvertaken'
    BY <1>1 DEF readSequence, LockFree, NextSequence, TypeOK, SignedIsNext,
       RejectedOnlyIfOvertaken
  <2> QED
    BY <2>1, <2>2, <2>3
<1>2. CASE accepted(t)
  <2>1. Tx(t, sequence[t]) \in Txs
    BY DEF TypeOK, Tx, Txs
  <2>2. PoolExecutable' /\ cache' \in Nat /\ txs' \in Seq(Txs)
    BY <1>2, <2>1, AppendExecutable DEF accepted, AddTx
  <2>3. TypeOK'
    BY <1>2, <2>2 DEF accepted, TypeOK, Txs
  <2>4. SignedIsNext' /\ RejectedOnlyIfOvertaken'
    BY <1>2 DEF accepted, TypeOK, SignedIsNext, RejectedOnlyIfOvertaken
  <2> QED
    BY <2>2, <2>3, <2>4
<1>3. CASE rejected(t)
  <2>1. TypeOK' /\ PoolExecutable'
    BY <1>3 DEF rejected, TypeOK, PoolExecutable
  <2>2. t \in overtaken
    BY <1>3 DEF rejected, Valid, Tx, SignedIsNext
  <2>3. SignedIsNext' /\ RejectedOnlyIfOvertaken'
    BY <1>3, <2>2 DEF rejected, TypeOK, SignedIsNext, RejectedOnlyIfOvertaken
  <2> QED
    BY <2>1, <2>3
<1>4. CASE refused(t)
  <2>1. TypeOK' /\ PoolExecutable'
    BY <1>4 DEF refused, TypeOK, PoolExecutable
  <2>2. SignedIsNext' /\ RejectedOnlyIfOvertaken'
    BY <1>4 DEF refused, TypeOK, SignedIsNext, RejectedOnlyIfOvertaken
  <2> QED
    BY <2>1, <2>2
<1> QED
  BY <1>1, <1>2, <1>3, <1>4

\* When the cache changes otherwise, every call in between is overtaken.
LEMMA OvertakenKept ==
  ASSUME SignedIsNext, RejectedOnlyIfOvertaken,
         overtaken' = overtaken \cup Between, UNCHANGED <<txMtx, at, sequence>>
  PROVE  SignedIsNext' /\ RejectedOnlyIfOvertaken'
  BY DEF SignedIsNext, RejectedOnlyIfOvertaken, Between

\* A reset of the mempool to any number of the account preserves it.
LEMMA ResetIInv ==
  ASSUME IInv, NEW n \in Nat, NEW remaining \in Seq(Txs), ResetForBlockAndState(n, remaining)
  PROVE  IInv'
<1> USE TransactorConstants DEF IInv, ResetForBlockAndState
<1>1. TypeOK'
  <2>1. overtaken' \subseteq Calls /\ blocks' \in 0..MaxBlocks
    BY DEF TypeOK, Between
  <2>2. txs' \in Seq(Txs) /\ rest' \in Seq(Txs)
    OBVIOUS
  <2> QED
    BY <2>1, <2>2 DEF TypeOK, Txs
<1>2. SignedIsNext' /\ RejectedOnlyIfOvertaken'
  BY OvertakenKept
<1>3. PoolExecutable'
  BY DEF PoolExecutable
<1> QED
  BY <1>1, <1>2, <1>3

\* Every step preserves it.
LEMMA NextIInv == IInv /\ [Next]_vars => IInv'
<1> SUFFICES ASSUME IInv, [Next]_vars PROVE IInv'
  OBVIOUS
<1> USE TransactorConstants DEF IInv
<1>1. CASE UNCHANGED vars
  BY <1>1 DEF vars, TypeOK, SignedIsNext, RejectedOnlyIfOvertaken, PoolExecutable
<1>2. ASSUME NEW t \in Calls, readSequence(t) \/ accepted(t) \/ rejected(t) \/ refused(t)
      PROVE  IInv'
  BY <1>2, CallIInv
<1>3. CASE otherTx
  <2>1. Tx(Other, cache + 1) \in Txs
    BY DEF TypeOK, Tx, Txs
  <2>2. PoolExecutable' /\ cache' \in Nat /\ txs' \in Seq(Txs)
    BY <1>3, <2>1, AppendExecutable DEF otherTx, AddTx
  <2>3. overtaken' \subseteq Calls /\ others' \in 0..MaxOthers
    BY <1>3 DEF otherTx, TypeOK, Between
  <2>4. TypeOK'
    BY <1>3, <2>2, <2>3 DEF otherTx, TypeOK, Txs
  <2>5. SignedIsNext' /\ RejectedOnlyIfOvertaken'
    BY <1>3, OvertakenKept DEF otherTx
  <2> QED
    BY <2>2, <2>4, <2>5
<1>4. CASE commitFirst
  <2>1. PICK used \in 1..Used(Head(txs)) : ResetForBlockAndState(state + used, Tail(txs))
    BY <1>4 DEF commitFirst
  <2>2. state + used \in Nat /\ Tail(txs) \in Seq(Txs)
    BY <1>4, UsedType DEF commitFirst, TypeOK, Txs
  <2> QED
    BY <2>1, <2>2, ResetIInv
<1>5. CASE commitOther
  <2>1. PICK used \in {0, 1} : ResetForBlockAndState(state + used, txs)
    BY <1>5 DEF commitOther
  <2>2. state + used \in Nat /\ txs \in Seq(Txs)
    BY DEF TypeOK, Txs
  <2> QED
    BY <2>1, <2>2, ResetIInv
<1>6. CASE executeNext
  <2>1. Head(rest) \in Txs /\ rest' \in Seq(Txs)
    <3>1. rest \in Seq(Txs) /\ rest # <<>> /\ rest' = Tail(rest)
      BY <1>6 DEF executeNext, TypeOK, Txs
    <3> QED
      BY <3>1
  <2>2. PoolExecutable' /\ cache' \in Nat /\ txs' \in Seq(Txs)
    <3>1. CASE UNCHANGED <<cache, txs>>
      BY <1>6, <3>1 DEF executeNext, TypeOK, PoolExecutable, Txs
    <3>2. CASE Valid(Head(rest)) /\ cache' = cache + Used(Head(rest))
                /\ txs' = Append(txs, Head(rest))
      BY <1>6, <2>1, <3>2, AppendExecutable DEF executeNext
    <3> QED
      BY <1>6, <3>1, <3>2 DEF executeNext, Executed
  <2>3. overtaken' \subseteq Calls
    BY <1>6 DEF executeNext, TypeOK, Between
  <2>4. TypeOK'
    BY <1>6, <2>1, <2>2, <2>3 DEF executeNext, TypeOK, Txs
  <2>5. SignedIsNext' /\ RejectedOnlyIfOvertaken'
    BY <1>6, OvertakenKept DEF executeNext
  <2> QED
    BY <2>2, <2>4, <2>5
<1>7. CASE resetDone
  BY <1>7 DEF resetDone, TypeOK, SignedIsNext, RejectedOnlyIfOvertaken, PoolExecutable
<1> QED
  BY <1>1, <1>2, <1>3, <1>4, <1>5, <1>6, <1>7 DEF Next

\* The inductive invariant holds in every state.
LEMMA AlwaysIInv == Spec => []IInv
  BY InitIInv, NextIInv, PTL DEF Spec

\* The transactor's and the mempool's state keep their types.
THEOREM TypeCorrect == Spec => []TypeOK
<1>1. IInv => TypeOK
  BY DEF IInv
<1> QED
  BY AlwaysIInv, <1>1, PTL

\* With txMtx held from reading the account to broadcasting, calls of the
\* transactor are rejected for their sequence number only because of a block
\* or of a transaction from elsewhere.
THEOREM CallsDoNotCollide == Spec => []RejectedOnlyIfOvertaken
<1>1. IInv => RejectedOnlyIfOvertaken
  BY DEF IInv
<1> QED
  BY AlwaysIInv, <1>1, PTL

\* The mempool's transactions always execute in order from the committed
\* state to the cache.
THEOREM PoolAlwaysExecutable == Spec => []PoolExecutable
<1>1. IInv => PoolExecutable
  BY DEF IInv
<1> QED
  BY AlwaysIInv, <1>1, PTL
=============================================================================
