-------------------------- MODULE BlockQuery_proofs --------------------------
(***************************************************************************)
(* Proofs about BlockQuery, for chains of any height and queries with any  *)
(* number of filters.                                                      *)
(*                                                                         *)
(* The invariant that carries the argument says that the filters still to  *)
(* be dealt with are among those of the request, so that a limit taken     *)
(* from one of them cuts off no height that the request asks for.          *)
(***************************************************************************)
EXTENDS BlockQuery, TLAPS

Types ==
  /\ height \in Nat
  /\ min \in Int
  /\ max \in Int
  /\ fda \in Seq(FilterData)

FromQuery == \A i \in DOMAIN fda : \E j \in DOMAIN query : fda[i] = query[j]

IInv == Types /\ FromQuery /\ RangeWithinChain /\ NoneCutOff

\* The value of a filter that can be read is a number.
LEMMA ValType ==
  ASSUME height \in Nat, NEW fd \in FilterData, Parsed(fd.value)
  PROVE  Val(fd.value) \in Int
  BY QueryConstants DEF FilterData, Words, Parsed, Val

\* Initially the range is the whole chain.
LEMMA InitIInv == Init => IInv
<1> SUFFICES ASSUME Init PROVE IInv
  OBVIOUS
<1>1. height \in Nat /\ min = 0 /\ max = height
  BY QueryConstants DEF Init
<1>2. fda \in Seq(FilterData)
  <2>1. PICK n \in 0..MaxFilters : query \in [1..n -> FilterData]
    BY DEF Init
  <2> QED
    BY <2>1, QueryConstants DEF Init
<1>3. FromQuery
  BY DEF Init, FromQuery
<1>4. RangeWithinChain /\ NoneCutOff
  BY <1>1 DEF RangeWithinChain, NoneCutOff, Wanted
<1> QED
  BY <1>1, <1>2, <1>3, <1>4 DEF IInv, Types

\* Moving the last filter to the front invents no filter.
LEMMA LastToFrontFromQuery ==
  ASSUME fda \in Seq(FilterData), fda # <<>>, FromQuery
  PROVE  /\ LastToFront \in Seq(FilterData)
         /\ \A i \in DOMAIN LastToFront : \E j \in DOMAIN query : LastToFront[i] = query[j]
<1>1. Len(fda) \in Nat /\ Len(fda) > 0 /\ DOMAIN fda = 1..Len(fda)
  OBVIOUS
<1>2. \A i \in 1..(Len(fda) - 1) : \E k \in DOMAIN fda : LastToFront[i] = fda[k]
  BY <1>1 DEF LastToFront
<1>3. DOMAIN LastToFront = 1..(Len(fda) - 1)
  BY DEF LastToFront
<1>4. LastToFront \in Seq(FilterData)
  <2>1. \A i \in 1..(Len(fda) - 1) : LastToFront[i] \in FilterData
    BY <1>1, <1>2
  <2>2. LastToFront \in [1..(Len(fda) - 1) -> FilterData]
    BY <2>1 DEF LastToFront
  <2> QED
    BY <1>1, <2>2
<1> QED
  BY <1>2, <1>3, <1>4 DEF FromQuery

\* A filter on the height keeps the range within the chain and cuts off no
\* height that satisfies it.
LEMMA FilterKeepsRange ==
  ASSUME IInv, heightFilter
  PROVE  RangeWithinChain' /\ NoneCutOff' /\ min' \in Int /\ max' \in Int
<1> DEFINE fd == fda[1]
           v == Val(fd.value)
<1>1. fd \in FilterData /\ Parsed(fd.value) /\ fd.op # "!=" /\ (fd.op = "==" => InChain(v))
  BY DEF IInv, Types, heightFilter, Good
<1>2. v \in Int
  BY <1>1, ValType DEF IInv, Types
<1>3. fd.op \in Ops
  BY <1>1 DEF FilterData
<1>4. height' = height /\ query' = query
  BY DEF heightFilter
<1>5. /\ max' = CASE fd.op = "==" -> v
                  [] fd.op = "<"  -> Upper(v - 1)
                  [] fd.op = "<=" -> Upper(v)
                  [] OTHER -> max
      /\ min' = CASE fd.op = "==" -> v
                  [] fd.op = ">"  -> Lower(Above(v))
                  [] fd.op = ">=" -> Lower(v)
                  [] OTHER -> min
  BY DEF heightFilter
<1>6. height \in Nat /\ min \in Int /\ max \in Int /\ 0 <= min /\ min <= max /\ max <= height
  BY DEF IInv, Types, RangeWithinChain
<1>7. /\ min' \in Int /\ max' \in Int /\ 0 <= min' /\ min' <= max' /\ max' <= height
      /\ \A h \in 0..height : min <= h /\ h <= max /\ Satisfies(h, fd) => min' <= h /\ h <= max'
  <2>1. CASE fd.op = "=="
    BY <1>1, <1>2, <1>5, <1>6, <2>1 DEF InChain, Satisfies
  <2>2. CASE fd.op = "<"
    BY <1>2, <1>5, <1>6, <2>2 DEF Upper, Satisfies
  <2>3. CASE fd.op = "<="
    BY <1>2, <1>5, <1>6, <2>3 DEF Upper, Satisfies
  <2>4. CASE fd.op = ">"
    BY <1>2, <1>5, <1>6, <2>4 DEF Lower, Above, Satisfies
  <2>5. CASE fd.op = ">="
    BY <1>2, <1>5, <1>6, <2>5 DEF Lower, Satisfies
  <2> QED
    BY <1>1, <1>3, <2>1, <2>2, <2>3, <2>4, <2>5 DEF Ops
<1>8. PICK j \in DOMAIN query : fd = query[j]
  <2>1. 1 \in DOMAIN fda
    BY DEF heightFilter, IInv, Types
  <2> QED
    BY <2>1 DEF IInv, FromQuery
<1>9. Wanted' = Wanted /\ HeightQuery' = HeightQuery
  BY <1>4 DEF Wanted, HeightQuery, Satisfies, Val
<1>10. \A h \in Wanted : h \in 0..height /\ Satisfies(h, fd)
  BY <1>8 DEF Wanted
<1>11. NoneCutOff'
  BY <1>7, <1>9, <1>10 DEF NoneCutOff, IInv
<1> QED
  BY <1>4, <1>7, <1>11 DEF RangeWithinChain

\* Every step preserves the inductive invariant.
LEMMA NextIInv == IInv /\ [Next]_vars => IInv'
<1> SUFFICES ASSUME IInv, [Next]_vars PROVE IInv'
  OBVIOUS
<1>1. ASSUME UNCHANGED <<height, query, fda, min, max>> PROVE IInv'
  <2>1. Types' /\ FromQuery' /\ RangeWithinChain'
    BY <1>1 DEF IInv, Types, FromQuery, RangeWithinChain
  <2>2. Wanted' = Wanted /\ (HeightQuery' <=> HeightQuery)
    BY <1>1 DEF Wanted, HeightQuery, Satisfies, Val
  <2> QED
    BY <1>1, <2>1, <2>2 DEF IInv, NoneCutOff
<1>2. CASE noBlocks
  <2>1. max' = max
    BY <1>2 DEF noBlocks, IInv, Types, RangeWithinChain
  <2> QED
    BY <1>1, <1>2, <2>1 DEF noBlocks
<1>3. CASE getHeightMinMax \/ filterFails \/ otherFilter \/ listBlocks \/ UNCHANGED vars
  BY <1>1, <1>3 DEF getHeightMinMax, filterFails, otherFilter, listBlocks, vars
<1>4. CASE rangeFound
  <2>1. max' = max
    BY <1>4 DEF rangeFound, IInv, Types, RangeWithinChain
  <2> QED
    BY <1>1, <1>4, <2>1 DEF rangeFound
<1>5. CASE heightFilter
  <2>1. RangeWithinChain' /\ NoneCutOff' /\ min' \in Int /\ max' \in Int
    BY <1>5, FilterKeepsRange
  <2>2. fda' \in Seq(FilterData) /\ FromQuery'
    BY <1>5, LastToFrontFromQuery DEF heightFilter, IInv, Types, FromQuery
  <2> QED
    BY <1>5, <2>1, <2>2 DEF heightFilter, IInv, Types
<1> QED
  BY <1>2, <1>3, <1>4, <1>5 DEF Next

\* The inductive invariant holds in every state.
LEMMA AlwaysIInv == Spec => []IInv
  BY InitIInv, NextIInv, PTL DEF Spec

\* Whatever the filters and their order, the range stays a nonempty part of
\* the chain.
THEOREM RangeStaysInChain == Spec => []RangeWithinChain
<1>1. IInv => RangeWithinChain
  BY DEF IInv
<1> QED
  BY AlwaysIInv, <1>1, PTL

\* getHeightMinMax never cuts off a height that satisfies all the filters.
THEOREM NothingCutOff == Spec => []NoneCutOff
<1>1. IInv => NoneCutOff
  BY DEF IInv
<1> QED
  BY AlwaysIInv, <1>1, PTL
=============================================================================
