----------------------------- MODULE BlockQuery -----------------------------
(***************************************************************************)
(* A query for blocks (Blocks and getHeightMinMax of                       *)
(* erisdb/pipe/blockchain.go): the filters on the height are turned into a *)
(* range of heights one by one, and the blocks of the range are listed.    *)
(*                                                                         *)
(* A filter is a record with the field, the operator and the value; the    *)
(* field is the height or another one, and the value is a word or a        *)
(* number, <<"number", n>>.  getHeightMinMax works in place: the filter it *)
(* has dealt with is overwritten by the last one and the slice gets        *)
(* shorter, and a filter on another field is left where it is.             *)
(***************************************************************************)
EXTENDS Integers, Sequences

CONSTANTS Fields,     \* fields that queries use
          MaxHeight,  \* bound: height of the chain
          MaxFilters, \* bound: filters of a query
          BlockMax    \* BLOCK_MAX

ASSUME QueryConstants ==
  /\ Fields \subseteq {"height", "other"}
  /\ MaxHeight \in Nat
  /\ MaxFilters \in Nat
  /\ BlockMax \in Nat

VARIABLES
  height,   \* the height of the chain
  query,    \* the filters of the request
  fda,      \* those that are still to be dealt with
  min, max, \* the range so far
  at,       \* where the request is
  turn,     \* parity of the loop's iterations
  metas     \* heights of the blocks in the answer

vars == <<height, query, fda, min, max, at, turn, metas>>

Ops == {"==", "!=", "<", "<=", ">", ">="}

\* Numbers just outside of the chain's range included.
Words == {<<"min">>, <<"max">>, <<"word">>} \cup {<<"number", n>> : n \in -1..(MaxHeight + 1)}

FilterData == [field : Fields, op : Ops, value : Words]

Init ==
  /\ height \in 0..MaxHeight
  /\ query \in UNION {[1..n -> FilterData] : n \in 0..MaxFilters}
  /\ fda = query
  /\ min = 0
  /\ max = height
  /\ at = "start"
  /\ turn = 0
  /\ metas = {}

\* The value of a filter; a word that is not a number is not Parsed.
Parsed(v) == v[1] # "word"

Val(v) == CASE v[1] = "min" -> 0
            [] v[1] = "max" -> height
            [] OTHER -> v[2]

-----------------------------------------------------------------------------

\* There are no blocks.
noBlocks ==
  /\ at = "start"
  /\ height = 0
  /\ at' = "returned"
  /\ max' = 0
  /\ UNCHANGED <<height, query, fda, min, turn, metas>>

\* getHeightMinMax is called; without filters it is not needed.
getHeightMinMax ==
  /\ at = "start"
  /\ height # 0
  /\ at' = IF fda = <<>> THEN "list" ELSE "loop"
  /\ UNCHANGED <<height, query, fda, min, max, turn, metas>>

\* Faulty variant: the slice is not cut.
NotCut == [i \in 1..Len(fda) |-> IF i = 1 THEN fda[Len(fda)] ELSE fda[i]]

\* The first filter is overwritten by the last and the slice is cut.
LastToFront == [i \in 1..(Len(fda) - 1) |-> IF i = 1 THEN fda[Len(fda)] ELSE fda[i]]

\* Faulty variant: the range is cut without looking at its other end.
CutBelow(v) == v

\* The new max for an upper limit v, which is ignored unless it lies
\* strictly within the range.
Upper(v) == IF v > min /\ v < max THEN v ELSE max

Lower(v) == IF v < max /\ v > min THEN v ELSE min

\* Faulty variant: one height too many is skipped.
SkipsOne(v) == v + 2

\* The first height above v.
Above(v) == v + 1

InChain(v) == v >= 0 /\ v <= height

\* A filter on the height is good if its value is a number, its operator is
\* supported and, if it asks for one block, there is such a block.
Good(fd) ==
  /\ Parsed(fd.value)
  /\ fd.op # "!="
  /\ fd.op = "==" => InChain(Val(fd.value))

filterFails ==
  /\ at = "loop"
  /\ fda # <<>>
  /\ fda[1].field = "height"
  /\ ~Good(fda[1])
  /\ at' = "error"
  /\ UNCHANGED <<height, query, fda, min, max, turn, metas>>

heightFilter ==
  LET fd == fda[1]
      v == Val(fd.value) IN
  /\ at = "loop"
  /\ fda # <<>>
  /\ fd.field = "height"
  /\ Good(fd)
  /\ max' = CASE fd.op = "==" -> v
              [] fd.op = "<"  -> Upper(v - 1)
              [] fd.op = "<=" -> Upper(v)
              [] OTHER -> max
  /\ min' = CASE fd.op = "==" -> v
              [] fd.op = ">"  -> Lower(Above(v))
              [] fd.op = ">=" -> Lower(v)
              [] OTHER -> min
  /\ fda' = LastToFront
  /\ turn' = 1 - turn
  /\ UNCHANGED <<height, query, at, metas>>

\* A filter on another field: the loop goes round without changing anything.
otherFilter ==
  /\ at = "loop"
  /\ fda # <<>>
  /\ fda[1].field # "height"
  /\ turn' = 1 - turn
  /\ UNCHANGED <<height, query, fda, min, max, at, metas>>

\* The range is returned.
rangeFound ==
  /\ at = "loop"
  /\ fda = <<>>
  /\ max' = IF max < min THEN min ELSE max
  /\ at' = "list"
  /\ UNCHANGED <<height, query, fda, min, turn, metas>>

\* Blocks that the loop from max downwards loads: it stops at the first
\* height that its condition does not hold of.
Listed == {h \in min..max : \A g \in h..max : max - g > BlockMax}

\* The blocks are listed.  No filters are left, so every block matches.
listBlocks ==
  /\ at = "list"
  /\ metas' = Listed
  /\ at' = "returned"
  /\ UNCHANGED <<height, query, fda, min, max, turn>>

Next ==
  noBlocks \/ getHeightMinMax \/ filterFails \/ heightFilter \/ otherFilter
  \/ rangeFound \/ listBlocks

Spec == Init /\ [][Next]_vars

\* The request is a goroutine of its own.
FairSpec == Spec /\ WF_vars(Next)

-----------------------------------------------------------------------------
(* Properties.                                                              *)

\* Height h satisfies filter fd: the reference definition.
Satisfies(h, fd) ==
  LET v == Val(fd.value) IN
  CASE fd.op = "==" -> h = v
    [] fd.op = "!=" -> h # v
    [] fd.op = "<"  -> h < v
    [] fd.op = "<=" -> h <= v
    [] fd.op = ">"  -> h > v
    [] fd.op = ">=" -> h >= v

\* The heights that the request asks for, if it has only filters on the
\* height with values that can be read.
Wanted == {h \in 0..height : \A i \in DOMAIN query : Satisfies(h, query[i])}

HeightQuery == \A i \in DOMAIN query : query[i].field = "height" /\ Parsed(query[i].value)

\* The types of the request's state.
TypeOK ==
  /\ height \in 0..MaxHeight
  /\ query \in Seq(FilterData)
  /\ fda \in Seq(FilterData)
  /\ min \in Int
  /\ max \in Int
  /\ at \in {"start", "loop", "error", "list", "returned"}
  /\ turn \in {0, 1}
  /\ metas \subseteq 0..MaxHeight

\* The range is never empty and lies within the chain, after every filter, in
\* whatever order the filters come: the case that blockchain.go:257 provides
\* for does not happen.
RangeWithinChain == 0 <= min /\ min <= max /\ max <= height

\* No height that satisfies all the filters is ever cut off the range.
NoneCutOff ==
  HeightQuery => \A h \in Wanted : min <= h /\ h <= max

\* A request whose filters are all on the height is answered: every turn of
\* the loop of getHeightMinMax takes one of them off the slice.
HeightQueriesAnswered ==
  (\A i \in DOMAIN query : query[i].field = "height") ~> at \in {"error", "returned"}

\* getHeightMinMax breaks "any height filters out": a request with whatever
\* filters is answered.
Terminates == <>(at \in {"error", "returned"})

\* "Range queries are done simply by adding two filters - one for the minimum
\* value and one for the maximum": the range is what was asked for, if there
\* are such blocks.
RangeExact ==
  at = "returned" /\ HeightQuery /\ Wanted # {} => min..max = Wanted

\* "Get the blocks from 'minHeight' to 'maxHeight'": the newest of them at
\* least is in the answer.
NewestListed == at = "returned" /\ height > 0 => max \in metas
=============================================================================
