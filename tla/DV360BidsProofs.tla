--------------------------- MODULE DV360BidsProofs ---------------------------
(***************************************************************************)
(* Proofs about DV360Adapter.MakeBids (DV360Bids), for every bound on    *)
(* seats and bids and every set of prices.                                *)
(*                                                                         *)
(* BidsTypeOK holds under either loop-variable semantics.  It is not     *)
(* inductive by itself: ReturnBids reads every TypedBid through its       *)
(* pointer, and the result is well typed only if each pointer's cell      *)
(* already holds a bid.  PointersSet adds that.                           *)
(***************************************************************************)
EXTENDS DV360Bids, SequenceTheorems, TLAPS

(* Every TypedBid's pointer names a cell that holds a bid. *)
PointersSet == \A k \in 1 .. Len(bids) : mem[bids[k].cell] \in Bid

TypeIInv == BidsTypeOK /\ PointersSet

-----------------------------------------------------------------------------
(* A function on 1 .. n is a sequence of length n. *)
LEMMA FunctionIsSeq ==
    ASSUME NEW S, NEW n \in Nat, NEW f \in [1 .. n -> S]
    PROVE  f \in Seq(S) /\ Len(f) = n
<1>1. f \in Seq(S)
  BY SeqDef
<1>2. DOMAIN f = 1 .. Len(f) /\ Len(f) \in Nat
  BY <1>1, LenProperties
<1>. QED
  BY <1>1, <1>2

(* A decoded response has at most MaxSeats seats of at most MaxBids bids. *)
LEMMA SeatBidsShape ==
    ASSUME NEW sb \in SeatBids
    PROVE  /\ sb \in Seq(Seq(Prices))
           /\ Len(sb) \in 0 .. MaxSeats
           /\ \A p \in 1 .. Len(sb) : /\ sb[p] \in Seq(Prices)
                                      /\ Len(sb[p]) \in 0 .. MaxBids
<1>1. PICK n \in 0 .. MaxSeats :
          sb \in [1 .. n -> UNION {[1 .. m -> Prices] : m \in 0 .. MaxBids}]
  BY DEF SeatBids
<1>2. \A p \in 1 .. n : /\ sb[p] \in Seq(Prices)
                        /\ Len(sb[p]) \in 0 .. MaxBids
  <2>1. SUFFICES ASSUME NEW p \in 1 .. n
                 PROVE  sb[p] \in Seq(Prices) /\ Len(sb[p]) \in 0 .. MaxBids
    OBVIOUS
  <2>2. sb[p] \in UNION {[1 .. m -> Prices] : m \in 0 .. MaxBids}
    BY <1>1
  <2>3. PICK m \in 0 .. MaxBids : sb[p] \in [1 .. m -> Prices]
    BY <2>2
  <2>. QED
    BY <2>3, FunctionIsSeq, BidsAssumption
<1>3. sb \in Seq(Seq(Prices)) /\ Len(sb) = n
  <2>1. sb \in [1 .. n -> Seq(Prices)]
    BY <1>1, <1>2
  <2>. QED
    BY <2>1, FunctionIsSeq, BidsAssumption
<1>. QED
  BY <1>2, <1>3

(* The bid at a position of the response is a Bid. *)
LEMMA BidAtIsBid ==
    ASSUME seatBid \in SeatBids,
           NEW p \in 1 .. Len(seatBid), NEW q \in 1 .. Len(seatBid[p])
    PROVE  BidAt(p, q) \in Bid
<1>1. /\ Len(seatBid) \in 0 .. MaxSeats
      /\ seatBid[p] \in Seq(Prices) /\ Len(seatBid[p]) \in 0 .. MaxBids
  BY SeatBidsShape
<1>2. seatBid[p][q] \in Prices
  BY <1>1, ElementOfSeq
<1>3. p \in 1 .. MaxSeats /\ q \in 1 .. MaxBids
  BY <1>1, BidsAssumption
<1>. QED
  BY <1>2, <1>3 DEF BidAt, Bid
(* Every entry of bids is a [cell, bidType] record. *)
LEMMA BidsEntries ==
    ASSUME BidsTypeOK
    PROVE  /\ Len(bids) \in Nat
           /\ \A k \in 1 .. Len(bids) :
                 /\ bids[k] \in [cell : Cells, bidType : BidTypes]
                 /\ bids[k].cell \in Cells
<1>1. bids \in Seq([cell : Cells, bidType : BidTypes])
  BY DEF BidsTypeOK
<1>2. Len(bids) \in Nat
  BY <1>1, LenProperties
<1>3. \A k \in 1 .. Len(bids) : bids[k] \in [cell : Cells, bidType : BidTypes]
  BY <1>1, ElementOfSeq
<1>. QED
  BY <1>2, <1>3
-----------------------------------------------------------------------------
LEMMA TypeInit == BidsInit => TypeIInv
<1>. SUFFICES ASSUME BidsInit PROVE TypeIInv
  OBVIOUS
<1>1. <<>> \in Seq([cell : Cells, bidType : BidTypes]) /\ Len(<<>>) = 0
  BY EmptySeq
<1>2. Return("none") \in Results \cup {Return("none")}
  OBVIOUS
<1>. QED
  BY <1>1, <1>2, BidsAssumption
     DEF BidsInit, TypeIInv, BidsTypeOK, PointersSet, Statuses

(* The loop's indices stay in their ranges, and what it writes is typed. *)
LEMMA LoopBidTyped ==
    ASSUME TypeIInv, LoopBid
    PROVE  TypeIInv'
<1>. DEFINE c == CellOf(s, j)
<1>1. /\ s \in 1 .. Len(seatBid) /\ j \in 1 .. Len(seatBid[s])
      /\ Len(seatBid) \in 0 .. MaxSeats
      /\ Len(seatBid[s]) \in 0 .. MaxBids
  BY SeatBidsShape DEF LoopBid, TypeIInv, BidsTypeOK
<1>2. c \in Cells
  BY <1>1, BidsAssumption DEF CellOf, Cells
<1>3. BidAt(s, j) \in Bid
  BY <1>1, BidAtIsBid DEF TypeIInv, BidsTypeOK
<1>4. /\ mem' \in [Cells -> Bid \cup {None}]
      /\ mem'[c] = BidAt(s, j)
      /\ \A x \in Cells \ {c} : mem'[x] = mem[x]
  BY <1>2, <1>3 DEF LoopBid, TypeIInv, BidsTypeOK
<1>5. j' \in 1 .. MaxBids + 1
  <2>1. j' = j + 1
    BY DEF LoopBid
  <2>. QED
    BY <1>1, <2>1, BidsAssumption
<1>8. \A k \in 1 .. Len(bids) : mem'[bids[k].cell] \in Bid
  BY <1>3, <1>4, BidsEntries DEF TypeIInv, PointersSet
<1>6. CASE seatBid[s][j] # 0
  <2>. DEFINE e == [cell |-> c, bidType |-> BidType]
  <2>1. e \in [cell : Cells, bidType : BidTypes]
    BY <1>2 DEF BidType, BidTypes
  <2>2. bids' = Append(bids, e)
    BY <1>6 DEF LoopBid
  <2>3. /\ bids' \in Seq([cell : Cells, bidType : BidTypes])
        /\ Len(bids') = Len(bids) + 1
        /\ \A k \in 1 .. Len(bids) : bids'[k] = bids[k]
        /\ bids'[Len(bids) + 1] = e
    BY <2>1, <2>2, AppendProperties DEF TypeIInv, BidsTypeOK
  <2>4. PointersSet'
    <3>1. SUFFICES ASSUME NEW k \in 1 .. Len(bids')
                   PROVE  mem'[bids'[k].cell] \in Bid
      BY DEF PointersSet
    <3>2. CASE k \in 1 .. Len(bids)
      BY <1>8, <2>3, <3>2
    <3>3. CASE k = Len(bids) + 1
      BY <1>3, <1>4, <2>3, <3>3
    <3>. QED
      BY <2>3, <3>1, <3>2, <3>3, BidsEntries DEF TypeIInv
  <2>. QED
    BY <1>4, <1>5, <2>3, <2>4 DEF LoopBid, TypeIInv, BidsTypeOK
<1>7. CASE seatBid[s][j] = 0
  <2>1. bids' = bids
    BY <1>7 DEF LoopBid
  <2>2. PointersSet'
    BY <1>8, <2>1 DEF PointersSet
  <2>. QED
    BY <1>4, <1>5, <2>1, <2>2 DEF LoopBid, TypeIInv, BidsTypeOK
<1>. QED
  BY <1>6, <1>7

(* ReturnBids reads a bid through every pointer. *)
LEMMA ReturnBidsTyped ==
    ASSUME TypeIInv, ReturnBids
    PROVE  TypeIInv'
<1>. DEFINE out == [k \in 1 .. Len(bids) |->
                      [bid |-> mem[bids[k].cell], bidType |-> bids[k].bidType]]
<1>1. Len(bids) \in Nat
  BY BidsEntries DEF TypeIInv
<1>2. out \in [1 .. Len(bids) -> TypedBid]
  BY BidsEntries DEF TypeIInv, PointersSet, TypedBid
<1>3. out \in Seq(TypedBid)
  BY <1>1, <1>2, FunctionIsSeq
<1>4. result' \in Results
  BY <1>3 DEF ReturnBids, Results
<1>. QED
  BY <1>4 DEF ReturnBids, TypeIInv, BidsTypeOK, PointersSet

LEMMA TypeStep == TypeIInv /\ [BidsNext]_vars => TypeIInv'
<1>. SUFFICES ASSUME TypeIInv, [BidsNext]_vars PROVE TypeIInv'
  OBVIOUS
<1>1. CASE CheckResponse
  <2>1. <<>> \in Seq(TypedBid)
    BY EmptySeq
  <2>2. \A kd \in {"nil", "BadInput", "BadServerResponse"} :
           Return(kd) \in Results
    BY <2>1 DEF Return, Results
  <2>3. result' \in Results \cup {Return("none")}
    BY <1>1, <2>2 DEF CheckResponse, TypeIInv, BidsTypeOK
  <2>4. pc' \in {"status", "loop", "done"}
    BY <1>1 DEF CheckResponse
  <2>. QED
    BY <1>1, <2>3, <2>4 DEF CheckResponse, TypeIInv, BidsTypeOK, PointersSet
<1>2. CASE LoopBid
  BY <1>2, LoopBidTyped
<1>3. CASE NextSeat
  <2>1. Len(seatBid) \in 0 .. MaxSeats
    BY SeatBidsShape DEF TypeIInv, BidsTypeOK
  <2>. QED
    BY <1>3, <2>1, BidsAssumption DEF NextSeat, TypeIInv, BidsTypeOK,
                                      PointersSet
<1>4. CASE ReturnBids
  BY <1>4, ReturnBidsTyped
<1>5. CASE Returned \/ UNCHANGED vars
  BY <1>5 DEF Returned, vars, TypeIInv, BidsTypeOK, PointersSet
<1>. QED
  BY <1>1, <1>2, <1>3, <1>4, <1>5 DEF BidsNext

(***************************************************************************)
(* MakeBids keeps its state well typed: the seat and bid indices stay     *)
(* within one past the response's bounds, every cell &b names holds a bid *)
(* or nothing, and the result is a list of typed bids.                    *)
(***************************************************************************)
THEOREM BidsTypeCorrect == BidsSpec => []BidsTypeOK
<1>1. TypeIInv /\ [][BidsNext]_vars => []TypeIInv
  BY TypeStep, PTL
<1>. QED
  BY TypeInit, <1>1, PTL DEF BidsSpec, TypeIInv

=============================================================================
