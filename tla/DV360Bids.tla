------------------------------ MODULE DV360Bids ------------------------------
(***************************************************************************)
(* DV360Adapter.MakeBids of adapters/dv360/dv360.go: the bidder's HTTP     *)
(* response to one of the requests MakeRequests built becomes the list of *)
(* typed bids handed back to Prebid core.                                  *)
(*                                                                         *)
(* The seat and bid loop is modelled step by step, with the loop variable *)
(* b of `for _, b := range sb.Bid` as a memory cell, because the code     *)
(* stores &b in every TypedBid.  Which cell `b` names depends on the Go   *)
(* toolchain: before Go 1.22 one variable serves a whole range statement  *)
(* (one per seat), from Go 1.22 on each iteration has its own.  The       *)
(* constant PerIterationLoopVar selects the semantics of the build.       *)
(*                                                                         *)
(* A bid is identified by its seat and position; its price is from the    *)
(* small set Prices.  The external request's body is the json.Marshal    *)
(* output of MakeRequests, so it always decodes and has exactly one       *)
(* impression; `video` says whether that impression has a video object.   *)
(***************************************************************************)
EXTENDS Naturals, Sequences, SequencesExt

CONSTANTS
    Prices,                \* the prices a bid may carry, 0 included
    MaxSeats,              \* bound on len(bidResp.SeatBid)
    MaxBids,               \* bound on len(sb.Bid) for each seat
    PerIterationLoopVar,   \* whether the build has Go 1.22 loop variables
    None                   \* a variable not yet assigned

ASSUME BidsAssumption ==
    /\ 0 \in Prices /\ Prices \subseteq Nat
    /\ MaxSeats \in Nat /\ MaxBids \in Nat
    /\ PerIterationLoopVar \in BOOLEAN

Statuses == {200, 204, 400, 500}

(* The decoded bidResp.SeatBid: each seat a sequence of prices. *)
SeatBids == UNION {[1 .. n -> UNION {[1 .. m -> Prices] : m \in 0 .. MaxBids}]
                   : n \in 0 .. MaxSeats}

Bid == [seat : 1 .. MaxSeats, pos : 1 .. MaxBids, price : Prices]
BidTypes == {"banner", "video"}
TypedBid == [bid : Bid, bidType : BidTypes]

(* The Go variables a range statement over sb.Bid may declare. *)
Cells == (1 .. MaxSeats) \X (0 .. MaxBids)

(* What MakeBids returns: a nil response, an error, or bids. *)
Results == [kind : {"nil", "BadInput", "BadServerResponse", "bids"},
            bids : Seq(TypedBid)]

Return(kind) == [kind |-> kind, bids |-> <<>>]

VARIABLES
    status,    \* response.StatusCode
    decodes,   \* whether response.Body unmarshals into an openrtb.BidResponse
    seatBid,   \* bidResp.SeatBid
    video,     \* bidReq.Imp[0].Video != nil
    pc,        \* "status", "loop" or "done"
    s,         \* the index of the seat the outer loop is at
    j,         \* the index of the bid the inner loop is at
    mem,       \* mem[c]: the bid stored in the Go variable c
    bids,      \* bidResponse.Bids: each a [cell, bidType], the cell being &b
    result     \* what MakeBids returns

vars == <<status, decodes, seatBid, video, pc, s, j, mem, bids, result>>

(* The bid at position q of seat p of the response. *)
BidAt(p, q) == [seat |-> p, pos |-> q, price |-> seatBid[p][q]]

(* Mutation: the bid's pointer taken one element too far. *)
CellOfNext(p, q) == <<p, q + 1>>

(* The variable b names at seat p, bid q. *)
CellOf(p, q) == IF PerIterationLoopVar THEN <<p, q>> ELSE <<p, 0>>

BidsTypeOK ==
    /\ status \in Statuses /\ decodes \in BOOLEAN
    /\ seatBid \in SeatBids /\ video \in BOOLEAN
    /\ pc \in {"status", "loop", "done"}
    /\ s \in 1 .. MaxSeats + 1 /\ j \in 1 .. MaxBids + 1
    /\ mem \in [Cells -> Bid \cup {None}]
    /\ bids \in Seq([cell : Cells, bidType : BidTypes])
    /\ result \in Results \cup {Return("none")}

BidsInit ==
    /\ status \in Statuses
    /\ decodes \in BOOLEAN
    /\ seatBid \in SeatBids
    /\ video \in BOOLEAN
    /\ pc = "status"
    /\ s = 1 /\ j = 1
    /\ mem = [c \in Cells |-> None]
    /\ bids = <<>>
    /\ result = Return("none")

(***************************************************************************)
(* The checks before the loop: 204 is no bids, 400 a BadInput error, any  *)
(* other status but 200 a BadServerResponse, as is a body that does not   *)
(* decode; no seat is no bids.                                             *)
(***************************************************************************)
CheckResponse ==
    /\ pc = "status"
    /\ \/ /\ status = 204
          /\ result' = Return("nil") /\ pc' = "done"
       \/ /\ status = 400
          /\ result' = Return("BadInput") /\ pc' = "done"
       \/ /\ status \notin {200, 204, 400}
          /\ result' = Return("BadServerResponse") /\ pc' = "done"
       \/ /\ status = 200 /\ ~decodes
          /\ result' = Return("BadServerResponse") /\ pc' = "done"
       \/ /\ status = 200 /\ decodes /\ Len(seatBid) = 0
          /\ result' = Return("nil") /\ pc' = "done"
       \/ /\ status = 200 /\ decodes /\ Len(seatBid) > 0
          /\ pc' = "loop"
          /\ UNCHANGED result
    /\ UNCHANGED <<status, decodes, seatBid, video, s, j, mem, bids>>

(* bidType: banner unless the impression of the request has a video. *)
BidType == IF video THEN "video" ELSE "banner"

(***************************************************************************)
(* One iteration of the inner loop: b := sb.Bid[j]; a bid with a non-zero *)
(* price is appended as &adapters.TypedBid{Bid: &b, BidType: bidType}.    *)
(***************************************************************************)
LoopBid ==
    /\ pc = "loop"
    /\ s <= Len(seatBid) /\ j <= Len(seatBid[s])
    /\ mem' = [mem EXCEPT ![CellOf(s, j)] = BidAt(s, j)]
    /\ bids' = IF seatBid[s][j] # 0
                 THEN Append(bids, [cell |-> CellOf(s, j), bidType |-> BidType])
                 ELSE bids
    /\ j' = j + 1
    /\ UNCHANGED <<status, decodes, seatBid, video, pc, s, result>>

(* The inner loop is done: on to the next seat. *)
NextSeat ==
    /\ pc = "loop"
    /\ s <= Len(seatBid) /\ j > Len(seatBid[s])
    /\ s' = s + 1 /\ j' = 1
    /\ UNCHANGED <<status, decodes, seatBid, video, pc, mem, bids, result>>

(* Mutation: the seat loop left one seat early. *)
ReturnBidsEarly ==
    /\ pc = "loop"
    /\ s >= Len(seatBid)
    /\ result' = [kind |-> "bids", bids |-> [k \in 1 .. Len(bids) |->
                              [bid |-> mem[bids[k].cell],
                               bidType |-> bids[k].bidType]]]
    /\ pc' = "done"
    /\ UNCHANGED <<status, decodes, seatBid, video, s, j, mem, bids>>

(* return bidResponse: Prebid reads each bid through its pointer. *)
ReturnBids ==
    /\ pc = "loop"
    /\ s > Len(seatBid)
    /\ result' = [kind |-> "bids", bids |-> [k \in 1 .. Len(bids) |->
                              [bid |-> mem[bids[k].cell],
                               bidType |-> bids[k].bidType]]]
    /\ pc' = "done"
    /\ UNCHANGED <<status, decodes, seatBid, video, s, j, mem, bids>>

Returned == pc = "done" /\ UNCHANGED vars

BidsNext ==
    \/ CheckResponse
    \/ LoopBid
    \/ NextSeat
    \/ ReturnBids
    \/ Returned

BidsSpec == BidsInit /\ [][BidsNext]_vars
-----------------------------------------------------------------------------
(***************************************************************************)
(* The reference: the bids of a 200 response with seats are the non-zero  *)
(* priced bids of all its seats, in order, each typed by the impression   *)
(* the request was for.                                                    *)
(***************************************************************************)
AllBids == FlattenSeq([p \in 1 .. Len(seatBid) |->
                         [q \in 1 .. Len(seatBid[p]) |-> BidAt(p, q)]])

ExpectedBids ==
    LET kept == SelectSeq(AllBids, LAMBDA b : b.price # 0)
    IN  [k \in 1 .. Len(kept) |-> [bid |-> kept[k], bidType |-> BidType]]

(***************************************************************************)
(* BidsAreResponseBids: MakeBids returns exactly the non-zero bids of the *)
(* response, each once, in order; none is lost, duplicated or replaced by *)
(* another bid of its seat.  A TypedBid holds &b, so this holds only if   *)
(* every iteration's b is a variable of its own.                          *)
(***************************************************************************)
BidsAreResponseBids ==
    (pc = "done" /\ status = 200 /\ decodes /\ Len(seatBid) > 0)
        => result = [kind |-> "bids", bids |-> ExpectedBids]



=============================================================================
