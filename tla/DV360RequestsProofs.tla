------------------------- MODULE DV360RequestsProofs -------------------------
(***************************************************************************)
(* Proofs about DV360Adapter.MakeRequests (DV360Requests), for every      *)
(* bound on impressions and every set of regions and rewards.             *)
(*                                                                         *)
(* RequestsTypeOK is not inductive by itself: i stays within MaxImps only *)
(* because the loop stops at len(requestImpCopy), which the decoded      *)
(* request bounds.  The strengthening also counts the loop's output: by  *)
(* iteration i there is one request or one error per impression seen,    *)
(* every request's body holds one impression, and a request that does    *)
(* not marshal has produced no request.                                   *)
(*                                                                         *)
(* What OneRequestPerImp says beyond that relates the requests to         *)
(* SelectSeq(requestImpCopy, ...), a recursive function of the whole     *)
(* sequence; unfolding it needs induction over sequences, so that part   *)
(* stays with TLC.                                                         *)
(***************************************************************************)
EXTENDS DV360Requests, SequenceTheorems, TLAPS

(***************************************************************************)
(* ImpsAccounted: when MakeRequests returns, every impression of the bid  *)
(* request has cost exactly one request or one error, every request      *)
(* carries a single impression, and when json.Marshal fails there is no  *)
(* request at all.                                                         *)
(***************************************************************************)
ImpsAccounted ==
    pc = "done" =>
        /\ Len(requestData) + Len(errs) = Len(requestImpCopy)
        /\ \A k \in 1 .. Len(requestData) : Len(requestData[k].body) = 1
        /\ ~request.extValid => requestData = <<>>

(* The loop's progress and what it has produced so far. *)
LoopAccounted ==
    /\ i <= Len(requestImpCopy) /\ Len(requestImpCopy) <= MaxImps
    /\ pc = "done" => i = Len(requestImpCopy)
    /\ Len(requestData) + Len(errs) = i
    /\ \A k \in 1 .. Len(requestData) : Len(requestData[k].body) = 1
    /\ ~request.extValid => requestData = <<>>

RequestsIInv == RequestsTypeOK /\ LoopAccounted

-----------------------------------------------------------------------------
(* A function on 1 .. n is a sequence of length n. *)
LEMMA FunctionIsSeq ==
    ASSUME NEW S, NEW n \in Nat, NEW f \in [1 .. n -> S]
    PROVE  f \in Seq(S) /\ Len(f) = n
<1>1. f \in Seq(S)
  BY SeqDef
<1>2. DOMAIN f = 1 .. Len(f) /\ Len(f) \in Nat
  BY <1>1, LenProperties
<1>. QED
  BY <1>1, <1>2

(* A decoded bid request has at most MaxImps impressions. *)
LEMMA BidRequestShape ==
    ASSUME NEW r \in BidRequests
    PROVE  /\ r.imp \in Seq(ImpIn) /\ Len(r.imp) <= MaxImps
           /\ r \in [imp : Seq(ImpIn \cup ImpOut), extValid : BOOLEAN]
<1>1. r.imp \in UNION {[1 .. n -> ImpIn] : n \in 0 .. MaxImps}
  BY DEF BidRequests
<1>2. PICK n \in 0 .. MaxImps : r.imp \in [1 .. n -> ImpIn]
  BY <1>1
<1>3. r.imp \in Seq(ImpIn) /\ Len(r.imp) = n
  BY <1>2, FunctionIsSeq, RequestsAssumption
<1>4. r.imp \in Seq(ImpIn \cup ImpOut)
  BY <1>3, SeqMonotonic
<1>. QED
  BY <1>2, <1>3, <1>4 DEF BidRequests

(* The copy of a decodable impression is an impression as sent. *)
LEMMA ImpCopyTyped ==
    ASSUME NEW imp \in ImpIn, NEW e \in DV360Ext
    PROVE  impCopy(imp, e) \in ImpOut
BY DEF impCopy, ImpIn, ImpOut, DV360Ext, skanSent
-----------------------------------------------------------------------------
LEMMA RequestsInitIInv == RequestsInit => RequestsIInv
<1>. SUFFICES ASSUME RequestsInit PROVE RequestsIInv
  OBVIOUS
<1>1. /\ request.imp \in Seq(ImpIn) /\ Len(request.imp) <= MaxImps
      /\ request \in [imp : Seq(ImpIn \cup ImpOut), extValid : BOOLEAN]
  BY BidRequestShape DEF RequestsInit
<1>2. /\ <<>> \in Seq(RequestData) /\ <<>> \in Seq({"BadInput", "Marshal"})
      /\ Len(<<>>) = 0
  BY EmptySeq
<1>. QED
  BY <1>1, <1>2, RequestsAssumption
     DEF RequestsInit, RequestsIInv, RequestsTypeOK, LoopAccounted

(* One iteration: an undecodable ext or a failed marshal costs one error, *)
(* anything else one request whose body is the single rewritten copy.    *)
LEMMA IterateIInv ==
    ASSUME RequestsIInv, Iterate
    PROVE  RequestsIInv'
<1>. DEFINE imp == requestImpCopy[i + 1]
            e   == imp.ext
<1>1. /\ i < Len(requestImpCopy) /\ i \in Nat
      /\ i' = i + 1 /\ requestImpCopy' = requestImpCopy /\ pc' = pc
      /\ pc = "loop"
  BY DEF Iterate, RequestsIInv, RequestsTypeOK
<1>3. /\ Len(requestData) \in Nat /\ Len(errs) \in Nat
      /\ Len(requestImpCopy) \in Nat
  BY LenProperties DEF RequestsIInv, RequestsTypeOK
<1>2. imp \in ImpIn /\ e \in BadExts \cup DV360Ext
  <2>1. i + 1 \in 1 .. Len(requestImpCopy)
    BY <1>1, <1>3
  <2>2. imp \in ImpIn
    BY <2>1, ElementOfSeq DEF RequestsIInv, RequestsTypeOK
  <2>. QED
    BY <2>2 DEF ImpIn
(* The loop counters, common to every branch. *)
<1>4. /\ requestImpCopy' \in Seq(ImpIn)
      /\ i' \in 0 .. MaxImps
      /\ pc' \in {"loop", "done"}
      /\ i' <= Len(requestImpCopy') /\ Len(requestImpCopy') <= MaxImps
      /\ pc' = "done" => i' = Len(requestImpCopy')
  <2>1. i' <= Len(requestImpCopy') /\ Len(requestImpCopy') <= MaxImps
    BY <1>1, <1>3 DEF RequestsIInv, LoopAccounted
  <2>2. i' \in 0 .. MaxImps
    BY <1>1, <2>1, RequestsAssumption
  <2>3. pc' = "loop"
    BY <1>1
  <2>. QED
    BY <1>1, <2>1, <2>2, <2>3 DEF RequestsIInv, RequestsTypeOK
<1>5. CASE e \in BadExts
  <2>1. /\ errs' = Append(errs, "BadInput")
        /\ request' = request /\ requestData' = requestData
    BY <1>5 DEF Iterate
  <2>2. errs' \in Seq({"BadInput", "Marshal"}) /\ Len(errs') = Len(errs) + 1
    BY <2>1, AppendProperties DEF RequestsIInv, RequestsTypeOK
  <2>3. Len(requestData') + Len(errs') = i'
    <3>1. Len(requestData) + Len(errs) = i
      BY DEF RequestsIInv, LoopAccounted
    <3>2. Len(requestData') = Len(requestData)
      BY <2>1
    <3>. QED
      BY <1>1, <1>3, <2>2, <3>1, <3>2
  <2>4. RequestsTypeOK'
    BY <1>4, <2>1, <2>2 DEF RequestsIInv, RequestsTypeOK
  <2>5. /\ \A k \in 1 .. Len(requestData') : Len(requestData'[k].body) = 1
        /\ ~request'.extValid => requestData' = <<>>
    BY <2>1 DEF RequestsIInv, LoopAccounted
  <2>. QED
    BY <1>4, <2>3, <2>4, <2>5 DEF RequestsIInv, LoopAccounted
<1>6. CASE e \notin BadExts
  <2>. DEFINE x == impCopy(imp, e)
  <2>1. e \in DV360Ext
    BY <1>2, <1>6
  <2>2. x \in ImpOut /\ <<x>> \in Seq(ImpOut) /\ Len(<<x>>) = 1
    BY <1>2, <2>1, ImpCopyTyped
  <2>3. request' = [request EXCEPT !.imp = <<x>>]
    BY <1>6 DEF Iterate
  <2>4. /\ request'.imp = <<x>> /\ request'.extValid = request.extValid
        /\ request' \in [imp : Seq(ImpIn \cup ImpOut), extValid : BOOLEAN]
    <3>1. request \in [imp : Seq(ImpIn \cup ImpOut), extValid : BOOLEAN]
      BY DEF RequestsIInv, RequestsTypeOK
    <3>2. <<x>> \in Seq(ImpIn \cup ImpOut)
      BY <2>2
    <3>. QED
      BY <2>3, <3>1, <3>2
  <2>5. CASE request.extValid
    <3>. DEFINE d == [uri |-> uri(e), body |-> request'.imp,
                      region |-> e.region,
                      skanSupported |-> e.skadnSupported,
                      skanSent |-> skanSent(e),
                      mraidSupported |-> e.mraidSupported]
    <3>1. requestData' = Append(requestData, d) /\ errs' = errs
      BY <1>6, <2>5 DEF Iterate
    <3>2. d \in RequestData /\ Len(d.body) = 1
      BY <2>1, <2>2, <2>4 DEF RequestData, DV360Ext, uri, skanSent
    <3>3. /\ requestData' \in Seq(RequestData)
          /\ Len(requestData') = Len(requestData) + 1
          /\ \A k \in 1 .. Len(requestData) : requestData'[k] = requestData[k]
          /\ requestData'[Len(requestData) + 1] = d
      BY <3>1, <3>2, AppendProperties DEF RequestsIInv, RequestsTypeOK
    <3>4. \A k \in 1 .. Len(requestData') : Len(requestData'[k].body) = 1
      BY <1>3, <3>2, <3>3 DEF RequestsIInv, LoopAccounted
    <3>. QED
      BY <1>1, <1>3, <1>4, <2>4, <2>5, <3>1, <3>3, <3>4
         DEF RequestsIInv, RequestsTypeOK, LoopAccounted
  <2>6. CASE ~request.extValid
    <3>1. errs' = Append(errs, "Marshal") /\ requestData' = requestData
      BY <1>6, <2>6 DEF Iterate
    <3>2. errs' \in Seq({"BadInput", "Marshal"}) /\ Len(errs') = Len(errs) + 1
      BY <3>1, AppendProperties DEF RequestsIInv, RequestsTypeOK
    <3>. QED
      BY <1>1, <1>3, <1>4, <2>4, <2>6, <3>1, <3>2
         DEF RequestsIInv, RequestsTypeOK, LoopAccounted
  <2>. QED
    BY <2>5, <2>6
<1>. QED
  BY <1>5, <1>6

LEMMA RequestsStep == RequestsIInv /\ [RequestsNext]_vars => RequestsIInv'
<1>. SUFFICES ASSUME RequestsIInv, [RequestsNext]_vars PROVE RequestsIInv'
  OBVIOUS
<1>1. CASE Iterate
  BY <1>1, IterateIInv
<1>2. CASE Finish
  BY <1>2 DEF Finish, RequestsIInv, RequestsTypeOK, LoopAccounted
<1>3. CASE Returned \/ UNCHANGED vars
  BY <1>3 DEF Returned, vars, RequestsIInv, RequestsTypeOK, LoopAccounted
<1>. QED
  BY <1>1, <1>2, <1>3 DEF RequestsNext

(***************************************************************************)
(* MakeRequests keeps its state well typed for every bound on the         *)
(* impressions: the loop index never passes MaxImps, the requests and    *)
(* errors are sequences of their kinds, and the caller's request.Imp     *)
(* holds impressions as received or as rewritten.                         *)
(***************************************************************************)
THEOREM RequestsTypeCorrect == RequestsSpec => []RequestsTypeOK
<1>1. RequestsIInv /\ [][RequestsNext]_vars => []RequestsIInv
  BY RequestsStep, PTL
<1>. QED
  BY RequestsInitIInv, <1>1, PTL DEF RequestsSpec, RequestsIInv

(***************************************************************************)
(* MakeRequests accounts for every impression, for every bound: when it   *)
(* returns, each impression has produced one request or one error, each  *)
(* request carries one impression, and a request that json.Marshal       *)
(* rejects has produced no request.                                       *)
(***************************************************************************)
THEOREM RequestsAccounted == RequestsSpec => []ImpsAccounted
<1>1. RequestsIInv => ImpsAccounted
  BY DEF RequestsIInv, LoopAccounted, ImpsAccounted
<1>2. RequestsIInv /\ [][RequestsNext]_vars => []RequestsIInv
  BY RequestsStep, PTL
<1>. QED
  BY RequestsInitIInv, <1>1, <1>2, PTL DEF RequestsSpec

=============================================================================
