---------------------------- MODULE DV360Requests ----------------------------
(***************************************************************************)
(* DV360Adapter.MakeRequests of adapters/dv360/dv360.go: one outgoing     *)
(* request per impression of the bid request, each carrying that          *)
(* impression alone, rewritten for DV360.                                  *)
(*                                                                         *)
(* One step is one iteration of the loop over requestImpCopy, the slice   *)
(* header copied from request.Imp on entry.  The caller's request is the  *)
(* variable `request`: the loop assigns request.Imp and marshals the      *)
(* whole request as the body, so a body is the request's imps at the     *)
(* moment of json.Marshal.                                                 *)
(*                                                                         *)
(* Data is abstracted to what the rewrite looks at.  An impression has a  *)
(* banner or not, a video or not, and an ext that either fails to decode  *)
(* as adapters.ExtImpBidder, or whose bidder part fails to decode as      *)
(* ExtImpDV360, or decodes to the fields of ExtImpDV360 together with     *)
(* whether FilterPrebidSKADNExt finds a DV360 SKAdNetwork ID in it.       *)
(* json.Marshal of dv360VideoExt and dv360ImpExt cannot fail (structs of  *)
(* ints, bools and strings); the marshal of the request fails when one of *)
(* its raw JSON extensions is invalid, which `extValid` records.          *)
(***************************************************************************)
EXTENDS Naturals, Sequences

CONSTANTS
    MaxImps,     \* bound on len(request.Imp)
    Regions,     \* the ExtImpDV360.Region values, "us_east" included
    Rewards,     \* the ExtImpDV360.Reward values, 1 included
    URI,         \* adapter.URI
    USEastURI    \* adapter.SupportedRegions[USEast]

ASSUME RequestsAssumption ==
    /\ MaxImps \in Nat
    /\ "us_east" \in Regions /\ 1 \in Rewards /\ Rewards \subseteq Nat
    /\ URI # USEastURI

DV360Ext == [region : Regions, reward : Rewards, skadnSupported : BOOLEAN,
             mraidSupported : BOOLEAN, skanIDs : BOOLEAN]

(* An ext that fails json.Unmarshal, and into which type. *)
BadExts == [decodeError : {"ExtImpBidder", "ExtImpDV360"}]

(* An impression as the request carries it: its ext is what it decodes to. *)
ImpIn == [banner : BOOLEAN, video : [present : BOOLEAN],
          ext : BadExts \cup DV360Ext]

(* An impression as sent: the video ext holds rewarded, the imp ext the   *)
(* SKAdNetwork data when it was sent.                                      *)
ImpOut == [banner : BOOLEAN,
           video : [present : {FALSE}] \cup [present : {TRUE}, rewarded : {0, 1}],
           ext : [skadn : BOOLEAN]]

BidRequests == [imp : UNION {[1 .. n -> ImpIn] : n \in 0 .. MaxImps},
                extValid : BOOLEAN]

RequestData == [uri : {URI, USEastURI}, body : Seq(ImpOut),
                region : Regions, skanSupported : BOOLEAN, skanSent : BOOLEAN,
                mraidSupported : BOOLEAN]

VARIABLES
    request,          \* *request: its Imp and whether it marshals
    requestImpCopy,   \* requestImpCopy := request.Imp
    i,                \* the loop index, from 0
    requestData,      \* the requests built so far
    errs,             \* the errors so far
    pc                \* "loop" or "done"

vars == <<request, requestImpCopy, i, requestData, errs, pc>>

RequestsTypeOK ==
    /\ request \in [imp : Seq(ImpIn \cup ImpOut), extValid : BOOLEAN]
    /\ requestImpCopy \in Seq(ImpIn)
    /\ i \in 0 .. MaxImps
    /\ requestData \in Seq(RequestData)
    /\ errs \in Seq({"BadInput", "Marshal"})
    /\ pc \in {"loop", "done"}

RequestsInit ==
    /\ request \in BidRequests
    /\ requestImpCopy = request.imp
    /\ i = 0
    /\ requestData = <<>>
    /\ errs = <<>>
    /\ pc = "loop"

(***************************************************************************)
(* The copy of impression imp the loop sends, given its decoded ext e:    *)
(* the banner is dropped unless MRAID is supported, a video gets its own  *)
(* ext with rewarded = 1 exactly when e.reward = 1, and the imp ext holds *)
(* the SKAdNetwork data when SKAN is supported and an ID survives the     *)
(* filter.                                                                 *)
(***************************************************************************)
(* Mutation: SKAN marked sent whenever it is supported. *)
skanSentIgnoringIDs(e) == e.skadnSupported

skanSent(e) == e.skadnSupported /\ e.skanIDs

(* Mutation: the video ext given the reward as it came. *)
impCopyRawReward(imp, e) ==
    [banner |-> imp.banner /\ e.mraidSupported,
     video  |-> IF ~imp.video.present THEN imp.video
                ELSE [present |-> TRUE, rewarded |-> e.reward],
     ext    |-> [skadn |-> skanSent(e)]]

impCopy(imp, e) ==
    [banner |-> imp.banner /\ e.mraidSupported,
     video  |-> IF ~imp.video.present THEN imp.video
                ELSE [present |-> TRUE, rewarded |-> IF e.reward = 1 THEN 1 ELSE 0],
     ext    |-> [skadn |-> skanSent(e)]]

(* uri: adapter.URI unless SupportedRegions has the region. *)
uri(e) == IF e.region = "us_east" THEN USEastURI ELSE URI

(***************************************************************************)
(* One iteration: an ext that does not decode is a BadInput error and the *)
(* loop goes on; otherwise request.Imp = []openrtb.Imp{impCopy}, the     *)
(* request is marshalled (an error goes to errs and the loop goes on),    *)
(* and the request data is appended.                                       *)
(***************************************************************************)
Iterate ==
    LET imp == requestImpCopy[i + 1]
        e   == imp.ext
    IN  /\ pc = "loop"
        /\ i < Len(requestImpCopy)
        /\ i' = i + 1
        /\ IF e \in BadExts
             THEN /\ errs' = Append(errs, "BadInput")
                  /\ UNCHANGED <<request, requestData>>
             ELSE /\ request' = [request EXCEPT !.imp = <<impCopy(imp, e)>>]
                  /\ IF request.extValid
                       THEN /\ requestData' = Append(requestData,
                                  [uri |-> uri(e), body |-> request'.imp,
                                   region |-> e.region,
                                   skanSupported |-> e.skadnSupported,
                                   skanSent |-> skanSent(e),
                                   mraidSupported |-> e.mraidSupported])
                            /\ UNCHANGED errs
                       ELSE /\ errs' = Append(errs, "Marshal")
                            /\ UNCHANGED requestData
        /\ UNCHANGED <<requestImpCopy, pc>>

(* return requestData, errs *)
Finish ==
    /\ pc = "loop"
    /\ i = Len(requestImpCopy)
    /\ pc' = "done"
    /\ UNCHANGED <<request, requestImpCopy, i, requestData, errs>>

Returned == pc = "done" /\ UNCHANGED vars

RequestsNext == Iterate \/ Finish \/ Returned

RequestsSpec == RequestsInit /\ [][RequestsNext]_vars
-----------------------------------------------------------------------------
(* The impressions whose ext decodes, in the order of the bid request. *)
Decodable == SelectSeq(requestImpCopy, LAMBDA m : m.ext \in DV360Ext)

(***************************************************************************)
(* OneRequestPerImp: when MakeRequests returns, each request carries      *)
(* exactly one impression and the requests follow the decodable           *)
(* impressions one to one, in order: the k-th request is for the k-th    *)
(* decodable impression, goes to the URI of its region, sends its banner *)
(* only with MRAID support, marks its video rewarded exactly when the     *)
(* reward is 1, and sends SKAN data exactly when SKAN is supported and an *)
(* ID is left.  Every impression without a request has an error.  When   *)
(* the request cannot be marshalled, there is an error for every          *)
(* impression and no request at all.                                       *)
(***************************************************************************)
OneRequestPerImp ==
    pc = "done" =>
        /\ Len(requestData) + Len(errs) = Len(requestImpCopy)
        /\ Len(requestData) = IF request.extValid THEN Len(Decodable) ELSE 0
        /\ \A k \in 1 .. Len(requestData) :
              LET d == requestData[k]
                  m == Decodable[k]
                  e == m.ext
              IN  /\ Len(d.body) = 1
                  /\ d.body[1].banner <=> (m.banner /\ e.mraidSupported)
                  /\ d.body[1].video.present <=> m.video.present
                  /\ d.body[1].video.present =>
                        (d.body[1].video.rewarded = 1 <=> e.reward = 1)
                  /\ d.body[1].ext.skadn = d.skanSent
                  /\ d.skanSent <=> (e.skadnSupported /\ e.skanIDs)
                  /\ d.uri = IF e.region = "us_east" THEN USEastURI ELSE URI
                  /\ d.region = e.region

=============================================================================
