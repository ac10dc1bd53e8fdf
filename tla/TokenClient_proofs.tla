------------------------- MODULE TokenClient_proofs -------------------------
(***************************************************************************)
(* The safety of oidc-token-manager.js beside the manager itself: of the   *)
(* token requests, and of the promises their callbacks run on.             *)
(*                                                                         *)
(* Requests, for every set of redirects, silent renewals and popups, every *)
(* response type and every number of tries and reloads: a request yields   *)
(* at most one token, which passed every check and answers the request     *)
(* made last, and a pending popup is watched.  The invariant follows a     *)
(* flow through its stages (asking, checking, ended).  It rests on the     *)
(* request state: what is stored belongs to the request made last, and     *)
(* that flow has not been answered.                                        *)
(*                                                                         *)
(* Promises, for any number of them: the engine implements the contract of *)
(* promises, and leaves nothing behind.  The invariant says where every    *)
(* child waits that was not called yet (among its parent's subscribers or  *)
(* in the queue), and that the order of these places is the order of the   *)
(* children.                                                               *)
(***************************************************************************)
EXTENDS TokenRequests, Promises, SequenceTheorems, TLAPS

-----------------------------------------------------------------------------
(***************************************************************************)
(* Token requests                                                          *)
(***************************************************************************)
\* A flow that asks has no answer; if its caller was told so, it is a popup
\* that was closed, and no answer can come.
AskingIsUnanswered(r) ==
  r.pc \in Asking =>
    /\ r.defect = "none"
    /\ r.saves = 0
    /\ r.settled = "no" \/ (r.settled = "rejected" /\ r.popup = "closed")

\* A flow that is being checked is answered, and what was checked is right.
CheckingIsPending(r) ==
  r.pc \in Checking =>
    /\ r.saves = 0
    /\ r.settled = "no"
    /\ r.defect \notin ResponseDefects
    /\ r.pc # "keys" => r.defect \notin SignedDefects
    /\ r.pc = "profile" => r.defect \notin ClaimDefects

\* A flow that has ended was settled, and saved a token if it was resolved.
EndIsSettled(r) ==
  r.pc = "end" =>
    /\ r.defect = "none"
    /\ \/ r.settled = "resolved" /\ r.saves = 1
       \/ r.settled = "rejected" /\ r.saves = 0

\* An open popup is watched, and who is watched asks and is not settled.
WatchedIsWaiting(f, r) ==
  /\ r.pc = "redirectPopup" => f \in Popups
  /\ f \notin Popups => r.popup = "none"
  /\ r.popup \in {"open", "ready"} => r.interval
  /\ r.interval => f \in Popups /\ r.pc \in Asking \ {"idle"} /\ r.settled = "no"

Sound(f, r) ==
  /\ r \in FlowRecords
  /\ AskingIsUnanswered(r)
  /\ CheckingIsPending(r)
  /\ EndIsSettled(r)
  /\ WatchedIsWaiting(f, r)

\* A request that can still be answered: its flow asks, or gave up. A redirect
\* does not give up, as its page can be loaded again.
Unanswered(f, r) ==
  \/ r.pc \in {"redirectPopup", "away"}
  \/ r.pc = "end" /\ r.settled = "rejected" /\ f \notin Redirects

\* The request in the store is the one made last, and was not answered.
StoredIsLatest ==
  requestState # None =>
    /\ requestState = latest
    /\ Unanswered(latest, flow[latest])

\* The inductive invariant.
IInv ==
  /\ TypeOK
  /\ \A f \in Flows : Sound(f, flow[f])
  /\ StoredIsLatest
  /\ PendingPopupIsWatched

-----------------------------------------------------------------------------
(***************************************************************************)
(* What the checks make of a response                                      *)
(***************************************************************************)
\* A flow that is settled or not watched any more, so that it can end.
Unwatched(f, r) ==
  /\ r \in FlowRecords
  /\ ~r.interval /\ r.popup \notin {"open", "ready"}
  /\ f \notin Popups => r.popup = "none"

\* cleanup() ends the watching, and what else the flow has stays.
LEMMA CleanedUpIsUnwatched ==
  ASSUME NEW f \in Popups, NEW r \in FlowRecords, NEW named \in BOOLEAN
  PROVE  LET q == CleanedUp(r, named) IN
           /\ Unwatched(f, q) /\ q.popup = "closed"
           /\ q.pc = r.pc /\ q.defect = r.defect /\ q.settled = r.settled /\ q.saves = r.saves
<1> DEFINE callback == IF named THEN FALSE ELSE r.callback
           ended == [r EXCEPT !.interval = FALSE, !.popup = "closed"]
           q == [ended EXCEPT !.callback = callback]
<1>1. callback \in BOOLEAN
  BY DEF FlowRecords
<1>2. /\ ended \in FlowRecords /\ ended.popup = "closed" /\ ~ended.interval
      /\ ended.pc = r.pc /\ ended.defect = r.defect /\ ended.settled = r.settled
      /\ ended.saves = r.saves
  BY DEF FlowRecords
<1>3. CleanedUp(r, named) = q
  BY DEF CleanedUp
<1> HIDE DEF callback, ended
<1>4. /\ q \in FlowRecords /\ q.popup = "closed" /\ ~q.interval
      /\ q.pc = r.pc /\ q.defect = r.defect /\ q.settled = r.settled /\ q.saves = r.saves
  BY <1>1, <1>2 DEF FlowRecords
<1> QED
  BY <1>3, <1>4 DEF Unwatched

\* Its response is here: it is to be checked, and nothing is saved yet.
Answered(f, r) == Unwatched(f, r) /\ r.saves = 0 /\ r.settled = "no"

\* A flow that is rejected, or was already, is sound; so is one that was
\* resolved before, as a page that is loaded again settles no promise twice.
LEMMA RejectedIsSound ==
  ASSUME NEW f \in Flows, NEW r, Unwatched(f, r),
         \/ r.settled \in {"no", "rejected"} /\ r.saves = 0
         \/ r.settled = "resolved" /\ r.saves = 1
  PROVE  /\ Sound(f, Rejected(r))
         /\ Rejected(r).pc = "end"
         /\ r.settled # "resolved" => Rejected(r).settled = "rejected"
         /\ ~Rejected(r).interval
<1> DEFINE how == IF r.settled = "no" THEN "rejected" ELSE r.settled
           q == [r EXCEPT !.pc = "end", !.defect = "none", !.tries = 0,
                          !.settled = how]
<1>1. Rejected(r) = q
  BY DEF Rejected, Settle, Unwatched, FlowRecords
<1>2. q \in FlowRecords
  <2> DEFINE ended == [r EXCEPT !.pc = "end", !.defect = "none"]
             untried == [ended EXCEPT !.tries = 0]
  <2>1. ended \in FlowRecords
    BY DEF Unwatched, FlowRecords
  <2>2. untried \in FlowRecords
    <3> HIDE DEF ended
    <3> QED BY <2>1, BoundsAssumption DEF FlowRecords
  <2>3. [untried EXCEPT !.settled = how] \in FlowRecords
    <3> HIDE DEF untried
    <3> QED BY <2>2 DEF Unwatched, FlowRecords
  <2> QED BY <2>3
<1> QED
  BY <1>1, <1>2 DEF Unwatched, FlowRecords, Sound, AskingIsUnanswered,
     CheckingIsPending, EndIsSettled, WatchedIsWaiting, Asking, Checking

\* A flow whose response has passed every check saves one token.
LEMMA SavedIsSoundFlow ==
  ASSUME NEW f \in Flows, NEW r, Answered(f, r), r.defect = "none"
  PROVE  Sound(f, Saved(r)) /\ ~Saved(r).interval
<1> DEFINE q == [r EXCEPT !.pc = "end", !.saves = 1, !.settled = "resolved"]
<1>1. Saved(r) = q
  BY DEF Saved, Settle, Answered, Unwatched, FlowRecords
<1>2. q \in FlowRecords
  BY DEF Answered, Unwatched, FlowRecords
<1> QED
  BY <1>1, <1>2 DEF Answered, Unwatched, FlowRecords, Sound, AskingIsUnanswered,
     CheckingIsPending, EndIsSettled, WatchedIsWaiting, Asking, Checking

\* The flow goes on to wait for a document, with what is checked so far.
LEMMA WaitingIsSound ==
  ASSUME NEW f \in Flows, NEW r, Answered(f, r), NEW pc \in Checking,
         r.defect \notin ResponseDefects,
         pc # "keys" => r.defect \notin SignedDefects,
         pc = "profile" => r.defect \notin ClaimDefects
  PROVE  Sound(f, Goto(r, pc)) /\ ~Goto(r, pc).interval
<1> DEFINE q == [r EXCEPT !.pc = pc]
<1>1. q \in FlowRecords
  BY DEF Answered, Unwatched, FlowRecords
<1>2. q.pc = pc
  BY DEF Answered, Unwatched, FlowRecords
<1> QED
  BY <1>1, <1>2 DEF Goto, Answered, Unwatched, FlowRecords, Sound, AskingIsUnanswered,
     CheckingIsPending, EndIsSettled, WatchedIsWaiting, Asking, Checking

\* The checks, from the last to the first.
LEMMA AccessTokenIsSound ==
  ASSUME NEW f \in Flows, NEW r, Answered(f, r),
         r.defect \notin ResponseDefects \union SignedDefects \union ClaimDefects,
         NEW q \in AccessTokenChecked(r)
  PROVE  Sound(f, q) /\ ~q.interval
<1>1. CASE r.defect \in HashDefects
  BY <1>1, RejectedIsSound DEF AccessTokenChecked, Answered
<1>2. CASE r.defect \notin HashDefects
  <2>1. r.defect = "none"
    BY <1>2 DEF Answered, Unwatched, FlowRecords, Defects
  <2> QED
    BY <1>2, <2>1, SavedIsSoundFlow DEF AccessTokenChecked
<1> QED BY <1>1, <1>2

LEMMA ClaimsAreSound ==
  ASSUME NEW f \in Flows, NEW r, Answered(f, r),
         r.defect \notin ResponseDefects \union SignedDefects,
         NEW q \in ClaimsChecked(r)
  PROVE  Sound(f, q) /\ ~q.interval
<1>1. CASE r.defect \in ClaimDefects
  BY <1>1, RejectedIsSound DEF ClaimsChecked, Answered
<1>2. CASE r.defect \notin ClaimDefects
  <2>1. CASE q \in AccessTokenChecked(r)
    BY <1>2, <2>1, AccessTokenIsSound
  <2>2. CASE q = Goto(r, "profile")
    BY <1>2, <2>2, WaitingIsSound DEF Checking
  <2> QED
    BY <1>2, <2>1, <2>2 DEF ClaimsChecked
<1> QED BY <1>1, <1>2

LEMMA SignatureIsSound ==
  ASSUME NEW f \in Flows, NEW r, Answered(f, r),
         r.defect \notin ResponseDefects,
         NEW q \in SignatureChecked(r)
  PROVE  Sound(f, q) /\ ~q.interval
<1>1. CASE r.defect \in SignedDefects
  BY <1>1, RejectedIsSound DEF SignatureChecked, Answered
<1>2. CASE r.defect \notin SignedDefects
  <2>1. CASE q \in ClaimsChecked(r)
    BY <1>2, <2>1, ClaimsAreSound
  <2>2. CASE q = Goto(r, "metadata")
    BY <1>2, <2>2, WaitingIsSound DEF Checking
  <2> QED
    BY <1>2, <2>1, <2>2 DEF SignatureChecked
<1> QED BY <1>1, <1>2

\* Without an id_token there is nothing to check after processResponseAsync.
LEMMA ResponseIsSound ==
  ASSUME NEW f \in Flows, NEW r, Answered(f, r),
         NEW q \in ResponseChecked(f, r)
  PROVE  /\ Sound(f, q)
         /\ ~q.interval
         /\ q.settled = "rejected" \/ requestState = f
<1>1. CASE requestState # f \/ r.defect \in ResponseDefects
  BY <1>1, RejectedIsSound DEF ResponseChecked, Answered
<1>2. CASE requestState = f /\ r.defect \notin ResponseDefects
  <2>1. CASE isOidc /\ q \in SignatureChecked(r)
    BY <1>2, <2>1, SignatureIsSound
  <2>2. CASE isOidc /\ q = Goto(r, "keys")
    BY <1>2, <2>2, WaitingIsSound DEF Checking
  <2>3. CASE ~isOidc /\ q = Saved(r)
    <3>1. r.defect = "none"
      BY <1>2, <2>3 DEF Answered, Unwatched, FlowRecords, Defects, SignedDefects,
         ClaimDefects, HashDefects
    <3> QED BY <1>2, <2>3, <3>1, SavedIsSoundFlow
  <2> QED
    BY <1>2, <2>1, <2>2, <2>3 DEF ResponseChecked
<1> QED BY <1>1, <1>2

-----------------------------------------------------------------------------
(***************************************************************************)
(* The steps                                                               *)
(***************************************************************************)
LEMMA Initially == Init => IInv
<1> SUFFICES ASSUME Init PROVE IInv
  OBVIOUS
<1>1. Idle \in FlowRecords
  BY BoundsAssumption DEF Idle, FlowRecords, Asking
<1>2. \A f \in Flows : Sound(f, flow[f])
  BY <1>1 DEF Init, Idle, Sound, AskingIsUnanswered, CheckingIsPending, EndIsSettled,
     WatchedIsWaiting, Asking, Checking
<1> QED
  BY <1>1, <1>2 DEF Init, IInv, TypeOK, StoredIsLatest, PendingPopupIsWatched

\* The request in the store after a step of f, which becomes r: the same one,
\* still without an answer; none; or the one that f makes.
RequestMoves(f, r) ==
  \/ /\ UNCHANGED <<requestState, latest>>
     /\ Unanswered(f, flow[f]) => Unanswered(f, r)
  \/ requestState' = None /\ UNCHANGED latest
  \/ requestState' = f /\ latest' = f /\ Unanswered(f, r)

\* A popup is pending after a step of f when it was, and f did not stop
\* watching its own, or when f opens one.
PendingMoves(f, r) ==
  \/ UNCHANGED pendingPopup /\ (r.interval \/ ~flow[f].interval)
  \/ pendingPopup' = TRUE /\ r.interval
  \/ pendingPopup' = FALSE

LEMMA OneFlow ==
  ASSUME IInv, NEW f \in Flows, NEW r, Set(f, r), Sound(f, r),
         RequestMoves(f, r), PendingMoves(f, r)
  PROVE  IInv'
<1>1. /\ flow' \in [Flows -> FlowRecords]
      /\ flow'[f] = r
      /\ \A g \in Flows \ {f} : flow'[g] = flow[g]
  BY DEF Set, IInv, TypeOK, Sound
<1>2. \A g \in Flows : Sound(g, flow'[g])
  BY <1>1 DEF IInv, TypeOK
<1>3. StoredIsLatest'
  BY <1>1, FlowsAssumption DEF IInv, TypeOK, RequestMoves, StoredIsLatest
<1>4. PendingPopupIsWatched'
  BY <1>1, <1>2 DEF IInv, TypeOK, PendingMoves, PendingPopupIsWatched, Sound, WatchedIsWaiting, Flows
<1>5. /\ {requestState, latest}' \subseteq Flows \union {None}
      /\ pendingPopup' \in BOOLEAN
  BY DEF IInv, TypeOK, RequestMoves, PendingMoves
<1> QED
  BY <1>1, <1>2, <1>3, <1>4, <1>5 DEF IInv, TypeOK, Sound, AskingIsUnanswered, CheckingIsPending,
     EndIsSettled, WatchedIsWaiting

\* A flow that can make its request: it was not answered, and a popup is open.
Asks(f, r) ==
  /\ r \in FlowRecords
  /\ r.pc \in {"idle", "endpoint"}
  /\ AskingIsUnanswered(r)
  /\ f \notin Popups => r.popup = "none"
  /\ r.popup \in {"open", "ready"} => r.interval
  /\ r.interval => f \in Popups /\ r.settled = "no"

Asked(r, callback, pc) == [r EXCEPT !.callback = callback, !.pc = pc]

LEMMA AskingFurther ==
  ASSUME NEW f \in Flows, NEW r, Asks(f, r), NEW callback \in BOOLEAN,
         NEW pc \in {"endpoint", "redirectPopup", "away"},
         pc = "redirectPopup" => f \in Popups
  PROVE  /\ Sound(f, Asked(r, callback, pc))
         /\ Asked(r, callback, pc).pc = pc
         /\ Asked(r, callback, pc).interval = r.interval
<1> DEFINE waits == [r EXCEPT !.callback = callback]
           q == [waits EXCEPT !.pc = pc]
<1>1. /\ waits \in FlowRecords
      /\ waits.defect = r.defect /\ waits.settled = r.settled
      /\ waits.popup = r.popup /\ waits.interval = r.interval /\ waits.saves = r.saves
  BY DEF Asks, FlowRecords
<1> HIDE DEF waits
<1>2. /\ q \in FlowRecords
      /\ q.pc = pc /\ q.defect = r.defect /\ q.settled = r.settled
      /\ q.popup = r.popup /\ q.interval = r.interval /\ q.saves = r.saves
  BY <1>1 DEF FlowRecords, Asking
<1> HIDE DEF q
<1>3. Sound(f, q)
  BY <1>2 DEF Asks, Sound, AskingIsUnanswered, CheckingIsPending, EndIsSettled,
     WatchedIsWaiting, Asking, Checking
<1> QED
  BY <1>2, <1>3 DEF Asked, q, waits

LEMMA CreateRequestKeeps ==
  ASSUME IInv, NEW f \in Flows, NEW r, Asks(f, r), CreateRequest(f, r), PendingMoves(f, r)
  PROVE  IInv'
<1> DEFINE callback == f \in Popups
           pc == IF f \in Popups THEN "redirectPopup" ELSE "away"
           q == Asked(r, callback, pc)
<1>1. Set(f, q) /\ requestState' = f /\ latest' = f
  BY DEF CreateRequest, Asked
<1>2. /\ callback \in BOOLEAN
      /\ pc \in {"redirectPopup", "away"} /\ (pc = "redirectPopup" => f \in Popups)
  OBVIOUS
<1> HIDE DEF callback, pc
<1>3. Sound(f, q) /\ q.pc = pc /\ q.interval = r.interval
  BY <1>2, AskingFurther
<1> HIDE DEF q
<1>4. RequestMoves(f, q)
  BY <1>1, <1>2, <1>3 DEF RequestMoves, Unanswered
<1>5. PendingMoves(f, q)
  BY <1>3 DEF PendingMoves
<1> QED
  BY <1>1, <1>3, <1>4, <1>5, OneFlow

LEMMA BeginKeeps ==
  ASSUME IInv, NEW f \in Flows, At(f, "idle"), NEW r, Asks(f, r), Begin(f, r),
         PendingMoves(f, r)
  PROVE  IInv'
<1>1. CASE CreateRequest(f, r)
  BY <1>1, CreateRequestKeeps
<1>2. CASE Set(f, Goto(r, "endpoint")) /\ UNCHANGED <<requestState, latest>>
  <2> DEFINE q == Asked(r, r.callback, "endpoint")
  <2>1. q = Goto(r, "endpoint")
    BY DEF Asked, Goto, Asks, FlowRecords
  <2>2. Sound(f, q) /\ q.interval = r.interval
    BY AskingFurther DEF Asks, FlowRecords
  <2> HIDE DEF q
  <2>3. RequestMoves(f, q)
    BY <1>2 DEF RequestMoves, Unanswered, At
  <2>4. PendingMoves(f, q)
    BY <2>2 DEF PendingMoves
  <2> QED
    BY <1>2, <2>1, <2>2, <2>3, <2>4, OneFlow
<1> QED BY <1>1, <1>2 DEF Begin

\* A flow starts unwatched, but for a popup, which is watched from the start.
LEMMA IdleAsks ==
  ASSUME NEW f \in Flows
  PROVE  /\ Asks(f, Idle) /\ Unwatched(f, Idle)
         /\ f \in Popups =>
              LET r == [Idle EXCEPT !.popup = "open", !.interval = TRUE] IN
                Asks(f, r) /\ r.interval
<1>1. Idle \in FlowRecords
  BY BoundsAssumption DEF Idle, FlowRecords, Asking
<1>2. Asks(f, Idle) /\ Unwatched(f, Idle)
  BY <1>1 DEF Idle, Asks, Unwatched, AskingIsUnanswered
<1> DEFINE opened == [Idle EXCEPT !.popup = "open"]
           r == [opened EXCEPT !.interval = TRUE]
<1>3. /\ opened \in FlowRecords
      /\ opened.pc = "idle" /\ opened.defect = "none" /\ opened.settled = "no"
      /\ opened.popup = "open" /\ opened.saves = 0
  BY <1>1 DEF Idle, FlowRecords
<1> HIDE DEF opened
<1>4. /\ r \in FlowRecords
      /\ r.pc = "idle" /\ r.defect = "none" /\ r.settled = "no"
      /\ r.popup = "open" /\ r.saves = 0 /\ r.interval
  BY <1>3 DEF FlowRecords
<1> HIDE DEF r
<1>5. f \in Popups => Asks(f, r) /\ r.interval
  BY <1>4 DEF Asks, AskingIsUnanswered
<1> QED
  BY <1>2, <1>5 DEF r, opened

\* A flow at its start is not watched, as a flow is watched from its first step.
LEMMA StartKeeps ==
  ASSUME IInv, NEW f \in Flows,
         RedirectForToken(f) \/ RenewTokenSilentAsync(f) \/ OpenPopup(f)
  PROVE  IInv'
<1>1. CASE RedirectForToken(f) \/ RenewTokenSilentAsync(f)
  <2>1. ~flow[f].interval
    BY <1>1, FlowsAssumption DEF IInv, TypeOK, Sound, WatchedIsWaiting, RedirectForToken,
       RenewTokenSilentAsync
  <2>2. PendingMoves(f, Idle)
    BY <1>1, <2>1 DEF PendingMoves, RedirectForToken, RenewTokenSilentAsync
  <2> QED
    BY <1>1, <2>2, IdleAsks, BeginKeeps DEF RedirectForToken, RenewTokenSilentAsync
<1>2. CASE OpenPopup(f)
  <2> DEFINE r == [Idle EXCEPT !.popup = "open", !.interval = TRUE]
  <2>1. Asks(f, r) /\ r.interval
    BY <1>2, IdleAsks DEF OpenPopup
  <2>2. PendingMoves(f, r)
    BY <1>2, <2>1 DEF PendingMoves, OpenPopup
  <2>3. At(f, "idle") /\ Begin(f, r)
    BY <1>2 DEF OpenPopup
  <2> HIDE DEF r
  <2> QED
    BY <2>1, <2>2, <2>3, BeginKeeps
<1> QED BY <1>1, <1>2

\* A flow that cannot go on is rejected: what it leaves in the store, if it made
\* a request, is its own.
LEMMA RejectedKeeps ==
  ASSUME IInv, NEW f \in Flows, NEW r, Unwatched(f, r),
         r.settled \in {"no", "rejected"} /\ r.saves = 0,
         Set(f, Rejected(r)), UNCHANGED <<requestState, latest>>,
         ~flow[f].interval \/ pendingPopup' = FALSE,
         UNCHANGED pendingPopup \/ pendingPopup' = FALSE,
         Unanswered(f, flow[f]) => f \notin Redirects
  PROVE  IInv'
<1> DEFINE q == Rejected(r)
<1>1. Sound(f, q) /\ q.pc = "end" /\ q.settled = "rejected" /\ ~q.interval
  BY RejectedIsSound
<1> HIDE DEF q
<1>2. RequestMoves(f, q)
  BY <1>1 DEF RequestMoves, Unanswered
<1>3. PendingMoves(f, q)
  BY <1>1 DEF PendingMoves
<1> QED
  BY <1>1, <1>2, <1>3, OneFlow DEF q

LEMMA OpenFailsKeeps ==
  ASSUME IInv, NEW f \in Flows, OpenPopupRefused(f) \/ OpenPopupBlocked(f)
  PROVE  IInv'
<1>1. Unwatched(f, Idle) /\ Idle.settled = "no" /\ Idle.saves = 0
  BY IdleAsks DEF Idle
<1>2. /\ Set(f, Rejected(Idle)) /\ UNCHANGED <<requestState, pendingPopup, latest>>
      /\ At(f, "idle")
  BY DEF OpenPopupRefused, OpenPopupBlocked
<1>3. ~flow[f].interval
  BY <1>2 DEF IInv, TypeOK, Sound, WatchedIsWaiting, At
<1> QED
  BY <1>1, <1>2, <1>3, RejectedKeeps DEF At, Unanswered

\* The metadata is here, or is not to be had.
LEMMA MetadataKeeps ==
  ASSUME IInv, NEW f \in Flows, MetadataLoaded(f) \/ MetadataFails(f)
  PROVE  IInv'
<1>1. CASE MetadataLoaded(f)
  <2>1. Asks(f, flow[f])
    BY <1>1 DEF MetadataLoaded, At, IInv, TypeOK, Sound, Asks, WatchedIsWaiting
  <2>2. PendingMoves(f, flow[f])
    BY <1>1 DEF MetadataLoaded, PendingMoves
  <2> QED
    BY <1>1, <2>1, <2>2, CreateRequestKeeps DEF MetadataLoaded
<1>2. CASE MetadataFails(f)
  <2> DEFINE r == IF f \in Popups THEN CleanedUp(flow[f], FALSE) ELSE flow[f]
  <2>1. /\ Set(f, Rejected(r)) /\ UNCHANGED <<requestState, latest>>
        /\ At(f, "endpoint")
        /\ pendingPopup' = (pendingPopup /\ f \notin Popups)
    BY <1>2 DEF MetadataFails
  <2>2. /\ Unwatched(f, r)
        /\ r.settled = flow[f].settled /\ r.saves = flow[f].saves
    BY CleanedUpIsUnwatched DEF Unwatched, IInv, TypeOK, Sound, WatchedIsWaiting
  <2> HIDE DEF r
  <2>3. r.settled \in {"no", "rejected"} /\ r.saves = 0
    BY <2>1, <2>2 DEF IInv, TypeOK, Sound, AskingIsUnanswered, Asking, At
  <2>4. ~flow[f].interval \/ pendingPopup' = FALSE
    BY <2>1 DEF IInv, TypeOK, Sound, WatchedIsWaiting
  <2>5. UNCHANGED pendingPopup \/ pendingPopup' = FALSE
    BY <2>1 DEF IInv, TypeOK
  <2> QED
    BY <2>1, <2>2, <2>3, <2>4, <2>5, RejectedKeeps DEF At, Unanswered
<1> QED BY <1>1, <1>2

\* What happens to the window of a popup changes nothing else; the watcher of a
\* closed popup tells its caller.
LEMMA PopupKeeps ==
  ASSUME IInv, NEW f \in Flows,
         PopupReady(f) \/ PopupClosed(f) \/ CheckClosed(f)
  PROVE  IInv'
<1>1. ASSUME NEW popup \in {"ready", "closed"}, flow[f].popup \in {"open", "ready"},
             Set(f, [flow[f] EXCEPT !.popup = popup]),
             UNCHANGED <<requestState, pendingPopup, latest>>
      PROVE  IInv'
  <2> DEFINE r == flow[f]
             q == [r EXCEPT !.popup = popup]
  <2>1. Sound(f, r) /\ r.interval
    BY <1>1 DEF IInv, TypeOK, Sound, WatchedIsWaiting
  <2> HIDE DEF r
  <2>2. /\ q \in FlowRecords
        /\ q.pc = r.pc /\ q.defect = r.defect /\ q.settled = r.settled
        /\ q.popup = popup /\ q.interval = r.interval /\ q.saves = r.saves
    BY <2>1 DEF Sound, FlowRecords
  <2> HIDE DEF q
  <2>3. Sound(f, q)
    BY <2>1, <2>2 DEF Sound, AskingIsUnanswered, CheckingIsPending, EndIsSettled,
       WatchedIsWaiting, Asking, Checking
  <2>4. RequestMoves(f, q) /\ PendingMoves(f, q)
    BY <1>1, <2>1, <2>2 DEF RequestMoves, PendingMoves, Unanswered, r
  <2> QED
    BY <1>1, <2>3, <2>4, OneFlow DEF q, r
<1>2. CASE CheckClosed(f)
  <2> DEFINE r == flow[f]
             cleaned == CleanedUp(r, FALSE)
             q == [cleaned EXCEPT !.settled = "rejected"]
  <2>1. Sound(f, r) /\ r.interval /\ r.settled = "no"
    BY <1>2 DEF CheckClosed, IInv, TypeOK, Sound, WatchedIsWaiting
  <2> HIDE DEF r
  <2>2. /\ cleaned \in FlowRecords
        /\ cleaned.pc = r.pc /\ cleaned.defect = r.defect /\ cleaned.settled = "no"
        /\ cleaned.popup = "closed" /\ ~cleaned.interval /\ cleaned.saves = r.saves
    BY <2>1, CleanedUpIsUnwatched DEF Unwatched, Sound, WatchedIsWaiting
  <2>3. Settle(cleaned, "rejected") = q
    BY <2>2 DEF Settle
  <2> HIDE DEF cleaned
  <2>4. /\ q \in FlowRecords
        /\ q.pc = r.pc /\ q.defect = r.defect /\ q.settled = "rejected"
        /\ q.popup = "closed" /\ ~q.interval /\ q.saves = r.saves
    BY <2>2 DEF FlowRecords
  <2>5. Set(f, q) /\ UNCHANGED <<requestState, latest>> /\ pendingPopup' = FALSE
    BY <1>2, <2>3 DEF CheckClosed, cleaned, r
  <2> HIDE DEF q
  <2>6. Sound(f, q)
    BY <2>1, <2>4 DEF Sound, AskingIsUnanswered, CheckingIsPending, EndIsSettled,
       WatchedIsWaiting, Asking, Checking
  <2>7. RequestMoves(f, q) /\ PendingMoves(f, q)
    BY <2>1, <2>4, <2>5 DEF RequestMoves, PendingMoves, Unanswered, r
  <2> QED
    BY <2>5, <2>6, <2>7, OneFlow
<1> QED BY <1>1, <1>2 DEF PopupReady, PopupClosed

\* The popup is redirected once it is ready, and given up after its last try.
LEMMA RedirectPopupKeeps ==
  ASSUME IInv, NEW f \in Flows, RedirectPopup(f)
  PROVE  IInv'
<1> DEFINE r == flow[f]
<1>1. /\ Sound(f, r) /\ r.pc = "redirectPopup"
      /\ UNCHANGED <<requestState, latest>>
  BY DEF RedirectPopup, IInv, TypeOK, At
<1>2. ASSUME NEW tries \in 0..Tries, NEW pc \in {"redirectPopup", "away"},
             Set(f, [r EXCEPT !.tries = tries, !.pc = pc]), UNCHANGED pendingPopup
      PROVE  IInv'
  <2> DEFINE tried == [r EXCEPT !.tries = tries]
             q == [tried EXCEPT !.pc = pc]
  <2> HIDE DEF r
  <2>1. /\ tried \in FlowRecords
        /\ tried.defect = r.defect /\ tried.settled = r.settled
        /\ tried.popup = r.popup /\ tried.interval = r.interval /\ tried.saves = r.saves
    BY <1>1 DEF Sound, FlowRecords
  <2> HIDE DEF tried
  <2>2. /\ q \in FlowRecords
        /\ q.pc = pc /\ q.defect = r.defect /\ q.settled = r.settled
        /\ q.popup = r.popup /\ q.interval = r.interval /\ q.saves = r.saves
    BY <2>1 DEF FlowRecords, Asking
  <2>3. Set(f, q)
    BY <1>2 DEF tried
  <2> HIDE DEF q
  <2>4. Sound(f, q)
    BY <1>1, <2>2 DEF Sound, AskingIsUnanswered, CheckingIsPending, EndIsSettled,
       WatchedIsWaiting, Asking, Checking
  <2>5. RequestMoves(f, q) /\ PendingMoves(f, q)
    BY <1>1, <1>2, <2>2 DEF RequestMoves, PendingMoves, Unanswered, r
  <2> QED
    BY <2>3, <2>4, <2>5, OneFlow
<1>3. CASE r.popup = "ready" /\ UNCHANGED pendingPopup
           /\ Set(f, Goto([r EXCEPT !.tries = 0], "away"))
  <2>1. 0 \in 0..Tries
    BY BoundsAssumption
  <2>2. Set(f, [r EXCEPT !.tries = 0, !.pc = "away"])
    BY <1>3 DEF Goto
  <2> QED
    BY <1>2, <1>3, <2>1, <2>2
<1>4. CASE r.popup # "ready" /\ r.tries < Tries /\ UNCHANGED pendingPopup
           /\ Set(f, [r EXCEPT !.tries = @ + 1])
  <2>1. r.tries + 1 \in 0..Tries
    BY <1>1, <1>4, BoundsAssumption DEF Sound, FlowRecords
  <2>2. [r EXCEPT !.tries = @ + 1] = [r EXCEPT !.tries = r.tries + 1, !.pc = "redirectPopup"]
    BY <1>1 DEF Sound, FlowRecords
  <2> QED
    BY <1>2, <1>4, <2>1, <2>2
<1>5. CASE Set(f, Rejected(CleanedUp(r, TRUE))) /\ pendingPopup' = FALSE
  <2>1. /\ Unwatched(f, CleanedUp(r, TRUE))
        /\ CleanedUp(r, TRUE).settled = r.settled /\ CleanedUp(r, TRUE).saves = r.saves
    BY <1>1, CleanedUpIsUnwatched DEF Sound, WatchedIsWaiting
  <2>2. r.settled \in {"no", "rejected"} /\ r.saves = 0
    BY <1>1 DEF Sound, AskingIsUnanswered, Asking
  <2> QED
    BY <1>1, <1>5, <2>1, <2>2, RejectedKeeps, FlowsAssumption DEF Sound, WatchedIsWaiting
<1> QED BY <1>3, <1>4, <1>5 DEF RedirectPopup, At

\* A response takes the request out of the store, whatever becomes of its flow.
LEMMA ProcessResponseKeeps ==
  ASSUME IInv, NEW f \in Flows, NEW r, Answered(f, r), ProcessResponse(f, r),
         UNCHANGED latest,
         (UNCHANGED pendingPopup /\ ~flow[f].interval) \/ pendingPopup' = FALSE
  PROVE  IInv'
<1>1. PICK q \in ResponseChecked(f, r) : Set(f, q)
  BY DEF ProcessResponse, Becomes
<1>2. Sound(f, q) /\ ~q.interval
  BY ResponseIsSound
<1>3. RequestMoves(f, q) /\ PendingMoves(f, q)
  BY <1>2 DEF RequestMoves, PendingMoves, ProcessResponse
<1> QED
  BY <1>1, <1>2, <1>3, OneFlow

\* A response to a flow that is not watched any more.
LEMMA AnsweredWith ==
  ASSUME NEW f \in Flows, NEW r, Unwatched(f, r), r.saves = 0, r.settled = "no",
         NEW d \in {"none"} \union Defects, NEW responses \in Nat
  PROVE  /\ Answered(f, [r EXCEPT !.defect = d])
         /\ Answered(f, [r EXCEPT !.defect = d, !.responses = responses])
<1> DEFINE q == [r EXCEPT !.defect = d]
<1>1. /\ q \in FlowRecords /\ q.settled = "no" /\ q.saves = 0
      /\ q.popup = r.popup /\ q.interval = r.interval
  BY DEF Unwatched, FlowRecords
<1> HIDE DEF q
<1>2. /\ [q EXCEPT !.responses = responses] \in FlowRecords
      /\ [q EXCEPT !.responses = responses].settled = "no"
      /\ [q EXCEPT !.responses = responses].saves = 0
      /\ [q EXCEPT !.responses = responses].popup = r.popup
      /\ [q EXCEPT !.responses = responses].interval = r.interval
  BY <1>1 DEF FlowRecords
<1> QED
  BY <1>1, <1>2 DEF Answered, Unwatched, q

\* The frame and the page that is redirected are waited for without a popup,
\* so that nobody was told yet that there is no answer.
LEMMA SilentOrRedirectWaits ==
  ASSUME IInv, NEW f \in Silents \union Redirects, At(f, "away")
  PROVE  /\ Unwatched(f, flow[f])
         /\ flow[f].saves = 0 /\ flow[f].settled = "no" /\ ~flow[f].interval
  BY FlowsAssumption DEF Flows, IInv, TypeOK, Sound, AskingIsUnanswered, WatchedIsWaiting, Unwatched,
     At, Asking

\* Whatever way a response comes in, its flow waits for it.
LEMMA AnsweredResponse ==
  ASSUME IInv, NEW f \in Flows,
         SilentResponse(f) \/ PopupResponse(f) \/ RedirectResponse(f)
  PROVE  /\ \E r : Answered(f, r) /\ ProcessResponse(f, r)
         /\ UNCHANGED latest
         /\ (UNCHANGED pendingPopup /\ ~flow[f].interval) \/ pendingPopup' = FALSE
<1>1. CASE SilentResponse(f)
  <2>1. PICK d \in {"none"} \union Defects :
          ProcessResponse(f, [flow[f] EXCEPT !.defect = d])
    BY <1>1 DEF SilentResponse
  <2>2. Answered(f, [flow[f] EXCEPT !.defect = d]) /\ ~flow[f].interval
    BY <1>1, SilentOrRedirectWaits, AnsweredWith DEF SilentResponse
  <2> QED
    BY <1>1, <2>1, <2>2 DEF SilentResponse
<1>2. CASE RedirectResponse(f)
  <2>1. PICK d \in {"none"} \union Defects :
          ProcessResponse(f, [flow[f] EXCEPT !.defect = d, !.responses = 1])
    BY <1>2 DEF RedirectResponse
  <2>2. Answered(f, [flow[f] EXCEPT !.defect = d, !.responses = 1]) /\ ~flow[f].interval
    BY <1>2, SilentOrRedirectWaits, AnsweredWith DEF RedirectResponse
  <2> QED
    BY <1>2, <2>1, <2>2 DEF RedirectResponse
<1>3. CASE PopupResponse(f)
  <2> DEFINE r == CleanedUp(flow[f], TRUE)
  <2>1. PICK d \in {"none"} \union Defects :
          ProcessResponse(f, [r EXCEPT !.defect = d])
    BY <1>3 DEF PopupResponse
  <2>2. flow[f].settled = "no" /\ flow[f].saves = 0
    BY <1>3 DEF PopupResponse, IInv, TypeOK, Sound, AskingIsUnanswered, WatchedIsWaiting, At, Asking
  <2>3. Unwatched(f, r) /\ r.settled = "no" /\ r.saves = 0
    BY <1>3, <2>2, CleanedUpIsUnwatched DEF PopupResponse, IInv, TypeOK
  <2> HIDE DEF r
  <2>4. Answered(f, [r EXCEPT !.defect = d])
    BY <2>3, AnsweredWith
  <2> QED
    BY <1>3, <2>1, <2>4 DEF PopupResponse
<1> QED BY <1>1, <1>2, <1>3

LEMMA ResponseKeeps ==
  ASSUME IInv, NEW f \in Flows,
         SilentResponse(f) \/ PopupResponse(f) \/ RedirectResponse(f)
  PROVE  IInv'
  BY AnsweredResponse, ProcessResponseKeeps

\* A callback page that is loaded again finds no request of its own: it was
\* taken out the first time.
LEMMA ReplayKeeps ==
  ASSUME IInv, NEW f \in Flows, RedirectReplayed(f)
  PROVE  IInv'
<1> DEFINE r == [flow[f] EXCEPT !.responses = @ + 1]
<1>1. requestState # f
  BY FlowsAssumption DEF IInv, TypeOK, StoredIsLatest, Unanswered, RedirectReplayed, At
<1>2. Set(f, Rejected(r)) /\ requestState' = None /\ UNCHANGED <<pendingPopup, latest>>
  BY <1>1 DEF RedirectReplayed, ProcessResponse, Becomes, ResponseChecked
<1>3. /\ Unwatched(f, flow[f])
      /\ \/ flow[f].settled = "rejected" /\ flow[f].saves = 0
         \/ flow[f].settled = "resolved" /\ flow[f].saves = 1
  BY DEF RedirectReplayed, At, IInv, TypeOK, Sound, EndIsSettled, WatchedIsWaiting, Unwatched, Asking
<1>4. /\ Unwatched(f, r)
      /\ r.settled = flow[f].settled /\ r.saves = flow[f].saves
  BY <1>3 DEF Unwatched, FlowRecords
<1> HIDE DEF r
<1>5. Sound(f, Rejected(r)) /\ ~Rejected(r).interval
  BY <1>3, <1>4, RejectedIsSound
<1>6. RequestMoves(f, Rejected(r)) /\ PendingMoves(f, Rejected(r))
  BY <1>2, <1>3, <1>5 DEF RequestMoves, PendingMoves, Unwatched
<1> QED
  BY <1>2, <1>5, <1>6, OneFlow

LEMMA FrameTimeoutKeeps ==
  ASSUME IInv, NEW f \in Flows, FrameTimeout(f)
  PROVE  IInv'
<1>1. /\ Unwatched(f, flow[f])
      /\ flow[f].saves = 0 /\ flow[f].settled = "no" /\ ~flow[f].interval
  BY SilentOrRedirectWaits DEF FrameTimeout
<1> QED
  BY <1>1, RejectedKeeps, FlowsAssumption DEF FrameTimeout

\* A document that a response waits for is here, or is not to be had.
LEMMA DocumentKeeps ==
  ASSUME IInv, NEW f \in Flows,
         KeysLoaded(f) \/ IssuerLoaded(f) \/ ProfileLoaded(f) \/ LoadFails(f)
  PROVE  IInv'
<1> DEFINE r == flow[f]
<1>1. r.pc \in Checking /\ UNCHANGED <<requestState, pendingPopup, latest>>
  BY DEF KeysLoaded, IssuerLoaded, ProfileLoaded, LoadFails, At, Checking
<1>2. Answered(f, r) /\ CheckingIsPending(r) /\ ~r.interval
  BY <1>1 DEF IInv, TypeOK, Sound, CheckingIsPending, WatchedIsWaiting, Answered, Unwatched,
     Asking, Checking
<1>3. ASSUME NEW q, Sound(f, q), ~q.interval, Set(f, q)
      PROVE  IInv'
  <2>1. RequestMoves(f, q) /\ PendingMoves(f, q)
    BY <1>1, <1>2, <1>3 DEF RequestMoves, PendingMoves, Unanswered, Checking
  <2> QED
    BY <1>3, <2>1, OneFlow
<1>4. CASE KeysLoaded(f)
  <2>1. PICK q \in SignatureChecked(r) : Set(f, q)
    BY <1>4 DEF KeysLoaded, Becomes
  <2>2. Sound(f, q) /\ ~q.interval
    BY <1>1, <1>2, SignatureIsSound DEF CheckingIsPending
  <2> QED BY <1>3, <2>1, <2>2
<1>5. CASE IssuerLoaded(f)
  <2>1. PICK q \in ClaimsChecked(r) : Set(f, q)
    BY <1>5 DEF IssuerLoaded, Becomes
  <2>2. Sound(f, q) /\ ~q.interval
    BY <1>1, <1>2, <1>5, ClaimsAreSound DEF CheckingIsPending, IssuerLoaded, At
  <2> QED BY <1>3, <2>1, <2>2
<1>6. CASE ProfileLoaded(f)
  <2>1. PICK q \in AccessTokenChecked(r) : Set(f, q)
    BY <1>6 DEF ProfileLoaded, Becomes
  <2>2. Sound(f, q) /\ ~q.interval
    BY <1>1, <1>2, <1>6, AccessTokenIsSound DEF CheckingIsPending, ProfileLoaded, At
  <2> QED BY <1>3, <2>1, <2>2
<1>7. CASE LoadFails(f)
  <2>1. Sound(f, Rejected(r)) /\ ~Rejected(r).interval
    BY <1>2, RejectedIsSound DEF Answered
  <2> QED BY <1>3, <1>7, <2>1 DEF LoadFails
<1> QED BY <1>4, <1>5, <1>6, <1>7

LEMMA Stuttering == IInv /\ UNCHANGED vars => IInv'
  BY DEF IInv, TypeOK, vars, Sound, AskingIsUnanswered, CheckingIsPending, EndIsSettled,
     WatchedIsWaiting, StoredIsLatest, Unanswered, PendingPopupIsWatched

LEMMA StepKeepsIInv == IInv /\ [Next]_vars => IInv'
<1> SUFFICES ASSUME IInv, Next PROVE IInv'
  BY Stuttering
<1>1. PICK f \in Flows :
        \/ RedirectForToken(f) \/ RenewTokenSilentAsync(f)
        \/ OpenPopupRefused(f) \/ OpenPopupBlocked(f) \/ OpenPopup(f)
        \/ PopupReady(f) \/ PopupClosed(f)
        \/ Loads(f) \/ Timers(f)
        \/ SilentResponse(f) \/ PopupResponse(f)
        \/ RedirectResponse(f) \/ RedirectReplayed(f)
  BY DEF Next
<1>2. CASE RedirectForToken(f) \/ RenewTokenSilentAsync(f) \/ OpenPopup(f)
  BY <1>2, StartKeeps
<1>3. CASE OpenPopupRefused(f) \/ OpenPopupBlocked(f)
  BY <1>3, OpenFailsKeeps
<1>4. CASE PopupReady(f) \/ PopupClosed(f) \/ CheckClosed(f)
  BY <1>4, PopupKeeps
<1>5. CASE Loads(f)
  BY <1>5, MetadataKeeps, DocumentKeeps DEF Loads
<1>6. CASE RedirectPopup(f) \/ FrameTimeout(f)
  BY <1>6, RedirectPopupKeeps, FrameTimeoutKeeps
<1>7. CASE SilentResponse(f) \/ PopupResponse(f) \/ RedirectResponse(f)
  BY <1>7, ResponseKeeps
<1>8. CASE RedirectReplayed(f)
  BY <1>8, ReplayKeeps
<1> QED
  BY <1>1, <1>2, <1>3, <1>4, <1>5, <1>6, <1>7, <1>8 DEF Timers

-----------------------------------------------------------------------------
(***************************************************************************)
(* The theorems                                                            *)
(***************************************************************************)
\* Whatever the user, the provider and the other flows do, a flow is what its
\* stage says, and the stored request is the last one, still unanswered.
THEOREM RequestsInvariant == Spec => []IInv
  BY Initially, StepKeepsIInv, PTL DEF Spec

LEMMA InvariantImplies ==
  IInv => /\ TypeOK /\ OneTokenPerRequest
          /\ RejectedSavesNothing /\ AcceptedHasNoDefect /\ PendingPopupIsWatched
<1> SUFFICES ASSUME IInv
             PROVE  OneTokenPerRequest /\ RejectedSavesNothing /\ AcceptedHasNoDefect
  BY DEF IInv
<1>1. \A f \in Flows :
        \/ flow[f].saves = 0
        \/ flow[f].saves = 1 /\ flow[f].settled = "resolved" /\ flow[f].defect = "none"
  BY DEF IInv, TypeOK, Sound, FlowRecords, AskingIsUnanswered, CheckingIsPending,
     EndIsSettled, Asking, Checking
<1> QED
  BY <1>1 DEF OneTokenPerRequest, RejectedSavesNothing, AcceptedHasNoDefect

\* The store, the flag and the flows keep their types, for any sets of flows.
THEOREM RequestsTypeCorrect == Spec => []TypeOK
  BY RequestsInvariant, InvariantImplies, PTL

\* A request yields at most one token, however often its callback page is loaded
\* and however the flows of the browser overwrite each other's request state.
THEOREM TokensAreSingle == Spec => []OneTokenPerRequest
  BY RequestsInvariant, InvariantImplies, PTL

\* No token is saved by a flow whose caller was told that it failed, nor before
\* the response has passed every check that its response type calls for.
THEOREM SavedTokensAreSound == Spec => []SavedIsSound
  BY RequestsInvariant, InvariantImplies, PTL DEF SavedIsSound

\* While _pendingPopup refuses new popups, one is watched whose caller waits.
THEOREM PendingIsWatched == Spec => []PendingPopupIsWatched
  BY RequestsInvariant, InvariantImplies, PTL

\* Who waits for the answer of the provider goes on with one only if the request
\* in the store is its own.
LEMMA AcceptingIsStored ==
  ASSUME IInv, Next, NEW f \in Flows, At(f, "away"), flow'[f].pc # "away",
         flow'[f].settled # "rejected"
  PROVE  requestState = f
<1>1. ASSUME NEW g \in Flows, NEW r, Set(g, r)
      PROVE  g = f /\ flow'[f] = r
  BY <1>1 DEF Set, IInv, TypeOK, At
<1>2. ASSUME NEW g \in Flows, NEW r, Set(g, r), At(g, "away"), r.pc = "away"
      PROVE  FALSE
  BY <1>1, <1>2
<1>3. ASSUME NEW g \in Flows, NEW r, Set(g, r), ~At(g, "away")
      PROVE  FALSE
  BY <1>1, <1>3
<1>4. ASSUME NEW g \in Flows, NEW r, Answered(g, r), ProcessResponse(g, r)
      PROVE  requestState = f
  <2>1. PICK q \in ResponseChecked(g, r) : Set(g, q)
    BY <1>4 DEF ProcessResponse, Becomes
  <2>2. q.settled = "rejected" \/ requestState = g
    BY <1>4, ResponseIsSound
  <2> QED BY <1>1, <2>1, <2>2
<1>5. PICK g \in Flows :
        \/ RedirectForToken(g) \/ RenewTokenSilentAsync(g)
        \/ OpenPopupRefused(g) \/ OpenPopupBlocked(g) \/ OpenPopup(g)
        \/ PopupReady(g) \/ PopupClosed(g)
        \/ Loads(g) \/ Timers(g)
        \/ SilentResponse(g) \/ PopupResponse(g)
        \/ RedirectResponse(g) \/ RedirectReplayed(g)
  BY DEF Next
<1>6. CASE \/ RedirectForToken(g) \/ RenewTokenSilentAsync(g) \/ OpenPopup(g)
           \/ OpenPopupRefused(g) \/ OpenPopupBlocked(g)
  BY <1>3, <1>6 DEF RedirectForToken, RenewTokenSilentAsync, OpenPopup, OpenPopupRefused,
     OpenPopupBlocked, Begin, CreateRequest, At
<1>7. CASE Loads(g) \/ RedirectPopup(g) \/ RedirectReplayed(g)
  BY <1>3, <1>7 DEF Loads, MetadataLoaded, MetadataFails, CreateRequest, KeysLoaded,
     IssuerLoaded, ProfileLoaded, LoadFails, RedirectPopup, RedirectReplayed,
     ProcessResponse, Becomes, At
<1>8. CASE PopupReady(g) \/ PopupClosed(g) \/ CheckClosed(g)
  <2>1. g = f
    BY <1>1, <1>8 DEF PopupReady, PopupClosed, CheckClosed
  <2>2. flow'[g].pc = flow[g].pc
    <3>1. CASE PopupReady(g) \/ PopupClosed(g)
      BY <3>1 DEF PopupReady, PopupClosed, Set, IInv, TypeOK, FlowRecords
    <3>2. CASE CheckClosed(g)
      <4> DEFINE r == CleanedUp(flow[g], FALSE)
      <4>1. r \in FlowRecords /\ r.pc = flow[g].pc
        BY <3>2, CleanedUpIsUnwatched DEF CheckClosed, IInv, TypeOK, Sound, WatchedIsWaiting, Unwatched
      <4> HIDE DEF r
      <4>2. Settle(r, "rejected").pc = r.pc
        BY <4>1 DEF Settle, FlowRecords
      <4> QED
        BY <1>1, <2>1, <3>2, <4>1, <4>2 DEF CheckClosed, r
    <3> QED BY <1>8, <3>1, <3>2
  <2> QED
    BY <2>1, <2>2 DEF At
<1>9. CASE FrameTimeout(g)
  <2>1. Unwatched(g, flow[g]) /\ flow[g].saves = 0 /\ flow[g].settled = "no"
    BY <1>9, SilentOrRedirectWaits DEF FrameTimeout
  <2>2. Rejected(flow[g]).settled = "rejected"
    BY <2>1, RejectedIsSound
  <2> QED
    BY <1>1, <1>9, <2>2 DEF FrameTimeout
<1>10. CASE SilentResponse(g) \/ PopupResponse(g) \/ RedirectResponse(g)
  <2>1. PICK r : Answered(g, r) /\ ProcessResponse(g, r)
    BY <1>10, AnsweredResponse
  <2> QED
    BY <1>4, <2>1
<1> QED BY <1>5, <1>6, <1>7, <1>8, <1>9, <1>10 DEF Timers

\* A response is accepted only for the request made last in the whole browser,
\* as that is the one in the store.
THEOREM LatestIsAccepted == Spec => OnlyLatestRequestAccepted
<1> DEFINE Latest(f) ==
      /\ flow'[f].pc \in {"keys", "metadata", "profile", "end"} \ {flow[f].pc}
      /\ At(f, "away") /\ flow'[f].settled # "rejected"
      => latest = f
<1>1. IInv /\ [Next]_vars => [\A f \in Flows : Latest(f)]_vars
  BY AcceptingIsStored, FlowsAssumption DEF IInv, TypeOK, StoredIsLatest, At
<1> QED
  BY <1>1, RequestsInvariant, PTL DEF Spec, OnlyLatestRequestAccepted

-----------------------------------------------------------------------------
(***************************************************************************)
(* Promises                                                                *)
(***************************************************************************)
\* The types of the engine.
Statuses == {"unborn", "pending", "fulfilled", "rejected"}

AllValues == {Plain, Thenable, Throwing} \union {Promise(p) : p \in Ids}

SubscriberRecords == [kind : {"child", "adopter", "counter"}, promise : Ids,
                      onFulfillment : BOOLEAN, onRejection : BOOLEAN]

PromiseRecords == [state : Statuses, result : AllValues,
                   subscribers : Seq(SubscriberRecords), remaining : Int]

Entries == [kind : {"publish", "foreign", "invoke", "undefined"},
            promise : Ids \union {0}, child : SubscriberRecords \union {NoChild}]

Engines == [promise : [Ids -> PromiseRecords], queue : Seq(Entries), scheduled : BOOLEAN]

Frames == [publishing : Ids \union {0}, index : Nat,
           callback : Ids \union {0}, foreign : Ids \union {0}]

-----------------------------------------------------------------------------
SubscribersOf(s, p) == s.promise[p].subscribers
HasSubscribers(s, p) == SubscribersOf(s, p) # <<>>

Unsettled(s, p) == State(s, p) = "pending"

\* A promise is never fulfilled with a promise.
ResultsAreFlat(s) ==
  \A p \in Ids : State(s, p) = "fulfilled" => s.promise[p].result.kind # "promise"

GoodEngine(s) == s \in Engines /\ ResultsAreFlat(s)

\* Where the callbacks of children are.
ChildAt(s, p, i, c) ==
  /\ i \in DOMAIN SubscribersOf(s, p)
  /\ SubscribersOf(s, p)[i].kind = "child" /\ SubscribersOf(s, p)[i].promise = c

PublishAt(s, i, p) ==
  i \in DOMAIN s.queue /\ s.queue[i].kind = "publish" /\ s.queue[i].promise = p

InvokeAt(s, i, p, c) ==
  /\ i \in DOMAIN s.queue /\ s.queue[i].kind = "invoke"
  /\ s.queue[i].promise = p /\ s.queue[i].child.promise = c

\* What an entry is about: publish and invoke are of settled promises.
EntriesAreTyped(s) ==
  \A i \in DOMAIN s.queue :
    /\ s.queue[i].kind # "undefined" => s.queue[i].promise \in Ids
    /\ s.queue[i].kind \in {"publish", "invoke"} => Settled(s, s.queue[i].promise)
    /\ s.queue[i].kind = "invoke" => s.queue[i].child \in SubscriberRecords

\* Promises are created in order, children wait only once they are created, and
\* those of one promise wait in the order of their creation.
BornInOrder(s) ==
  \A p \in Ids, q \in Ids : State(s, p) # "unborn" /\ q < p => State(s, q) # "unborn"

SubscribedAreBorn(s) ==
  \A p \in Ids, c \in Ids, i \in Nat :
    ChildAt(s, p, i, c) => State(s, p) # "unborn" /\ State(s, c) # "unborn"

InvokedAreBorn(s) ==
  \A p \in Ids, c \in Ids, i \in Nat : InvokeAt(s, i, p, c) => State(s, c) # "unborn"

SubscribedInOrder(s) ==
  \A p \in Ids, c \in Ids, d \in Ids, i \in Nat, j \in Nat :
    ChildAt(s, p, i, c) /\ ChildAt(s, p, j, d) /\ i < j => c < d

InvokedInOrder(s) ==
  \A p \in Ids, c \in Ids, d \in Ids, i \in Nat, j \in Nat :
    InvokeAt(s, i, p, c) /\ InvokeAt(s, j, p, d) /\ i < j => c < d

EngineSound(s) ==
  /\ EntriesAreTyped(s) /\ BornInOrder(s)
  /\ SubscribedAreBorn(s) /\ InvokedAreBorn(s)
  /\ SubscribedInOrder(s) /\ InvokedInOrder(s)

-----------------------------------------------------------------------------
\* The frame is of the entry at the index.
FrameSound(s, a, f) ==
  /\ f \in Frames /\ a \in 0..(Len(s.queue) + 1)
  /\ f # NoFrame => a \in DOMAIN s.queue
  /\ f.publishing # 0 => PublishAt(s, a, f.publishing) /\ f.index >= 1
  /\ f # NoFrame /\ f.publishing = 0 => s.queue[a].kind # "publish"
  /\ f.foreign # 0 => f.publishing = 0 /\ f.callback = 0

\* What is behind the index is done, a flush is to come, and who is settled and
\* has subscribers is published from the index on.
QueueSound(s, a) ==
  /\ \A i \in DOMAIN s.queue : i < a => s.queue[i] = Done
  /\ s.queue # <<>> => s.scheduled \/ a > 0
  /\ \A p \in Ids :
       Settled(s, p) /\ HasSubscribers(s, p) => \E i \in Nat : i >= a /\ PublishAt(s, i, p)

\* What then() puts into the queue itself comes after what publish will call.
NoneOvertakes(s, a) ==
  \A p \in Ids, c \in Ids, d \in Ids, i \in Nat, k \in Nat :
    ChildAt(s, p, i, c) /\ InvokeAt(s, k, p, d) =>
      c < d /\ \E j \in Nat : a <= j /\ j < k /\ PublishAt(s, j, p)

FlushSound(s, a, f) == FrameSound(s, a, f) /\ QueueSound(s, a) /\ NoneOvertakes(s, a)

\* The callbacks still to be called.
Passed(f, p, i) == f.publishing = p /\ (i < f.index \/ (i = f.index /\ f.callback # 0))

Awaits(s, a, f, p, c) ==
  \/ \E i \in Nat : ChildAt(s, p, i, c) /\ ~Passed(f, p, i)
  \/ \E i \in Nat : InvokeAt(s, i, p, c) /\ ~(i = a /\ f # NoFrame)

\* A child waits with its parent, and is called once it waits no more.
ParentsKnown(s, par) ==
  /\ \A c \in Ids : State(s, c) = "unborn" => par[c] = 0
  /\ \A p \in Ids, c \in Ids, i \in Nat :
       ChildAt(s, p, i, c) \/ InvokeAt(s, i, p, c) => par[c] = p

CallsKnown(s, a, f, par, cal) ==
  \A c \in Ids : cal[c] = 0 <=> par[c] = 0 \/ Awaits(s, a, f, par[c], c)

CallSound(s, a, f, par, cal) ==
  /\ par \in [Ids -> Ids \union {0}] /\ cal \in [Ids -> Nat]
  /\ ParentsKnown(s, par) /\ CallsKnown(s, a, f, par, cal)

\* The inductive invariant.
Consistent(s, a, f, par, cal) ==
  /\ GoodEngine(s) /\ EngineSound(s) /\ FlushSound(s, a, f) /\ CallSound(s, a, f, par, cal)

EngineInvariant == Consistent(engine, at, frame, parent, called)

-----------------------------------------------------------------------------
\* What the engine's functions do: promises are settled once, subscribers and
\* entries are only added, and those added are no children.
StatesMove(s, t) ==
  \A p \in Ids :
    /\ ~Unsettled(s, p) =>
         State(t, p) = State(s, p) /\ t.promise[p].result = s.promise[p].result
    /\ Unsettled(s, p) => State(t, p) \in {"pending", "fulfilled", "rejected"}

SubscribersGrow(s, t) ==
  \A p \in Ids :
    /\ Len(SubscribersOf(s, p)) <= Len(SubscribersOf(t, p))
    /\ \A i \in DOMAIN SubscribersOf(s, p) : SubscribersOf(t, p)[i] = SubscribersOf(s, p)[i]
    /\ \A i \in DOMAIN SubscribersOf(t, p) :
         i > Len(SubscribersOf(s, p)) => SubscribersOf(t, p)[i].kind # "child"

QueueGrows(s, t) ==
  /\ Len(s.queue) <= Len(t.queue)
  /\ \A i \in DOMAIN s.queue : t.queue[i] = s.queue[i]
  /\ \A i \in DOMAIN t.queue :
       i > Len(s.queue) =>
         /\ t.queue[i].kind \in {"publish", "foreign"} /\ t.queue[i].promise \in Ids
         /\ t.queue[i].kind = "publish" => Settled(t, t.queue[i].promise)
  /\ s.scheduled => t.scheduled
  /\ s.queue = <<>> /\ t.queue # <<>> => t.scheduled

\* Who is settled, or gets its first subscriber, is published.
Published(s, t) ==
  \A p \in Ids :
    Settled(t, p) /\ HasSubscribers(t, p) =>
      \/ Settled(s, p) /\ HasSubscribers(s, p)
      \/ \E i \in Nat : i > Len(s.queue) /\ PublishAt(t, i, p)

Evolves(s, t) ==
  StatesMove(s, t) /\ SubscribersGrow(s, t) /\ QueueGrows(s, t) /\ Published(s, t)

\* The parts of an engine have their types.
LEMMA EngineParts ==
  ASSUME NEW s \in Engines, NEW p \in Ids
  PROVE  /\ s.promise[p] \in PromiseRecords /\ State(s, p) \in Statuses
         /\ s.promise[p].result \in AllValues
         /\ SubscribersOf(s, p) \in Seq(SubscriberRecords)
         /\ s.promise[p].remaining \in Int
         /\ s.queue \in Seq(Entries) /\ s.scheduled \in BOOLEAN
         /\ DOMAIN SubscribersOf(s, p) = 1..Len(SubscribersOf(s, p))
         /\ Len(SubscribersOf(s, p)) \in Nat
         /\ DOMAIN s.queue = 1..Len(s.queue) /\ Len(s.queue) \in Nat
  BY DEF Engines, PromiseRecords, State, SubscribersOf

LEMMA EvolvesReflexive ==
  ASSUME NEW s \in Engines
  PROVE  Evolves(s, s)
<1>1. StatesMove(s, s)
  BY DEF StatesMove, Unsettled
<1>2. SubscribersGrow(s, s)
  BY EngineParts DEF SubscribersGrow
<1>3. QueueGrows(s, s)
  BY DEF QueueGrows, Engines
<1>4. Published(s, s)
  BY DEF Published
<1> QED
  BY <1>1, <1>2, <1>3, <1>4 DEF Evolves

\* Evolving is a preorder: calls of the engine within a call add up.
LEMMA EvolvesTransitive ==
  ASSUME NEW s \in Engines, NEW t \in Engines, NEW u \in Engines,
         Evolves(s, t), Evolves(t, u)
  PROVE  Evolves(s, u)
<1>1. StatesMove(s, u)
  BY DEF Evolves, StatesMove, Unsettled
<1>2. SubscribersGrow(s, u)
  <2> SUFFICES ASSUME NEW p \in Ids
               PROVE  /\ Len(SubscribersOf(s, p)) <= Len(SubscribersOf(u, p))
                      /\ \A i \in DOMAIN SubscribersOf(s, p) :
                           SubscribersOf(u, p)[i] = SubscribersOf(s, p)[i]
                      /\ \A i \in DOMAIN SubscribersOf(u, p) :
                           i > Len(SubscribersOf(s, p)) =>
                             SubscribersOf(u, p)[i].kind # "child"
    BY DEF SubscribersGrow
  <2>1. /\ Len(SubscribersOf(s, p)) <= Len(SubscribersOf(t, p))
        /\ Len(SubscribersOf(t, p)) <= Len(SubscribersOf(u, p))
        /\ \A i \in DOMAIN SubscribersOf(s, p) : SubscribersOf(t, p)[i] = SubscribersOf(s, p)[i]
        /\ \A i \in DOMAIN SubscribersOf(t, p) : SubscribersOf(u, p)[i] = SubscribersOf(t, p)[i]
        /\ \A i \in DOMAIN SubscribersOf(t, p) :
             i > Len(SubscribersOf(s, p)) => SubscribersOf(t, p)[i].kind # "child"
        /\ \A i \in DOMAIN SubscribersOf(u, p) :
             i > Len(SubscribersOf(t, p)) => SubscribersOf(u, p)[i].kind # "child"
    BY DEF Evolves, SubscribersGrow
  <2> DEFINE a == SubscribersOf(s, p)
             b == SubscribersOf(t, p)
             c == SubscribersOf(u, p)
  <2>2. /\ DOMAIN a = 1..Len(a) /\ Len(a) \in Nat
        /\ DOMAIN b = 1..Len(b) /\ Len(b) \in Nat
        /\ DOMAIN c = 1..Len(c) /\ Len(c) \in Nat
    BY EngineParts
  <2> HIDE DEF a, b, c
  <2>3. /\ Len(a) <= Len(c)
        /\ \A i \in DOMAIN a : c[i] = a[i]
        /\ \A i \in DOMAIN c : i > Len(a) => c[i].kind # "child"
    BY <2>1, <2>2 DEF a, b, c
  <2> QED
    BY <2>3 DEF a, c
<1>3. QueueGrows(s, u)
  <2>1. /\ DOMAIN s.queue = 1..Len(s.queue) /\ Len(s.queue) \in Nat
        /\ DOMAIN t.queue = 1..Len(t.queue) /\ Len(t.queue) \in Nat
        /\ DOMAIN u.queue = 1..Len(u.queue) /\ Len(u.queue) \in Nat
    BY DEF Engines
  <2>2. QueueGrows(s, t) /\ QueueGrows(t, u)
    BY DEF Evolves
  <2>3. \A p \in Ids : Settled(t, p) => Settled(u, p)
    BY DEF Evolves, StatesMove, Settled, Unsettled
  <2>4. ASSUME NEW i \in DOMAIN u.queue, i > Len(s.queue)
        PROVE  /\ u.queue[i].kind \in {"publish", "foreign"} /\ u.queue[i].promise \in Ids
               /\ u.queue[i].kind = "publish" => Settled(u, u.queue[i].promise)
    <3>1. CASE i > Len(t.queue)
      BY <3>1, <2>2, <2>4 DEF QueueGrows
    <3>2. CASE i \in DOMAIN t.queue
      <4>1. u.queue[i] = t.queue[i]
        BY <3>2, <2>2 DEF QueueGrows
      <4>2. /\ t.queue[i].kind \in {"publish", "foreign"} /\ t.queue[i].promise \in Ids
            /\ t.queue[i].kind = "publish" => Settled(t, t.queue[i].promise)
        BY <3>2, <2>2, <2>4 DEF QueueGrows
      <4> QED
        BY <4>1, <4>2, <2>3
    <3> QED
      BY <3>1, <3>2, <2>1
  <2>5. /\ Len(s.queue) <= Len(u.queue)
        /\ \A i \in DOMAIN s.queue : u.queue[i] = s.queue[i]
    BY <2>1, <2>2 DEF QueueGrows
  <2>6. /\ s.scheduled => u.scheduled
        /\ s.queue = <<>> /\ u.queue # <<>> => u.scheduled
    BY <2>2 DEF QueueGrows
  <2> QED
    BY <2>4, <2>5, <2>6 DEF QueueGrows
<1>4. Published(s, u)
  <2> SUFFICES ASSUME NEW p \in Ids, Settled(u, p) /\ HasSubscribers(u, p)
               PROVE  \/ Settled(s, p) /\ HasSubscribers(s, p)
                      \/ \E i \in Nat : i > Len(s.queue) /\ PublishAt(u, i, p)
    BY DEF Published
  <2>1. Len(s.queue) \in Nat /\ Len(t.queue) \in Nat /\ Len(s.queue) <= Len(t.queue)
    BY DEF Engines, Evolves, QueueGrows
  <2>2. CASE \E i \in Nat : i > Len(t.queue) /\ PublishAt(u, i, p)
    BY <2>1, <2>2
  <2>3. CASE Settled(t, p) /\ HasSubscribers(t, p)
    <3>1. CASE \E i \in Nat : i > Len(s.queue) /\ PublishAt(t, i, p)
      <4>1. PICK i \in Nat : i > Len(s.queue) /\ PublishAt(t, i, p)
        BY <3>1
      <4>2. PublishAt(u, i, p)
        <5>1. i \in DOMAIN u.queue /\ u.queue[i] = t.queue[i]
          BY <4>1 DEF Evolves, QueueGrows, PublishAt, Engines
        <5> QED
          BY <4>1, <5>1 DEF PublishAt
      <4> QED
        BY <4>1, <4>2
    <3> QED
      BY <2>3, <3>1 DEF Evolves, Published
  <2> QED
    BY <2>2, <2>3 DEF Evolves, Published
<1> QED
  BY <1>1, <1>2, <1>3, <1>4 DEF Evolves

-----------------------------------------------------------------------------
\* What the engine's own functions do.
Grows(s, t) == GoodEngine(t) /\ Evolves(s, t)

LEMMA GrowsReflexive ==
  ASSUME NEW s, GoodEngine(s)
  PROVE  Grows(s, s)
BY EvolvesReflexive DEF Grows, GoodEngine

LEMMA GrowsTransitive ==
  ASSUME NEW s, GoodEngine(s), NEW t, Grows(s, t), NEW u, Grows(t, u)
  PROVE  Grows(s, u)
BY EvolvesTransitive DEF Grows, GoodEngine

Fulfilled(s, p, value) ==
  [s EXCEPT !.promise[p].state = "fulfilled", !.promise[p].result = value]

LEMMA SettleParts ==
  ASSUME NEW s \in Engines, NEW p \in Ids, NEW value \in AllValues,
         NEW t, t = Fulfilled(s, p, value)
  PROVE  /\ t \in Engines /\ t.queue = s.queue /\ t.scheduled = s.scheduled
         /\ State(t, p) = "fulfilled" /\ t.promise[p].result = value
         /\ SubscribersOf(t, p) = SubscribersOf(s, p)
         /\ \A q \in Ids : q # p => t.promise[q] = s.promise[q]
<1> DEFINE r == [s.promise[p] EXCEPT !.state = "fulfilled"]
           v == [r EXCEPT !.result = value]
           f == [s.promise EXCEPT ![p] = v]
<1>1. t = [s EXCEPT !.promise = f]
  BY DEF Fulfilled, Engines
<1>2. r \in PromiseRecords /\ r.state = "fulfilled" /\ r.subscribers = s.promise[p].subscribers
  BY DEF Engines, PromiseRecords, Statuses
<1>3. /\ v \in PromiseRecords /\ v.state = "fulfilled" /\ v.result = value
      /\ v.subscribers = s.promise[p].subscribers
  <2> HIDE DEF r
  <2> QED
    BY <1>2 DEF PromiseRecords
<1> HIDE DEF v
<1>4. f \in [Ids -> PromiseRecords] /\ f[p] = v /\ \A q \in Ids : q # p => f[q] = s.promise[q]
  BY <1>3 DEF Engines
<1> HIDE DEF f
<1>5. t \in Engines /\ t.queue = s.queue /\ t.scheduled = s.scheduled /\ t.promise = f
  BY <1>1, <1>4 DEF Engines
<1> QED
  BY <1>3, <1>4, <1>5 DEF State, SubscribersOf

\* What each assignment to a promise changes, and what it leaves.
LEMMA StatusParts ==
  ASSUME NEW s \in Engines, NEW p \in Ids, NEW status \in Statuses,
         NEW t, t = [s EXCEPT !.promise[p].state = status]
  PROVE  /\ t \in Engines /\ t.queue = s.queue /\ t.scheduled = s.scheduled
         /\ State(t, p) = status
         /\ SubscribersOf(t, p) = SubscribersOf(s, p)
         /\ \A q \in Ids : q # p => t.promise[q] = s.promise[q]
BY DEF Engines, PromiseRecords, State, SubscribersOf

LEMMA SubscribersParts ==
  ASSUME NEW s \in Engines, NEW p \in Ids, NEW list \in Seq(SubscriberRecords),
         NEW t, t = [s EXCEPT !.promise[p].subscribers = list]
  PROVE  /\ t \in Engines /\ t.queue = s.queue /\ t.scheduled = s.scheduled
         /\ SubscribersOf(t, p) = list
         /\ \A q \in Ids : State(t, q) = State(s, q) /\ t.promise[q].result = s.promise[q].result
         /\ \A q \in Ids : q # p => t.promise[q] = s.promise[q]
BY DEF Engines, PromiseRecords, State, SubscribersOf

LEMMA RemainingParts ==
  ASSUME NEW s \in Engines, NEW p \in Ids, NEW n \in Int,
         NEW t, t = [s EXCEPT !.promise[p].remaining = n]
  PROVE  /\ t \in Engines /\ t.queue = s.queue /\ t.scheduled = s.scheduled
         /\ \A q \in Ids : /\ State(t, q) = State(s, q)
                           /\ t.promise[q].result = s.promise[q].result
                           /\ SubscribersOf(t, q) = SubscribersOf(s, q)
BY DEF Engines, PromiseRecords, State, SubscribersOf

\* asap appends, and schedules a flush for the first entry.
LEMMA AsapParts ==
  ASSUME NEW s \in Engines, NEW entry \in Entries, NEW t, t = Asap(s, entry)
  PROVE  /\ t \in Engines /\ t.promise = s.promise
         /\ t.queue = Append(s.queue, entry)
         /\ t.scheduled <=> s.scheduled \/ s.queue = <<>>
<1> DEFINE q == Append(s.queue, entry)
           b == s.scheduled \/ Len(s.queue) = 0
           s1 == [s EXCEPT !.queue = q]
<1>1. /\ s.queue \in Seq(Entries) /\ s.scheduled \in BOOLEAN
      /\ s.promise \in [Ids -> PromiseRecords]
  BY DEF Engines
<1>2. q \in Seq(Entries) /\ b \in BOOLEAN /\ (b <=> s.scheduled \/ s.queue = <<>>)
  BY <1>1
<1>3. t = [s1 EXCEPT !.scheduled = b]
  BY DEF Asap, Engines
<1> HIDE DEF q, b
<1>4. /\ s1 \in Engines /\ s1.queue = q /\ s1.promise = s.promise
  BY <1>1, <1>2 DEF Engines
<1> HIDE DEF s1
<1>5. t \in Engines /\ t.queue = q /\ t.promise = s.promise /\ t.scheduled = b
  BY <1>2, <1>3, <1>4 DEF Engines
<1> QED
  BY <1>2, <1>5 DEF q

\* A change of the promises, and one that asap's queue is told of.
LEMMA ChangeGrows ==
  ASSUME NEW s, GoodEngine(s), NEW t \in Engines,
         t.queue = s.queue, t.scheduled = s.scheduled,
         ResultsAreFlat(t), StatesMove(s, t), SubscribersGrow(s, t),
         \A q \in Ids : Settled(t, q) /\ HasSubscribers(t, q) =>
                          Settled(s, q) /\ HasSubscribers(s, q)
  PROVE  Grows(s, t)
<1>1. QueueGrows(s, t)
  BY DEF QueueGrows, GoodEngine, Engines
<1> QED
  BY <1>1 DEF Grows, GoodEngine, Evolves, Published

LEMMA AsapGrows ==
  ASSUME NEW s, GoodEngine(s), NEW m \in Engines,
         m.queue = s.queue, m.scheduled = s.scheduled,
         ResultsAreFlat(m), StatesMove(s, m), SubscribersGrow(s, m),
         NEW kind \in {"publish", "foreign"}, NEW p \in Ids,
         kind = "publish" => Settled(m, p),
         \A q \in Ids : Settled(m, q) /\ HasSubscribers(m, q) =>
                          \/ Settled(s, q) /\ HasSubscribers(s, q)
                          \/ kind = "publish" /\ q = p,
         NEW t, t = Asap(m, Entry(kind, p, NoChild))
  PROVE  Grows(s, t)
<1> DEFINE e == Entry(kind, p, NoChild)
<1>1. /\ e \in Entries /\ e.kind = kind /\ e.promise = p
  BY DEF Entry, Entries
<1> HIDE DEF e
<1>2. /\ t \in Engines /\ t.promise = m.promise /\ t.queue = Append(s.queue, e)
      /\ t.scheduled <=> s.scheduled \/ s.queue = <<>>
  BY <1>1, AsapParts DEF e
<1>3. /\ s.queue \in Seq(Entries) /\ Len(t.queue) = Len(s.queue) + 1
      /\ Len(s.queue) \in Nat
      /\ DOMAIN s.queue = 1..Len(s.queue) /\ DOMAIN t.queue = 1..(Len(s.queue) + 1)
      /\ \A i \in DOMAIN s.queue : t.queue[i] = s.queue[i]
      /\ t.queue[Len(s.queue) + 1] = e
  BY <1>1, <1>2, AppendProperties DEF GoodEngine, Engines
<1>4. /\ StatesMove(s, t) /\ SubscribersGrow(s, t) /\ ResultsAreFlat(t)
      /\ \A q \in Ids : /\ Settled(t, q) <=> Settled(m, q)
                        /\ HasSubscribers(t, q) <=> HasSubscribers(m, q)
  BY <1>2 DEF StatesMove, SubscribersGrow, ResultsAreFlat, State, Unsettled, Settled,
              SubscribersOf, HasSubscribers
<1>5. QueueGrows(s, t)
  <2>1. \A i \in DOMAIN t.queue : i > Len(s.queue) => t.queue[i] = e
    BY <1>3
  <2> QED
    BY <1>1, <1>2, <1>3, <1>4, <2>1 DEF QueueGrows
<1>6. Published(s, t)
  <2>1. kind = "publish" => PublishAt(t, Len(s.queue) + 1, p)
    BY <1>1, <1>3 DEF PublishAt
  <2>2. Len(s.queue) + 1 \in Nat /\ Len(s.queue) + 1 > Len(s.queue)
    BY <1>3
  <2> QED
    BY <1>4, <2>1, <2>2 DEF Published
<1> QED
  BY <1>2, <1>4, <1>5, <1>6 DEF Grows, GoodEngine, Evolves

\* The functions of the engine, from fulfill and reject up to all and race.
LEMMA FulfillGrows ==
  ASSUME NEW s, GoodEngine(s), NEW p \in Ids, NEW value \in AllValues,
         value.kind # "promise"
  PROVE  Grows(s, Fulfill(s, p, value))
<1>1. CASE ~Unsettled(s, p)
  BY <1>1, GrowsReflexive DEF Fulfill, Unsettled
<1>2. CASE Unsettled(s, p)
  <2> DEFINE m == Fulfilled(s, p, value)
  <2>1. Fulfill(s, p, value) = IF HasSubscribers(s, p)
                                 THEN Asap(m, Entry("publish", p, NoChild)) ELSE m
    BY <1>2 DEF Fulfill, Fulfilled, Unsettled, HasSubscribers, SubscribersOf
  <2>2. /\ m \in Engines /\ m.queue = s.queue /\ m.scheduled = s.scheduled
        /\ State(m, p) = "fulfilled" /\ m.promise[p].result = value
        /\ SubscribersOf(m, p) = SubscribersOf(s, p)
        /\ \A q \in Ids : q # p => m.promise[q] = s.promise[q]
    BY SettleParts DEF GoodEngine
  <2> HIDE DEF m
  <2>3. ResultsAreFlat(m) /\ StatesMove(s, m)
    BY <1>2, <2>2 DEF ResultsAreFlat, StatesMove, GoodEngine, State, Unsettled
  <2>4. SubscribersGrow(s, m)
    <3>1. \A q \in Ids : SubscribersOf(m, q) = SubscribersOf(s, q)
      BY <2>2 DEF SubscribersOf
    <3> QED
      BY <3>1, EngineParts DEF SubscribersGrow, GoodEngine
  <2>5. /\ Settled(m, p) /\ (HasSubscribers(m, p) <=> HasSubscribers(s, p))
        /\ \A q \in Ids : q # p => /\ Settled(m, q) <=> Settled(s, q)
                                   /\ HasSubscribers(m, q) <=> HasSubscribers(s, q)
    BY <2>2 DEF Settled, HasSubscribers, SubscribersOf, State
  <2>6. CASE HasSubscribers(s, p)
    BY <2>2, <2>1, <2>3, <2>4, <2>5, <2>6, AsapGrows
  <2>7. CASE ~HasSubscribers(s, p)
    <3>1. Grows(s, m)
      BY <2>2, <2>3, <2>4, <2>5, <2>7, ChangeGrows
    <3> QED
      BY <3>1, <2>1, <2>7
  <2> QED
    BY <2>6, <2>7
<1> QED
  BY <1>1, <1>2

LEMMA RejectGrows ==
  ASSUME NEW s, GoodEngine(s), NEW p \in Ids
  PROVE  Grows(s, Reject(s, p))
<1>1. CASE ~Unsettled(s, p)
  BY <1>1, GrowsReflexive DEF Reject, Unsettled
<1>2. CASE Unsettled(s, p)
  <2> DEFINE m == [s EXCEPT !.promise[p].state = "rejected"]
  <2>1. /\ m \in Engines /\ m.queue = s.queue /\ m.scheduled = s.scheduled
        /\ State(m, p) = "rejected"
        /\ SubscribersOf(m, p) = SubscribersOf(s, p)
        /\ \A q \in Ids : q # p => m.promise[q] = s.promise[q]
    BY StatusParts DEF GoodEngine, Statuses
  <2>2. Reject(s, p) = Asap(m, Entry("publish", p, NoChild))
    BY <1>2 DEF Reject, Unsettled
  <2> HIDE DEF m
  <2>3. ResultsAreFlat(m) /\ StatesMove(s, m)
    BY <1>2, <2>1 DEF ResultsAreFlat, StatesMove, GoodEngine, State, Unsettled
  <2>4. SubscribersGrow(s, m)
    <3>1. \A q \in Ids : SubscribersOf(m, q) = SubscribersOf(s, q)
      BY <2>1 DEF SubscribersOf
    <3> QED
      BY <3>1, EngineParts DEF SubscribersGrow, GoodEngine
  <2>5. /\ Settled(m, p)
        /\ \A q \in Ids : q # p => /\ Settled(m, q) <=> Settled(s, q)
                                   /\ HasSubscribers(m, q) <=> HasSubscribers(s, q)
    BY <2>1 DEF Settled, HasSubscribers, SubscribersOf, State
  <2> QED
    BY <2>1, <2>2, <2>3, <2>4, <2>5, AsapGrows
<1> QED
  BY <1>1, <1>2

LEMMA SubscribeGrows ==
  ASSUME NEW s, GoodEngine(s), NEW p \in Ids, NEW subscriber \in SubscriberRecords,
         subscriber.kind # "child"
  PROVE  Grows(s, Subscribe(s, p, subscriber))
<1> DEFINE list == Append(SubscribersOf(s, p), subscriber)
           m == [s EXCEPT !.promise[p].subscribers = list]
<1>1. /\ SubscribersOf(s, p) \in Seq(SubscriberRecords) /\ list \in Seq(SubscriberRecords)
      /\ Len(SubscribersOf(s, p)) \in Nat /\ DOMAIN SubscribersOf(s, p) = 1..Len(SubscribersOf(s, p))
      /\ Len(list) = Len(SubscribersOf(s, p)) + 1
      /\ DOMAIN list = 1..Len(list)
      /\ \A i \in DOMAIN SubscribersOf(s, p) : list[i] = SubscribersOf(s, p)[i]
      /\ list[Len(SubscribersOf(s, p)) + 1] = subscriber
  BY EngineParts, AppendProperties DEF GoodEngine
<1>2. Subscribe(s, p, subscriber) =
        IF ~HasSubscribers(s, p) /\ Settled(s, p)
          THEN Asap(m, Entry("publish", p, NoChild)) ELSE m
  BY DEF Subscribe, HasSubscribers, SubscribersOf, GoodEngine, Engines
<1> HIDE DEF list
<1>3. /\ m \in Engines /\ m.queue = s.queue /\ m.scheduled = s.scheduled
      /\ SubscribersOf(m, p) = list
      /\ \A q \in Ids : State(m, q) = State(s, q) /\ m.promise[q].result = s.promise[q].result
      /\ \A q \in Ids : q # p => m.promise[q] = s.promise[q]
  BY <1>1, SubscribersParts DEF GoodEngine
<1> HIDE DEF m
<1>4. ResultsAreFlat(m) /\ StatesMove(s, m)
  <2>1. \A q \in Ids : State(s, q) \in Statuses
    BY EngineParts DEF GoodEngine
  <2> QED
    BY <1>3, <2>1 DEF ResultsAreFlat, StatesMove, GoodEngine, Unsettled
<1>5. SubscribersGrow(s, m)
  <2> SUFFICES ASSUME NEW q \in Ids
               PROVE  /\ Len(SubscribersOf(s, q)) <= Len(SubscribersOf(m, q))
                      /\ \A i \in DOMAIN SubscribersOf(s, q) :
                           SubscribersOf(m, q)[i] = SubscribersOf(s, q)[i]
                      /\ \A i \in DOMAIN SubscribersOf(m, q) :
                           i > Len(SubscribersOf(s, q)) =>
                             SubscribersOf(m, q)[i].kind # "child"
    BY DEF SubscribersGrow
  <2>1. CASE q = p
    <3>1. \A i \in DOMAIN list : i > Len(SubscribersOf(s, p)) => list[i] = subscriber
      BY <1>1
    <3> QED
      BY <1>1, <1>3, <2>1, <3>1
  <2>2. CASE q # p
    <3>1. SubscribersOf(m, q) = SubscribersOf(s, q)
      BY <1>3, <2>2 DEF SubscribersOf
    <3> QED
      BY <3>1, EngineParts DEF GoodEngine
  <2> QED
    BY <2>1, <2>2
<1>6. \A q \in Ids : /\ Settled(m, q) <=> Settled(s, q)
                     /\ q # p => (HasSubscribers(m, q) <=> HasSubscribers(s, q))
  BY <1>3 DEF Settled, HasSubscribers, SubscribersOf
<1>7. CASE ~HasSubscribers(s, p) /\ Settled(s, p)
  BY <1>2, <1>3, <1>4, <1>5, <1>6, <1>7, AsapGrows
<1>8. CASE HasSubscribers(s, p) \/ ~Settled(s, p)
  <2>1. Grows(s, m)
    BY <1>3, <1>4, <1>5, <1>6, <1>8, ChangeGrows
  <2> QED
    BY <1>2, <1>8, <2>1
<1> QED
  BY <1>7, <1>8

\* Subscribers without a child are not children.
LEMMA AdopterRecord ==
  ASSUME NEW p \in Ids
  PROVE  /\ Adopter(p) \in SubscriberRecords /\ Adopter(p).kind # "child"
         /\ Counter(p) \in SubscriberRecords /\ Counter(p).kind # "child"
BY DEF Adopter, Counter, SubscriberRecords

LEMMA HandleOwnThenableGrows ==
  ASSUME NEW s, GoodEngine(s), NEW p \in Ids, NEW q \in Ids
  PROVE  Grows(s, HandleOwnThenable(s, p, q))
<1>1. CASE State(s, q) = "fulfilled"
  <2>1. s.promise[q].result \in AllValues /\ s.promise[q].result.kind # "promise"
    BY <1>1, EngineParts DEF GoodEngine, ResultsAreFlat
  <2> QED
    BY <1>1, <2>1, FulfillGrows DEF HandleOwnThenable
<1>2. CASE State(s, q) = "rejected"
  BY <1>2, RejectGrows DEF HandleOwnThenable
<1>3. CASE State(s, q) \notin {"fulfilled", "rejected"}
  BY <1>3, SubscribeGrows, AdopterRecord DEF HandleOwnThenable
<1> QED
  BY <1>1, <1>2, <1>3

LEMMA ForeignGrows ==
  ASSUME NEW s, GoodEngine(s), NEW p \in Ids
  PROVE  Grows(s, Asap(s, Entry("foreign", p, NoChild)))
<1>1. Evolves(s, s) /\ s \in Engines /\ ResultsAreFlat(s)
  BY EvolvesReflexive DEF GoodEngine
<1> QED
  BY <1>1, AsapGrows DEF Evolves

LEMMA ResolveGrows ==
  ASSUME NEW s, GoodEngine(s), NEW p \in Ids, NEW value \in AllValues
  PROVE  Grows(s, Resolve(s, p, value))
<1>1. CASE value = Promise(p)
  <2>1. Resolve(s, p, value) = Reject(s, p)
    BY <1>1 DEF Resolve, Promise
  <2> QED
    BY <2>1, RejectGrows
<1>2. CASE value # Promise(p) /\ value.kind = "promise"
  <2>1. value.promise \in Ids /\ value.promise # p
    BY <1>2 DEF AllValues, Plain, Thenable, Throwing, Promise
  <2>2. Resolve(s, p, value) = HandleOwnThenable(s, p, value.promise)
    BY <1>2, <2>1 DEF Resolve
  <2> QED
    BY <2>1, <2>2, HandleOwnThenableGrows
<1>3. CASE value = Plain
  <2>1. Resolve(s, p, value) = Fulfill(s, p, value)
    BY <1>3 DEF Resolve, Plain, Promise
  <2> QED
    BY <1>3, <2>1, FulfillGrows DEF Plain
<1>4. CASE value = Thenable
  <2>1. Resolve(s, p, value) = Asap(s, Entry("foreign", p, NoChild))
    BY <1>4 DEF Resolve, Thenable, Promise
  <2> QED
    BY <2>1, ForeignGrows
<1>5. CASE value = Throwing
  <2>1. Resolve(s, p, value) = Reject(s, p)
    BY <1>5 DEF Resolve, Throwing, Promise
  <2> QED
    BY <2>1, RejectGrows
<1>6. value = Plain \/ value = Thenable \/ value = Throwing \/ value.kind = "promise"
  BY DEF AllValues, Promise
<1> QED
  BY <1>1, <1>2, <1>3, <1>4, <1>5, <1>6

LEMMA CountedGrows ==
  ASSUME NEW s, GoodEngine(s), NEW e \in Ids
  PROVE  Grows(s, [s EXCEPT !.promise[e].remaining = @ - 1])
<1> DEFINE m == [s EXCEPT !.promise[e].remaining = s.promise[e].remaining - 1]
<1>1. s.promise[e].remaining - 1 \in Int
  BY EngineParts DEF GoodEngine
<1>2. [s EXCEPT !.promise[e].remaining = @ - 1] = m
  OBVIOUS
<1>3. /\ m \in Engines /\ m.queue = s.queue /\ m.scheduled = s.scheduled
      /\ \A q \in Ids : /\ State(m, q) = State(s, q)
                        /\ m.promise[q].result = s.promise[q].result
                        /\ SubscribersOf(m, q) = SubscribersOf(s, q)
  BY <1>1, RemainingParts DEF GoodEngine
<1> HIDE DEF m
<1>4. /\ ResultsAreFlat(m) /\ StatesMove(s, m)
      /\ \A q \in Ids : Settled(m, q) /\ HasSubscribers(m, q) =>
                          Settled(s, q) /\ HasSubscribers(s, q)
  BY <1>3 DEF ResultsAreFlat, StatesMove, GoodEngine, Unsettled, Settled, HasSubscribers
<1>5. SubscribersGrow(s, m)
  BY <1>3, EngineParts DEF SubscribersGrow, GoodEngine
<1>6. Grows(s, m)
  BY <1>3, <1>4, <1>5, ChangeGrows
<1> QED
  BY <1>2, <1>6

LEMMA SettledAtGrows ==
  ASSUME NEW s, GoodEngine(s), NEW e \in Ids, NEW status
  PROVE  Grows(s, SettledAt(s, e, status))
<1> DEFINE one == [s EXCEPT !.promise[e].remaining = @ - 1]
           counted == IF State(s, e) # "pending" THEN s
                      ELSE IF status = "rejected" THEN Reject(one, e) ELSE one
<1>1. SettledAt(s, e, status) =
        IF counted.promise[e].remaining = 0 THEN Fulfill(counted, e, Plain) ELSE counted
  BY DEF SettledAt
<1>2. Grows(s, one)
  BY CountedGrows
<1> HIDE DEF one
<1>3. Grows(s, Reject(one, e))
  <2>1. GoodEngine(one) /\ Grows(one, Reject(one, e))
    BY <1>2, RejectGrows DEF Grows
  <2> QED
    BY <1>2, <2>1, GrowsTransitive
<1>4. Grows(s, counted)
  BY <1>2, <1>3, GrowsReflexive
<1> HIDE DEF counted
<1>5. Grows(s, Fulfill(counted, e, Plain))
  <2>1. Plain \in AllValues /\ Plain.kind # "promise" /\ GoodEngine(counted)
    BY <1>4 DEF AllValues, Plain, Grows
  <2>2. Grows(counted, Fulfill(counted, e, Plain))
    BY <2>1, FulfillGrows
  <2> QED
    BY <1>4, <2>2, GrowsTransitive
<1> QED
  BY <1>1, <1>4, <1>5

LEMMA TellGrows ==
  ASSUME NEW s, GoodEngine(s), NEW subscriber \in SubscriberRecords, NEW status,
         NEW value \in AllValues
  PROVE  Grows(s, Tell(s, subscriber, status, value))
<1>1. subscriber.promise \in Ids
  BY DEF SubscriberRecords
<1> QED
  BY <1>1, SettledAtGrows, ResolveGrows, RejectGrows DEF Tell

LEMMA PassOnGrows ==
  ASSUME NEW s, GoodEngine(s), NEW c \in Ids, NEW status, NEW value \in AllValues,
         status = "fulfilled" => value.kind # "promise"
  PROVE  Grows(s, PassOn(s, c, status, value))
BY FulfillGrows, RejectGrows DEF PassOn

LEMMA ReturnedGrows ==
  ASSUME NEW s, GoodEngine(s), NEW c \in Ids, NEW value \in AllValues
  PROVE  Grows(s, Returned(s, c, value))
BY RejectGrows, ResolveGrows, GrowsReflexive DEF Returned

LEMMA EachEntryGrows ==
  ASSUME NEW s, GoodEngine(s), NEW e \in Ids, NEW input \in Ids \union {0}
  PROVE  Grows(s, EachEntry(s, e, input))
BY GrowsReflexive, CountedGrows, SettledAtGrows, SubscribeGrows, AdopterRecord DEF EachEntry

LEMMA EachRacerGrows ==
  ASSUME NEW s, GoodEngine(s), NEW e \in Ids, NEW input \in Ids
  PROVE  Grows(s, EachRacer(s, e, input))
BY GrowsReflexive, SubscribeGrows, AdopterRecord DEF EachRacer

LEMMA AllGrows ==
  ASSUME NEW s, GoodEngine(s), NEW e \in Ids, NEW inputs \in Seq(Ids \union {0})
  PROVE  Grows(s, ForEach(EachEntry, s, e, inputs))
<1> DEFINE first == IF Len(inputs) > 0 THEN EachEntry(s, e, inputs[1]) ELSE s
<1>1. ForEach(EachEntry, s, e, inputs) =
        IF Len(inputs) > 1 THEN EachEntry(first, e, inputs[2]) ELSE first
  BY DEF ForEach
<1>2. /\ Len(inputs) > 0 => inputs[1] \in Ids \union {0}
      /\ Len(inputs) > 1 => inputs[2] \in Ids \union {0}
  OBVIOUS
<1>3. Grows(s, first)
  BY <1>2, EachEntryGrows, GrowsReflexive
<1> HIDE DEF first
<1>4. Len(inputs) > 1 => Grows(first, EachEntry(first, e, inputs[2]))
  BY <1>2, <1>3, EachEntryGrows DEF Grows
<1> QED
  BY <1>1, <1>3, <1>4, GrowsTransitive

LEMMA RaceGrows ==
  ASSUME NEW s, GoodEngine(s), NEW e \in Ids, NEW inputs \in Seq(Ids)
  PROVE  Grows(s, ForEach(EachRacer, s, e, inputs))
<1> DEFINE first == IF Len(inputs) > 0 THEN EachRacer(s, e, inputs[1]) ELSE s
<1>1. ForEach(EachRacer, s, e, inputs) =
        IF Len(inputs) > 1 THEN EachRacer(first, e, inputs[2]) ELSE first
  BY DEF ForEach
<1>2. /\ Len(inputs) > 0 => inputs[1] \in Ids
      /\ Len(inputs) > 1 => inputs[2] \in Ids
  OBVIOUS
<1>3. Grows(s, first)
  BY <1>2, EachRacerGrows, GrowsReflexive
<1> HIDE DEF first
<1>4. Len(inputs) > 1 => Grows(first, EachRacer(first, e, inputs[2]))
  BY <1>2, <1>3, EachRacerGrows DEF Grows
<1> QED
  BY <1>1, <1>3, <1>4, GrowsTransitive

-----------------------------------------------------------------------------
\* What the engine does to itself leaves the callbacks to be called where they are.
LEMMA SlotsKept ==
  ASSUME NEW s, GoodEngine(s), NEW t, Grows(s, t)
  PROVE  /\ \A p \in Ids, c \in Ids, i \in Nat :
              /\ ChildAt(t, p, i, c) <=> ChildAt(s, p, i, c)
              /\ InvokeAt(t, i, p, c) <=> InvokeAt(s, i, p, c)
              /\ PublishAt(s, i, p) => PublishAt(t, i, p)
         /\ \A p \in Ids : /\ State(t, p) = "unborn" <=> State(s, p) = "unborn"
                           /\ Settled(s, p) => Settled(t, p)
<1>0. /\ s \in Engines /\ t \in Engines /\ SubscribersGrow(s, t) /\ QueueGrows(s, t)
      /\ StatesMove(s, t)
  BY DEF Grows, GoodEngine, Evolves
<1>1. ASSUME NEW p \in Ids, NEW c \in Ids, NEW i \in Nat
      PROVE  ChildAt(t, p, i, c) <=> ChildAt(s, p, i, c)
  <2> DEFINE a == SubscribersOf(s, p)
             b == SubscribersOf(t, p)
  <2>1. /\ DOMAIN a = 1..Len(a) /\ Len(a) \in Nat
        /\ DOMAIN b = 1..Len(b) /\ Len(b) \in Nat
    BY <1>0, EngineParts
  <2>2. /\ Len(a) <= Len(b) /\ \A j \in DOMAIN a : b[j] = a[j]
        /\ \A j \in DOMAIN b : j > Len(a) => b[j].kind # "child"
    BY <1>0 DEF SubscribersGrow
  <2>3. /\ ChildAt(s, p, i, c) <=> i \in DOMAIN a /\ a[i].kind = "child" /\ a[i].promise = c
        /\ ChildAt(t, p, i, c) <=> i \in DOMAIN b /\ b[i].kind = "child" /\ b[i].promise = c
    BY DEF ChildAt
  <2> HIDE DEF a, b
  <2> QED
    BY <2>1, <2>2, <2>3
<1>2. /\ DOMAIN s.queue = 1..Len(s.queue) /\ Len(s.queue) \in Nat
      /\ DOMAIN t.queue = 1..Len(t.queue) /\ Len(t.queue) \in Nat
  BY <1>0 DEF Engines
<1>3. ASSUME NEW p \in Ids, NEW c \in Ids, NEW i \in Nat
      PROVE  /\ InvokeAt(t, i, p, c) <=> InvokeAt(s, i, p, c)
             /\ PublishAt(s, i, p) => PublishAt(t, i, p)
  <2>1. /\ Len(s.queue) <= Len(t.queue) /\ \A j \in DOMAIN s.queue : t.queue[j] = s.queue[j]
        /\ \A j \in DOMAIN t.queue :
             j > Len(s.queue) => t.queue[j].kind \in {"publish", "foreign"}
    BY <1>0 DEF QueueGrows
  <2>2. i \in DOMAIN t.queue <=> i \in DOMAIN s.queue \/ (i \in DOMAIN t.queue /\ i > Len(s.queue))
    BY <1>2, <2>1
  <2> QED
    BY <1>2, <2>1, <2>2 DEF InvokeAt, PublishAt
<1>4. ASSUME NEW p \in Ids
      PROVE  /\ State(t, p) = "unborn" <=> State(s, p) = "unborn"
             /\ Settled(s, p) => Settled(t, p)
  BY <1>0 DEF StatesMove, Settled, Unsettled
<1> QED
  BY <1>1, <1>3, <1>4

\* Whatever the engine does to itself keeps the invariant.
LEMMA GrowingKeeps ==
  ASSUME NEW s, NEW a, NEW f, NEW par, NEW cal, Consistent(s, a, f, par, cal),
         NEW t, Grows(s, t)
  PROVE  Consistent(t, a, f, par, cal)
<1>0. /\ GoodEngine(s) /\ GoodEngine(t) /\ EngineSound(s) /\ FlushSound(s, a, f)
      /\ CallSound(s, a, f, par, cal) /\ Evolves(s, t)
  BY DEF Consistent, Grows
<1>1. /\ \A p \in Ids, c \in Ids, i \in Nat :
           /\ ChildAt(t, p, i, c) <=> ChildAt(s, p, i, c)
           /\ InvokeAt(t, i, p, c) <=> InvokeAt(s, i, p, c)
           /\ PublishAt(s, i, p) => PublishAt(t, i, p)
      /\ \A p \in Ids : /\ State(t, p) = "unborn" <=> State(s, p) = "unborn"
                        /\ Settled(s, p) => Settled(t, p)
  BY <1>0, SlotsKept
<1>2. /\ DOMAIN s.queue = 1..Len(s.queue) /\ Len(s.queue) \in Nat
      /\ DOMAIN t.queue = 1..Len(t.queue) /\ Len(t.queue) \in Nat
      /\ s.queue \in Seq(Entries) /\ t.queue \in Seq(Entries)
  BY <1>0 DEF GoodEngine, Engines
<1>3. /\ Len(s.queue) <= Len(t.queue) /\ \A j \in DOMAIN s.queue : t.queue[j] = s.queue[j]
      /\ \A j \in DOMAIN t.queue :
           j > Len(s.queue) =>
             /\ t.queue[j].kind \in {"publish", "foreign"} /\ t.queue[j].promise \in Ids
             /\ t.queue[j].kind = "publish" => Settled(t, t.queue[j].promise)
      /\ s.scheduled => t.scheduled
      /\ s.queue = <<>> /\ t.queue # <<>> => t.scheduled
  BY <1>0 DEF Evolves, QueueGrows
<1>4. EngineSound(t)
  <2>1. EntriesAreTyped(t)
    <3> SUFFICES ASSUME NEW i \in DOMAIN t.queue
                 PROVE  /\ t.queue[i].kind # "undefined" => t.queue[i].promise \in Ids
                        /\ t.queue[i].kind \in {"publish", "invoke"} =>
                             Settled(t, t.queue[i].promise)
                        /\ t.queue[i].kind = "invoke" => t.queue[i].child \in SubscriberRecords
      BY DEF EntriesAreTyped
    <3>1. CASE i \in DOMAIN s.queue
      <4>1. t.queue[i] = s.queue[i]
        BY <1>3, <3>1
      <4>2. /\ s.queue[i].kind # "undefined" => s.queue[i].promise \in Ids
            /\ s.queue[i].kind \in {"publish", "invoke"} => Settled(s, s.queue[i].promise)
            /\ s.queue[i].kind = "invoke" => s.queue[i].child \in SubscriberRecords
        BY <1>0, <3>1 DEF EngineSound, EntriesAreTyped
      <4> QED
        BY <1>1, <4>1, <4>2
    <3>2. CASE i > Len(s.queue)
      BY <1>3, <3>2
    <3> QED
      BY <1>2, <3>1, <3>2
  <2>2. BornInOrder(t) /\ SubscribedAreBorn(t) /\ InvokedAreBorn(t)
    BY <1>0, <1>1 DEF EngineSound, BornInOrder, SubscribedAreBorn, InvokedAreBorn
  <2>3. SubscribedInOrder(t)
    BY <1>0, <1>1 DEF EngineSound, SubscribedInOrder
  <2>4. InvokedInOrder(t)
    BY <1>0, <1>1 DEF EngineSound, InvokedInOrder
  <2> QED
    BY <2>1, <2>2, <2>3, <2>4 DEF EngineSound
<1>5. FrameSound(t, a, f)
  <2>1. FrameSound(s, a, f) /\ f \in Frames
    BY <1>0 DEF FlushSound, FrameSound
  <2>2. a \in 0..(Len(t.queue) + 1) /\ (f # NoFrame => a \in DOMAIN s.queue /\ a \in DOMAIN t.queue)
    BY <1>2, <1>3, <2>1 DEF FrameSound
  <2>3. f.publishing # 0 => PublishAt(t, a, f.publishing)
    <3>1. f.publishing # 0 => f.publishing \in Ids /\ PublishAt(s, a, f.publishing)
      BY <2>1 DEF FrameSound, Frames
    <3>2. f.publishing # 0 => a \in Nat
      BY <1>2, <2>1 DEF FrameSound
    <3> QED
      BY <1>1, <3>1, <3>2
  <2>4. f # NoFrame /\ f.publishing = 0 => t.queue[a].kind # "publish"
    BY <1>3, <2>1, <2>2 DEF FrameSound
  <2> QED
    BY <2>1, <2>2, <2>3, <2>4 DEF FrameSound
<1>6. QueueSound(t, a)
  <2>0. QueueSound(s, a) /\ a \in 0..(Len(s.queue) + 1)
    BY <1>0 DEF FlushSound, FrameSound
  <2>1. \A i \in DOMAIN t.queue : i < a => t.queue[i] = Done
    <3>1. \A i \in DOMAIN t.queue : i < a => i \in DOMAIN s.queue
      BY <1>2, <2>0
    <3> QED
      BY <1>3, <2>0, <3>1 DEF QueueSound
  <2>2. t.queue # <<>> => t.scheduled \/ a > 0
    BY <1>3, <2>0 DEF QueueSound
  <2>3. ASSUME NEW p \in Ids, Settled(t, p), HasSubscribers(t, p)
        PROVE  \E i \in Nat : i >= a /\ PublishAt(t, i, p)
    <3>1. CASE Settled(s, p) /\ HasSubscribers(s, p)
      BY <1>1, <2>0, <3>1 DEF QueueSound
    <3>2. CASE \E i \in Nat : i > Len(s.queue) /\ PublishAt(t, i, p)
      <4>1. \A i \in Nat : i > Len(s.queue) => i >= a
        BY <1>2, <2>0
      <4> QED
        BY <3>2, <4>1
    <3> QED
      BY <1>0, <2>3, <3>1, <3>2 DEF Evolves, Published
  <2> QED
    BY <2>1, <2>2, <2>3 DEF QueueSound
<1>7. NoneOvertakes(t, a)
  <2> SUFFICES ASSUME NEW p \in Ids, NEW c \in Ids, NEW d \in Ids, NEW i \in Nat, NEW k \in Nat,
                      ChildAt(t, p, i, c), InvokeAt(t, k, p, d)
               PROVE  c < d /\ \E j \in Nat : a <= j /\ j < k /\ PublishAt(t, j, p)
    BY DEF NoneOvertakes
  <2>1. c < d /\ \E j \in Nat : a <= j /\ j < k /\ PublishAt(s, j, p)
    BY <1>0, <1>1 DEF FlushSound, NoneOvertakes
  <2> QED
    BY <1>1, <2>1
<1>8. CallSound(t, a, f, par, cal)
  <2>1. /\ par \in [Ids -> Ids \union {0}] /\ ParentsKnown(s, par)
        /\ CallsKnown(s, a, f, par, cal)
    BY <1>0 DEF CallSound
  <2>2. ParentsKnown(t, par)
    BY <1>1, <2>1 DEF ParentsKnown
  <2>3. ASSUME NEW c \in Ids, NEW p \in Ids
        PROVE  Awaits(t, a, f, p, c) <=> Awaits(s, a, f, p, c)
    BY <1>1 DEF Awaits
  <2>4. CallsKnown(t, a, f, par, cal)
    <3> SUFFICES ASSUME NEW c \in Ids
                 PROVE  cal[c] = 0 <=> par[c] = 0 \/ Awaits(t, a, f, par[c], c)
      BY DEF CallsKnown
    <3>1. cal[c] = 0 <=> par[c] = 0 \/ Awaits(s, a, f, par[c], c)
      BY <2>1 DEF CallsKnown
    <3>2. par[c] = 0 \/ par[c] \in Ids
      BY <2>1
    <3> QED
      BY <2>3, <3>1, <3>2
  <2> QED
    BY <1>0, <2>2, <2>4 DEF CallSound
<1> QED
  BY <1>0, <1>4, <1>5, <1>6, <1>7, <1>8 DEF Consistent, FlushSound

-----------------------------------------------------------------------------
\* A new promise.
Created(s, e, r) == [s EXCEPT !.promise[e] = r]

LEMMA CreatedParts ==
  ASSUME NEW s \in Engines, NEW e \in Ids, NEW r \in PromiseRecords,
         NEW t, t = Created(s, e, r)
  PROVE  /\ t \in Engines /\ t.queue = s.queue /\ t.scheduled = s.scheduled
         /\ t.promise[e] = r
         /\ \A q \in Ids : q # e => t.promise[q] = s.promise[q]
BY DEF Created, Engines

\* Creating a promise keeps the invariant: nobody waits for it yet.
LEMMA CreatingKeeps ==
  ASSUME NEW s, NEW a, NEW f, NEW par, NEW cal, Consistent(s, a, f, par, cal),
         NEW e \in Ids, State(s, e) = "unborn",
         \A q \in Ids : q < e => State(s, q) # "unborn",
         NEW r \in PromiseRecords, r.state = "pending", r.subscribers = <<>>,
         NEW t, t = Created(s, e, r)
  PROVE  Consistent(t, a, f, par, cal)
<1>0. /\ GoodEngine(s) /\ EngineSound(s) /\ FlushSound(s, a, f)
      /\ CallSound(s, a, f, par, cal)
      /\ FrameSound(s, a, f) /\ QueueSound(s, a) /\ NoneOvertakes(s, a)
      /\ s \in Engines /\ ResultsAreFlat(s)
  BY DEF Consistent, FlushSound, GoodEngine
<1>1. /\ t \in Engines /\ t.queue = s.queue /\ t.scheduled = s.scheduled
      /\ t.promise[e] = r
      /\ \A q \in Ids : q # e => t.promise[q] = s.promise[q]
  BY <1>0, CreatedParts
<1>2. /\ State(t, e) = "pending" /\ ~HasSubscribers(t, e)
      /\ \A q \in Ids : /\ Settled(t, q) <=> Settled(s, q)
                        /\ q # e => /\ State(t, q) = State(s, q)
                                    /\ HasSubscribers(t, q) <=> HasSubscribers(s, q)
  BY <1>1 DEF State, Settled, HasSubscribers, SubscribersOf
<1>3. \A p \in Ids, c \in Ids, i \in Nat :
        /\ ChildAt(t, p, i, c) <=> ChildAt(s, p, i, c)
        /\ InvokeAt(t, i, p, c) <=> InvokeAt(s, i, p, c)
        /\ PublishAt(t, i, p) <=> PublishAt(s, i, p)
  <2> TAKE p \in Ids, c \in Ids, i \in Nat
  <2>1. CASE p # e
    BY <1>1, <2>1 DEF ChildAt, SubscribersOf, InvokeAt, PublishAt
  <2>2. CASE p = e
    <3>1. ~ChildAt(s, p, i, c)
      BY <1>0, <2>2 DEF EngineSound, SubscribedAreBorn
    <3>2. ~ChildAt(t, p, i, c)
      BY <1>1, <2>2 DEF ChildAt, SubscribersOf
    <3> QED
      BY <1>1, <3>1, <3>2 DEF InvokeAt, PublishAt
  <2> QED
    BY <2>1, <2>2
<1>4. GoodEngine(t)
  BY <1>0, <1>1, <1>2 DEF GoodEngine, ResultsAreFlat
<1>5. EngineSound(t)
  <2>1. EntriesAreTyped(t)
    <3> SUFFICES ASSUME NEW i \in DOMAIN s.queue
                 PROVE  /\ s.queue[i].kind # "undefined" => s.queue[i].promise \in Ids
                        /\ s.queue[i].kind \in {"publish", "invoke"} =>
                             Settled(t, s.queue[i].promise)
                        /\ s.queue[i].kind = "invoke" => s.queue[i].child \in SubscriberRecords
      BY <1>1 DEF EntriesAreTyped
    <3>1. /\ s.queue[i].kind # "undefined" => s.queue[i].promise \in Ids
          /\ s.queue[i].kind \in {"publish", "invoke"} => Settled(s, s.queue[i].promise)
          /\ s.queue[i].kind = "invoke" => s.queue[i].child \in SubscriberRecords
      BY <1>0 DEF EngineSound, EntriesAreTyped
    <3> QED
      BY <1>2, <3>1
  <2>2. BornInOrder(t)
    <3> SUFFICES ASSUME NEW p \in Ids, NEW q \in Ids, State(t, p) # "unborn", q < p
                 PROVE  State(t, q) # "unborn"
      BY DEF BornInOrder
    <3>1. BornInOrder(s)
      BY <1>0 DEF EngineSound
    <3> QED
      BY <1>2, <3>1 DEF BornInOrder
  <2>3. SubscribedAreBorn(t) /\ InvokedAreBorn(t)
    <3>1. SubscribedAreBorn(s) /\ InvokedAreBorn(s)
      BY <1>0 DEF EngineSound
    <3>2. \A p \in Ids : State(s, p) # "unborn" => State(t, p) # "unborn"
      BY <1>2
    <3> QED
      BY <1>3, <3>1, <3>2 DEF SubscribedAreBorn, InvokedAreBorn
  <2>4. SubscribedInOrder(t)
    BY <1>0, <1>3 DEF EngineSound, SubscribedInOrder
  <2>5. InvokedInOrder(t)
    BY <1>0, <1>3 DEF EngineSound, InvokedInOrder
  <2> QED
    BY <2>1, <2>2, <2>3, <2>4, <2>5 DEF EngineSound
<1>6. FrameSound(t, a, f)
  BY <1>0, <1>1 DEF FrameSound, PublishAt
<1>7. QueueSound(t, a)
  <2>1. \A p \in Ids : Settled(t, p) /\ HasSubscribers(t, p) =>
                         Settled(s, p) /\ HasSubscribers(s, p)
    BY <1>2
  <2>2. \A p \in Ids, i \in Nat : PublishAt(s, i, p) => PublishAt(t, i, p)
    BY <1>3
  <2> QED
    BY <1>0, <1>1, <2>1, <2>2 DEF QueueSound
<1>8. NoneOvertakes(t, a)
  <2> SUFFICES ASSUME NEW p \in Ids, NEW c \in Ids, NEW d \in Ids, NEW i \in Nat, NEW k \in Nat,
                      ChildAt(t, p, i, c), InvokeAt(t, k, p, d)
               PROVE  c < d /\ \E j \in Nat : a <= j /\ j < k /\ PublishAt(t, j, p)
    BY DEF NoneOvertakes
  <2>1. c < d /\ \E j \in Nat : a <= j /\ j < k /\ PublishAt(s, j, p)
    BY <1>0, <1>3 DEF NoneOvertakes
  <2> QED
    BY <1>3, <2>1
<1>9. CallSound(t, a, f, par, cal)
  <2>1. /\ par \in [Ids -> Ids \union {0}] /\ ParentsKnown(s, par)
        /\ CallsKnown(s, a, f, par, cal)
    BY <1>0 DEF CallSound
  <2>2. ParentsKnown(t, par)
    <3>1. \A c \in Ids : State(t, c) = "unborn" => State(s, c) = "unborn"
      BY <1>2
    <3> QED
      BY <1>3, <2>1, <3>1 DEF ParentsKnown
  <2>3. ASSUME NEW c \in Ids, NEW p \in Ids
        PROVE  Awaits(t, a, f, p, c) <=> Awaits(s, a, f, p, c)
    BY <1>3 DEF Awaits
  <2>4. CallsKnown(t, a, f, par, cal)
    <3> SUFFICES ASSUME NEW c \in Ids
                 PROVE  cal[c] = 0 <=> par[c] = 0 \/ Awaits(t, a, f, par[c], c)
      BY DEF CallsKnown
    <3>1. cal[c] = 0 <=> par[c] = 0 \/ Awaits(s, a, f, par[c], c)
      BY <2>1 DEF CallsKnown
    <3>2. par[c] = 0 \/ par[c] \in Ids
      BY <2>1
    <3> QED
      BY <2>3, <3>1, <3>2
  <2> QED
    BY <1>0, <2>2, <2>4 DEF CallSound
<1> QED
  BY <1>4, <1>5, <1>6, <1>7, <1>8, <1>9 DEF Consistent, FlushSound

-----------------------------------------------------------------------------
\* then(): the child waits with the promise's subscribers, or in the queue.
NewestChild(s, par, c) ==
  /\ State(s, c) # "unborn" /\ par[c] = 0
  /\ \A d \in Ids : State(s, d) # "unborn" => d <= c

\* The newest child is behind every child that waits.
LEMMA NewestIsNowhere ==
  ASSUME NEW s, NEW par, ParentsKnown(s, par), EngineSound(s),
         NEW c \in Ids, NewestChild(s, par, c),
         NEW p \in Ids, NEW i \in Nat, NEW d \in Ids, ChildAt(s, p, i, d) \/ InvokeAt(s, i, p, d)
  PROVE  d < c
<1>1. d # c
  BY DEF ParentsKnown, NewestChild, Ids
<1>2. State(s, d) # "unborn"
  BY DEF EngineSound, SubscribedAreBorn, InvokedAreBorn
<1> QED
  BY <1>1, <1>2 DEF NewestChild, Ids

\* The subscriber that then() makes.
LEMMA ChildRecord ==
  ASSUME NEW c \in Ids, NEW onFulfillment \in BOOLEAN, NEW onRejection \in BOOLEAN
  PROVE  /\ Child(c, onFulfillment, onRejection) \in SubscriberRecords
         /\ Child(c, onFulfillment, onRejection).kind = "child"
         /\ Child(c, onFulfillment, onRejection).promise = c
BY DEF Child, SubscriberRecords

\* then() on a pending promise: the child is its last subscriber.
LEMMA SubscribingKeeps ==
  ASSUME NEW s, NEW a, NEW f, NEW par, NEW cal, Consistent(s, a, f, par, cal),
         NEW p \in Ids, State(s, p) = "pending",
         NEW c \in Ids, NewestChild(s, par, c),
         NEW child \in SubscriberRecords, child.kind = "child", child.promise = c,
         NEW t, t = Subscribe(s, p, child)
  PROVE  /\ Consistent(t, a, f, [par EXCEPT ![c] = p], cal)
         /\ \A q \in Ids : State(t, q) = State(s, q)
<1> DEFINE list == Append(SubscribersOf(s, p), child)
           n == Len(SubscribersOf(s, p)) + 1
           par2 == [par EXCEPT ![c] = p]
<1>0. /\ GoodEngine(s) /\ EngineSound(s) /\ FlushSound(s, a, f)
      /\ FrameSound(s, a, f) /\ QueueSound(s, a) /\ NoneOvertakes(s, a)
      /\ s \in Engines /\ ResultsAreFlat(s)
      /\ par \in [Ids -> Ids \union {0}] /\ cal \in [Ids -> Nat]
      /\ ParentsKnown(s, par) /\ CallsKnown(s, a, f, par, cal)
  BY DEF Consistent, FlushSound, GoodEngine, CallSound
<1>1. /\ SubscribersOf(s, p) \in Seq(SubscriberRecords) /\ list \in Seq(SubscriberRecords)
      /\ DOMAIN SubscribersOf(s, p) = 1..(n - 1) /\ n \in Nat /\ n > 0
      /\ DOMAIN list = 1..n
      /\ \A i \in DOMAIN SubscribersOf(s, p) : list[i] = SubscribersOf(s, p)[i]
      /\ list[n] = child
  BY <1>0, EngineParts, AppendProperties
<1>2. ~Settled(s, p) /\ State(s, p) # "unborn"
  BY DEF Settled
<1>3. t = [s EXCEPT !.promise[p].subscribers = list]
  BY <1>0, <1>2 DEF Subscribe, SubscribersOf, Engines
<1> HIDE DEF list, n
<1>4. /\ t \in Engines /\ t.queue = s.queue /\ t.scheduled = s.scheduled
      /\ SubscribersOf(t, p) = list
      /\ \A q \in Ids : State(t, q) = State(s, q) /\ t.promise[q].result = s.promise[q].result
      /\ \A q \in Ids : q # p => t.promise[q] = s.promise[q]
  BY <1>0, <1>1, <1>3, SubscribersParts
<1>5. \A q \in Ids : /\ Settled(t, q) <=> Settled(s, q)
                     /\ q # p => (HasSubscribers(t, q) <=> HasSubscribers(s, q))
  BY <1>4 DEF Settled, HasSubscribers, SubscribersOf
<1>6. \A q \in Ids, d \in Ids, i \in Nat :
        /\ ChildAt(t, q, i, d) <=> ChildAt(s, q, i, d) \/ (q = p /\ i = n /\ d = c)
        /\ ~ChildAt(s, p, n, d)
        /\ InvokeAt(t, i, q, d) <=> InvokeAt(s, i, q, d)
        /\ PublishAt(t, i, q) <=> PublishAt(s, i, q)
  <2> TAKE q \in Ids, d \in Ids, i \in Nat
  <2>1. CASE q # p
    BY <1>1, <1>4, <2>1 DEF ChildAt, SubscribersOf, InvokeAt, PublishAt
  <2>2. CASE q = p
    <3>1. /\ ChildAt(s, p, i, d) <=> i \in 1..(n - 1) /\ list[i].kind = "child"
                                      /\ list[i].promise = d
          /\ ChildAt(t, p, i, d) <=> i \in 1..n /\ list[i].kind = "child"
                                      /\ list[i].promise = d
      BY <1>1, <1>4 DEF ChildAt
    <3>2. i \in 1..n <=> i \in 1..(n - 1) \/ i = n
      BY <1>1
    <3> QED
      BY <1>1, <1>4, <2>2, <3>1, <3>2 DEF InvokeAt, PublishAt, ChildAt
  <2> QED
    BY <2>1, <2>2
<1>7. GoodEngine(t)
  BY <1>0, <1>4 DEF GoodEngine, ResultsAreFlat
<1>8. \A q \in Ids, d \in Ids, i \in Nat : ChildAt(s, q, i, d) \/ InvokeAt(s, i, q, d) => d < c
  BY <1>0, NewestIsNowhere
<1>9. EngineSound(t)
  <2>1. EntriesAreTyped(t)
    <3>1. EntriesAreTyped(s)
      BY <1>0 DEF EngineSound
    <3> QED
      BY <1>4, <1>5, <3>1 DEF EntriesAreTyped
  <2>2. BornInOrder(t)
    BY <1>0, <1>4 DEF EngineSound, BornInOrder
  <2>3. SubscribedAreBorn(t) /\ InvokedAreBorn(t)
    <3>1. SubscribedAreBorn(s) /\ InvokedAreBorn(s) /\ State(s, c) # "unborn"
      BY <1>0 DEF EngineSound, NewestChild
    <3> QED
      BY <1>2, <1>4, <1>6, <3>1 DEF SubscribedAreBorn, InvokedAreBorn
  <2>4. SubscribedInOrder(t)
    <3> SUFFICES ASSUME NEW q \in Ids, NEW x \in Ids, NEW y \in Ids, NEW i \in Nat, NEW j \in Nat,
                        ChildAt(t, q, i, x), ChildAt(t, q, j, y), i < j
                 PROVE  x < y
      BY DEF SubscribedInOrder
    <3>1. CASE ChildAt(s, q, i, x) /\ ChildAt(s, q, j, y)
      BY <1>0, <3>1 DEF EngineSound, SubscribedInOrder
    <3>2. CASE ChildAt(s, q, i, x) /\ y = c
      BY <1>8, <3>2
    <3>3. CASE q = p /\ i = n
      <4>1. ~ChildAt(s, q, j, y)
        BY <1>1, <3>3 DEF ChildAt
      <4> QED
        BY <1>1, <1>6, <3>3, <4>1
    <3> QED
      BY <1>6, <3>1, <3>2, <3>3
  <2>5. InvokedInOrder(t)
    BY <1>0, <1>6 DEF EngineSound, InvokedInOrder
  <2> QED
    BY <2>1, <2>2, <2>3, <2>4, <2>5 DEF EngineSound
<1>10. FrameSound(t, a, f)
  BY <1>0, <1>4 DEF FrameSound, PublishAt
<1>11. QueueSound(t, a)
  <2>1. \A q \in Ids : Settled(t, q) /\ HasSubscribers(t, q) =>
                         Settled(s, q) /\ HasSubscribers(s, q)
    BY <1>2, <1>5
  <2>2. \A q \in Ids, i \in Nat : PublishAt(s, i, q) => PublishAt(t, i, q)
    BY <1>6
  <2> QED
    BY <1>0, <1>4, <2>1, <2>2 DEF QueueSound
<1>12. NoneOvertakes(t, a)
  <2> SUFFICES ASSUME NEW q \in Ids, NEW x \in Ids, NEW y \in Ids, NEW i \in Nat, NEW k \in Nat,
                      ChildAt(t, q, i, x), InvokeAt(t, k, q, y)
               PROVE  x < y /\ \E j \in Nat : a <= j /\ j < k /\ PublishAt(t, j, q)
    BY DEF NoneOvertakes
  <2>1. q # p
    <3>1. InvokeAt(s, k, q, y)
      BY <1>6
    <3>2. Settled(s, q)
      BY <1>0, <3>1 DEF EngineSound, EntriesAreTyped, InvokeAt
    <3> QED
      BY <1>2, <3>2
  <2>2. x < y /\ \E j \in Nat : a <= j /\ j < k /\ PublishAt(s, j, q)
    BY <1>0, <1>6, <2>1 DEF NoneOvertakes
  <2> QED
    BY <1>6, <2>2
<1>13. CallSound(t, a, f, par2, cal)
  <2>1. par2 \in [Ids -> Ids \union {0}] /\ par2[c] = p /\ \A d \in Ids : d # c => par2[d] = par[d]
    BY <1>0
  <2> HIDE DEF par2
  <2>2. ParentsKnown(t, par2)
    <3>1. State(s, c) # "unborn"
      BY DEF NewestChild
    <3>2. \A q \in Ids, d \in Ids, i \in Nat :
            ChildAt(s, q, i, d) \/ InvokeAt(s, i, q, d) => d # c /\ par[d] = q
      BY <1>0, <1>8 DEF ParentsKnown, Ids
    <3>3. \A d \in Ids : State(t, d) = "unborn" => par2[d] = 0
      BY <1>0, <1>4, <2>1, <3>1 DEF ParentsKnown
    <3> QED
      BY <1>6, <2>1, <3>2, <3>3 DEF ParentsKnown
  <2>3. ~Passed(f, p, n)
    <3>1. f.publishing # p
      <4> SUFFICES ASSUME f.publishing = p
                   PROVE  FALSE
        OBVIOUS
      <4>1. PublishAt(s, a, p)
        BY <1>0 DEF FrameSound, Ids
      <4> QED
        BY <1>0, <1>2, <4>1 DEF EngineSound, EntriesAreTyped, PublishAt
    <3> QED
      BY <3>1 DEF Passed
  <2>4. Awaits(t, a, f, p, c)
    BY <1>1, <1>6, <2>3 DEF Awaits
  <2>5. ASSUME NEW d \in Ids, d # c, NEW q \in Ids
        PROVE  Awaits(t, a, f, q, d) <=> Awaits(s, a, f, q, d)
    BY <1>6, <2>5 DEF Awaits
  <2>6. CallsKnown(t, a, f, par2, cal)
    <3> SUFFICES ASSUME NEW d \in Ids
                 PROVE  cal[d] = 0 <=> par2[d] = 0 \/ Awaits(t, a, f, par2[d], d)
      BY DEF CallsKnown
    <3>1. cal[d] = 0 <=> par[d] = 0 \/ Awaits(s, a, f, par[d], d)
      BY <1>0 DEF CallsKnown
    <3>2. par[d] = 0 \/ par[d] \in Ids
      BY <1>0
    <3>3. CASE d = c
      BY <2>1, <2>4, <3>1, <3>3 DEF NewestChild
    <3>4. CASE d # c
      BY <2>1, <2>5, <3>1, <3>2, <3>4
    <3> QED
      BY <3>3, <3>4
  <2> QED
    BY <1>0, <2>1, <2>2, <2>6 DEF CallSound
<1> QED
  BY <1>4, <1>7, <1>9, <1>10, <1>11, <1>12, <1>13 DEF Consistent, FlushSound

\* then() on a settled promise: the child is behind all that publish will call.
LEMMA InvokingKeeps ==
  ASSUME NEW s, NEW a, NEW f, NEW par, NEW cal, Consistent(s, a, f, par, cal),
         NEW p \in Ids, Settled(s, p),
         NEW c \in Ids, NewestChild(s, par, c),
         NEW child \in SubscriberRecords, child.kind = "child", child.promise = c,
         NEW t, t = Asap(s, Entry("invoke", p, child))
  PROVE  /\ Consistent(t, a, f, [par EXCEPT ![c] = p], cal)
         /\ \A q \in Ids : State(t, q) = State(s, q)
<1> DEFINE e == Entry("invoke", p, child)
           n == Len(s.queue) + 1
           par2 == [par EXCEPT ![c] = p]
<1>0. /\ GoodEngine(s) /\ EngineSound(s) /\ FlushSound(s, a, f)
      /\ FrameSound(s, a, f) /\ QueueSound(s, a) /\ NoneOvertakes(s, a)
      /\ s \in Engines /\ ResultsAreFlat(s)
      /\ par \in [Ids -> Ids \union {0}] /\ cal \in [Ids -> Nat]
      /\ ParentsKnown(s, par) /\ CallsKnown(s, a, f, par, cal)
  BY DEF Consistent, FlushSound, GoodEngine, CallSound
<1>1. /\ e \in Entries /\ e.kind = "invoke" /\ e.promise = p /\ e.child = child
  BY DEF Entry, Entries
<1> HIDE DEF e
<1>2. /\ t \in Engines /\ t.promise = s.promise /\ t.queue = Append(s.queue, e)
      /\ t.scheduled <=> s.scheduled \/ s.queue = <<>>
  BY <1>0, <1>1, AsapParts DEF e
<1>3. /\ s.queue \in Seq(Entries) /\ t.queue \in Seq(Entries) /\ n \in Nat /\ n > 0
      /\ Len(t.queue) = n /\ Len(s.queue) = n - 1
      /\ DOMAIN s.queue = 1..(n - 1) /\ DOMAIN t.queue = 1..n
      /\ \A i \in DOMAIN s.queue : t.queue[i] = s.queue[i]
      /\ t.queue[n] = e
  <2>1. s.queue \in Seq(Entries) /\ t.queue \in Seq(Entries)
    BY <1>0, <1>2 DEF Engines
  <2>2. DOMAIN s.queue = 1..Len(s.queue) /\ Len(s.queue) \in Nat
    BY <2>1
  <2>3. /\ Len(t.queue) = Len(s.queue) + 1
        /\ DOMAIN t.queue = 1..(Len(s.queue) + 1)
        /\ \A i \in DOMAIN s.queue : t.queue[i] = s.queue[i]
        /\ t.queue[Len(s.queue) + 1] = e
    BY <1>1, <1>2, <2>1, <2>2, AppendProperties
  <2> QED
    BY <2>1, <2>2, <2>3
<1> HIDE DEF n
<1>4. /\ \A q \in Ids : /\ State(t, q) = State(s, q)
                        /\ Settled(t, q) <=> Settled(s, q)
                        /\ HasSubscribers(t, q) <=> HasSubscribers(s, q)
      /\ GoodEngine(t)
  BY <1>0, <1>2 DEF State, Settled, HasSubscribers, SubscribersOf, GoodEngine, ResultsAreFlat
<1>5. \A q \in Ids, d \in Ids, i \in Nat :
        /\ ChildAt(t, q, i, d) <=> ChildAt(s, q, i, d)
        /\ InvokeAt(t, i, q, d) <=> InvokeAt(s, i, q, d) \/ (q = p /\ i = n /\ d = c)
        /\ PublishAt(t, i, q) <=> PublishAt(s, i, q)
  <2> TAKE q \in Ids, d \in Ids, i \in Nat
  <2>1. ChildAt(t, q, i, d) <=> ChildAt(s, q, i, d)
    BY <1>2 DEF ChildAt, SubscribersOf
  <2>2. CASE i = n
    BY <1>1, <1>3, <2>1, <2>2 DEF InvokeAt, PublishAt
  <2>3. CASE i # n
    <3>1. i \in DOMAIN t.queue <=> i \in DOMAIN s.queue
      BY <1>3, <2>3
    <3> QED
      BY <1>3, <2>1, <2>3, <3>1 DEF InvokeAt, PublishAt
  <2> QED
    BY <2>2, <2>3
<1>6. \A q \in Ids, d \in Ids, i \in Nat : ChildAt(s, q, i, d) \/ InvokeAt(s, i, q, d) => d < c
  BY <1>0, NewestIsNowhere
<1>7. EngineSound(t)
  <2>1. EntriesAreTyped(t)
    <3> SUFFICES ASSUME NEW i \in DOMAIN t.queue
                 PROVE  /\ t.queue[i].kind # "undefined" => t.queue[i].promise \in Ids
                        /\ t.queue[i].kind \in {"publish", "invoke"} =>
                             Settled(t, t.queue[i].promise)
                        /\ t.queue[i].kind = "invoke" => t.queue[i].child \in SubscriberRecords
      BY DEF EntriesAreTyped
    <3>1. CASE i \in DOMAIN s.queue
      <4>1. t.queue[i] = s.queue[i]
        BY <1>3, <3>1
      <4>2. /\ s.queue[i].kind # "undefined" => s.queue[i].promise \in Ids
            /\ s.queue[i].kind \in {"publish", "invoke"} => Settled(s, s.queue[i].promise)
            /\ s.queue[i].kind = "invoke" => s.queue[i].child \in SubscriberRecords
        BY <1>0, <3>1 DEF EngineSound, EntriesAreTyped
      <4> QED
        BY <1>4, <4>1, <4>2
    <3>2. CASE i = n
      BY <1>1, <1>3, <1>4, <3>2
    <3> QED
      BY <1>3, <3>1, <3>2
  <2>2. BornInOrder(t)
    BY <1>0, <1>4 DEF EngineSound, BornInOrder
  <2>3. SubscribedAreBorn(t) /\ InvokedAreBorn(t)
    <3>1. SubscribedAreBorn(s) /\ InvokedAreBorn(s) /\ State(s, c) # "unborn"
      BY <1>0 DEF EngineSound, NewestChild
    <3> QED
      BY <1>4, <1>5, <3>1 DEF SubscribedAreBorn, InvokedAreBorn
  <2>4. SubscribedInOrder(t)
    BY <1>0, <1>5 DEF EngineSound, SubscribedInOrder
  <2>5. InvokedInOrder(t)
    <3> SUFFICES ASSUME NEW q \in Ids, NEW x \in Ids, NEW y \in Ids, NEW i \in Nat, NEW j \in Nat,
                        InvokeAt(t, i, q, x), InvokeAt(t, j, q, y), i < j
                 PROVE  x < y
      BY DEF InvokedInOrder
    <3>1. CASE InvokeAt(s, i, q, x) /\ InvokeAt(s, j, q, y)
      BY <1>0, <3>1 DEF EngineSound, InvokedInOrder
    <3>2. CASE InvokeAt(s, i, q, x) /\ y = c
      BY <1>6, <3>2
    <3>3. CASE i = n
      BY <1>3, <3>3 DEF InvokeAt
    <3> QED
      BY <1>5, <3>1, <3>2, <3>3
  <2> QED
    BY <2>1, <2>2, <2>3, <2>4, <2>5 DEF EngineSound
<1>8. FrameSound(t, a, f)
  <2>1. a \in 0..(n + 1) /\ (f # NoFrame => a \in DOMAIN s.queue /\ a \in DOMAIN t.queue)
    BY <1>0, <1>3 DEF FrameSound
  <2>2. f.publishing # 0 => PublishAt(t, a, f.publishing)
    <3>1. f.publishing # 0 => f.publishing \in Ids /\ PublishAt(s, a, f.publishing) /\ a \in Nat
      BY <1>0, <1>3 DEF FrameSound, Frames
    <3> QED
      BY <1>5, <3>1
  <2>3. f # NoFrame /\ f.publishing = 0 => t.queue[a].kind # "publish"
    BY <1>0, <1>3, <2>1 DEF FrameSound
  <2> QED
    BY <1>0, <1>3, <2>1, <2>2, <2>3 DEF FrameSound
<1>9. QueueSound(t, a)
  <2>0. a \in 0..n
    BY <1>0, <1>3 DEF FrameSound
  <2>1. \A i \in DOMAIN t.queue : i < a => i \in DOMAIN s.queue
    BY <1>3, <2>0
  <2>2. \A q \in Ids, i \in Nat : PublishAt(s, i, q) => PublishAt(t, i, q)
    BY <1>5
  <2>3. s.queue = <<>> => t.scheduled
    BY <1>2
  <2>4. s.scheduled => t.scheduled
    BY <1>2
  <2> QED
    BY <1>0, <1>3, <1>4, <2>1, <2>2, <2>3, <2>4 DEF QueueSound
<1>10. NoneOvertakes(t, a)
  <2> SUFFICES ASSUME NEW q \in Ids, NEW x \in Ids, NEW y \in Ids, NEW i \in Nat, NEW k \in Nat,
                      ChildAt(t, q, i, x), InvokeAt(t, k, q, y)
               PROVE  x < y /\ \E j \in Nat : a <= j /\ j < k /\ PublishAt(t, j, q)
    BY DEF NoneOvertakes
  <2>1. ChildAt(s, q, i, x)
    BY <1>5
  <2>2. CASE InvokeAt(s, k, q, y)
    <3>1. x < y /\ \E j \in Nat : a <= j /\ j < k /\ PublishAt(s, j, q)
      BY <1>0, <2>1, <2>2 DEF NoneOvertakes
    <3> QED
      BY <1>5, <3>1
  <2>3. CASE q = p /\ k = n /\ y = c
    <3>1. HasSubscribers(s, q)
      BY <2>1, EmptySeq DEF ChildAt, HasSubscribers
    <3>2. PICK j \in Nat : j >= a /\ PublishAt(s, j, q)
      BY <1>0, <2>3, <3>1 DEF QueueSound
    <3>3. j < n
      BY <1>3, <3>2 DEF PublishAt
    <3>4. a <= j
      BY <1>0, <1>3, <3>2 DEF FrameSound
    <3> QED
      BY <1>5, <1>6, <2>1, <2>3, <3>2, <3>3, <3>4
  <2> QED
    BY <1>5, <2>2, <2>3
<1>11. CallSound(t, a, f, par2, cal)
  <2>1. par2 \in [Ids -> Ids \union {0}] /\ par2[c] = p /\ \A d \in Ids : d # c => par2[d] = par[d]
    BY <1>0
  <2> HIDE DEF par2
  <2>2. ParentsKnown(t, par2)
    <3>1. State(s, c) # "unborn"
      BY DEF NewestChild
    <3>2. \A q \in Ids, d \in Ids, i \in Nat :
            ChildAt(s, q, i, d) \/ InvokeAt(s, i, q, d) => d # c /\ par[d] = q
      BY <1>0, <1>6 DEF ParentsKnown, Ids
    <3>3. \A d \in Ids : State(t, d) = "unborn" => par2[d] = 0
      BY <1>0, <1>4, <2>1, <3>1 DEF ParentsKnown
    <3> QED
      BY <1>5, <2>1, <3>2, <3>3 DEF ParentsKnown
  <2>3. ~(n = a /\ f # NoFrame)
    BY <1>0, <1>3 DEF FrameSound
  <2>4. Awaits(t, a, f, p, c)
    BY <1>3, <1>5, <2>3 DEF Awaits
  <2>5. ASSUME NEW d \in Ids, d # c, NEW q \in Ids
        PROVE  Awaits(t, a, f, q, d) <=> Awaits(s, a, f, q, d)
    BY <1>5, <2>5 DEF Awaits
  <2>6. CallsKnown(t, a, f, par2, cal)
    <3> SUFFICES ASSUME NEW d \in Ids
                 PROVE  cal[d] = 0 <=> par2[d] = 0 \/ Awaits(t, a, f, par2[d], d)
      BY DEF CallsKnown
    <3>1. cal[d] = 0 <=> par[d] = 0 \/ Awaits(s, a, f, par[d], d)
      BY <1>0 DEF CallsKnown
    <3>2. par[d] = 0 \/ par[d] \in Ids
      BY <1>0
    <3>3. CASE d = c
      BY <2>1, <2>4, <3>1, <3>3 DEF NewestChild
    <3>4. CASE d # c
      BY <2>1, <2>5, <3>1, <3>2, <3>4
    <3> QED
      BY <3>3, <3>4
  <2> QED
    BY <1>0, <2>1, <2>2, <2>6 DEF CallSound
<1> QED
  BY <1>4, <1>7, <1>8, <1>9, <1>10, <1>11 DEF Consistent, FlushSound

-----------------------------------------------------------------------------
\* A flush begins, and ends.
LEMMA FlushingKeeps ==
  ASSUME NEW s, NEW f, NEW par, NEW cal, Consistent(s, 0, f, par, cal),
         NEW t, t = [s EXCEPT !.scheduled = FALSE]
  PROVE  Consistent(t, 1, f, par, cal)
<1>0. /\ GoodEngine(s) /\ EngineSound(s) /\ FlushSound(s, 0, f)
      /\ CallSound(s, 0, f, par, cal)
      /\ FrameSound(s, 0, f) /\ QueueSound(s, 0) /\ NoneOvertakes(s, 0)
      /\ s \in Engines /\ ResultsAreFlat(s)
  BY DEF Consistent, FlushSound, GoodEngine
<1>1. t \in Engines /\ t.queue = s.queue /\ t.promise = s.promise
  BY <1>0 DEF Engines
<1>2. f = NoFrame /\ f.publishing = 0
  BY <1>0, <1>1 DEF FrameSound, Engines, NoFrame
<1>3. /\ \A p \in Ids : State(t, p) = State(s, p) /\ SubscribersOf(t, p) = SubscribersOf(s, p)
      /\ \A p \in Ids, c \in Ids, i \in Nat :
           /\ ChildAt(t, p, i, c) <=> ChildAt(s, p, i, c)
           /\ InvokeAt(t, i, p, c) <=> InvokeAt(s, i, p, c)
           /\ PublishAt(t, i, p) <=> PublishAt(s, i, p)
  BY <1>1 DEF State, SubscribersOf, ChildAt, InvokeAt, PublishAt
<1>4. \A p \in Ids, i \in Nat : PublishAt(s, i, p) => i >= 1
  BY <1>0 DEF PublishAt, Engines
<1>5. GoodEngine(t)
  BY <1>0, <1>1 DEF GoodEngine, ResultsAreFlat, State
<1>6. EngineSound(t)
  <2>1. EntriesAreTyped(t) /\ BornInOrder(t)
    BY <1>0, <1>1, <1>3 DEF EngineSound, EntriesAreTyped, BornInOrder, Settled
  <2>2. SubscribedAreBorn(t) /\ InvokedAreBorn(t) /\ SubscribedInOrder(t)
    BY <1>0, <1>3 DEF EngineSound, SubscribedAreBorn, InvokedAreBorn, SubscribedInOrder
  <2>3. InvokedInOrder(t)
    BY <1>0, <1>3 DEF EngineSound, InvokedInOrder
  <2> QED
    BY <2>1, <2>2, <2>3 DEF EngineSound
<1>7. FrameSound(t, 1, f)
  BY <1>0, <1>1, <1>2 DEF FrameSound, Engines
<1>8. QueueSound(t, 1)
  <2>1. \A i \in DOMAIN t.queue : ~(i < 1)
    BY <1>1 DEF Engines
  <2>2. \A p \in Ids :
          Settled(t, p) /\ HasSubscribers(t, p) => \E i \in Nat : i >= 1 /\ PublishAt(t, i, p)
    BY <1>0, <1>3, <1>4 DEF QueueSound, Settled, HasSubscribers
  <2>3. t.queue # <<>> => t.scheduled \/ 1 > 0
    OBVIOUS
  <2> QED
    BY <2>1, <2>2, <2>3 DEF QueueSound
<1>9. NoneOvertakes(t, 1)
  <2> SUFFICES ASSUME NEW p \in Ids, NEW c \in Ids, NEW d \in Ids, NEW i \in Nat, NEW k \in Nat,
                      ChildAt(t, p, i, c), InvokeAt(t, k, p, d)
               PROVE  c < d /\ \E j \in Nat : 1 <= j /\ j < k /\ PublishAt(t, j, p)
    BY DEF NoneOvertakes
  <2>1. c < d /\ \E j \in Nat : 0 <= j /\ j < k /\ PublishAt(s, j, p)
    BY <1>0, <1>3 DEF NoneOvertakes
  <2> QED
    BY <1>3, <1>4, <2>1
<1>10. CallSound(t, 1, f, par, cal)
  <2>1. ParentsKnown(t, par)
    BY <1>0, <1>3 DEF CallSound, ParentsKnown
  <2>2. ASSUME NEW c \in Ids, NEW p \in Ids
        PROVE  Awaits(t, 1, f, p, c) <=> Awaits(s, 0, f, p, c)
    BY <1>2, <1>3 DEF Awaits
  <2>3. CallsKnown(t, 1, f, par, cal)
    BY <1>0, <2>2 DEF CallSound, CallsKnown
  <2> QED
    BY <1>0, <2>1, <2>3 DEF CallSound
<1> QED
  BY <1>5, <1>6, <1>7, <1>8, <1>9, <1>10 DEF Consistent, FlushSound

\* A flush ends when every entry is done, and clears the queue.
LEMMA EndingKeeps ==
  ASSUME NEW s, NEW a, NEW f, NEW par, NEW cal, Consistent(s, a, f, par, cal),
         a > Len(s.queue),
         NEW t, t = [s EXCEPT !.queue = <<>>]
  PROVE  Consistent(t, 0, f, par, cal)
<1>0. /\ GoodEngine(s) /\ EngineSound(s) /\ FlushSound(s, a, f)
      /\ CallSound(s, a, f, par, cal)
      /\ FrameSound(s, a, f) /\ QueueSound(s, a) /\ NoneOvertakes(s, a)
      /\ s \in Engines /\ ResultsAreFlat(s)
  BY DEF Consistent, FlushSound, GoodEngine
<1>1. t \in Engines /\ t.queue = <<>> /\ t.promise = s.promise
  <2>1. <<>> \in Seq(Entries)
    OBVIOUS
  <2> DEFINE none == <<>>
  <2> HIDE DEF none
  <2>2. none \in Seq(Entries) /\ t = [s EXCEPT !.queue = none]
    BY <2>1 DEF none
  <2>3. t \in Engines /\ t.queue = none /\ t.promise = s.promise
    BY <1>0, <2>2 DEF Engines
  <2> QED
    BY <2>3 DEF none
<1>2. f = NoFrame /\ f.publishing = 0 /\ f.foreign = 0
  BY <1>0 DEF FrameSound, Engines, NoFrame
<1>3. \A i \in DOMAIN s.queue : i < a /\ s.queue[i] = Done
  BY <1>0 DEF QueueSound, FrameSound, Engines
<1>4. /\ \A p \in Ids : State(t, p) = State(s, p) /\ SubscribersOf(t, p) = SubscribersOf(s, p)
      /\ \A p \in Ids, c \in Ids, i \in Nat :
           /\ ChildAt(t, p, i, c) <=> ChildAt(s, p, i, c)
           /\ ~InvokeAt(t, i, p, c) /\ ~InvokeAt(s, i, p, c)
           /\ ~PublishAt(s, i, p)
  BY <1>1, <1>3 DEF State, SubscribersOf, ChildAt, InvokeAt, PublishAt, Done, Entry
<1>5. GoodEngine(t)
  BY <1>0, <1>1 DEF GoodEngine, ResultsAreFlat, State
<1>6. EngineSound(t)
  <2>1. EntriesAreTyped(t) /\ BornInOrder(t)
    BY <1>0, <1>1, <1>4 DEF EngineSound, EntriesAreTyped, BornInOrder
  <2>2. SubscribedAreBorn(t) /\ InvokedAreBorn(t) /\ SubscribedInOrder(t)
    BY <1>0, <1>4 DEF EngineSound, SubscribedAreBorn, InvokedAreBorn, SubscribedInOrder
  <2>3. InvokedInOrder(t)
    BY <1>4 DEF InvokedInOrder
  <2> QED
    BY <2>1, <2>2, <2>3 DEF EngineSound
<1>7. FrameSound(t, 0, f)
  BY <1>0, <1>1, <1>2 DEF FrameSound
<1>8. QueueSound(t, 0)
  BY <1>0, <1>1, <1>4 DEF QueueSound, Settled, HasSubscribers
<1>9. NoneOvertakes(t, 0)
  BY <1>4 DEF NoneOvertakes
<1>10. CallSound(t, 0, f, par, cal)
  <2>1. ParentsKnown(t, par)
    BY <1>0, <1>4 DEF CallSound, ParentsKnown
  <2>2. ASSUME NEW c \in Ids, NEW p \in Ids
        PROVE  Awaits(t, 0, f, p, c) <=> Awaits(s, a, f, p, c)
    BY <1>4 DEF Awaits
  <2>3. CallsKnown(t, 0, f, par, cal)
    BY <1>0, <2>2 DEF CallSound, CallsKnown
  <2> QED
    BY <1>0, <2>1, <2>3 DEF CallSound
<1> QED
  BY <1>5, <1>6, <1>7, <1>8, <1>9, <1>10 DEF Consistent, FlushSound

-----------------------------------------------------------------------------
\* Flush turns to the entry at its index.
LEMMA FramingKeeps ==
  ASSUME NEW s, NEW a, NEW f, NEW par, NEW cal, Consistent(s, a, f, par, cal),
         NEW g \in Frames, FrameSound(s, a, g),
         NEW cal2 \in [Ids -> Nat],
         \A c \in Ids, p \in Ids : par[c] = p =>
           (cal2[c] = 0 <=> cal[c] = 0 /\ Awaits(s, a, g, p, c)),
         \A c \in Ids : par[c] = 0 => cal2[c] = cal[c],
         \A c \in Ids, p \in Ids : Awaits(s, a, g, p, c) => Awaits(s, a, f, p, c)
  PROVE  Consistent(s, a, g, par, cal2)
<1>1. /\ par \in [Ids -> Ids \union {0}] /\ ParentsKnown(s, par)
      /\ CallsKnown(s, a, f, par, cal)
  BY DEF Consistent, CallSound
<1>2. CallsKnown(s, a, g, par, cal2)
  <2> SUFFICES ASSUME NEW c \in Ids
               PROVE  cal2[c] = 0 <=> par[c] = 0 \/ Awaits(s, a, g, par[c], c)
    BY DEF CallsKnown
  <2>1. cal[c] = 0 <=> par[c] = 0 \/ Awaits(s, a, f, par[c], c)
    BY <1>1 DEF CallsKnown
  <2>2. par[c] = 0 \/ par[c] \in Ids
    BY <1>1
  <2> QED
    BY <2>1, <2>2
<1> QED
  BY <1>1, <1>2 DEF Consistent, FlushSound, CallSound

\* publish begins with its first subscriber.
LEMMA PublishingKeeps ==
  ASSUME NEW s, NEW a, NEW par, NEW cal, Consistent(s, a, NoFrame, par, cal),
         NEW p \in Ids, a \in Nat, PublishAt(s, a, p)
  PROVE  Consistent(s, a, [NoFrame EXCEPT !.publishing = p, !.index = 1], par, cal)
<1> DEFINE g == [NoFrame EXCEPT !.publishing = p, !.index = 1]
<1>0. /\ FrameSound(s, a, NoFrame) /\ CallsKnown(s, a, NoFrame, par, cal)
      /\ cal \in [Ids -> Nat] /\ s \in Engines /\ ParentsKnown(s, par)
  BY DEF Consistent, FlushSound, CallSound, GoodEngine
<1>1. /\ g \in Frames /\ g.publishing = p /\ g.index = 1 /\ g.callback = 0 /\ g.foreign = 0
      /\ NoFrame.publishing = 0 /\ p # 0
  <2> DEFINE h == [NoFrame EXCEPT !.publishing = p]
  <2>1. g = [h EXCEPT !.index = 1]
    OBVIOUS
  <2>2. h = [publishing |-> p, index |-> 0, callback |-> 0, foreign |-> 0]
    BY DEF NoFrame
  <2> HIDE DEF g, h
  <2>3. g = [publishing |-> p, index |-> 1, callback |-> 0, foreign |-> 0]
    BY <2>1, <2>2
  <2> QED
    BY <2>3 DEF NoFrame, Frames, Ids
<1> HIDE DEF g
<1>2. FrameSound(s, a, g)
  BY <1>0, <1>1 DEF FrameSound, PublishAt
<1>3. \A c \in Ids, q \in Ids : Awaits(s, a, g, q, c) <=> Awaits(s, a, NoFrame, q, c)
  <2>1. \A q \in Ids, i \in Nat, c \in Ids : ChildAt(s, q, i, c) => ~Passed(g, q, i)
    BY <1>0, <1>1, EngineParts DEF Passed, ChildAt
  <2>2. \A q \in Ids, c \in Ids : ~InvokeAt(s, a, q, c)
    BY DEF PublishAt, InvokeAt
  <2>3. \A q \in Ids, i \in Nat : ~Passed(NoFrame, q, i)
    BY <1>1 DEF Passed, Ids
  <2> QED
    BY <2>1, <2>2, <2>3 DEF Awaits
<1>4. \A c \in Ids, q \in Ids : par[c] = q => (cal[c] = 0 <=> cal[c] = 0 /\ Awaits(s, a, g, q, c))
  BY <1>0, <1>3 DEF CallsKnown, Ids
<1>5. Consistent(s, a, g, par, cal)
  BY <1>0, <1>1, <1>2, <1>3, <1>4, FramingKeeps
<1> QED
  BY <1>5 DEF g

\* A foreign then() is called.
LEMMA CallingForeignKeeps ==
  ASSUME NEW s, NEW a, NEW par, NEW cal, Consistent(s, a, NoFrame, par, cal),
         a \in DOMAIN s.queue, s.queue[a].kind = "foreign", NEW p \in Ids
  PROVE  Consistent(s, a, [NoFrame EXCEPT !.foreign = p], par, cal)
<1> DEFINE g == [NoFrame EXCEPT !.foreign = p]
<1>0. /\ FrameSound(s, a, NoFrame) /\ CallsKnown(s, a, NoFrame, par, cal)
      /\ cal \in [Ids -> Nat] /\ s \in Engines /\ ParentsKnown(s, par)
  BY DEF Consistent, FlushSound, CallSound, GoodEngine
<1>1. /\ g \in Frames /\ g.publishing = 0 /\ g.callback = 0 /\ g.foreign = p
      /\ NoFrame.publishing = 0 /\ p # 0
  BY DEF NoFrame, Frames, Ids
<1> HIDE DEF g
<1>2. FrameSound(s, a, g)
  BY <1>0, <1>1 DEF FrameSound
<1>3. \A c \in Ids, q \in Ids : Awaits(s, a, g, q, c) <=> Awaits(s, a, NoFrame, q, c)
  <2>1. \A q \in Ids, c \in Ids : ~InvokeAt(s, a, q, c)
    BY DEF InvokeAt
  <2>2. \A q \in Ids, i \in Nat : ~Passed(NoFrame, q, i) /\ ~Passed(g, q, i)
    BY <1>1 DEF Passed, Ids
  <2> QED
    BY <2>1, <2>2 DEF Awaits
<1>4. \A c \in Ids, q \in Ids : par[c] = q => (cal[c] = 0 <=> cal[c] = 0 /\ Awaits(s, a, g, q, c))
  BY <1>0, <1>3 DEF CallsKnown, Ids
<1>5. Consistent(s, a, g, par, cal)
  BY <1>0, <1>1, <1>2, <1>3, <1>4, FramingKeeps
<1> QED
  BY <1>5 DEF g

-----------------------------------------------------------------------------
\* A child's callback is called, from the queue or by publish.
MayCall(s, par, cal, c) ==
  /\ cal[c] = 0 /\ par[c] \in Ids /\ Settled(s, par[c])
  /\ \A d \in Ids : d < c /\ par[d] = par[c] => cal[d] > 0

\* The child of an entry is the first of its parent's that still waits.
LEMMA CallingFromQueue ==
  ASSUME NEW s, NEW a, NEW par, NEW cal, Consistent(s, a, NoFrame, par, cal),
         NEW p \in Ids, NEW c \in Ids, InvokeAt(s, a, p, c)
  PROVE  /\ Consistent(s, a, [NoFrame EXCEPT !.callback = c], par, [cal EXCEPT ![c] = @ + 1])
         /\ MayCall(s, par, cal, c)
<1> DEFINE g == [NoFrame EXCEPT !.callback = c]
           cal2 == [cal EXCEPT ![c] = @ + 1]
<1>0. /\ FrameSound(s, a, NoFrame) /\ QueueSound(s, a) /\ NoneOvertakes(s, a)
      /\ EngineSound(s) /\ s \in Engines
      /\ par \in [Ids -> Ids \union {0}] /\ cal \in [Ids -> Nat]
      /\ ParentsKnown(s, par) /\ CallsKnown(s, a, NoFrame, par, cal)
  BY DEF Consistent, FlushSound, CallSound, GoodEngine
<1>1. /\ g \in Frames /\ g.publishing = 0 /\ g.callback = c /\ g.foreign = 0
      /\ NoFrame.publishing = 0 /\ g # NoFrame /\ NoFrame.callback = 0
  BY DEF NoFrame, Frames, Ids
<1>2. /\ cal2 \in [Ids -> Nat] /\ cal2[c] = cal[c] + 1
      /\ \A d \in Ids : d # c => cal2[d] = cal[d]
  BY <1>0
<1> HIDE DEF g, cal2
<1>3. /\ a \in DOMAIN s.queue /\ a \in Nat /\ s.queue[a].kind = "invoke"
      /\ s.queue[a].promise = p /\ s.queue[a].child.promise = c
      /\ \A i \in DOMAIN s.queue : i \in Nat
  BY <1>0 DEF InvokeAt, Engines
<1>4. par[c] = p /\ Settled(s, p) /\ p # 0
  BY <1>0, <1>3 DEF ParentsKnown, EngineSound, EntriesAreTyped, Ids
<1>5. \A q \in Ids, i \in Nat, d \in Ids : ~Passed(NoFrame, q, i) /\ ~Passed(g, q, i)
  BY <1>1 DEF Passed, Ids
\* Nobody is before c.
<1>6. ASSUME NEW d \in Ids, NEW i \in Nat
      PROVE  /\ ~ChildAt(s, p, i, d)
             /\ InvokeAt(s, i, p, d) => (i = a /\ d = c) \/ (i > a /\ c < d)
  <2>1. ~ChildAt(s, p, i, d)
    <3> SUFFICES ASSUME ChildAt(s, p, i, d)
                 PROVE  FALSE
      OBVIOUS
    <3>1. \E j \in Nat : a <= j /\ j < a /\ PublishAt(s, j, p)
      BY <1>0, <1>3 DEF NoneOvertakes
    <3> QED
      BY <1>3, <3>1
  <2>2. ASSUME InvokeAt(s, i, p, d)
        PROVE  (i = a /\ d = c) \/ (i > a /\ c < d)
    <3>1. CASE i < a
      BY <1>0, <2>2, <3>1 DEF QueueSound, InvokeAt, Done, Entry
    <3>2. CASE i = a
      BY <1>3, <2>2, <3>2 DEF InvokeAt
    <3>3. CASE i > a
      BY <1>0, <1>3, <2>2, <3>3 DEF EngineSound, InvokedInOrder
    <3> QED
      BY <1>3, <3>1, <3>2, <3>3
  <2> QED
    BY <2>1, <2>2
<1>7. ~Awaits(s, a, g, p, c)
  BY <1>1, <1>6 DEF Awaits, Ids
<1>8. ASSUME NEW d \in Ids, d # c, NEW q \in Ids
      PROVE  Awaits(s, a, g, q, d) <=> Awaits(s, a, NoFrame, q, d)
  <2>1. ~InvokeAt(s, a, q, d)
    BY <1>3, <1>8 DEF InvokeAt
  <2> QED
    BY <1>5, <2>1 DEF Awaits
<1>9. Awaits(s, a, NoFrame, p, c)
  BY <1>3 DEF Awaits
<1>10. FrameSound(s, a, g)
  BY <1>0, <1>1, <1>3 DEF FrameSound
<1>11. Consistent(s, a, g, par, cal2)
  <2>1. ASSUME NEW d \in Ids, NEW q \in Ids, par[d] = q
        PROVE  cal2[d] = 0 <=> cal[d] = 0 /\ Awaits(s, a, g, q, d)
    <3>1. CASE d = c
      BY <1>0, <1>2, <1>4, <1>7, <2>1, <3>1
    <3>2. CASE d # c
      <4>1. cal[d] = 0 <=> par[d] = 0 \/ Awaits(s, a, NoFrame, par[d], d)
        BY <1>0 DEF CallsKnown
      <4> QED
        BY <1>2, <1>8, <2>1, <3>2, <4>1 DEF Ids
    <3> QED
      BY <3>1, <3>2
  <2>2. \A d \in Ids : par[d] = 0 => cal2[d] = cal[d]
    BY <1>2, <1>4
  <2>3. ASSUME NEW d \in Ids, NEW q \in Ids, Awaits(s, a, g, q, d)
        PROVE  Awaits(s, a, NoFrame, q, d)
    BY <1>5, <1>1, <2>3 DEF Awaits
  <2> QED
    BY <1>1, <1>2, <1>10, <2>1, <2>2, <2>3, FramingKeeps
<1>12. MayCall(s, par, cal, c)
  <2>1. cal[c] = 0
    BY <1>0, <1>4, <1>9 DEF CallsKnown
  <2>2. ASSUME NEW d \in Ids, d < c, par[d] = p
        PROVE  cal[d] > 0
    <3>1. ~Awaits(s, a, NoFrame, p, d)
      BY <1>3, <1>6, <2>2 DEF Awaits, Ids
    <3>2. cal[d] # 0
      BY <1>0, <1>4, <2>2, <3>1 DEF CallsKnown
    <3> QED
      BY <1>0, <3>2
  <2> QED
    BY <1>4, <2>1, <2>2 DEF MayCall
<1> QED
  BY <1>11, <1>12 DEF g, cal2

\* The child that publish has reached is the first that still waits.
LEMMA CallingFromPublish ==
  ASSUME NEW s, NEW a, NEW f, NEW par, NEW cal, Consistent(s, a, f, par, cal),
         NEW p \in Ids, f.publishing = p, f.callback = 0,
         NEW c \in Ids, ChildAt(s, p, f.index, c)
  PROVE  /\ Consistent(s, a, [f EXCEPT !.callback = c], par, [cal EXCEPT ![c] = @ + 1])
         /\ MayCall(s, par, cal, c)
<1> DEFINE g == [f EXCEPT !.callback = c]
           cal2 == [cal EXCEPT ![c] = @ + 1]
<1>0. /\ FrameSound(s, a, f) /\ QueueSound(s, a) /\ NoneOvertakes(s, a)
      /\ EngineSound(s) /\ s \in Engines /\ f \in Frames
      /\ par \in [Ids -> Ids \union {0}] /\ cal \in [Ids -> Nat]
      /\ ParentsKnown(s, par) /\ CallsKnown(s, a, f, par, cal)
  BY DEF Consistent, FlushSound, CallSound, GoodEngine, FrameSound
<1>1. /\ g \in Frames /\ g.publishing = p /\ g.callback = c /\ g.foreign = f.foreign
      /\ g.index = f.index /\ f.index \in Nat
  BY <1>0 DEF Frames
<1>2. /\ cal2 \in [Ids -> Nat] /\ cal2[c] = cal[c] + 1
      /\ \A d \in Ids : d # c => cal2[d] = cal[d]
  BY <1>0
<1> HIDE DEF g, cal2
<1>3. /\ p # 0 /\ c # 0 /\ f # NoFrame /\ g # NoFrame
  BY <1>1 DEF NoFrame, Ids
<1>4. /\ PublishAt(s, a, p) /\ Settled(s, p) /\ f.foreign = 0
  BY <1>0, <1>3 DEF FrameSound, EngineSound, EntriesAreTyped, PublishAt
<1>5. par[c] = p
  BY <1>0, <1>1 DEF ParentsKnown
<1>6. /\ \A q \in Ids, i \in Nat : Passed(f, q, i) <=> q = p /\ i < f.index
      /\ \A q \in Ids, i \in Nat : Passed(g, q, i) <=> q = p /\ i <= f.index
  BY <1>1, <1>3 DEF Passed
<1>7. ASSUME NEW d \in Ids, NEW i \in Nat
      PROVE  /\ ChildAt(s, p, i, d) => i < f.index \/ (i = f.index /\ d = c) \/ (i > f.index /\ c < d)
             /\ InvokeAt(s, i, p, d) => c < d
  <2>1. InvokeAt(s, i, p, d) => c < d
    BY <1>0, <1>1 DEF NoneOvertakes
  <2>2. ASSUME ChildAt(s, p, i, d)
        PROVE  i < f.index \/ (i = f.index /\ d = c) \/ (i > f.index /\ c < d)
    <3>1. CASE i = f.index
      BY <2>2, <3>1 DEF ChildAt
    <3>2. CASE i > f.index
      BY <1>0, <1>1, <2>2, <3>2 DEF EngineSound, SubscribedInOrder
    <3> QED
      BY <1>1, <3>1, <3>2
  <2> QED
    BY <2>1, <2>2
<1>8. ~Awaits(s, a, g, p, c)
  <2>1. ~(c < c)
    BY DEF Ids
  <2> QED
    BY <1>1, <1>6, <1>7, <2>1 DEF Awaits
<1>9. ASSUME NEW d \in Ids, d # c, NEW q \in Ids
      PROVE  Awaits(s, a, g, q, d) <=> Awaits(s, a, f, q, d)
  <2>1. \A i \in Nat : ChildAt(s, q, i, d) => (Passed(g, q, i) <=> Passed(f, q, i))
    BY <1>1, <1>6, <1>7, <1>9
  <2> QED
    BY <1>3, <2>1 DEF Awaits
<1>10. Awaits(s, a, f, p, c)
  BY <1>1, <1>6 DEF Awaits
<1>11. FrameSound(s, a, g)
  BY <1>0, <1>1, <1>3, <1>4 DEF FrameSound
<1>12. Consistent(s, a, g, par, cal2)
  <2>1. ASSUME NEW d \in Ids, NEW q \in Ids, par[d] = q
        PROVE  cal2[d] = 0 <=> cal[d] = 0 /\ Awaits(s, a, g, q, d)
    <3>1. CASE d = c
      BY <1>0, <1>2, <1>5, <1>8, <2>1, <3>1
    <3>2. CASE d # c
      <4>1. cal[d] = 0 <=> par[d] = 0 \/ Awaits(s, a, f, par[d], d)
        BY <1>0 DEF CallsKnown
      <4> QED
        BY <1>2, <1>9, <2>1, <3>2, <4>1 DEF Ids
    <3> QED
      BY <3>1, <3>2
  <2>2. \A d \in Ids : par[d] = 0 => cal2[d] = cal[d]
    BY <1>2, <1>3, <1>5
  <2>3. ASSUME NEW d \in Ids, NEW q \in Ids, Awaits(s, a, g, q, d)
        PROVE  Awaits(s, a, f, q, d)
    <3>1. \A i \in Nat : ~Passed(g, q, i) => ~Passed(f, q, i)
      BY <1>1, <1>6
    <3> QED
      BY <1>3, <2>3, <3>1 DEF Awaits
  <2> QED
    BY <1>1, <1>2, <1>11, <2>1, <2>2, <2>3, FramingKeeps
<1>13. MayCall(s, par, cal, c)
  <2>1. cal[c] = 0
    BY <1>0, <1>5, <1>10 DEF CallsKnown
  <2>2. ASSUME NEW d \in Ids, d < c, par[d] = p
        PROVE  cal[d] > 0
    <3>1. ~Awaits(s, a, f, p, d)
      BY <1>1, <1>6, <1>7, <2>2 DEF Awaits, Ids
    <3>2. cal[d] # 0
      BY <1>0, <1>3, <2>2, <3>1 DEF CallsKnown
    <3> QED
      BY <1>0, <3>2
  <2> QED
    BY <1>4, <1>5, <2>1, <2>2 DEF MayCall
<1> QED
  BY <1>12, <1>13 DEF g, cal2

\* publish goes on with its next subscriber.
LEMMA NextSubscriberKeeps ==
  ASSUME NEW s, NEW a, NEW f, NEW par, NEW cal, Consistent(s, a, f, par, cal),
         f.publishing # 0,
         f.callback # 0 \/ \A c \in Ids : ~ChildAt(s, f.publishing, f.index, c)
  PROVE  Consistent(s, a, [f EXCEPT !.index = @ + 1, !.callback = 0], par, cal)
<1> DEFINE h == [f EXCEPT !.index = f.index + 1]
           g == [h EXCEPT !.callback = 0]
<1>0. /\ FrameSound(s, a, f) /\ f \in Frames /\ CallsKnown(s, a, f, par, cal)
      /\ cal \in [Ids -> Nat]
  BY DEF Consistent, FlushSound, CallSound, FrameSound
<1>1. [f EXCEPT !.index = @ + 1, !.callback = 0] = g
  OBVIOUS
<1>2. /\ h \in Frames /\ h.publishing = f.publishing /\ h.foreign = f.foreign
      /\ h.index = f.index + 1
  BY <1>0 DEF Frames
<1> HIDE DEF h
<1>3. /\ g \in Frames /\ g.publishing = f.publishing /\ g.foreign = f.foreign
      /\ g.index = f.index + 1 /\ g.callback = 0 /\ f.index \in Nat
  BY <1>0, <1>2 DEF Frames
<1> HIDE DEF g
<1>4. f # NoFrame /\ g # NoFrame
  BY <1>3 DEF NoFrame
<1>5. FrameSound(s, a, g)
  BY <1>0, <1>3, <1>4 DEF FrameSound
<1>6. \A q \in Ids, c \in Ids, i \in Nat :
        ChildAt(s, q, i, c) => (Passed(g, q, i) <=> Passed(f, q, i))
  BY <1>3 DEF Passed
<1>7. \A c \in Ids, q \in Ids : Awaits(s, a, g, q, c) <=> Awaits(s, a, f, q, c)
  BY <1>4, <1>6 DEF Awaits
<1>8. \A c \in Ids, q \in Ids : par[c] = q => (cal[c] = 0 <=> cal[c] = 0 /\ Awaits(s, a, g, q, c))
  BY <1>0, <1>7 DEF CallsKnown, Ids
<1>9. Consistent(s, a, g, par, cal)
  BY <1>0, <1>3, <1>5, <1>7, <1>8, FramingKeeps
<1> QED
  BY <1>1, <1>9

-----------------------------------------------------------------------------
\* The entry at the index is done.
LEMMA EntryEnds ==
  ASSUME NEW s, NEW a, NEW f, NEW par, NEW cal, Consistent(s, a, f, par, cal), f # NoFrame,
         NEW t, GoodEngine(t), t.queue = [s.queue EXCEPT ![a] = Done],
         \A q \in Ids : State(t, q) = State(s, q),
         \A q \in Ids, d \in Ids, i \in Nat :
           ChildAt(t, q, i, d) <=> ChildAt(s, q, i, d) /\ q # f.publishing,
         \A q \in Ids : HasSubscribers(t, q) => HasSubscribers(s, q) /\ q # f.publishing,
         \A d \in Ids, i \in Nat :
           f.publishing # 0 /\ ChildAt(s, f.publishing, i, d) => Passed(f, f.publishing, i)
  PROVE  Consistent(t, a + 1, NoFrame, par, cal)
<1>0. /\ EngineSound(s) /\ FrameSound(s, a, f) /\ QueueSound(s, a) /\ NoneOvertakes(s, a)
      /\ CallSound(s, a, f, par, cal) /\ s \in Engines /\ t \in Engines /\ f \in Frames
      /\ f.publishing \in Ids \union {0}
  BY DEF Consistent, FlushSound, GoodEngine, FrameSound, Frames
<1>1. /\ a \in DOMAIN s.queue /\ a \in Nat /\ a > 0 /\ a <= Len(s.queue)
      /\ DOMAIN s.queue = 1..Len(s.queue) /\ Len(s.queue) \in Nat
      /\ DOMAIN t.queue = 1..Len(s.queue) /\ Len(t.queue) = Len(s.queue)
      /\ t.queue[a] = Done
      /\ \A i \in DOMAIN s.queue : i # a => t.queue[i] = s.queue[i]
  <2>1. s.queue \in Seq(Entries) /\ t.queue \in Seq(Entries)
    BY <1>0 DEF Engines
  <2>2. a \in DOMAIN s.queue
    BY <1>0 DEF FrameSound
  <2> QED
    BY <2>1, <2>2
<1>2. Done.kind = "undefined"
  BY DEF Done, Entry
<1>3. \A q \in Ids, d \in Ids, i \in Nat :
        /\ InvokeAt(t, i, q, d) <=> InvokeAt(s, i, q, d) /\ i # a
        /\ PublishAt(t, i, q) <=> PublishAt(s, i, q) /\ i # a
  BY <1>1, <1>2 DEF InvokeAt, PublishAt
<1>4. \A q \in Ids : PublishAt(s, a, q) => q = f.publishing
  BY <1>0 DEF FrameSound, PublishAt
<1>5. EngineSound(t)
  <2>1. EntriesAreTyped(t)
    <3>1. EntriesAreTyped(s)
      BY <1>0 DEF EngineSound
    <3> SUFFICES ASSUME NEW i \in DOMAIN t.queue
                 PROVE  /\ t.queue[i].kind # "undefined" => t.queue[i].promise \in Ids
                        /\ t.queue[i].kind \in {"publish", "invoke"} =>
                             Settled(t, t.queue[i].promise)
                        /\ t.queue[i].kind = "invoke" => t.queue[i].child \in SubscriberRecords
      BY DEF EntriesAreTyped
    <3>2. CASE i = a
      BY <1>1, <1>2, <3>2
    <3>3. CASE i # a
      <4>1. t.queue[i] = s.queue[i] /\ i \in DOMAIN s.queue
        BY <1>1, <3>3
      <4>2. /\ s.queue[i].kind # "undefined" => s.queue[i].promise \in Ids
            /\ s.queue[i].kind \in {"publish", "invoke"} => Settled(s, s.queue[i].promise)
            /\ s.queue[i].kind = "invoke" => s.queue[i].child \in SubscriberRecords
        BY <3>1, <4>1 DEF EntriesAreTyped
      <4> QED
        BY <4>1, <4>2 DEF Settled
    <3> QED
      BY <3>2, <3>3
  <2>2. BornInOrder(t) /\ SubscribedAreBorn(t) /\ InvokedAreBorn(t)
    BY <1>0, <1>3 DEF EngineSound, BornInOrder, SubscribedAreBorn, InvokedAreBorn
  <2>3. SubscribedInOrder(t)
    BY <1>0 DEF EngineSound, SubscribedInOrder
  <2>4. InvokedInOrder(t)
    BY <1>0, <1>3 DEF EngineSound, InvokedInOrder
  <2> QED
    BY <2>1, <2>2, <2>3, <2>4 DEF EngineSound
<1>6. FrameSound(t, a + 1, NoFrame)
  <2>1. /\ NoFrame \in Frames /\ NoFrame.publishing = 0 /\ NoFrame.foreign = 0
    BY DEF NoFrame, Frames
  <2> QED
    BY <1>1, <2>1 DEF FrameSound
<1>7. QueueSound(t, a + 1)
  <2>1. \A i \in DOMAIN t.queue : i < a + 1 => t.queue[i] = Done
    BY <1>0, <1>1 DEF QueueSound
  <2>2. t.queue # <<>> => t.scheduled \/ a + 1 > 0
    BY <1>1
  <2>3. ASSUME NEW q \in Ids, Settled(t, q), HasSubscribers(t, q)
        PROVE  \E i \in Nat : i >= a + 1 /\ PublishAt(t, i, q)
    <3>1. Settled(s, q) /\ HasSubscribers(s, q) /\ q # f.publishing
      BY <2>3 DEF Settled
    <3>2. PICK i \in Nat : i >= a /\ PublishAt(s, i, q)
      BY <1>0, <3>1 DEF QueueSound
    <3>3. i # a
      BY <1>4, <3>1, <3>2
    <3> QED
      BY <1>1, <1>3, <3>2, <3>3
  <2> QED
    BY <2>1, <2>2, <2>3 DEF QueueSound
<1>8. NoneOvertakes(t, a + 1)
  <2> SUFFICES ASSUME NEW q \in Ids, NEW c \in Ids, NEW d \in Ids, NEW i \in Nat, NEW k \in Nat,
                      ChildAt(t, q, i, c), InvokeAt(t, k, q, d)
               PROVE  c < d /\ \E j \in Nat : a + 1 <= j /\ j < k /\ PublishAt(t, j, q)
    BY DEF NoneOvertakes
  <2>1. /\ q # f.publishing /\ c < d
        /\ \E j \in Nat : a <= j /\ j < k /\ PublishAt(s, j, q)
    BY <1>0, <1>3 DEF NoneOvertakes
  <2>2. PICK j \in Nat : a <= j /\ j < k /\ PublishAt(s, j, q)
    BY <2>1
  <2>3. j # a
    BY <1>4, <2>1, <2>2
  <2> QED
    BY <1>1, <1>3, <2>1, <2>2, <2>3
<1>9. CallSound(t, a + 1, NoFrame, par, cal)
  <2>1. ParentsKnown(t, par)
    BY <1>0, <1>3 DEF CallSound, ParentsKnown
  <2>2. ASSUME NEW c \in Ids, NEW q \in Ids
        PROVE  Awaits(t, a + 1, NoFrame, q, c) <=> Awaits(s, a, f, q, c)
    <3>1. \A i \in Nat : ~Passed(NoFrame, q, i)
      BY DEF Passed, NoFrame, Ids
    <3>2. q # f.publishing => \A i \in Nat : ~Passed(f, q, i)
      BY DEF Passed
    <3>3. q = f.publishing => q # 0
      BY DEF Ids
    <3> QED
      BY <1>3, <3>1, <3>2, <3>3 DEF Awaits
  <2>3. CallsKnown(t, a + 1, NoFrame, par, cal)
    BY <1>0, <2>2 DEF CallSound, CallsKnown
  <2> QED
    BY <1>0, <2>1, <2>3 DEF CallSound
<1> QED
  BY <1>5, <1>6, <1>7, <1>8, <1>9 DEF Consistent, FlushSound

Marked(s, a) == [s EXCEPT !.queue[a] = Done]
Emptied(s, p) == [s EXCEPT !.promise[p].subscribers = <<>>]

\* What marking an entry and emptying the subscribers change.
LEMMA DoneParts ==
  ASSUME NEW s \in Engines, NEW a \in DOMAIN s.queue, NEW t, t = Marked(s, a)
  PROVE  /\ t \in Engines /\ t.promise = s.promise /\ t.scheduled = s.scheduled
         /\ t.queue = [s.queue EXCEPT ![a] = Done]
<1>1. Done \in Entries
  BY DEF Done, Entry, Entries
<1>2. [s.queue EXCEPT ![a] = Done] \in Seq(Entries)
  BY <1>1, ExceptSeq DEF Engines
<1> QED
  BY <1>2 DEF Engines, Marked

LEMMA EmptiedParts ==
  ASSUME NEW s \in Engines, NEW p \in Ids, NEW t, t = Emptied(s, p)
  PROVE  /\ t \in Engines /\ t.queue = s.queue /\ t.scheduled = s.scheduled
         /\ SubscribersOf(t, p) = <<>>
         /\ \A q \in Ids : State(t, q) = State(s, q) /\ t.promise[q].result = s.promise[q].result
         /\ \A q \in Ids : q # p => t.promise[q] = s.promise[q]
<1> DEFINE none == <<>>
           m == [s EXCEPT !.promise[p].subscribers = none]
<1>1. none \in Seq(SubscriberRecords)
  OBVIOUS
<1>0. none = <<>> /\ t = m
  BY DEF Emptied
<1> HIDE DEF none
<1>2. /\ m \in Engines /\ m.queue = s.queue /\ m.scheduled = s.scheduled
      /\ SubscribersOf(m, p) = none
      /\ \A q \in Ids : State(m, q) = State(s, q) /\ m.promise[q].result = s.promise[q].result
      /\ \A q \in Ids : q # p => m.promise[q] = s.promise[q]
  BY <1>1, SubscribersParts
<1> QED
  BY <1>0, <1>2

\* An entry that is no publish ends.
LEMMA NextEntryKeeps ==
  ASSUME NEW s, NEW a, NEW f, NEW par, NEW cal, Consistent(s, a, f, par, cal),
         f # NoFrame, f.publishing = 0,
         NEW t, t = Marked(s, a)
  PROVE  Consistent(t, a + 1, NoFrame, par, cal)
<1>1. /\ GoodEngine(s) /\ s \in Engines /\ a \in DOMAIN s.queue
  BY DEF Consistent, FlushSound, GoodEngine, FrameSound
<1>2. /\ t \in Engines /\ t.promise = s.promise
      /\ t.queue = [s.queue EXCEPT ![a] = Done]
  BY <1>1, DoneParts
<1>3. /\ GoodEngine(t)
      /\ \A q \in Ids : /\ State(t, q) = State(s, q)
                        /\ SubscribersOf(t, q) = SubscribersOf(s, q) /\ q # 0
  BY <1>1, <1>2 DEF GoodEngine, ResultsAreFlat, State, SubscribersOf, Ids
<1>4. /\ \A q \in Ids, d \in Ids, i \in Nat :
           ChildAt(t, q, i, d) <=> ChildAt(s, q, i, d) /\ q # f.publishing
      /\ \A q \in Ids : HasSubscribers(t, q) => HasSubscribers(s, q) /\ q # f.publishing
  BY <1>3 DEF ChildAt, HasSubscribers
<1> QED
  BY <1>2, <1>3, <1>4, EntryEnds

\* publish ends, and clears the subscribers.
LEMMA EndPublishKeeps ==
  ASSUME NEW s, NEW a, NEW f, NEW par, NEW cal, Consistent(s, a, f, par, cal),
         NEW p \in Ids, f.publishing = p, f.callback = 0, f.index > Len(SubscribersOf(s, p)),
         NEW m, m = Emptied(s, p), NEW t, t = Marked(m, a)
  PROVE  Consistent(t, a + 1, NoFrame, par, cal)
<1>0. f # NoFrame /\ p # 0
  BY DEF NoFrame, Ids
<1>1. /\ GoodEngine(s) /\ s \in Engines /\ a \in DOMAIN s.queue /\ f.index \in Nat
  BY <1>0 DEF Consistent, FlushSound, GoodEngine, FrameSound, Frames
<1>2. /\ m \in Engines /\ m.queue = s.queue
      /\ SubscribersOf(m, p) = <<>>
      /\ \A q \in Ids : State(m, q) = State(s, q) /\ m.promise[q].result = s.promise[q].result
      /\ \A q \in Ids : q # p => m.promise[q] = s.promise[q]
  BY <1>1, EmptiedParts
<1>3. /\ t \in Engines /\ t.promise = m.promise
      /\ t.queue = [s.queue EXCEPT ![a] = Done]
  BY <1>1, <1>2, DoneParts
<1>4. /\ SubscribersOf(t, p) = <<>>
      /\ \A q \in Ids : q # p => SubscribersOf(t, q) = SubscribersOf(s, q)
      /\ \A q \in Ids : State(t, q) = State(s, q) /\ t.promise[q].result = s.promise[q].result
  BY <1>2, <1>3 DEF SubscribersOf, State
<1>5. GoodEngine(t)
  BY <1>1, <1>3, <1>4 DEF GoodEngine, ResultsAreFlat
<1>6. \A q \in Ids, d \in Ids, i \in Nat :
        ChildAt(t, q, i, d) <=> ChildAt(s, q, i, d) /\ q # f.publishing
  <2>1. DOMAIN SubscribersOf(t, p) = {}
    BY <1>4
  <2> QED
    BY <1>4, <2>1 DEF ChildAt
<1>7. \A q \in Ids : HasSubscribers(t, q) => HasSubscribers(s, q) /\ q # f.publishing
  BY <1>4 DEF HasSubscribers
<1>8. \A d \in Ids, i \in Nat : ChildAt(s, p, i, d) => Passed(f, p, i)
  BY <1>1, EngineParts DEF ChildAt, Passed
<1> QED
  BY <1>0, <1>3, <1>4, <1>5, <1>6, <1>7, <1>8, EntryEnds

-----------------------------------------------------------------------------
\* A step keeps the invariant and the contract's safety.
StatesAdvance(s, t) ==
  \A p \in Ids :
    /\ Settled(s, p) => State(t, p) = State(s, p)
    /\ Unsettled(s, p) => State(t, p) \in {"pending", "fulfilled", "rejected"}

ContractStep ==
  /\ StatesAdvance(engine, engine')
  /\ \A p \in Ids : parent'[p] # parent[p] => State(engine, p) = "unborn"
  /\ \A c \in Ids :
       called'[c] # called[c] => MayCall(engine, parent, called, c) /\ called'[c] = 1

\* The parts of the invariant.
LEMMA InvariantParts ==
  ASSUME EngineInvariant
  PROVE  /\ GoodEngine(engine) /\ engine \in Engines /\ ResultsAreFlat(engine)
         /\ EngineSound(engine) /\ FlushSound(engine, at, frame)
         /\ FrameSound(engine, at, frame) /\ frame \in Frames
         /\ CallSound(engine, at, frame, parent, called)
         /\ parent \in [Ids -> Ids \union {0}] /\ called \in [Ids -> Nat]
BY DEF EngineInvariant, Consistent, GoodEngine, FlushSound, FrameSound, CallSound

LEMMA GrowingAdvances ==
  ASSUME NEW s, NEW t, Grows(s, t)
  PROVE  StatesAdvance(s, t)
BY DEF Grows, Evolves, StatesMove, StatesAdvance, Settled, Unsettled

\* A call of the API that creates no promise.
LEMMA UserStep ==
  ASSUME EngineInvariant, Grows(engine, engine'), UNCHANGED <<at, frame, parent, called>>
  PROVE  EngineInvariant' /\ ContractStep
<1>1. Consistent(engine', at, frame, parent, called)
  BY GrowingKeeps DEF EngineInvariant
<1> QED
  BY <1>1, GrowingAdvances DEF EngineInvariant, ContractStep

\* A fresh promise is the next one.
LEMMA FreshParts ==
  ASSUME NEW e \in Ids, Fresh(e)
  PROVE  State(engine, e) = "unborn" /\ \A q \in Ids : q < e => State(engine, q) # "unborn"
BY DEF Fresh, Born, Ids

\* A call of the API that creates a promise.
LEMMA CreationStep ==
  ASSUME EngineInvariant, NEW e \in Ids, Fresh(e),
         NEW r \in PromiseRecords, r.state = "pending", r.subscribers = <<>>,
         Grows(Created(engine, e, r), engine'), UNCHANGED <<at, frame, parent, called>>
  PROVE  EngineInvariant' /\ ContractStep
<1> DEFINE s == Created(engine, e, r)
<1>1. Consistent(s, at, frame, parent, called)
  BY FreshParts, CreatingKeeps DEF EngineInvariant
<1>2. \A q \in Ids : q # e => State(s, q) = State(engine, q)
  BY InvariantParts, CreatedParts DEF State
<1> HIDE DEF s
<1>3. Consistent(engine', at, frame, parent, called)
  BY <1>1, GrowingKeeps DEF s
<1>4. StatesAdvance(engine, engine')
  <2>1. StatesAdvance(s, engine')
    BY GrowingAdvances DEF s
  <2>2. State(engine, e) = "unborn"
    BY FreshParts
  <2> QED
    BY <1>2, <2>1, <2>2 DEF StatesAdvance, Settled, Unsettled
<1> QED
  BY <1>3, <1>4 DEF EngineInvariant, ContractStep

\* The record of a new promise.
LEMMA PendingRecord ==
  ASSUME NEW n \in Int
  PROVE  /\ Pending \in PromiseRecords /\ Pending.state = "pending" /\ Pending.subscribers = <<>>
         /\ [Pending EXCEPT !.remaining = n] \in PromiseRecords
         /\ [Pending EXCEPT !.remaining = n].state = "pending"
         /\ [Pending EXCEPT !.remaining = n].subscribers = <<>>
<1> DEFINE none == <<>>
           r == [Pending EXCEPT !.remaining = n]
<1>1. none \in Seq(SubscriberRecords) /\ none = <<>>
  OBVIOUS
<1> HIDE DEF none
<1>2. Pending = [state |-> "pending", result |-> Plain, subscribers |-> none, remaining |-> 0]
  BY <1>1 DEF Pending, Unborn
<1>3. r = [state |-> "pending", result |-> Plain, subscribers |-> none, remaining |-> n]
  BY <1>2
<1> HIDE DEF r
<1>4. Plain \in AllValues
  BY DEF AllValues
<1>5. Pending \in PromiseRecords /\ r \in PromiseRecords
  BY <1>1, <1>2, <1>3, <1>4 DEF PromiseRecords, Statuses
<1> QED
  BY <1>1, <1>2, <1>3, <1>5 DEF r

LEMMA PendingIsPending ==
  Pending \in PromiseRecords /\ Pending.state = "pending" /\ Pending.subscribers = <<>>
<1>1. 0 \in Int
  OBVIOUS
<1> QED
  BY <1>1, PendingRecord

\* The values and inputs that the page may pass.
LEMMA ValuesAreTyped ==
  Values \subseteq AllValues
BY DEF Values, AllValues, Born

\* One lemma for each kind of call of the API.
LEMMA NewStep ==
  ASSUME EngineInvariant, NEW p \in Ids, New(p)
  PROVE  EngineInvariant' /\ ContractStep
<1>1. engine' = Created(engine, p, Pending) /\ Fresh(p) /\ UNCHANGED <<at, frame, parent, called>>
  BY DEF New, Created
<1>2. Pending \in PromiseRecords /\ Pending.state = "pending" /\ Pending.subscribers = <<>>
  BY PendingIsPending
<1>3. Consistent(Created(engine, p, Pending), at, frame, parent, called)
  BY <1>1, <1>2, FreshParts, CreatingKeeps DEF EngineInvariant
<1>4. Grows(Created(engine, p, Pending), engine')
  BY <1>1, <1>3, GrowsReflexive DEF Consistent
<1> QED
  BY <1>1, <1>2, <1>4, CreationStep

LEMMA ResolvingStep ==
  ASSUME EngineInvariant, NEW p \in Ids,
         CallResolve(p) \/ CallReject(p) \/ ForeignResolve(p) \/ ForeignReject(p)
  PROVE  EngineInvariant' /\ ContractStep
<1>1. UNCHANGED <<at, frame, parent, called>>
  BY DEF CallResolve, CallReject, ForeignResolve, ForeignReject
<1>2. \A v \in Values : Grows(engine, Resolve(engine, p, v))
  BY InvariantParts, ValuesAreTyped, ResolveGrows
<1>3. Grows(engine, Reject(engine, p))
  BY InvariantParts, RejectGrows
<1>4. Grows(engine, Fulfill(engine, p, Thenable))
  BY InvariantParts, FulfillGrows DEF AllValues, Thenable
<1>5. Grows(engine, engine')
  BY <1>2, <1>3, <1>4 DEF CallResolve, CallReject, ForeignResolve, ForeignReject
<1> QED
  BY <1>1, <1>5, UserStep

LEMMA InputsAreTyped ==
  ASSUME NEW inputs \in Inputs
  PROVE  inputs \in Seq(Ids \union {0}) /\ Len(inputs) \in Int
<1> DEFINE S == Born \union {0}
<1>1. inputs \in UNION {[1..m -> S] : m \in 0..2}
  BY DEF Inputs, SeqOf
<1>2. S \subseteq Ids \union {0}
  BY DEF Born
<1> HIDE DEF S
<1>3. PICK n \in 0..2 : inputs \in [1..n -> S]
  BY <1>1, Zenon
<1>4. inputs \in [1..n -> Ids \union {0}] /\ n \in Nat
  BY <1>2, <1>3
<1> QED
  BY <1>4

LEMMA AllStep ==
  ASSUME EngineInvariant, NEW e \in Ids, All(e)
  PROVE  EngineInvariant' /\ ContractStep
<1>1. PICK inputs \in Inputs :
        LET created == [engine EXCEPT !.promise[e] = [Pending EXCEPT !.remaining = Len(inputs)]]
            entered == ForEach(EachEntry, created, e, inputs)
        IN  engine' = IF entered.promise[e].remaining = 0 THEN Fulfill(entered, e, Plain)
                      ELSE entered
  BY DEF All
<1>2. Fresh(e) /\ UNCHANGED <<at, frame, parent, called>>
  BY DEF All
<1>3. inputs \in Seq(Ids \union {0}) /\ Len(inputs) \in Int
  BY InputsAreTyped
<1> DEFINE r == [Pending EXCEPT !.remaining = Len(inputs)]
           created == Created(engine, e, r)
           entered == ForEach(EachEntry, created, e, inputs)
<1>4. r \in PromiseRecords /\ r.state = "pending" /\ r.subscribers = <<>>
  BY <1>3, PendingRecord
<1>5. engine' = IF entered.promise[e].remaining = 0 THEN Fulfill(entered, e, Plain) ELSE entered
  BY <1>1 DEF Created
<1> HIDE DEF r
<1>6. Consistent(created, at, frame, parent, called)
  BY <1>2, <1>4, FreshParts, CreatingKeeps DEF EngineInvariant
<1> HIDE DEF created
<1>7. Grows(created, entered)
  BY <1>3, <1>6, AllGrows DEF Consistent
<1> HIDE DEF entered
<1>8. Grows(entered, Fulfill(entered, e, Plain))
  <2>1. GoodEngine(entered) /\ Plain \in AllValues /\ Plain.kind # "promise"
    BY <1>7 DEF Grows, AllValues, Plain
  <2> QED
    BY <2>1, FulfillGrows
<1>9. Grows(created, engine')
  BY <1>5, <1>6, <1>7, <1>8, GrowsTransitive DEF Consistent
<1> QED
  BY <1>2, <1>4, <1>9, CreationStep DEF created

LEMMA RaceStep ==
  ASSUME EngineInvariant, NEW e \in Ids, Race(e)
  PROVE  EngineInvariant' /\ ContractStep
<1>1. PICK inputs \in Inputs :
        /\ \A i \in DOMAIN inputs : inputs[i] # 0
        /\ engine' = ForEach(EachRacer, [engine EXCEPT !.promise[e] = Pending], e, inputs)
  BY DEF Race
<1>2. Fresh(e) /\ UNCHANGED <<at, frame, parent, called>>
  BY DEF Race
<1>3. inputs \in Seq(Ids)
  <2>1. inputs \in Seq(Ids \union {0})
    BY InputsAreTyped
  <2>2. \A i \in DOMAIN inputs : inputs[i] \in Ids
    BY <1>1, <2>1
  <2> QED
    BY <2>1, <2>2
<1>4. Pending \in PromiseRecords /\ Pending.state = "pending" /\ Pending.subscribers = <<>>
  BY PendingIsPending
<1> DEFINE created == Created(engine, e, Pending)
<1>5. engine' = ForEach(EachRacer, created, e, inputs)
  BY <1>1 DEF Created
<1>6. Consistent(created, at, frame, parent, called)
  BY <1>2, <1>4, FreshParts, CreatingKeeps DEF EngineInvariant
<1> HIDE DEF created
<1>7. Grows(created, engine')
  BY <1>3, <1>5, <1>6, RaceGrows DEF Consistent
<1> QED
  BY <1>2, <1>4, <1>7, CreationStep DEF created

LEMMA ThenStep ==
  ASSUME EngineInvariant, NEW p \in Ids, NEW c \in Ids, Then(p, c)
  PROVE  EngineInvariant' /\ ContractStep
<1>1. PICK onFulfillment \in BOOLEAN, onRejection \in BOOLEAN :
        LET child == Child(c, onFulfillment, onRejection)
            created == [engine EXCEPT !.promise[c] = Pending]
        IN  engine' = IF Settled(engine, p)
                        THEN Asap(created, Entry("invoke", p, child))
                        ELSE Subscribe(created, p, child)
  BY DEF Then
<1>2. /\ p \in Born /\ Fresh(c) /\ UNCHANGED <<at, frame, called>>
      /\ parent' = [parent EXCEPT ![c] = p]
  BY DEF Then
<1>3. Pending \in PromiseRecords /\ Pending.state = "pending" /\ Pending.subscribers = <<>>
  BY PendingIsPending
<1> DEFINE child == Child(c, onFulfillment, onRejection)
           s == Created(engine, c, Pending)
<1>4. engine' = IF Settled(engine, p)
                  THEN Asap(s, Entry("invoke", p, child)) ELSE Subscribe(s, p, child)
  BY <1>1 DEF Created
<1>5. child \in SubscriberRecords /\ child.kind = "child" /\ child.promise = c
  BY ChildRecord
<1>6. /\ State(engine, c) = "unborn" /\ State(engine, p) # "unborn" /\ p # c
      /\ \A q \in Ids : q < c => State(engine, q) # "unborn"
      /\ parent[c] = 0
  BY <1>2, FreshParts, InvariantParts DEF Born, CallSound, ParentsKnown
<1>7. Consistent(s, at, frame, parent, called)
  BY <1>3, <1>6, CreatingKeeps DEF EngineInvariant
<1>8. State(s, c) = "pending" /\ \A q \in Ids : q # c => State(s, q) = State(engine, q)
  BY <1>3, InvariantParts, CreatedParts DEF State
<1> HIDE DEF child, s
<1>9. NewestChild(s, parent, c)
  <2>1. ASSUME NEW d \in Ids, State(s, d) # "unborn"
        PROVE  d <= c
    BY <1>6, <1>8, <2>1, InvariantParts DEF EngineSound, BornInOrder, Ids
  <2> QED
    BY <1>6, <1>8, <2>1 DEF NewestChild
<1>10. /\ Consistent(engine', at, frame, parent', called)
       /\ \A q \in Ids : State(engine', q) = State(s, q)
  <2>1. CASE Settled(engine, p)
    <3>1. Settled(s, p) /\ engine' = Asap(s, Entry("invoke", p, child))
      BY <1>4, <1>6, <1>8, <2>1 DEF Settled
    <3>2. /\ Consistent(engine', at, frame, [parent EXCEPT ![c] = p], called)
          /\ \A q \in Ids : State(engine', q) = State(s, q)
      BY <1>5, <1>7, <1>9, <3>1, InvokingKeeps
    <3> QED
      BY <1>2, <3>2
  <2>2. CASE ~Settled(engine, p)
    <3>1. State(s, p) = "pending" /\ engine' = Subscribe(s, p, child)
      BY <1>4, <1>6, <1>8, <2>2, InvariantParts, EngineParts DEF Settled, Statuses
    <3>2. /\ Consistent(engine', at, frame, [parent EXCEPT ![c] = p], called)
          /\ \A q \in Ids : State(engine', q) = State(s, q)
      BY <1>5, <1>7, <1>9, <3>1, SubscribingKeeps
    <3> QED
      BY <1>2, <3>2
  <2> QED
    BY <2>1, <2>2
<1>11. EngineInvariant'
  BY <1>2, <1>10 DEF EngineInvariant
<1>12. ContractStep
  <2>1. StatesAdvance(engine, engine')
    BY <1>6, <1>8, <1>10 DEF StatesAdvance, Settled, Unsettled
  <2>2. \A q \in Ids : parent'[q] # parent[q] => State(engine, q) = "unborn"
    BY <1>2, <1>6, InvariantParts
  <2> QED
    BY <1>2, <2>1, <2>2 DEF ContractStep
<1> QED
  BY <1>11, <1>12

\* One lemma for each step of a flush.
LEMMA FlushStep ==
  ASSUME EngineInvariant, Flush \/ EndFlush
  PROVE  EngineInvariant' /\ ContractStep
<1>1. UNCHANGED <<frame, parent, called>>
  BY DEF Flush, EndFlush
<1>2. CASE Flush
  <2>1. /\ at = 0 /\ at' = 1 /\ engine' = [engine EXCEPT !.scheduled = FALSE]
    BY <1>2 DEF Flush
  <2>2. Consistent(engine', 1, frame, parent, called)
    BY <2>1, FlushingKeeps DEF EngineInvariant
  <2>3. StatesAdvance(engine, engine')
    BY <2>1, InvariantParts DEF StatesAdvance, State, Engines, Settled, Unsettled
  <2> QED
    BY <1>1, <2>1, <2>2, <2>3 DEF EngineInvariant, ContractStep
<1>3. CASE EndFlush
  <2>1. /\ at > Len(engine.queue) /\ at' = 0 /\ engine' = [engine EXCEPT !.queue = <<>>]
    BY <1>3 DEF EndFlush
  <2>2. Consistent(engine', 0, frame, parent, called)
    BY <2>1, EndingKeeps DEF EngineInvariant
  <2>3. StatesAdvance(engine, engine')
    BY <2>1, InvariantParts DEF StatesAdvance, State, Engines, Settled, Unsettled
  <2> QED
    BY <1>1, <2>1, <2>2, <2>3 DEF EngineInvariant, ContractStep
<1> QED
  BY <1>2, <1>3

LEMMA StandingStill ==
  StatesAdvance(engine, engine)
BY DEF StatesAdvance, Settled, Unsettled

LEMMA RunPublishStep ==
  ASSUME EngineInvariant, RunPublish
  PROVE  EngineInvariant' /\ ContractStep
<1> DEFINE p == engine.queue[at].promise
<1>1. /\ at \in 1..Len(engine.queue) /\ frame = NoFrame /\ engine.queue[at].kind = "publish"
      /\ frame' = [NoFrame EXCEPT !.publishing = p, !.index = 1]
      /\ UNCHANGED <<engine, at, parent, called>>
  BY DEF RunPublish, Running
<1>2. at \in DOMAIN engine.queue /\ at \in Nat
  BY <1>1, InvariantParts DEF Engines
<1>3. p \in Ids /\ PublishAt(engine, at, p)
  BY <1>1, <1>2, InvariantParts DEF EngineSound, EntriesAreTyped, PublishAt
<1> HIDE DEF p
<1>4. Consistent(engine, at, [NoFrame EXCEPT !.publishing = p, !.index = 1], parent, called)
  BY <1>1, <1>2, <1>3, PublishingKeeps DEF EngineInvariant
<1>5. EngineInvariant'
  BY <1>1, <1>4 DEF EngineInvariant
<1> QED
  BY <1>1, <1>5, StandingStill DEF ContractStep

LEMMA RunForeignStep ==
  ASSUME EngineInvariant, RunForeign
  PROVE  EngineInvariant' /\ ContractStep
<1> DEFINE p == engine.queue[at].promise
<1>1. /\ at \in 1..Len(engine.queue) /\ frame = NoFrame /\ engine.queue[at].kind = "foreign"
      /\ frame' = [NoFrame EXCEPT !.foreign = p]
      /\ UNCHANGED <<engine, at, parent, called>>
  BY DEF RunForeign, Running
<1>2. at \in DOMAIN engine.queue
  BY <1>1, InvariantParts DEF Engines
<1>3. p \in Ids
  BY <1>1, <1>2, InvariantParts DEF EngineSound, EntriesAreTyped
<1> HIDE DEF p
<1>4. Consistent(engine, at, [NoFrame EXCEPT !.foreign = p], parent, called)
  BY <1>1, <1>2, <1>3, CallingForeignKeeps DEF EngineInvariant
<1>5. EngineInvariant'
  BY <1>1, <1>4 DEF EngineInvariant
<1> QED
  BY <1>1, <1>5, StandingStill DEF ContractStep

\* A call of a child's callback is over: s is the engine, g the frame of the call.
LEMMA GoingOn ==
  ASSUME NEW s, NEW g \in Frames, NEW par, NEW cal, Consistent(s, at, g, par, cal),
         frame \in Frames, g.publishing = frame.publishing, g.index = frame.index,
         g.foreign = frame.foreign, g.callback # 0, GoOn(s)
  PROVE  /\ Consistent(engine', at', frame', par, cal)
         /\ \A q \in Ids : State(engine', q) = State(s, q)
<1>1. CASE frame.publishing = 0
  <2>1. engine' = Marked(s, at) /\ frame' = NoFrame /\ at' = at + 1
    BY <1>1 DEF GoOn, NextEntry, Marked
  <2>2. g # NoFrame
    BY DEF NoFrame
  <2>3. s \in Engines /\ at \in DOMAIN s.queue
    BY <2>2 DEF Consistent, GoodEngine, FlushSound, FrameSound
  <2>4. \A q \in Ids : State(engine', q) = State(s, q)
    BY <2>1, <2>3, DoneParts DEF State
  <2> QED
    BY <1>1, <2>1, <2>2, <2>4, NextEntryKeeps
<1>2. CASE frame.publishing # 0
  <2>1. engine' = s /\ frame' = [frame EXCEPT !.index = @ + 1, !.callback = 0] /\ at' = at
    BY <1>2 DEF GoOn, NextSubscriber
  <2>2. [frame EXCEPT !.index = @ + 1, !.callback = 0] = [g EXCEPT !.index = @ + 1, !.callback = 0]
    <3> DEFINE f1 == [frame EXCEPT !.index = frame.index + 1]
               g1 == [g EXCEPT !.index = g.index + 1]
    <3>1. /\ f1 \in Frames /\ g1 \in Frames /\ f1.publishing = g1.publishing
          /\ f1.index = g1.index /\ f1.foreign = g1.foreign
      BY DEF Frames
    <3>2. /\ [frame EXCEPT !.index = @ + 1, !.callback = 0] = [f1 EXCEPT !.callback = 0]
          /\ [g EXCEPT !.index = @ + 1, !.callback = 0] = [g1 EXCEPT !.callback = 0]
      OBVIOUS
    <3> HIDE DEF f1, g1
    <3>3. [f1 EXCEPT !.callback = 0] = [g1 EXCEPT !.callback = 0]
      BY <3>1 DEF Frames
    <3> QED
      BY <3>2, <3>3
  <2>3. Consistent(s, at, [g EXCEPT !.index = @ + 1, !.callback = 0], par, cal)
    BY <1>2, NextSubscriberKeeps
  <2> QED
    BY <2>1, <2>2, <2>3
<1> QED
  BY <1>1, <1>2

LEMMA ReturnStep ==
  ASSUME EngineInvariant, CallbackReturns \/ CallbackThrows
  PROVE  EngineInvariant' /\ ContractStep
<1>1. /\ frame.callback # 0 /\ UNCHANGED <<parent, called>>
      /\ \/ \E v \in Values : GoOn(Returned(engine, frame.callback, v))
         \/ GoOn(Reject(engine, frame.callback))
  BY DEF CallbackReturns, CallbackThrows
<1>2. frame \in Frames /\ frame.callback \in Ids
  BY <1>1, InvariantParts DEF Frames
<1>3. PICK s : Grows(engine, s) /\ GoOn(s)
  <2>1. CASE \E v \in Values : GoOn(Returned(engine, frame.callback, v))
    <3>1. PICK v \in Values : GoOn(Returned(engine, frame.callback, v))
      BY <2>1
    <3>2. Grows(engine, Returned(engine, frame.callback, v))
      BY <1>2, InvariantParts, ValuesAreTyped, ReturnedGrows
    <3> QED
      BY <3>1, <3>2
  <2>2. CASE GoOn(Reject(engine, frame.callback))
    <3>1. Grows(engine, Reject(engine, frame.callback))
      BY <1>2, InvariantParts, RejectGrows
    <3> QED
      BY <2>2, <3>1
  <2> QED
    BY <1>1, <2>1, <2>2
<1>4. Consistent(s, at, frame, parent, called)
  BY <1>3, GrowingKeeps DEF EngineInvariant
<1>5. /\ Consistent(engine', at', frame', parent, called)
      /\ \A q \in Ids : State(engine', q) = State(s, q)
  BY <1>1, <1>2, <1>3, <1>4, GoingOn
<1>6. StatesAdvance(engine, engine')
  BY <1>3, <1>5, GrowingAdvances DEF StatesAdvance
<1> QED
  BY <1>1, <1>5, <1>6 DEF EngineInvariant, ContractStep

\* A child that may be called is called: g is the frame of the call.
LEMMA InvokeStep ==
  ASSUME EngineInvariant, NEW p \in Ids, NEW child \in SubscriberRecords, Settled(engine, p),
         Invoke(child, engine.promise[p]),
         NEW g \in Frames, g.publishing = frame.publishing, g.index = frame.index,
         g.foreign = frame.foreign, g.callback = child.promise,
         g = [frame EXCEPT !.callback = child.promise],
         Consistent(engine, at, g, parent, [called EXCEPT ![child.promise] = @ + 1]),
         MayCall(engine, parent, called, child.promise),
         UNCHANGED parent
  PROVE  EngineInvariant' /\ ContractStep
<1> DEFINE c == child.promise
           cal == [called EXCEPT ![c] = @ + 1]
           s == PassOn(engine, c, State(engine, p), engine.promise[p].result)
<1>1. /\ c \in Ids /\ c # 0 /\ frame \in Frames /\ called \in [Ids -> Nat]
  BY InvariantParts DEF SubscriberRecords, Ids
<1>2. called' = cal /\ cal[c] = 1 /\ \A d \in Ids : d # c => cal[d] = called[d]
  BY <1>1 DEF Invoke, MayCall
<1>3. \/ frame' = g /\ UNCHANGED <<engine, at>>
      \/ GoOn(s)
  BY DEF Invoke, State
<1>4. Consistent(engine, at, g, parent, cal)
  OBVIOUS
<1>5. \A d \in Ids : called'[d] # called[d] => MayCall(engine, parent, called, d) /\ called'[d] = 1
  BY <1>2
<1>6. Grows(engine, s)
  <2>1. engine.promise[p].result \in AllValues
    BY InvariantParts, EngineParts
  <2>2. State(engine, p) = "fulfilled" => engine.promise[p].result.kind # "promise"
    BY InvariantParts DEF ResultsAreFlat
  <2> QED
    BY <1>1, <2>1, <2>2, InvariantParts, PassOnGrows
<1> HIDE DEF cal, s
<1>7. CASE frame' = g /\ UNCHANGED <<engine, at>>
  <2>1. EngineInvariant'
    BY <1>2, <1>4, <1>7 DEF EngineInvariant
  <2> QED
    BY <1>5, <1>7, <2>1, StandingStill DEF ContractStep
<1>8. CASE GoOn(s)
  <2>1. Consistent(s, at, g, parent, cal)
    BY <1>4, <1>6, GrowingKeeps
  <2>2. /\ Consistent(engine', at', frame', parent, cal)
        /\ \A q \in Ids : State(engine', q) = State(s, q)
    BY <1>1, <1>8, <2>1, GoingOn
  <2>3. StatesAdvance(engine, engine')
    BY <1>6, <2>2, GrowingAdvances DEF StatesAdvance
  <2>4. EngineInvariant'
    BY <1>2, <2>2 DEF EngineInvariant
  <2> QED
    BY <1>5, <2>3, <2>4 DEF ContractStep
<1> QED
  BY <1>3, <1>7, <1>8

LEMMA CallFrame ==
  ASSUME NEW f \in Frames, NEW c \in Ids, NEW g, g = [f EXCEPT !.callback = c]
  PROVE  /\ g \in Frames /\ g.publishing = f.publishing /\ g.index = f.index
         /\ g.foreign = f.foreign /\ g.callback = c
BY DEF Frames

LEMMA RunInvokeStep ==
  ASSUME EngineInvariant, RunInvoke
  PROVE  EngineInvariant' /\ ContractStep
<1> DEFINE p == engine.queue[at].promise
           child == engine.queue[at].child
           g == [frame EXCEPT !.callback = child.promise]
<1>1. /\ at \in 1..Len(engine.queue) /\ frame = NoFrame /\ engine.queue[at].kind = "invoke"
      /\ Invoke(child, engine.promise[p]) /\ UNCHANGED parent
  BY DEF RunInvoke, Running
<1>2. at \in DOMAIN engine.queue
  BY <1>1, InvariantParts DEF Engines
<1>3. p \in Ids /\ Settled(engine, p) /\ child \in SubscriberRecords
  BY <1>1, <1>2, InvariantParts DEF EngineSound, EntriesAreTyped
<1>4. child.promise \in Ids /\ InvokeAt(engine, at, p, child.promise)
  BY <1>1, <1>2, <1>3 DEF InvokeAt, SubscriberRecords
<1>5. Consistent(engine, at, NoFrame, parent, called) /\ frame \in Frames
  BY <1>1, InvariantParts DEF EngineInvariant
<1> HIDE DEF p, child
<1>6. /\ Consistent(engine, at, g, parent, [called EXCEPT ![child.promise] = @ + 1])
      /\ MayCall(engine, parent, called, child.promise)
  <2>1. /\ Consistent(engine, at, [NoFrame EXCEPT !.callback = child.promise], parent,
                 [called EXCEPT ![child.promise] = @ + 1])
        /\ MayCall(engine, parent, called, child.promise)
    <3> DEFINE c == child.promise
    <3>1. c \in Ids /\ InvokeAt(engine, at, p, c) /\ p \in Ids
      BY <1>3, <1>4
    <3> HIDE DEF c
    <3>2. /\ Consistent(engine, at, [NoFrame EXCEPT !.callback = c], parent,
                   [called EXCEPT ![c] = @ + 1])
          /\ MayCall(engine, parent, called, c)
      BY <1>5, <3>1, CallingFromQueue
    <3> QED
      BY <3>2 DEF c
  <2> QED
    BY <1>1, <2>1
<1>7. /\ g \in Frames /\ g.publishing = frame.publishing /\ g.index = frame.index
      /\ g.foreign = frame.foreign /\ g.callback = child.promise
  BY <1>4, <1>5, CallFrame
<1> QED
  BY <1>1, <1>3, <1>6, <1>7, InvokeStep

LEMMA PublishToChildStep ==
  ASSUME EngineInvariant, PublishToChild
  PROVE  EngineInvariant' /\ ContractStep
<1> DEFINE p == frame.publishing
           child == Subscribers[frame.index]
           g == [frame EXCEPT !.callback = child.promise]
<1>1. /\ p # 0 /\ frame.callback = 0 /\ frame.index <= Len(SubscribersOf(engine, p))
      /\ child = SubscribersOf(engine, p)[frame.index] /\ child.kind = "child"
      /\ Invoke(child, engine.promise[p]) /\ UNCHANGED parent
  BY DEF PublishToChild, Publishing, Subscribers, SubscribersOf
<1>2. /\ frame \in Frames /\ p \in Ids /\ frame.index \in Nat /\ frame.index >= 1
      /\ Settled(engine, p)
  BY <1>1, InvariantParts DEF FrameSound, Frames, EngineSound, EntriesAreTyped, PublishAt
<1>3. frame.index \in DOMAIN SubscribersOf(engine, p) /\ child \in SubscriberRecords
  BY <1>1, <1>2, InvariantParts, EngineParts
<1>4. child.promise \in Ids /\ ChildAt(engine, p, frame.index, child.promise)
  BY <1>1, <1>3 DEF ChildAt, SubscriberRecords
<1> HIDE DEF child
<1>5. /\ Consistent(engine, at, g, parent, [called EXCEPT ![child.promise] = @ + 1])
      /\ MayCall(engine, parent, called, child.promise)
  BY <1>1, <1>2, <1>4, CallingFromPublish DEF EngineInvariant
<1>6. /\ g \in Frames /\ g.publishing = frame.publishing /\ g.index = frame.index
      /\ g.foreign = frame.foreign /\ g.callback = child.promise
  BY <1>2, <1>4, CallFrame
<1> QED
  BY <1>1, <1>2, <1>3, <1>5, <1>6, InvokeStep

LEMMA PublishToOtherStep ==
  ASSUME EngineInvariant, PublishToOther
  PROVE  EngineInvariant' /\ ContractStep
<1> DEFINE p == frame.publishing
           other == Subscribers[frame.index]
           s == Tell(engine, other, engine.promise[p].state, engine.promise[p].result)
<1>1. /\ p # 0 /\ frame.callback = 0 /\ frame.index <= Len(SubscribersOf(engine, p))
      /\ other = SubscribersOf(engine, p)[frame.index] /\ other.kind # "child"
      /\ engine' = s /\ frame' = [frame EXCEPT !.index = @ + 1, !.callback = 0]
      /\ UNCHANGED <<at, parent, called>>
  BY DEF PublishToOther, Publishing, Subscribers, SubscribersOf, NextSubscriber
<1>2. /\ frame \in Frames /\ p \in Ids /\ frame.index \in Nat /\ frame.index >= 1
  BY <1>1, InvariantParts DEF FrameSound, Frames
<1>3. frame.index \in DOMAIN SubscribersOf(engine, p) /\ other \in SubscriberRecords
  BY <1>1, <1>2, InvariantParts, EngineParts
<1> HIDE DEF other
<1>4. Grows(engine, s)
  BY <1>2, <1>3, InvariantParts, EngineParts, TellGrows
<1> HIDE DEF s
<1>5. \A c \in Ids : ~ChildAt(s, p, frame.index, c)
  <2>1. \A c \in Ids : ~ChildAt(engine, p, frame.index, c)
    BY <1>1 DEF ChildAt
  <2> QED
    BY <1>2, <1>4, <2>1, InvariantParts, SlotsKept
<1>6. Consistent(s, at, frame, parent, called)
  BY <1>4, GrowingKeeps DEF EngineInvariant
<1>7. Consistent(s, at, [frame EXCEPT !.index = @ + 1, !.callback = 0], parent, called)
  BY <1>1, <1>5, <1>6, NextSubscriberKeeps
<1>8. EngineInvariant'
  BY <1>1, <1>7 DEF EngineInvariant
<1> QED
  BY <1>1, <1>4, <1>8, GrowingAdvances DEF ContractStep

LEMMA EndEntryStep ==
  ASSUME EngineInvariant, ForeignReturns \/ EndPublish
  PROVE  EngineInvariant' /\ ContractStep
<1>0. UNCHANGED <<parent, called>>
  BY DEF ForeignReturns, EndPublish
<1>1. CASE ForeignReturns
  <2>1. /\ frame.foreign # 0 /\ engine' = Marked(engine, at) /\ frame' = NoFrame /\ at' = at + 1
    BY <1>1 DEF ForeignReturns, NextEntry, Marked
  <2>2. frame # NoFrame /\ frame.publishing = 0 /\ at \in DOMAIN engine.queue
    BY <2>1, InvariantParts DEF NoFrame, FrameSound
  <2>3. Consistent(engine', at + 1, NoFrame, parent, called)
    BY <2>1, <2>2, NextEntryKeeps DEF EngineInvariant
  <2>4. StatesAdvance(engine, engine')
    <3>1. \A q \in Ids : State(engine', q) = State(engine, q)
      BY <2>1, <2>2, InvariantParts, DoneParts DEF State
    <3> QED
      BY <3>1 DEF StatesAdvance, Settled, Unsettled
  <2> QED
    BY <1>0, <2>1, <2>3, <2>4 DEF EngineInvariant, ContractStep
<1>2. CASE EndPublish
  <2> DEFINE p == frame.publishing
             m == Emptied(engine, p)
  <2>1. /\ p # 0 /\ frame.callback = 0 /\ frame.index > Len(SubscribersOf(engine, p))
        /\ engine' = Marked(m, at) /\ frame' = NoFrame /\ at' = at + 1
    BY <1>2 DEF EndPublish, Publishing, Subscribers, SubscribersOf, NextEntry, Marked, Emptied
  <2>2. p \in Ids /\ at \in DOMAIN engine.queue
    BY <2>1, InvariantParts DEF FrameSound, Frames, PublishAt
  <2> HIDE DEF m
  <2>3. Consistent(engine', at + 1, NoFrame, parent, called)
    BY <2>1, <2>2, EndPublishKeeps DEF EngineInvariant, m
  <2>4. StatesAdvance(engine, engine')
    <3>1. /\ m \in Engines /\ m.queue = engine.queue
          /\ \A q \in Ids : State(m, q) = State(engine, q)
      BY <2>2, InvariantParts, EmptiedParts DEF m
    <3>2. at \in DOMAIN m.queue /\ engine' = Marked(m, at)
      BY <2>1, <2>2, <3>1
    <3>3. engine'.promise = m.promise
      BY <3>1, <3>2, DoneParts
    <3>4. \A q \in Ids : State(engine', q) = State(engine, q)
      BY <3>1, <3>3 DEF State
    <3> QED
      BY <3>4 DEF StatesAdvance, Settled, Unsettled
  <2> QED
    BY <1>0, <2>1, <2>3, <2>4 DEF EngineInvariant, ContractStep
<1> QED
  BY <1>1, <1>2

\* Initially there is no promise and no entry.
LEMMA EngineInitially ==
  ASSUME EngineInit
  PROVE  EngineInvariant
<1> DEFINE none == <<>>
           every == [p \in Ids |-> Unborn]
<1>1. /\ none \in Seq(SubscriberRecords) /\ none \in Seq(Entries) /\ none = <<>>
      /\ Len(none) = 0 /\ DOMAIN none = {}
  OBVIOUS
<1> HIDE DEF none
<1>2. /\ Unborn.state = "unborn" /\ Unborn.subscribers = none /\ Unborn.result = Plain
      /\ Unborn.remaining = 0
      /\ Unborn = [state |-> "unborn", result |-> Plain, subscribers |-> none, remaining |-> 0]
  BY <1>1 DEF Unborn
<1>3. Unborn \in PromiseRecords
  BY <1>1, <1>2 DEF PromiseRecords, AllValues, Statuses
<1> HIDE DEF every
<1>4. /\ engine = [promise |-> every, queue |-> none, scheduled |-> FALSE]
      /\ at = 0 /\ frame = NoFrame
      /\ parent = [p \in Ids |-> 0] /\ called = [p \in Ids |-> 0]
  BY <1>1 DEF EngineInit, every
<1>5. every \in [Ids -> PromiseRecords] /\ \A p \in Ids : every[p] = Unborn
  BY <1>3 DEF every
<1>6. /\ engine \in Engines /\ engine.queue = none
      /\ \A p \in Ids : State(engine, p) = "unborn" /\ SubscribersOf(engine, p) = none
  BY <1>1, <1>2, <1>4, <1>5 DEF Engines, State, SubscribersOf
<1>7. \A p \in Ids, c \in Ids, i \in Nat :
        ~ChildAt(engine, p, i, c) /\ ~InvokeAt(engine, i, p, c)
  BY <1>1, <1>6 DEF ChildAt, InvokeAt
<1>8. GoodEngine(engine)
  BY <1>6 DEF GoodEngine, ResultsAreFlat
<1>9. EngineSound(engine)
  BY <1>1, <1>6, <1>7 DEF EngineSound, EntriesAreTyped, BornInOrder, SubscribedAreBorn,
                          InvokedAreBorn, SubscribedInOrder, InvokedInOrder
<1>10. FlushSound(engine, at, frame)
  <2>1. NoFrame \in Frames /\ NoFrame.publishing = 0 /\ NoFrame.foreign = 0
    BY DEF NoFrame, Frames
  <2>2. FrameSound(engine, at, frame)
    BY <1>1, <1>4, <1>6, <2>1 DEF FrameSound
  <2>3. QueueSound(engine, at)
    BY <1>1, <1>6 DEF QueueSound, Settled
  <2>4. NoneOvertakes(engine, at)
    BY <1>7 DEF NoneOvertakes
  <2> QED
    BY <2>2, <2>3, <2>4 DEF FlushSound
<1>11. CallSound(engine, at, frame, parent, called)
  BY <1>4, <1>7 DEF CallSound, ParentsKnown, CallsKnown
<1> QED
  BY <1>8, <1>9, <1>10, <1>11 DEF EngineInvariant, Consistent

\* Every step keeps the invariant and is a step of the contract.
LEMMA EngineStep ==
  ASSUME EngineInvariant, [EngineNext]_engineVars
  PROVE  EngineInvariant' /\ ContractStep
<1>1. CASE UNCHANGED engineVars
  BY <1>1, StandingStill DEF engineVars, EngineInvariant, ContractStep
<1>2. CASE Flushing
  BY <1>2, FlushStep, RunInvokeStep, RunForeignStep, RunPublishStep, PublishToChildStep,
     PublishToOtherStep, EndEntryStep, ReturnStep DEF Flushing
<1>3. ASSUME NEW p \in Ids,
             \/ New(p) \/ CallResolve(p) \/ CallReject(p) \/ All(p) \/ Race(p)
             \/ ForeignResolve(p) \/ ForeignReject(p)
             \/ \E c \in Ids : Then(p, c)
      PROVE  EngineInvariant' /\ ContractStep
  BY <1>3, NewStep, ResolvingStep, AllStep, RaceStep, ThenStep
<1> QED
  BY <1>1, <1>2, <1>3 DEF EngineNext

\* The inductive invariant holds, the types of the engine among it: asap, then() and
\* publish keep every child where it will be called, once and in order.
THEOREM EngineInvariantHolds == EngineSpec => []EngineInvariant
<1>1. EngineInit => EngineInvariant
  BY EngineInitially
<1>2. EngineInvariant /\ [EngineNext]_engineVars => EngineInvariant'
  BY EngineStep
<1> QED
  BY <1>1, <1>2, PTL DEF EngineSpec

\* EngineIsSound (see Promises): no entry is in the queue without a flush to come, no
\* settled promise has subscribers that publish (6961) will not reach, and no promise is
\* fulfilled with a promise.
THEOREM NothingIsLeftBehind == EngineSpec => []EngineIsSound
<1>1. EngineInvariant => EngineIsSound
  <2> SUFFICES ASSUME EngineInvariant
               PROVE  EngineIsSound
    OBVIOUS
  <2>1. NoPromiseInPromise
    BY InvariantParts DEF ResultsAreFlat, NoPromiseInPromise
  <2>2. NothingIsStranded
    <3>1. QueueSound(engine, at)
      BY InvariantParts DEF FlushSound
    <3>2. ASSUME NEW p \in Ids, Settled(engine, p), engine.promise[p].subscribers # <<>>
          PROVE  ToBePublished(p)
      <4>1. PICK i \in Nat : i >= at /\ PublishAt(engine, i, p)
        BY <3>1, <3>2 DEF QueueSound, HasSubscribers, SubscribersOf
      <4> QED
        BY <4>1 DEF PublishAt, ToBePublished
    <3>3. engine.queue # <<>> => engine.scheduled \/ at > 0
      BY <3>1 DEF QueueSound
    <3> QED
      BY <3>2, <3>3 DEF NothingIsStranded
  <2> QED
    BY <2>1, <2>2 DEF EngineIsSound
<1> QED
  BY <1>1, EngineInvariantHolds, PTL

\* ContractIsKept (see Promises): the engine implements PromiseContract, step by step.
\* Whatever callbacks do, a promise is settled once, and a callback is called once, after
\* its promise was settled and after those registered with it before.
THEOREM PromisesKeepTheirContract == EngineSpec => ContractIsKept
<1>1. EngineInit => Contract!Init
  <2> SUFFICES ASSUME EngineInit
               PROVE  Contract!Init
    OBVIOUS
  <2>1. [p \in Ids |-> State(engine, p)] = [p \in Ids |-> "unborn"]
    <3>1. \A p \in Ids : State(engine, p) = "unborn"
      BY DEF EngineInit, State, Unborn
    <3> QED
      BY <3>1
  <2> QED
    BY <2>1 DEF EngineInit, Contract!Init
<1>2. EngineInvariant /\ [EngineNext]_engineVars => [Contract!Next]_(Contract!vars)
  <2> SUFFICES ASSUME EngineInvariant, [EngineNext]_engineVars
               PROVE  Contract!Next
    OBVIOUS
  <2>1. EngineInvariant' /\ ContractStep
    BY EngineStep
  <2>2. \A p \in Ids : State(engine', p) \in Statuses
    BY <2>1, EngineParts DEF EngineInvariant, Consistent, GoodEngine
  <2>3. \A p \in Ids : State(engine, p) \in Statuses
    BY InvariantParts, EngineParts
  <2>4. ASSUME NEW p \in Ids
        PROVE  State(engine', p) \in Contract!MayBecome(State(engine, p))
    BY <2>1, <2>2, <2>3 DEF ContractStep, StatesAdvance, Settled, Unsettled, Statuses,
                            Contract!MayBecome
  <2>5. ASSUME NEW c \in Ids, called'[c] # called[c]
        PROVE  Contract!MayBeCalled(c) /\ called'[c] = 1
    <3>1. MayCall(engine, parent, called, c) /\ called'[c] = 1
      BY <2>1, <2>5 DEF ContractStep
    <3>2. parent[c] # 0
      BY <3>1 DEF MayCall, Ids
    <3> QED
      BY <3>1, <3>2 DEF MayCall, Contract!MayBeCalled, Contract!Settled, Settled
  <2> QED
    BY <2>1, <2>4, <2>5 DEF ContractStep, Contract!Next
<1> QED
  BY <1>1, <1>2, EngineInvariantHolds, PTL DEF EngineSpec, ContractIsKept, Contract!Safety
=============================================================================
