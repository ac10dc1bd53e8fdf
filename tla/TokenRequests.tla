--------------------------- MODULE TokenRequests ---------------------------
(***************************************************************************)
(* How oidc-token-manager.js asks the provider for a token: OidcClient's   *)
(* requests and the validation of the responses, driven by a redirect of   *)
(* the page, by a hidden frame (silent renewal) or by a popup.             *)
(*                                                                         *)
(* A flow is one call of redirectForToken, renewTokenSilentAsync or        *)
(* openPopupForTokenAsync, with the response to it.  All flows of the      *)
(* browser, in whatever tab, share one entry of localStorage, the          *)
(* request_state; the popups share one manager and its page.  The promises *)
(* of a flow run to their next XMLHttpRequest in one step.  A flow makes at*)
(* most one request, so its name stands for the random state and nonce.    *)
(* What a flow loads (metadata, keys) may be in its settings already: both *)
(* are allowed.                                                            *)
(***************************************************************************)
EXTENDS Integers

CONSTANTS
  Redirects, Silents, Popups,  \* the flows of each kind
  ResponseType,  \* response_type: a subset of {"id_token", "token"}
  Tries,         \* half seconds a popup has to get ready (10)
  None,          \* null: nothing stored
  MaxReplays     \* bound: times a callback page is loaded again

Flows == Redirects \union Silents \union Popups

ASSUME FlowsAssumption ==
  /\ Redirects \intersect Silents = {}
  /\ Redirects \intersect Popups = {}
  /\ Silents \intersect Popups = {}
  /\ None \notin Flows
ASSUME BoundsAssumption == Tries \in Nat /\ MaxReplays \in Nat

VARIABLES
  requestState,  \* localStorage[request_state_key]: a flow's request, or None
  pendingPopup,  \* mgr._pendingPopup
  flow,          \* the flows (see Idle)
  latest         \* history: the flow that made a request last

vars == <<requestState, pendingPopup, flow, latest>>

\* isOidc and isOAuth.
isOidc == "id_token" \in ResponseType
isOAuth == "token" \in ResponseType

-----------------------------------------------------------------------------
(***************************************************************************)
(* A flow: where it is, what is wrong with its response, how its promise is*)
(* settled; of a popup also the window, the interval that watches it and   *)
(* the global callback named after the request; of a redirect how often    *)
(* its callback page was loaded; and, as history, the tokens it has saved. *)
(***************************************************************************)
Idle ==
  [pc |-> "idle", defect |-> "none",
   settled |-> "no", popup |-> "none", interval |-> FALSE, callback |-> FALSE,
   tries |-> 0, responses |-> 0, saves |-> 0]

Init ==
  /\ requestState = None
  /\ pendingPopup = FALSE
  /\ flow = [f \in Flows |-> Idle]
  /\ latest = None

At(f, pc) == flow[f].pc = pc
Set(f, r) == flow' = [flow EXCEPT ![f] = r]
Goto(r, pc) == [r EXCEPT !.pc = pc]

\* A promise is settled once.  What a flow that has ended was about is dropped.
Settle(r, how) == [r EXCEPT !.settled = IF @ = "no" THEN how ELSE @]
Rejected(r) == Settle([r EXCEPT !.pc = "end", !.defect = "none", !.tries = 0], "rejected")

-----------------------------------------------------------------------------
(***************************************************************************)
(* Requests                                                                *)
(***************************************************************************)
\* cleanup() of a popup; with the callback's name, it deletes that too.
CleanedUp(r, named) ==
  [r EXCEPT !.interval = FALSE, !.popup = "closed",
            !.callback = IF named THEN FALSE ELSE @]

\* createTokenRequestAsync, when the authorization endpoint is known; then the
\* page leaves, the frame loads, or the callback waits and the popup is watched.
CreateRequest(f, r) ==
  /\ requestState' = f
  /\ latest' = f
  /\ Set(f, [r EXCEPT !.callback = f \in Popups,
                      !.pc = IF f \in Popups THEN "redirectPopup" ELSE "away"])

\* loadAuthorizationEndpoint: the settings say it, or the metadata does, which
\* may have to be loaded.
Begin(f, r) ==
  \/ CreateRequest(f, r)
  \/ Set(f, Goto(r, "endpoint")) /\ UNCHANGED <<requestState, latest>>

RedirectForToken(f) ==
  /\ f \in Redirects /\ At(f, "idle")
  /\ Begin(f, Idle)
  /\ UNCHANGED pendingPopup

RenewTokenSilentAsync(f) ==
  /\ f \in Silents /\ At(f, "idle")
  /\ Begin(f, Idle)
  /\ UNCHANGED pendingPopup

\* A second popup is refused while one is pending.
OpenPopupRefused(f) ==
  /\ f \in Popups /\ At(f, "idle")
  /\ pendingPopup
  /\ Set(f, Rejected(Idle))
  /\ UNCHANGED <<requestState, pendingPopup, latest>>

\* window.open can fail, for a popup blocker.
OpenPopupBlocked(f) ==
  /\ f \in Popups /\ At(f, "idle")
  /\ ~pendingPopup
  /\ Set(f, Rejected(Idle))
  /\ UNCHANGED <<requestState, pendingPopup, latest>>

OpenPopup(f) ==
  /\ f \in Popups /\ At(f, "idle")
  /\ ~pendingPopup
  /\ pendingPopup' = TRUE
  /\ Begin(f, [Idle EXCEPT !.popup = "open", !.interval = TRUE])

\* Mutant: the popup is not cleaned up after.
MetadataFailsUncleaned(f) ==
  /\ At(f, "endpoint")
  /\ Set(f, Rejected(IF f \in Popups THEN CleanedUp(flow[f], FALSE) ELSE flow[f]))
  /\ UNCHANGED <<requestState, pendingPopup, latest>>

\* getJSON: the answer is stored in the settings, or the promise is rejected.
MetadataLoaded(f) ==
  /\ At(f, "endpoint")
  /\ CreateRequest(f, flow[f])
  /\ UNCHANGED pendingPopup

MetadataFails(f) ==
  /\ At(f, "endpoint")
  /\ Set(f, Rejected(IF f \in Popups THEN CleanedUp(flow[f], FALSE) ELSE flow[f]))
  /\ pendingPopup' = (pendingPopup /\ f \notin Popups)
  /\ UNCHANGED <<requestState, latest>>

-----------------------------------------------------------------------------
(***************************************************************************)
(* The popup                                                               *)
(***************************************************************************)
\* Its first page has run processTokenPopup, which defines setUrl.
PopupReady(f) ==
  /\ flow[f].popup = "open"
  /\ Set(f, [flow[f] EXCEPT !.popup = "ready"])
  /\ UNCHANGED <<requestState, pendingPopup, latest>>

PopupClosed(f) ==
  /\ flow[f].popup \in {"open", "ready"}
  /\ Set(f, [flow[f] EXCEPT !.popup = "closed"])
  /\ UNCHANGED <<requestState, pendingPopup, latest>>

\* Mutant: the interval ends, and the caller is not told.
CheckClosedSilently(f) ==
  /\ flow[f].interval /\ flow[f].popup = "closed"
  /\ Set(f, CleanedUp(flow[f], FALSE))
  /\ pendingPopup' = FALSE
  /\ UNCHANGED <<requestState, latest>>

\* checkClosed: the promise is rejected; what createTokenRequestAsync and
\* redirectPopup are about goes on.
CheckClosed(f) ==
  /\ flow[f].interval /\ flow[f].popup = "closed"
  /\ Set(f, Settle(CleanedUp(flow[f], FALSE), "rejected"))
  /\ pendingPopup' = FALSE
  /\ UNCHANGED <<requestState, latest>>

\* redirectPopup, now and every half second.
RedirectPopup(f) ==
  /\ At(f, "redirectPopup")
  /\ CASE flow[f].popup = "ready" ->
            Set(f, Goto([flow[f] EXCEPT !.tries = 0], "away")) /\ UNCHANGED pendingPopup
       [] flow[f].popup # "ready" /\ flow[f].tries < Tries ->
            Set(f, [flow[f] EXCEPT !.tries = @ + 1]) /\ UNCHANGED pendingPopup
       [] OTHER ->
            /\ Set(f, Rejected(CleanedUp(flow[f], TRUE)))
            /\ pendingPopup' = FALSE
  /\ UNCHANGED <<requestState, latest>>

-----------------------------------------------------------------------------
(***************************************************************************)
(* Responses.  The provider answers the request it was sent, with nothing  *)
(* wrong ("none") or with one defect.                                      *)
(***************************************************************************)
\* What processResponseAsync checks itself (an error, a token or parameter that
\* is missing), what it leaves to validateIdTokenAsync (the signature and the
\* nonce; then the issuer, the audience and the times) and what to
\* validateAccessTokenAsync.
ResponseDefects == {"parameters"}
SignedDefects == IF isOidc THEN {"signature", "nonce"} ELSE {}
ClaimDefects == IF isOidc THEN {"claims"} ELSE {}
HashDefects == IF isOidc /\ isOAuth THEN {"at_hash"} ELSE {}

Defects == ResponseDefects \union SignedDefects \union ClaimDefects \union HashDefects

\* saveToken with what processResponseAsync resolves to.
Saved(r) == Settle([r EXCEPT !.pc = "end", !.saves = @ + 1], "resolved")

\* What may become of a response that got so far, up to the next
\* XMLHttpRequest: the end of validateIdTokenAndAccessTokenAsync;
AccessTokenChecked(r) == {IF r.defect \in HashDefects THEN Rejected(r) ELSE Saved(r)}

\* the claims of an id_token, after which the user's profile may be loaded;
ClaimsChecked(r) ==
  IF r.defect \in ClaimDefects THEN {Rejected(r)}
  ELSE AccessTokenChecked(r) \union (IF isOAuth THEN {Goto(r, "profile")} ELSE {})

\* Mutant: with the keys at hand, the nonce and the signature are taken for good.
SignatureCheckedIfLoaded(r) ==
  IF r.defect \in SignedDefects /\ r.pc = "keys" THEN {Rejected(r)}
  ELSE ClaimsChecked(r) \union {Goto(r, "metadata")}

\* its signature and nonce, after which the issuer must be known;
SignatureChecked(r) ==
  IF r.defect \in SignedDefects THEN {Rejected(r)}
  ELSE ClaimsChecked(r) \union {Goto(r, "metadata")}

\* Mutant: any request state will do.
ResponseCheckedForAny(f, r) ==
  IF requestState = None \/ r.defect \in ResponseDefects
  THEN {Rejected(r)}
  ELSE IF isOidc THEN SignatureChecked(r) \union {Goto(r, "keys")} ELSE {Saved(r)}

\* and what processResponseAsync checks, after which the keys must be known.
ResponseChecked(f, r) ==
  IF requestState # f \/ r.defect \in ResponseDefects
  THEN {Rejected(r)}
  ELSE IF isOidc THEN SignatureChecked(r) \union {Goto(r, "keys")} ELSE {Saved(r)}

Becomes(f, outcomes) == \E r \in outcomes : Set(f, r)

\* Mutant: the request state stays in the store.
ProcessResponseKeepsState(f, r) ==
  /\ UNCHANGED requestState
  /\ Becomes(f, ResponseChecked(f, r))

\* processResponseAsync takes the request state out of the store before it looks
\* at the response.
ProcessResponse(f, r) ==
  /\ requestState' = None
  /\ Becomes(f, ResponseChecked(f, r))

\* The frame posts its hash to the page, and message() takes it: cleanup()
\* ends the timeout and the frame.
SilentResponse(f) ==
  /\ f \in Silents /\ At(f, "away")
  /\ \E d \in {"none"} \union Defects : ProcessResponse(f, [flow[f] EXCEPT !.defect = d])
  /\ UNCHANGED <<pendingPopup, latest>>

\* cancel(), after silent_renew_timeout.
FrameTimeout(f) ==
  /\ f \in Silents /\ At(f, "away")
  /\ Set(f, Rejected(flow[f]))
  /\ UNCHANGED <<requestState, pendingPopup, latest>>

\* The popup is back and calls openPopupForTokenAsyncCallback, which calls the
\* callback its state names: cleanup(callback_name), then the response.
PopupResponse(f) ==
  /\ f \in Popups /\ At(f, "away") /\ flow[f].popup = "ready" /\ flow[f].callback
  /\ pendingPopup' = FALSE
  /\ \E d \in {"none"} \union Defects :
       ProcessResponse(f, [CleanedUp(flow[f], TRUE) EXCEPT !.defect = d])
  /\ UNCHANGED latest

\* The redirect's page is back, a new one, that calls processTokenCallbackAsync
\* with its hash; and does so again when it is reloaded.
RedirectResponse(f) ==
  /\ f \in Redirects /\ At(f, "away")
  /\ \E d \in {"none"} \union Defects :
       ProcessResponse(f, [flow[f] EXCEPT !.defect = d, !.responses = 1])
  /\ UNCHANGED <<pendingPopup, latest>>

RedirectReplayed(f) ==
  /\ f \in Redirects /\ At(f, "end") /\ flow[f].responses \in 1..MaxReplays
  /\ ProcessResponse(f, [flow[f] EXCEPT !.responses = @ + 1])
  /\ UNCHANGED <<pendingPopup, latest>>

-----------------------------------------------------------------------------
(***************************************************************************)
(* The documents a response waits for: keys (with the metadata that say    *)
(* where they are), metadata, the user's profile.                          *)
(***************************************************************************)
KeysLoaded(f) ==
  /\ At(f, "keys")
  /\ Becomes(f, SignatureChecked(flow[f]))
  /\ UNCHANGED <<requestState, pendingPopup, latest>>

IssuerLoaded(f) ==
  /\ At(f, "metadata")
  /\ Becomes(f, ClaimsChecked(flow[f]))
  /\ UNCHANGED <<requestState, pendingPopup, latest>>

ProfileLoaded(f) ==
  /\ At(f, "profile")
  /\ Becomes(f, AccessTokenChecked(flow[f]))
  /\ UNCHANGED <<requestState, pendingPopup, latest>>

\* getJSON rejects: the answer is not 200, not JSON, there is none, or it lacks
\* what is asked for.
LoadFails(f) ==
  /\ flow[f].pc \in {"keys", "metadata", "profile"}
  /\ Set(f, Rejected(flow[f]))
  /\ UNCHANGED <<requestState, pendingPopup, latest>>

-----------------------------------------------------------------------------
Loads(f) ==
  MetadataLoaded(f) \/ MetadataFails(f) \/ KeysLoaded(f) \/ IssuerLoaded(f)
  \/ ProfileLoaded(f) \/ LoadFails(f)

Timers(f) == CheckClosed(f) \/ RedirectPopup(f) \/ FrameTimeout(f)

Next ==
  \E f \in Flows :
    \/ RedirectForToken(f) \/ RenewTokenSilentAsync(f)
    \/ OpenPopupRefused(f) \/ OpenPopupBlocked(f) \/ OpenPopup(f)
    \/ PopupReady(f) \/ PopupClosed(f)
    \/ Loads(f) \/ Timers(f)
    \/ SilentResponse(f) \/ PopupResponse(f)
    \/ RedirectResponse(f) \/ RedirectReplayed(f)

\* Some XMLHttpRequest ends or some timer fires as long as there is one.  Neither
\* the provider nor the user, who may leave the popup open, has to do anything.
Fairness == WF_vars(\E f \in Flows : Loads(f) \/ Timers(f))

Spec == Init /\ [][Next]_vars /\ Fairness

-----------------------------------------------------------------------------
(***************************************************************************)
(* Properties                                                              *)
(***************************************************************************)
\* The type of the state: a flow asks, its response is checked, or it has ended.
Asking == {"idle", "endpoint", "redirectPopup", "away"}
Checking == {"keys", "metadata", "profile"}

FlowRecords ==
  [pc : Asking \union Checking \union {"end"}, defect : {"none"} \union Defects,
   settled : {"no", "resolved", "rejected"},
   popup : {"none", "open", "ready", "closed"},
   interval : BOOLEAN, callback : BOOLEAN,
   tries : 0..Tries, responses : Nat, saves : Nat]

TypeOK ==
  /\ {requestState, latest} \subseteq Flows \union {None}
  /\ pendingPopup \in BOOLEAN
  /\ flow \in [Flows -> FlowRecords]

\* A request yields at most one token, however often its callback page is loaded
\* and whatever the other flows put into the request state meanwhile.
OneTokenPerRequest == \A f \in Flows : flow[f].saves <= 1

\* No token is saved by a flow whose caller was told that it failed: no answer
\* that comes after the frame's timeout, after the popup was closed, or after
\* the popup took too long.
RejectedSavesNothing ==
  \A f \in Flows : flow[f].settled = "rejected" => flow[f].saves = 0

\* A token is saved only after every check that its response type calls for,
\* although a response passes them in up to four steps.
AcceptedHasNoDefect ==
  \A f \in Flows : flow[f].saves > 0 => flow[f].defect = "none"

\* A response is accepted only for the request made last in the whole browser:
\* one that another flow has superseded never is.
OnlyLatestRequestAccepted ==
  [][\A f \in Flows :
       /\ flow'[f].pc \in {"keys", "metadata", "profile", "end"} \ {flow[f].pc}
       /\ At(f, "away") /\ flow'[f].settled # "rejected"
       => latest = f]_vars

\* _pendingPopup does not outlive the popups: while it refuses new ones, one is
\* watched whose caller still waits.
PendingPopupIsWatched ==
  pendingPopup => \E f \in Popups : flow[f].interval /\ flow[f].settled = "no"

\* A silent renewal ends, with a token or an error, and so does a popup that the
\* user closes, whichever step of the flow it meets: time and again no caller is
\* left waiting.
Waiting(f) ==
  /\ flow[f].settled = "no"
  /\ (f \in Silents /\ ~At(f, "idle")) \/ flow[f].popup = "closed"

FlowsSettle == []<>(\A f \in Flows : ~Waiting(f))

\* What openPopupForTokenAsync tells its caller (line 8804, "Already a pending
\* popup token request."): there is one popup at a time.  But the flow of a
\* popup that was closed early goes on, and when it gives up, its cleanup()
\* deletes the flag of the popup opened since.
OnePendingPopup ==
  \A f, g \in Popups :
    flow[f].popup \in {"open", "ready"} /\ flow[g].popup \in {"open", "ready"} => f = g

\* What is saved was asked for, and passed every check.
SavedIsSound == TypeOK /\ RejectedSavesNothing /\ AcceptedHasNoDefect
=============================================================================
