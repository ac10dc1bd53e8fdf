---------------------------- MODULE TokenManager ----------------------------
(***************************************************************************)
(* TokenManager of oidc-token-manager.js: the token a page holds, its copy *)
(* in localStorage that the other tabs share, and the two timers that      *)
(* announce that it is about to expire and remove it when it has.          *)
(*                                                                         *)
(* A tab is a page with one manager (store = localStorage, persist = TRUE).*)
(* Everything one browser task does is one action: the callbacks that      *)
(* saveToken, a storage event or a timer runs are part of it.  Where a new *)
(* token comes from is TokenRequests' subject: here it just arrives.  The  *)
(* clock counts seconds as Date.now() / 1000 does, and may run ahead of    *)
(* timers and events that are due, as it does in a tab in the background.  *)
(***************************************************************************)
EXTENDS Integers

CONSTANTS
  Tabs,          \* pages of the browser, all of the same origin
  RenewingTabs,  \* those with silent_redirect_uri and silent_renew
  Lead,          \* an expiring token is announced that long before (60 s)
  Lifetimes,     \* expires_in of the tokens the provider issues
  TimerSpan,     \* setTimeout keeps its delay modulo this (2^32 ms)
  None,          \* null: no token
  Undefined,     \* a property that is not there
  Off,           \* the handle of a timer that is not set
  MaxTime,       \* bound: the clock stops here
  MaxTokens      \* bound: tokens ever issued

ASSUME LeadAssumption == Lead \in Nat /\ TimerSpan \in Nat \ {0}
ASSUME LifetimesAssumption == Lifetimes \subseteq Nat
ASSUME RenewingAssumption == RenewingTabs \subseteq Tabs
ASSUME SentinelAssumption == Undefined \notin Int /\ Off \notin Int
ASSUME BoundsAssumption == MaxTime \in Nat /\ MaxTokens \in Nat

VARIABLES
  now,           \* Date.now() / 1000
  issued,        \* tokens issued so far
  stored,        \* localStorage[persistKey]: a token written as JSON, or None
  tab            \* the tabs (see Closed)

vars == <<now, issued, stored, tab>>

-----------------------------------------------------------------------------
(***************************************************************************)
(* Token                                                                   *)
(***************************************************************************)
\* An object with the properties of Token; null is none.
Tokens ==
  [id : Nat, access : BOOLEAN, profile : Int \union {Undefined},
   expires_at : Int \union {Undefined}]

ASSUME NoneAssumption == None \notin Tokens

\* Token(other): with an access token, expires_at is other's own; an id_token
\* alone lends the exp claim of its profile.
Token(other) ==
  [id |-> other.id, access |-> other.access, profile |-> other.profile,
   expires_at |-> IF other.access THEN other.expires_at ELSE other.profile]

\* Token.fromResponse: the lifetime of an access token counts from now.
FromResponse(response) ==
  Token([response EXCEPT !.expires_at = IF response.access THEN now + @ ELSE @])

\* A property that is undefined is not written, and so is undefined when read.
ToJSON(x) == [id |-> x.id, access |-> x.access, profile |-> x.profile,
              expires_at |-> x.expires_at]
FromJSON(json) == Token(json)

\* The getters of Token and, for no token, of TokenManager.  A comparison with
\* undefined, and with the NaN that arithmetic makes of it, is false.
Expired(x) ==
  \/ x = None
  \/ x.expires_at # Undefined /\ x.expires_at < now

HasTime(x) == x # None /\ x.expires_at # Undefined
ExpiresIn(x) == IF x = None THEN 0 ELSE x.expires_at - now
ExpiresInMoreThan(x, seconds) ==
  (x = None \/ HasTime(x)) /\ ExpiresIn(x) > seconds

-----------------------------------------------------------------------------
(***************************************************************************)
(* A tab: whether it is open, mgr._token, the handles of the timers (the   *)
(* time they are due), storage events on their way, silent renewals under  *)
(* way, and, as history, whether the page was told that the token it holds *)
(* is about to expire, whether it took the token over in its last second,  *)
(* when expires_in is 0, and whether configureTokenExpiring came too late  *)
(* for it.                                                                 *)
(***************************************************************************)
Closed ==
  [open |-> FALSE, token |-> None, start |-> Off, expired |-> Off,
   expiring |-> Off, events |-> 0, renewals |-> 0, told |-> FALSE,
   late |-> FALSE, missed |-> FALSE]

\* window.setTimeout converts its delay to a 32-bit integer, and a negative
\* one is none at all.
SetTimeout(delay) ==
  LET wrapped == delay % TimerSpan
  IN  now + (IF 2 * wrapped < TimerSpan THEN wrapped ELSE 0)

\* _callTokenExpiring: the page's own callbacks, and configureAutoRenewToken's.
CallTokenExpiring(t, r) ==
  [r EXCEPT !.told = TRUE,
            !.renewals = IF t \in RenewingTabs THEN @ + 1 ELSE @]

\* Mutant: the expired timer is due at the expiration, when the token is still good.
ConfigureExpiredOnTime(r) ==
  [r EXCEPT !.expired = IF ExpiresInMoreThan(r.token, 0)
                          THEN SetTimeout(ExpiresIn(r.token)) ELSE Off]

\* Mutant: a timer that is set already is kept.
ConfigureExpiredOnce(r) ==
  IF r.expired # Off THEN r
  ELSE [r EXCEPT !.expired = IF ExpiresInMoreThan(r.token, 0)
                               THEN SetTimeout(ExpiresIn(r.token) + 1) ELSE Off]

\* Mutant: only a token that is not expiring yet gets an expired timer.
ConfigureExpiredIfNotExpiring(r) ==
  [r EXCEPT !.expired = IF ExpiresInMoreThan(r.token, Lead)
                          THEN SetTimeout(ExpiresIn(r.token) + 1) ELSE Off]

\* Mutant: what is expiring already is not announced.
ConfigureExpiringInTimeOnly(t, r) ==
  IF Expired(r.token) \/ ~ExpiresInMoreThan(r.token, Lead)
    THEN [r EXCEPT !.expiring = Off]
    ELSE [r EXCEPT !.expiring = SetTimeout(ExpiresIn(r.token) - Lead)]

\* configure() of configureTokenExpired and of configureTokenExpiring.
ConfigureExpired(r) ==
  [r EXCEPT !.expired = IF ExpiresInMoreThan(r.token, 0)
                          THEN SetTimeout(ExpiresIn(r.token) + 1) ELSE Off]

ConfigureExpiring(t, r) ==
  IF Expired(r.token) THEN [r EXCEPT !.expiring = Off]
  ELSE IF ExpiresInMoreThan(r.token, Lead)
    THEN [r EXCEPT !.expiring = SetTimeout(ExpiresIn(r.token) - Lead)]
    ELSE CallTokenExpiring(t, [r EXCEPT !.expiring = Off])

\* _callTokenObtained and _callTokenRemoved: configureTokenExpiring registers
\* its callbacks when its timer (start) has run.
CallTokenObtained(t, r) ==
  LET configured == ConfigureExpired(r)
  IN  IF r.start = Off THEN ConfigureExpiring(t, configured) ELSE configured

CallTokenRemoved(r) == [r EXCEPT !.expired = Off, !.expiring = Off]

\* The token a page takes over, or that leaves it without one.
Hold(r, x) ==
  [r EXCEPT !.token = x, !.told = FALSE, !.missed = FALSE,
            !.late = HasTime(x) /\ x.expires_at <= now]

\* Mutant: what was removed from the store stays in the page.
LoadTokenIfStored(r) ==
  IF stored = None THEN r
  ELSE Hold(r, IF Expired(FromJSON(stored)) THEN None ELSE FromJSON(stored))

\* loadToken: a stored token that has expired is not taken.
LoadToken(r) ==
  Hold(r, IF stored = None \/ Expired(FromJSON(stored)) THEN None
          ELSE FromJSON(stored))

-----------------------------------------------------------------------------
Init ==
  /\ now = 0
  /\ issued = 0
  /\ stored = None
  /\ tab = [t \in Tabs |-> Closed]

\* A write to localStorage that changes it is an event for every other tab.
Store(t, value, r) ==
  /\ stored' = value
  /\ tab' = [u \in Tabs |->
               IF u = t THEN r
               ELSE IF tab[u].open /\ value # stored
                 THEN [tab[u] EXCEPT !.events = @ + 1] ELSE tab[u]]

\* saveToken(x) in tab t, whose record is r.
SaveToken(t, r, x) ==
  LET held == Hold(r, x)
  IN  Store(t, IF Expired(x) THEN None ELSE ToJSON(x),
               IF x = None THEN CallTokenRemoved(held) ELSE CallTokenObtained(t, held))

-----------------------------------------------------------------------------
(***************************************************************************)
(* The page                                                                *)
(***************************************************************************)
\* The constructor: configureTokenExpired at once, configureTokenExpiring by a
\* timer without delay.
Open(t) ==
  /\ ~tab[t].open
  /\ tab' = [tab EXCEPT ![t] = [ConfigureExpired(LoadToken([Closed EXCEPT !.open = TRUE]))
                                  EXCEPT !.start = now]]
  /\ UNCHANGED <<now, issued, stored>>

\* Reloading, leaving or closing the page takes its timers and renewals along.
Close(t) ==
  /\ tab[t].open
  /\ tab' = [tab EXCEPT ![t] = Closed]
  /\ UNCHANGED <<now, issued, stored>>

\* What processResponseAsync resolves to: an access token with its lifetime, or
\* an id_token alone, whose exp claim filter_protocol_claims may have deleted.
Responses ==
  [id : {issued + 1}, access : {TRUE}, expires_at : Lifetimes, profile : {Undefined}]
  \union
  [id : {issued + 1}, access : {FALSE}, expires_at : {Undefined},
   profile : {Undefined} \union {now + l : l \in Lifetimes}]

\* processTokenCallbackAsync and the popup: saveToken with the response.
Obtain(t) ==
  /\ tab[t].open /\ issued < MaxTokens
  /\ \E response \in Responses : SaveToken(t, tab[t], FromResponse(response))
  /\ issued' = issued + 1
  /\ UNCHANGED now

\* The end of a renewTokenSilentAsync, whatever became of the token since.
RenewSucceeds(t) ==
  /\ tab[t].renewals > 0 /\ issued < MaxTokens
  /\ \E response \in Responses :
       SaveToken(t, [tab[t] EXCEPT !.renewals = @ - 1], FromResponse(response))
  /\ issued' = issued + 1
  /\ UNCHANGED now

RenewFails(t) ==
  /\ tab[t].renewals > 0
  /\ tab' = [tab EXCEPT ![t].renewals = @ - 1]
  /\ UNCHANGED <<now, issued, stored>>

RemoveToken(t) ==
  /\ tab[t].open
  /\ SaveToken(t, tab[t], None)
  /\ UNCHANGED <<now, issued>>

\* redirectForLogout leaves the page once the token is removed.
RedirectForLogout(t) ==
  /\ tab[t].open
  /\ Store(t, None, Closed)
  /\ UNCHANGED <<now, issued>>

\* The storage listener: the event says that the value changed, not to what.
StorageEvent(t) ==
  /\ tab[t].events > 0
  /\ LET loaded == LoadToken([tab[t] EXCEPT !.events = @ - 1])
     IN  tab' = [tab EXCEPT ![t] = IF loaded.token = None THEN CallTokenRemoved(loaded)
                                   ELSE CallTokenObtained(t, loaded)]
  /\ UNCHANGED <<now, issued, stored>>

-----------------------------------------------------------------------------
(***************************************************************************)
(* The timers.  Timers of a page run in the order they are due, and in the *)
(* order they were set when they are due together: expired, start,         *)
(* expiring.                                                               *)
(***************************************************************************)
Due(timer) == timer # Off /\ timer <= now
NotBefore(timer, due) == timer # Off => timer >= due
After(timer, due) == timer # Off => timer > due

\* configureTokenExpiring, delayed so that the page can register first: for how
\* long, nobody knows.  What has expired by then is announced no more.
Start(t) ==
  /\ Due(tab[t].start) /\ After(tab[t].expired, tab[t].start)
  /\ LET missed == tab[t].token # None /\ Expired(tab[t].token)
     IN  tab' = [tab EXCEPT ![t] =
                   ConfigureExpiring(t, [@ EXCEPT !.start = Off, !.missed = missed])]
  /\ UNCHANGED <<now, issued, stored>>

ExpiringTimer(t) ==
  /\ Due(tab[t].expiring) /\ After(tab[t].expired, tab[t].expiring)
  /\ tab' = [tab EXCEPT ![t] = CallTokenExpiring(t, [tab[t] EXCEPT !.expiring = Off])]
  /\ UNCHANGED <<now, issued, stored>>

ExpiredTimer(t) ==
  /\ Due(tab[t].expired)
  /\ NotBefore(tab[t].start, tab[t].expired) /\ NotBefore(tab[t].expiring, tab[t].expired)
  /\ LET fired == [tab[t] EXCEPT !.expired = Off]
     IN  IF tab[t].token # None THEN SaveToken(t, fired, None)
         ELSE tab' = [tab EXCEPT ![t] = fired] /\ UNCHANGED stored
  /\ UNCHANGED <<now, issued>>

Timers(t) == Start(t) \/ ExpiringTimer(t) \/ ExpiredTimer(t)

Tick ==
  /\ now < MaxTime
  /\ now' = now + 1
  /\ UNCHANGED <<issued, stored, tab>>

-----------------------------------------------------------------------------
Next ==
  \/ Tick
  \/ \E t \in Tabs :
       \/ Open(t) \/ Close(t)
       \/ Obtain(t) \/ RemoveToken(t) \/ RedirectForLogout(t)
       \/ RenewSucceeds(t) \/ RenewFails(t)
       \/ StorageEvent(t) \/ Timers(t)

\* The clock runs, and a browser runs the timers of an open page at last.
Fairness ==
  /\ WF_vars(Tick)
  /\ \A t \in Tabs : WF_vars(Timers(t))

Spec == Init /\ [][Next]_vars /\ Fairness

-----------------------------------------------------------------------------
(***************************************************************************)
(* Properties                                                              *)
(***************************************************************************)
\* A token whose expiration is known, and near enough for setTimeout.  Without
\* it the timers say nothing: an id_token whose exp claim was filtered is never
\* expired and at once expiring, and a delay of more than 24.8 days is over at
\* once, so that the expired timer removes a fresh token.
InRange(x) == HasTime(x) /\ 2 * (x.expires_at + 1) < TimerSpan

Timed(t) == InRange(tab[t].token) /\ ~tab[t].late

\* The type of the state.
TabRecords ==
  [open : BOOLEAN, token : Tokens \union {None}, start : Int \union {Off},
   expired : Int \union {Off}, expiring : Int \union {Off},
   events : Nat, renewals : Nat, told : BOOLEAN, late : BOOLEAN,
   missed : BOOLEAN]

TypeOK ==
  /\ now \in Nat /\ issued \in Nat
  /\ stored \in Tokens \union {None}
  /\ tab \in [Tabs -> TabRecords]
  /\ \A t \in Tabs : ~tab[t].open => tab[t] = Closed

\* The timers are always those of the token the page holds now, whichever tab
\* obtained, replaced or removed it: the expired timer is set a second past its
\* expiration, and the page has been told that it is expiring or will be, Lead
\* before, unless it had expired when configureTokenExpiring came to it; without
\* a token no timer is left from an earlier one.
TimersMatchToken ==
  TypeOK /\ \A t \in Tabs :
    /\ Timed(t) =>
         /\ tab[t].expired = tab[t].token.expires_at + 1
         /\ \/ tab[t].told \/ tab[t].missed \/ tab[t].start # Off
            \/ tab[t].expiring = tab[t].token.expires_at - Lead
    /\ tab[t].token = None => tab[t].expired = Off /\ tab[t].expiring = Off

\* Tabs that have handled their storage events agree with localStorage about
\* every token that has not expired, although an event does not carry the token
\* and the store may have changed again by the time it is handled.
TabsAgree ==
  \A t \in Tabs :
    tab[t].open /\ tab[t].events = 0 /\ ~(Expired(stored) /\ Expired(tab[t].token))
      => tab[t].token = stored

\* An expired timer never removes from localStorage a token that has not
\* expired, such as the one another tab has just renewed, if the tab has handled
\* its storage events (with one on its way it does).
FreshTokensSurvive ==
  [][\A t \in Tabs :
       ExpiredTimer(t) /\ tab[t].events = 0 /\ InRange(tab[t].token) => Expired(stored)]_vars

\* A token is not removed as expired from a page that was not told before that
\* it was expiring, although timers run late, both of them perhaps after the
\* expiration, and the token may come from another tab shortly before.  Only a
\* token that expires before configureTokenExpiring has run is not announced.
ToldBeforeExpired ==
  [][\A t \in Tabs :
       ExpiredTimer(t) /\ InRange(tab[t].token)
         => tab[t].told \/ tab[t].missed]_vars

\* A silent renewal starts only for a token that has no more than Lead left:
\* no timer of a token that was replaced or renewed meanwhile starts one.
RenewsOnlyWhenExpiring ==
  [][\A t \in Tabs :
       tab'[t].renewals > tab[t].renewals /\ InRange(tab'[t].token)
         => tab'[t].token.expires_at - now <= Lead]_vars

\* A token that expires while the page is open does not stay in its manager.
ExpirationIsNoticed ==
  \A t \in Tabs, i \in 1..MaxTokens :
    (Timed(t) /\ tab[t].token.id = i /\ tab[t].token.expires_at < MaxTime)
      ~> (tab[t].token = None \/ tab[t].token.id # i \/ tab[t].late)

\* A timer never acts too late to be of use, and never too early.
TimersActInTime == ToldBeforeExpired /\ RenewsOnlyWhenExpiring
=============================================================================
