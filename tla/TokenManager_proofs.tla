------------------------ MODULE TokenManager_proofs ------------------------
(***************************************************************************)
(* The safety of the token manager, for every set of tabs, every Lead, all *)
(* lifetimes and any width of setTimeout's delay: the timers are those of  *)
(* the token the page holds, tabs agree with the store, fresh tokens       *)
(* survive, and the timers act in time.                                    *)
(*                                                                         *)
(* The invariant says of every timer that is set which token it was set    *)
(* for, and that the registration of configureTokenExpiring, however late, *)
(* is due before the expired timer: when that one runs, it has run.        *)
(***************************************************************************)
EXTENDS TokenManager, TLAPS

\* A token without an access token expires with its id_token, as Token makes it.
Lent(x) == x # None => Token(x) = x

\* The timers of a page are those of its token, if that is in range, and those
\* of a token that was late are not set.
TimersSound(r) ==
  /\ InRange(r.token) /\ ~r.late =>
       /\ r.expired = r.token.expires_at + 1
       /\ r.told \/ r.missed \/ r.start # Off \/ r.expiring = r.token.expires_at - Lead
  /\ InRange(r.token) /\ r.late => r.expired = Off
  /\ InRange(r.token) /\ r.expiring # Off => r.expiring = r.token.expires_at - Lead
  /\ r.token = None => r.expired = Off /\ r.expiring = Off

\* Until configureTokenExpiring has run, no expiring timer is set, and the token
\* expires after the second in which it was to run.
StartSound(r) ==
  r.start # Off =>
    /\ r.start \in Int /\ r.start <= now
    /\ r.expiring = Off
    /\ InRange(r.token) /\ ~r.late => r.token.expires_at > r.start

TabSound(r) ==
  /\ r \in TabRecords
  /\ ~r.open => r = Closed
  /\ Lent(r.token)
  /\ TimersSound(r)
  /\ StartSound(r)

\* A tab that has no event on its way holds what is stored, unless both have
\* expired.
Agrees(r) ==
  r.open /\ r.events = 0 /\ ~(Expired(stored) /\ Expired(r.token)) => r.token = stored

\* The inductive invariant.
IInv ==
  /\ TypeOK
  /\ Lent(stored)
  /\ \A t \in Tabs : TabSound(tab[t]) /\ Agrees(tab[t])

-----------------------------------------------------------------------------
(***************************************************************************)
(* What the operators of a tab do                                          *)
(***************************************************************************)
\* A delay below half the width of the timer is kept as it is.
LEMMA SetTimeoutInRange ==
  ASSUME now \in Nat, NEW delay \in Nat, 2 * delay < TimerSpan
  PROVE  SetTimeout(delay) = now + delay
<1>1. delay % TimerSpan = delay
  BY LeadAssumption
<1> QED
  BY <1>1 DEF SetTimeout

LEMMA SetTimeoutType ==
  ASSUME now \in Nat, NEW delay \in Int
  PROVE  SetTimeout(delay) \in Int
<1>1. delay % TimerSpan \in Int
  BY LeadAssumption
<1> QED
  BY <1>1, LeadAssumption DEF SetTimeout

LEMMA HoldFields ==
  ASSUME now \in Nat, NEW r \in TabRecords, NEW x \in Tokens \union {None}
  PROVE  LET q == Hold(r, x) IN
           /\ q \in TabRecords
           /\ q.token = x /\ ~q.told /\ ~q.missed
           /\ q.late <=> HasTime(x) /\ x.expires_at <= now
           /\ q.open = r.open /\ q.start = r.start /\ q.events = r.events
           /\ q.renewals = r.renewals
           /\ q.expired = r.expired /\ q.expiring = r.expiring
<1> DEFINE late == HasTime(x) /\ x.expires_at <= now
           held == [r EXCEPT !.token = x, !.told = FALSE, !.missed = FALSE]
           q == [held EXCEPT !.late = late]
<1>1. late \in BOOLEAN
  OBVIOUS
<1>2. Hold(r, x) = q
  BY DEF Hold
<1> HIDE DEF late
<1>3. /\ held \in TabRecords
      /\ held.token = x /\ ~held.told /\ ~held.missed
      /\ held.open = r.open /\ held.start = r.start /\ held.events = r.events
      /\ held.renewals = r.renewals
      /\ held.expired = r.expired /\ held.expiring = r.expiring
  BY DEF TabRecords
<1> HIDE DEF held
<1>4. /\ q \in TabRecords
      /\ q.token = x /\ ~q.told /\ ~q.missed
      /\ q.late <=> late
      /\ q.open = r.open /\ q.start = r.start /\ q.events = r.events
      /\ q.renewals = r.renewals
      /\ q.expired = r.expired /\ q.expiring = r.expiring
  BY <1>1, <1>3 DEF TabRecords
<1> QED
  BY <1>2, <1>4 DEF late

\* configure() of configureTokenExpired: the timer of a token that lasts.
LEMMA ConfigureExpiredFields ==
  ASSUME now \in Nat, NEW r \in TabRecords
  PROVE  LET q == ConfigureExpired(r) IN
           /\ q \in TabRecords
           /\ q.open = r.open /\ q.token = r.token /\ q.start = r.start
           /\ q.expiring = r.expiring /\ q.events = r.events /\ q.renewals = r.renewals
           /\ q.told = r.told /\ q.late = r.late /\ q.missed = r.missed
           /\ InRange(r.token) /\ r.token.expires_at > now =>
                q.expired = r.token.expires_at + 1
           /\ InRange(r.token) /\ r.token.expires_at <= now => q.expired = Off
           /\ r.token = None => q.expired = Off
<1> DEFINE timer == IF ExpiresInMoreThan(r.token, 0)
                      THEN SetTimeout(ExpiresIn(r.token) + 1) ELSE Off
           q == [r EXCEPT !.expired = timer]
<1>1. r.token # None => r.token \in Tokens
  BY DEF TabRecords
<1>2. timer \in Int \union {Off}
  <2>1. CASE ExpiresInMoreThan(r.token, 0)
    <3>1. ExpiresIn(r.token) + 1 \in Int
      BY <1>1, <2>1 DEF ExpiresInMoreThan, ExpiresIn, HasTime, Tokens
    <3> QED
      BY <2>1, <3>1, SetTimeoutType
  <2> QED
    BY <2>1
<1>3. InRange(r.token) /\ r.token.expires_at > now => timer = r.token.expires_at + 1
  <2> SUFFICES ASSUME InRange(r.token), r.token.expires_at > now
               PROVE  timer = r.token.expires_at + 1
    OBVIOUS
  <2>1. r.token.expires_at \in Int /\ r.token # None
    BY <1>1 DEF InRange, HasTime, Tokens
  <2>2. /\ ExpiresInMoreThan(r.token, 0)
        /\ ExpiresIn(r.token) + 1 = r.token.expires_at - now + 1
    BY <2>1 DEF ExpiresInMoreThan, ExpiresIn, InRange
  <2> DEFINE delay == r.token.expires_at - now + 1
  <2>3. delay \in Nat /\ 2 * delay < TimerSpan
    BY <2>1, LeadAssumption DEF InRange
  <2>4. SetTimeout(delay) = now + delay
    BY <2>3, SetTimeoutInRange
  <2> QED
    BY <2>1, <2>2, <2>4
<1>4. InRange(r.token) /\ r.token.expires_at <= now => timer = Off
  BY <1>1 DEF InRange, HasTime, Tokens, ExpiresInMoreThan, ExpiresIn
<1>5. r.token = None => timer = Off
  BY DEF ExpiresInMoreThan, ExpiresIn
<1>6. ConfigureExpired(r) = q
  BY DEF ConfigureExpired
<1> HIDE DEF timer
<1>7. /\ q \in TabRecords /\ q.expired = timer
      /\ q.open = r.open /\ q.token = r.token /\ q.start = r.start
      /\ q.expiring = r.expiring /\ q.events = r.events /\ q.renewals = r.renewals
      /\ q.told = r.told /\ q.late = r.late /\ q.missed = r.missed
  BY <1>2 DEF TabRecords
<1> QED
  BY <1>3, <1>4, <1>5, <1>6, <1>7

LEMMA CallTokenExpiringFields ==
  ASSUME NEW t \in Tabs, NEW r \in TabRecords
  PROVE  LET q == CallTokenExpiring(t, r) IN
           /\ q \in TabRecords /\ q.told
           /\ q.open = r.open /\ q.token = r.token /\ q.start = r.start
           /\ q.expired = r.expired /\ q.expiring = r.expiring
           /\ q.events = r.events /\ q.late = r.late /\ q.missed = r.missed
<1> DEFINE renewals == IF t \in RenewingTabs THEN r.renewals + 1 ELSE r.renewals
           told == [r EXCEPT !.told = TRUE]
           q == [told EXCEPT !.renewals = renewals]
<1>1. renewals \in Nat
  BY DEF TabRecords
<1>2. CallTokenExpiring(t, r) = q
  BY DEF CallTokenExpiring, TabRecords
<1> HIDE DEF renewals
<1>3. /\ told \in TabRecords /\ told.told
      /\ told.open = r.open /\ told.token = r.token /\ told.start = r.start
      /\ told.expired = r.expired /\ told.expiring = r.expiring
      /\ told.events = r.events /\ told.late = r.late /\ told.missed = r.missed
  BY DEF TabRecords
<1> HIDE DEF told
<1>4. /\ q \in TabRecords /\ q.told
      /\ q.open = r.open /\ q.token = r.token /\ q.start = r.start
      /\ q.expired = r.expired /\ q.expiring = r.expiring
      /\ q.events = r.events /\ q.late = r.late /\ q.missed = r.missed
  BY <1>1, <1>3 DEF TabRecords
<1> QED
  BY <1>2, <1>4

\* A timer is set, or is not.
LEMMA ExpiringFields ==
  ASSUME NEW r \in TabRecords, NEW timer \in Int \union {Off}
  PROVE  LET q == [r EXCEPT !.expiring = timer] IN
           /\ q \in TabRecords /\ q.expiring = timer
           /\ q.open = r.open /\ q.token = r.token /\ q.start = r.start
           /\ q.expired = r.expired /\ q.events = r.events /\ q.renewals = r.renewals
           /\ q.told = r.told /\ q.late = r.late /\ q.missed = r.missed
  BY DEF TabRecords

\* configure() of configureTokenExpiring: who has Lead left, or less, is told at
\* once, and only then is a renewal started.
LEMMA ConfigureExpiringFields ==
  ASSUME now \in Nat, NEW t \in Tabs, NEW r \in TabRecords
  PROVE  LET q == ConfigureExpiring(t, r) IN
           /\ q \in TabRecords
           /\ q.open = r.open /\ q.token = r.token /\ q.start = r.start
           /\ q.expired = r.expired /\ q.events = r.events /\ q.late = r.late
           /\ q.missed = r.missed
           /\ r.token = None => q.expiring = Off
           /\ InRange(r.token) /\ q.expiring # Off =>
                q.expiring = r.token.expires_at - Lead
           /\ InRange(r.token) /\ r.token.expires_at >= now =>
                q.told \/ q.expiring # Off
           /\ q.renewals # r.renewals /\ InRange(r.token) =>
                r.token.expires_at - now <= Lead
<1> DEFINE off == [r EXCEPT !.expiring = Off]
           timer == SetTimeout(ExpiresIn(r.token) - Lead)
           set == [r EXCEPT !.expiring = timer]
<1>1. r.token # None => r.token \in Tokens
  BY DEF TabRecords
<1>2. CASE Expired(r.token)
  <2>1. ConfigureExpiring(t, r) = off
    BY <1>2 DEF ConfigureExpiring
  <2>2. InRange(r.token) => r.token.expires_at < now
    BY <1>2 DEF Expired, InRange, HasTime
  <2>3. InRange(r.token) => r.token.expires_at \in Int
    BY <1>1 DEF InRange, HasTime, Tokens
  <2> QED
    BY <2>1, <2>2, <2>3, ExpiringFields
<1>3. CASE ~Expired(r.token) /\ ExpiresInMoreThan(r.token, Lead)
  <2>1. ConfigureExpiring(t, r) = set
    BY <1>3 DEF ConfigureExpiring
  <2>2. r.token # None /\ r.token.expires_at \in Int
    BY <1>1, <1>3 DEF Expired, ExpiresInMoreThan, HasTime, Tokens
  <2> DEFINE delay == r.token.expires_at - now - Lead
  <2>3. delay \in Nat
    BY <1>3, <2>2, LeadAssumption DEF ExpiresInMoreThan, ExpiresIn
  <2>4. timer = SetTimeout(delay)
    BY <2>2 DEF ExpiresIn
  <2>5. timer \in Int
    BY <2>3, <2>4, SetTimeoutType
  <2>6. InRange(r.token) => timer = r.token.expires_at - Lead
    <3>1. InRange(r.token) => 2 * delay < TimerSpan
      BY <2>2, LeadAssumption DEF InRange
    <3>2. InRange(r.token) => SetTimeout(delay) = now + delay
      BY <2>3, <3>1, SetTimeoutInRange
    <3> QED
      BY <2>2, <2>4, <3>2, LeadAssumption
  <2> HIDE DEF timer
  <2> QED
    BY <2>1, <2>2, <2>5, <2>6, ExpiringFields, SentinelAssumption
<1>4. CASE ~Expired(r.token) /\ ~ExpiresInMoreThan(r.token, Lead)
  <2>1. ConfigureExpiring(t, r) = CallTokenExpiring(t, off)
    BY <1>4 DEF ConfigureExpiring
  <2>2. /\ off \in TabRecords /\ off.expiring = Off
        /\ off.open = r.open /\ off.token = r.token /\ off.start = r.start
        /\ off.expired = r.expired /\ off.events = r.events /\ off.late = r.late
        /\ off.missed = r.missed
    BY ExpiringFields
  <2> HIDE DEF off
  <2>3. LET q == CallTokenExpiring(t, off) IN
          /\ q \in TabRecords /\ q.told
          /\ q.open = r.open /\ q.token = r.token /\ q.start = r.start
          /\ q.expired = r.expired /\ q.expiring = Off
          /\ q.events = r.events /\ q.late = r.late /\ q.missed = r.missed
    BY <2>2, CallTokenExpiringFields
  <2>4. InRange(r.token) => r.token.expires_at - now <= Lead
    BY <1>1, <1>4, LeadAssumption DEF InRange, HasTime, ExpiresInMoreThan, ExpiresIn, Tokens
  <2>5. r.token # None
    BY <1>4 DEF Expired
  <2> QED
    BY <2>1, <2>3, <2>4, <2>5
<1> QED BY <1>2, <1>3, <1>4

\* A token that a page takes over is timed; and starts a renewal only when it
\* is expiring.
LEMMA ObtainedIsSound ==
  ASSUME now \in Nat, NEW t \in Tabs, NEW r \in TabRecords, r.open, StartSound(r),
         NEW x \in Tokens, Lent(x)
  PROVE  LET q == CallTokenObtained(t, Hold(r, x)) IN
           /\ TabSound(q)
           /\ q.open /\ q.token = x /\ q.events = r.events
           /\ q.renewals # r.renewals /\ InRange(x) => x.expires_at - now <= Lead
<1> DEFINE held == Hold(r, x)
           timed == ConfigureExpired(held)
           q == CallTokenObtained(t, held)
<1>1. /\ held \in TabRecords
      /\ held.token = x /\ ~held.told
      /\ held.late <=> HasTime(x) /\ x.expires_at <= now
      /\ held.open = r.open /\ held.start = r.start /\ held.events = r.events
      /\ held.renewals = r.renewals /\ held.expiring = r.expiring
  BY HoldFields
<1> HIDE DEF held
<1>2. /\ timed \in TabRecords
      /\ timed.open /\ timed.token = x /\ timed.start = r.start
      /\ timed.expiring = r.expiring /\ timed.events = r.events
      /\ timed.renewals = r.renewals
      /\ timed.late <=> HasTime(x) /\ x.expires_at <= now
      /\ InRange(x) /\ x.expires_at > now => timed.expired = x.expires_at + 1
      /\ InRange(x) /\ x.expires_at <= now => timed.expired = Off
  BY <1>1, ConfigureExpiredFields
<1>3. x # None /\ (InRange(x) => HasTime(x) /\ x.expires_at \in Int)
  BY NoneAssumption DEF InRange, HasTime, Tokens
<1>4. held.start = timed.start
  BY <1>1, <1>2
<1> HIDE DEF timed
<1>5. CASE r.start # Off
  <2>1. q = timed
    BY <1>2, <1>4, <1>5 DEF CallTokenObtained, timed
  <2>2. TimersSound(timed)
    BY <1>2, <1>3, <1>5 DEF TimersSound, StartSound
  <2>3. StartSound(timed)
    BY <1>2, <1>3, <1>5 DEF StartSound
  <2> HIDE DEF q
  <2> QED
    BY <1>2, <2>1, <2>2, <2>3 DEF TabSound, q, held
<1>6. CASE r.start = Off
  <2>1. q = ConfigureExpiring(t, timed)
    BY <1>2, <1>4, <1>6 DEF CallTokenObtained, timed
  <2>2. /\ q \in TabRecords
        /\ q.open /\ q.token = x /\ q.start = Off
        /\ q.expired = timed.expired /\ q.events = r.events /\ q.late = timed.late
        /\ InRange(x) /\ q.expiring # Off => q.expiring = x.expires_at - Lead
        /\ InRange(x) /\ x.expires_at >= now => q.told \/ q.expiring # Off
        /\ q.renewals # r.renewals /\ InRange(x) => x.expires_at - now <= Lead
    BY <1>2, <1>6, <2>1, ConfigureExpiringFields
  <2> HIDE DEF q
  <2>3. TimersSound(q)
    BY <1>2, <1>3, <2>2 DEF TimersSound
  <2> QED
    BY <2>2, <2>3 DEF TabSound, StartSound, q, held
<1> QED BY <1>5, <1>6 DEF held

\* Without a token no timer is left.
LEMMA RemovedIsSound ==
  ASSUME now \in Nat, NEW r \in TabRecords, r.open, StartSound(r)
  PROVE  LET q == CallTokenRemoved(Hold(r, None)) IN
           /\ TabSound(q)
           /\ q.open /\ q.token = None /\ q.events = r.events /\ q.renewals = r.renewals
<1> DEFINE held == Hold(r, None)
           unexpired == [held EXCEPT !.expired = Off]
           q == [unexpired EXCEPT !.expiring = Off]
<1>1. /\ held \in TabRecords
      /\ held.token = None
      /\ held.open = r.open /\ held.start = r.start /\ held.events = r.events
      /\ held.renewals = r.renewals
  BY HoldFields
<1>2. CallTokenRemoved(held) = q
  BY DEF CallTokenRemoved
<1> HIDE DEF held
<1>3. /\ unexpired \in TabRecords
      /\ unexpired.token = None /\ unexpired.expired = Off
      /\ unexpired.open = r.open /\ unexpired.start = r.start
      /\ unexpired.events = r.events /\ unexpired.renewals = r.renewals
  BY <1>1 DEF TabRecords
<1> HIDE DEF unexpired
<1>4. /\ q \in TabRecords
      /\ q.token = None /\ q.expired = Off /\ q.expiring = Off
      /\ q.open = r.open /\ q.start = r.start
      /\ q.events = r.events /\ q.renewals = r.renewals
  BY <1>3 DEF TabRecords
<1> HIDE DEF q
<1>5. TabSound(q)
  BY <1>4 DEF TabSound, Lent, TimersSound, StartSound, InRange, HasTime
<1> QED
  BY <1>2, <1>4, <1>5 DEF held

\* What is stored of a token is the token again when it is read.
LEMMA StoredIsRead ==
  ASSUME NEW x \in Tokens, Lent(x)
  PROVE  ToJSON(x) = x /\ FromJSON(x) = x
  BY NoneAssumption DEF Lent, ToJSON, FromJSON, Tokens

\* Token makes a token that Token leaves as it is.
LEMMA TokenIsLent ==
  ASSUME NEW other, other.id \in Nat, other.access \in BOOLEAN,
         other.profile \in Int \union {Undefined},
         other.access => other.expires_at \in Int \union {Undefined}
  PROVE  Token(other) \in Tokens /\ Lent(Token(other))
<1> DEFINE at == IF other.access THEN other.expires_at ELSE other.profile
           x == [id |-> other.id, access |-> other.access, profile |-> other.profile,
                 expires_at |-> at]
<1>1. at \in Int \union {Undefined} /\ (~other.access => at = other.profile)
  OBVIOUS
<1>2. Token(other) = x
  BY DEF Token
<1> HIDE DEF at
<1>3. x \in Tokens
  BY <1>1 DEF Tokens
<1>4. Token(x) = x
  BY <1>1 DEF Token
<1> QED
  BY <1>2, <1>3, <1>4 DEF Lent

LEMMA ResponsesAreTokens ==
  ASSUME now \in Nat, issued \in Nat, NEW response \in Responses
  PROVE  FromResponse(response) \in Tokens /\ Lent(FromResponse(response))
<1> DEFINE at == IF response.access THEN now + response.expires_at ELSE response.expires_at
           other == [response EXCEPT !.expires_at = at]
<1>1. \A l \in Lifetimes : now + l \in Int
  BY LifetimesAssumption
<1>2. /\ response.id \in Nat /\ response.access \in BOOLEAN
      /\ response.profile \in Int \union {Undefined}
      /\ response.access => response.expires_at \in Lifetimes
      /\ response = [id |-> response.id, access |-> response.access,
                     expires_at |-> response.expires_at, profile |-> response.profile]
  <2> DEFINE Profiles == {Undefined} \union {now + l : l \in Lifetimes}
  <2>1. Profiles \subseteq Int \union {Undefined}
    BY <1>1
  <2> HIDE DEF Profiles
  <2>2. \/ response \in [id : {issued + 1}, access : {TRUE}, expires_at : Lifetimes,
                         profile : {Undefined}]
        \/ response \in [id : {issued + 1}, access : {FALSE}, expires_at : {Undefined},
                         profile : Profiles]
    BY DEF Responses, Profiles
  <2>3. \/ response.access = TRUE /\ response.expires_at \in Lifetimes
        \/ response.access = FALSE
    BY <2>2
  <2>4. response.id \in Nat /\ response.profile \in Int \union {Undefined}
    <3>1. response.id = issued + 1
      BY <2>2
    <3>2. response.profile \in Profiles \/ response.profile = Undefined
      BY <2>2
    <3>3. response.profile \in Int \union {Undefined}
      BY <2>1, <3>2
    <3>4. response.id \in Nat
      BY <3>1
    <3> QED
      BY <3>3, <3>4
  <2>5. response = [id |-> response.id, access |-> response.access,
                    expires_at |-> response.expires_at, profile |-> response.profile]
    BY <2>2
  <2> QED
    BY <2>3, <2>4, <2>5
<1>3. response.access => at \in Int
  BY <1>1, <1>2
<1>4. FromResponse(response) = Token(other)
  BY DEF FromResponse
<1> HIDE DEF at
<1>5. /\ other.id = response.id /\ other.access = response.access
      /\ other.profile = response.profile /\ other.expires_at = at
  BY <1>2
<1> HIDE DEF other
<1> QED
  BY <1>2, <1>3, <1>4, <1>5, TokenIsLent

-----------------------------------------------------------------------------
(***************************************************************************)
(* The steps                                                               *)
(***************************************************************************)
LEMMA ClosedIsSound == TabSound(Closed) /\ Agrees(Closed)
<1>1. Closed \in TabRecords
  BY DEF Closed, TabRecords
<1> QED
  BY <1>1 DEF Closed, TabSound, Agrees, Lent, TimersSound, StartSound, InRange, HasTime

LEMMA Initially == Init => IInv
  BY ClosedIsSound DEF Init, IInv, TypeOK, Lent, TabSound

\* While the clock stands, a page changes on its own.
LEMMA OneTab ==
  ASSUME IInv, NEW t \in Tabs, NEW r, TabSound(r), Agrees(r),
         tab' = [tab EXCEPT ![t] = r], UNCHANGED <<now, issued, stored>>
  PROVE  IInv'
<1>1. /\ tab' \in [Tabs -> TabRecords]
      /\ \A u \in Tabs : TabSound(tab'[u]) /\ Agrees(tab'[u])
  BY DEF IInv, TypeOK, TabSound
<1>2. \A u \in Tabs : (TabSound(tab[u]) /\ Agrees(tab[u]))'
  BY <1>1 DEF TabSound, StartSound, Agrees, Expired
<1> QED
  BY <1>1, <1>2 DEF IInv, TypeOK, TabSound

\* An event more leaves a page as it is, and lets it disagree.
LEMMA EventIsSound ==
  ASSUME NEW r, TabSound(r), r.open
  PROVE  LET q == [r EXCEPT !.events = @ + 1] IN
           TabSound(q) /\ q.events # 0
<1> DEFINE events == r.events + 1
           q == [r EXCEPT !.events = events]
<1>1. r \in TabRecords /\ events \in Nat /\ events # 0
  BY DEF TabSound, TabRecords
<1> HIDE DEF events
<1>2. /\ q \in TabRecords /\ q.events # 0
      /\ q.open = r.open /\ q.token = r.token /\ q.start = r.start
      /\ q.expired = r.expired /\ q.expiring = r.expiring
      /\ q.told = r.told /\ q.late = r.late /\ q.missed = r.missed
  BY <1>1 DEF TabRecords
<1> HIDE DEF q
<1>3. TabSound(q)
  BY <1>2 DEF TabSound, TimersSound, StartSound
<1> QED
  BY <1>2, <1>3 DEF q, events

\* A write to the store: its page holds what it wrote, and the others hear of it.
LEMMA StoreKeeps ==
  ASSUME IInv, NEW t \in Tabs, NEW value \in Tokens \union {None}, Lent(value),
         NEW r, TabSound(r), Store(t, value, r),
         r.open => r.token = value \/ (value = None /\ Expired(r.token)),
         now' = now, issued' \in Nat
  PROVE  IInv'
<1>1. /\ stored' = value
      /\ tab' = [u \in Tabs |->
                   IF u = t THEN r
                   ELSE IF tab[u].open /\ value # stored
                     THEN [tab[u] EXCEPT !.events = @ + 1] ELSE tab[u]]
  BY DEF Store
<1>2. ASSUME NEW u \in Tabs
      PROVE  TabSound(tab'[u])
  BY <1>1, EventIsSound DEF IInv
<1>3. ASSUME NEW u \in Tabs
      PROVE  Agrees(tab[u])'
  <2>1. CASE u = t
    BY <1>1, <2>1 DEF Agrees, Expired
  <2>2. CASE u # t /\ tab[u].open /\ value # stored
    BY <1>1, <2>2, EventIsSound DEF IInv, Agrees
  <2>3. CASE u # t /\ ~(tab[u].open /\ value # stored)
    BY <1>1, <2>3 DEF IInv, Agrees, Expired
  <2> QED BY <2>1, <2>2, <2>3
<1>4. ASSUME NEW u \in Tabs
      PROVE  TabSound(tab[u])'
  BY <1>2 DEF TabSound, StartSound
<1>5. tab' \in [Tabs -> TabRecords]
  BY <1>1, <1>2 DEF TabSound
<1> QED
  BY <1>1, <1>3, <1>4, <1>5 DEF IInv, TypeOK, TabSound

\* saveToken and loadToken give a page a token, or leave it without one.
LEMMA SaveTokenKeeps ==
  ASSUME IInv, NEW t \in Tabs, NEW r \in TabRecords, r.open, StartSound(r),
         NEW x \in Tokens \union {None}, Lent(x), SaveToken(t, r, x),
         now' = now, issued' \in Nat
  PROVE  IInv'
<1> DEFINE value == IF Expired(x) THEN None ELSE ToJSON(x)
           q == IF x = None THEN CallTokenRemoved(Hold(r, x))
                ELSE CallTokenObtained(t, Hold(r, x))
<1>1. Store(t, value, q)
  BY DEF SaveToken
<1>2. value \in Tokens \union {None} /\ Lent(value)
      /\ (x = value \/ (value = None /\ Expired(x)))
  BY StoredIsRead DEF Lent, Expired
<1>3. TabSound(q) /\ q.open /\ q.token = x
  BY ObtainedIsSound, RemovedIsSound DEF IInv, TypeOK
<1> HIDE DEF value, q
<1> QED
  BY <1>1, <1>2, <1>3, StoreKeeps

\* What loadToken reads: what is stored, unless that has expired.
LEMMA LoadTokenReads ==
  ASSUME IInv, NEW r
  PROVE  \E x \in Tokens \union {None} :
           /\ LoadToken(r) = Hold(r, x)
           /\ Lent(x)
           /\ x = stored \/ (x = None /\ Expired(stored))
<1>1. CASE stored = None \/ Expired(FromJSON(stored))
  BY <1>1, StoredIsRead DEF LoadToken, IInv, TypeOK, Expired, Lent
<1>2. CASE ~(stored = None \/ Expired(FromJSON(stored)))
  BY <1>2, StoredIsRead DEF LoadToken, IInv, TypeOK
<1> QED BY <1>1, <1>2

LEMMA OpenKeeps ==
  ASSUME IInv, NEW t \in Tabs, Open(t)
  PROVE  IInv'
<1> DEFINE r == [Closed EXCEPT !.open = TRUE]
           loaded == LoadToken(r)
           timed == ConfigureExpired(loaded)
           q == [timed EXCEPT !.start = now]
<1>1. tab' = [tab EXCEPT ![t] = q] /\ UNCHANGED <<now, issued, stored>>
  BY DEF Open
<1>2. r \in TabRecords /\ r.open /\ r.start = Off /\ r.expiring = Off
  BY DEF Closed, TabRecords
<1> HIDE DEF r
<1>3. PICK x \in Tokens \union {None} :
        /\ loaded = Hold(r, x)
        /\ Lent(x)
        /\ x = stored \/ (x = None /\ Expired(stored))
  BY LoadTokenReads
<1>4. /\ loaded \in TabRecords
      /\ loaded.token = x
      /\ loaded.late <=> HasTime(x) /\ x.expires_at <= now
      /\ loaded.open /\ loaded.expiring = Off
  BY <1>2, <1>3, HoldFields DEF IInv, TypeOK
<1> HIDE DEF loaded
<1>5. /\ timed \in TabRecords
      /\ timed.open /\ timed.token = x /\ timed.expiring = Off
      /\ timed.late <=> HasTime(x) /\ x.expires_at <= now
      /\ InRange(x) /\ x.expires_at > now => timed.expired = x.expires_at + 1
      /\ InRange(x) /\ x.expires_at <= now => timed.expired = Off
      /\ x = None => timed.expired = Off
  BY <1>4, ConfigureExpiredFields DEF IInv, TypeOK
<1> HIDE DEF timed
<1>6. /\ q \in TabRecords /\ q.start = now
      /\ q.open /\ q.token = x /\ q.expiring = Off
      /\ q.expired = timed.expired /\ q.late = timed.late
  BY <1>5 DEF TabRecords, IInv, TypeOK
<1> HIDE DEF q
<1>7. x # None => HasTime(x) \/ ~InRange(x)
  BY DEF InRange
<1>8. now # Off /\ (InRange(x) => HasTime(x) /\ x # None /\ x.expires_at \in Int)
  BY SentinelAssumption DEF IInv, TypeOK, InRange, HasTime, Tokens
<1>9. TabSound(q)
  BY <1>3, <1>5, <1>6, <1>8 DEF TabSound, TimersSound, StartSound, IInv, TypeOK
<1>10. Agrees(q)
  BY <1>3, <1>6 DEF Agrees, Expired
<1> QED
  BY <1>1, <1>9, <1>10, OneTab

LEMMA StorageEventKeeps ==
  ASSUME IInv, NEW t \in Tabs, StorageEvent(t)
  PROVE  IInv'
<1> DEFINE r == [tab[t] EXCEPT !.events = @ - 1]
           loaded == LoadToken(r)
           q == IF loaded.token = None THEN CallTokenRemoved(loaded)
                ELSE CallTokenObtained(t, loaded)
<1>1. tab' = [tab EXCEPT ![t] = q] /\ UNCHANGED <<now, issued, stored>>
  BY DEF StorageEvent
<1>2. r \in TabRecords /\ r.open /\ StartSound(r)
  <2>1. tab[t] \in TabRecords /\ tab[t].events > 0 /\ tab[t].open /\ StartSound(tab[t])
    BY DEF StorageEvent, IInv, TypeOK, TabSound, Closed
  <2> DEFINE events == tab[t].events - 1
  <2>2. events \in Nat
    BY <2>1 DEF TabRecords
  <2>3. r = [tab[t] EXCEPT !.events = events]
    OBVIOUS
  <2> HIDE DEF events
  <2> QED
    BY <2>1, <2>2, <2>3 DEF TabRecords, StartSound
<1> HIDE DEF r
<1>3. PICK x \in Tokens \union {None} :
        /\ loaded = Hold(r, x)
        /\ Lent(x)
        /\ x = stored \/ (x = None /\ Expired(stored))
  BY LoadTokenReads
<1>4. loaded.token = x
  BY <1>2, <1>3, HoldFields DEF IInv, TypeOK
<1>5. TabSound(q) /\ q.token = x
  <2>1. CASE x = None
    BY <1>2, <1>3, <1>4, <2>1, RemovedIsSound DEF IInv, TypeOK
  <2>2. CASE x # None
    BY <1>2, <1>3, <1>4, <2>2, ObtainedIsSound DEF IInv, TypeOK
  <2> QED BY <2>1, <2>2
<1> HIDE DEF q
<1>6. Agrees(q)
  BY <1>3, <1>5 DEF Agrees, Expired
<1> QED
  BY <1>1, <1>5, <1>6, OneTab

LEMMA ObtainKeeps ==
  ASSUME IInv, NEW t \in Tabs,
         Obtain(t) \/ RenewSucceeds(t) \/ RemoveToken(t) \/ RedirectForLogout(t)
  PROVE  IInv'
<1>1. CASE Obtain(t)
  <2>1. PICK response \in Responses : SaveToken(t, tab[t], FromResponse(response))
    BY <1>1 DEF Obtain
  <2>2. /\ tab[t] \in TabRecords /\ tab[t].open /\ StartSound(tab[t])
        /\ now' = now /\ issued' \in Nat
    BY <1>1 DEF Obtain, IInv, TypeOK, TabSound
  <2>3. FromResponse(response) \in Tokens /\ Lent(FromResponse(response))
    BY ResponsesAreTokens DEF IInv, TypeOK
  <2> QED
    BY <2>1, <2>2, <2>3, SaveTokenKeeps
<1>2. CASE RenewSucceeds(t)
  <2> DEFINE renewals == tab[t].renewals - 1
             r == [tab[t] EXCEPT !.renewals = renewals]
  <2>1. PICK response \in Responses : SaveToken(t, r, FromResponse(response))
    BY <1>2 DEF RenewSucceeds
  <2>2. /\ tab[t] \in TabRecords /\ tab[t].open /\ StartSound(tab[t])
        /\ now' = now /\ issued' \in Nat
        /\ renewals \in Nat
    BY <1>2 DEF RenewSucceeds, IInv, TypeOK, TabSound, Closed, TabRecords
  <2> HIDE DEF renewals
  <2>3. r \in TabRecords /\ r.open /\ StartSound(r)
    BY <2>2 DEF TabRecords, StartSound
  <2>4. FromResponse(response) \in Tokens /\ Lent(FromResponse(response))
    BY ResponsesAreTokens DEF IInv, TypeOK
  <2> HIDE DEF r
  <2> QED
    BY <2>1, <2>2, <2>3, <2>4, SaveTokenKeeps
<1>3. CASE RemoveToken(t)
  <2>1. /\ tab[t] \in TabRecords /\ tab[t].open /\ StartSound(tab[t])
        /\ now' = now /\ issued' \in Nat /\ SaveToken(t, tab[t], None)
    BY <1>3 DEF RemoveToken, IInv, TypeOK, TabSound
  <2> QED
    BY <2>1, SaveTokenKeeps DEF Lent
<1>4. CASE RedirectForLogout(t)
  BY <1>4, ClosedIsSound, StoreKeeps DEF RedirectForLogout, Lent, IInv, TypeOK, Closed
<1> QED BY <1>1, <1>2, <1>3, <1>4

LEMMA CloseKeeps ==
  ASSUME IInv, NEW t \in Tabs, Close(t)
  PROVE  IInv'
  BY ClosedIsSound, OneTab DEF Close

LEMMA RenewFailsKeeps ==
  ASSUME IInv, NEW t \in Tabs, RenewFails(t)
  PROVE  IInv'
<1> DEFINE renewals == tab[t].renewals - 1
           q == [tab[t] EXCEPT !.renewals = renewals]
<1>1. /\ tab' = [tab EXCEPT ![t] = q] /\ UNCHANGED <<now, issued, stored>>
      /\ TabSound(tab[t]) /\ Agrees(tab[t])
      /\ tab[t] \in TabRecords /\ tab[t].open /\ renewals \in Nat
  BY DEF RenewFails, IInv, TypeOK, TabSound, Closed, TabRecords
<1> HIDE DEF renewals
<1>2. /\ q \in TabRecords /\ q.start = tab[t].start
      /\ q.open /\ q.token = tab[t].token /\ q.expiring = tab[t].expiring
      /\ q.expired = tab[t].expired /\ q.late = tab[t].late /\ q.told = tab[t].told
      /\ q.missed = tab[t].missed
      /\ q.events = tab[t].events
  BY <1>1 DEF TabRecords
<1> HIDE DEF q
<1>3. TabSound(q) /\ Agrees(q)
  BY <1>1, <1>2 DEF TabSound, TimersSound, StartSound, Agrees
<1> QED
  BY <1>1, <1>3, OneTab

\* A timer that is due was set, so its page is open and holds a token, which
\* was not late if its expiration is known.
LEMMA DueIsTimed ==
  ASSUME IInv, NEW t \in Tabs
  PROVE  /\ Due(tab[t].start) => tab[t].open
         /\ Due(tab[t].expiring) => tab[t].open /\ tab[t].token # None
         /\ Due(tab[t].expired) => /\ tab[t].open /\ tab[t].token # None
                                   /\ InRange(tab[t].token) => ~tab[t].late
  BY DEF IInv, TabSound, TimersSound, Closed, Due

\* The page registers its callbacks: unless its token has expired by then, it is
\* told, or will be.
LEMMA StartKeeps ==
  ASSUME IInv, NEW t \in Tabs, Start(t)
  PROVE  IInv'
<1> DEFINE missed == tab[t].token # None /\ Expired(tab[t].token)
           started == [tab[t] EXCEPT !.start = Off]
           r == [started EXCEPT !.missed = missed]
           q == ConfigureExpiring(t, r)
<1>1. tab[t] \in TabRecords /\ TabSound(tab[t]) /\ Agrees(tab[t]) /\ tab[t].open
  BY DueIsTimed DEF Start, IInv, TabSound
<1>2. tab' = [tab EXCEPT ![t] = q] /\ UNCHANGED <<now, issued, stored>>
  BY <1>1 DEF Start, TabRecords, IInv, TypeOK
<1>3. missed \in BOOLEAN
  OBVIOUS
<1>4. InRange(tab[t].token) =>
        tab[t].token.expires_at \in Int /\ (missed <=> tab[t].token.expires_at < now)
  BY <1>1 DEF InRange, HasTime, Expired, TabRecords, Tokens
<1> HIDE DEF missed
<1>5. /\ started \in TabRecords /\ started.start = Off
      /\ started.open /\ started.token = tab[t].token
      /\ started.expired = tab[t].expired /\ started.late = tab[t].late
      /\ started.events = tab[t].events
  BY <1>1 DEF TabRecords
<1> HIDE DEF started
<1>6. /\ r \in TabRecords /\ r.start = Off /\ r.missed = missed
      /\ r.open /\ r.token = tab[t].token
      /\ r.expired = tab[t].expired /\ r.late = tab[t].late
      /\ r.events = tab[t].events
  BY <1>3, <1>5 DEF TabRecords
<1> HIDE DEF r
<1>7. /\ q \in TabRecords
      /\ q.open /\ q.token = tab[t].token /\ q.start = Off
      /\ q.expired = tab[t].expired /\ q.events = tab[t].events
      /\ q.late = tab[t].late /\ q.missed = missed
      /\ q.token = None => q.expiring = Off
      /\ InRange(q.token) /\ q.expiring # Off => q.expiring = q.token.expires_at - Lead
      /\ InRange(q.token) /\ q.token.expires_at >= now => q.told \/ q.expiring # Off
  BY <1>6, ConfigureExpiringFields DEF IInv, TypeOK
<1> HIDE DEF q
<1>8. now \in Nat
  BY DEF IInv, TypeOK
<1>9. TimersSound(q)
  BY <1>1, <1>4, <1>7, <1>8 DEF TabSound, TimersSound
<1>10. TabSound(q) /\ Agrees(q)
  BY <1>1, <1>7, <1>9 DEF TabSound, StartSound, Agrees
<1> QED
  BY <1>2, <1>10, OneTab

LEMMA ExpiringTimerKeeps ==
  ASSUME IInv, NEW t \in Tabs, ExpiringTimer(t)
  PROVE  IInv'
<1> DEFINE r == [tab[t] EXCEPT !.expiring = Off]
           q == CallTokenExpiring(t, r)
<1>1. tab' = [tab EXCEPT ![t] = q] /\ UNCHANGED <<now, issued, stored>>
  BY DEF ExpiringTimer
<1>2. /\ TabSound(tab[t]) /\ Agrees(tab[t]) /\ tab[t].open /\ tab[t].expiring # Off
      /\ tab[t].token # None /\ tab[t] \in TabRecords
  BY DueIsTimed DEF ExpiringTimer, Due, IInv, TabSound
<1>3. /\ r \in TabRecords /\ r.expiring = Off /\ r.start = tab[t].start
      /\ r.open /\ r.token = tab[t].token
      /\ r.expired = tab[t].expired /\ r.late = tab[t].late
      /\ r.events = tab[t].events
  BY <1>2 DEF TabRecords
<1> HIDE DEF r
<1>4. /\ q \in TabRecords /\ q.told
      /\ q.open /\ q.token = tab[t].token /\ q.start = tab[t].start
      /\ q.expired = tab[t].expired /\ q.expiring = Off
      /\ q.events = tab[t].events /\ q.late = tab[t].late
  BY <1>3, CallTokenExpiringFields
<1> HIDE DEF q
<1>5. TabSound(q) /\ Agrees(q)
  BY <1>2, <1>4 DEF TabSound, TimersSound, StartSound, Agrees
<1> QED
  BY <1>1, <1>5, OneTab

\* The expired timer of a page that holds no token is not set.
LEMMA ExpiredTimerKeeps ==
  ASSUME IInv, NEW t \in Tabs, ExpiredTimer(t)
  PROVE  IInv'
<1> DEFINE fired == [tab[t] EXCEPT !.expired = Off]
<1>1. SaveToken(t, fired, None) /\ UNCHANGED <<now, issued>>
  BY DueIsTimed DEF ExpiredTimer
<1>2. fired \in TabRecords /\ fired.open /\ StartSound(fired)
  BY DueIsTimed DEF ExpiredTimer, IInv, TypeOK, TabSound, TabRecords, StartSound
<1> HIDE DEF fired
<1>3. issued' \in Nat
  BY <1>1 DEF IInv, TypeOK
<1> QED
  BY <1>1, <1>2, <1>3, SaveTokenKeeps DEF Lent

\* Time lets a page and the store agree about less; what was due stays due.
LEMMA TickKeeps ==
  ASSUME IInv, Tick
  PROVE  IInv'
<1>1. /\ now' = now + 1 /\ now \in Nat /\ UNCHANGED <<issued, stored, tab>>
  BY DEF Tick, IInv, TypeOK
<1>2. ASSUME NEW x \in Tokens \union {None}, Expired(x)
      PROVE  Expired(x)'
  BY <1>1, <1>2 DEF Expired, Tokens
<1>3. ASSUME NEW t \in Tabs
      PROVE  (TabSound(tab[t]) /\ Agrees(tab[t]))'
  <2>1. TabSound(tab[t])'
    BY <1>1 DEF IInv, TabSound, StartSound
  <2>2. Expired(stored) => Expired(stored)'
    BY <1>1, <1>2 DEF IInv, TypeOK
  <2>3. Expired(tab[t].token) => Expired(tab[t].token)'
    BY <1>1, <1>2 DEF IInv, TabSound, TabRecords
  <2> QED
    BY <1>1, <2>1, <2>2, <2>3 DEF IInv, Agrees
<1> QED
  BY <1>1, <1>3 DEF IInv, TypeOK

LEMMA StepKeepsIInv == IInv /\ [Next]_vars => IInv'
<1> SUFFICES ASSUME IInv, [Next]_vars PROVE IInv'
  OBVIOUS
<1>1. CASE Tick
  BY <1>1, TickKeeps
<1>2. ASSUME NEW t \in Tabs,
             \/ Open(t) \/ Close(t)
             \/ Obtain(t) \/ RemoveToken(t) \/ RedirectForLogout(t)
             \/ RenewSucceeds(t) \/ RenewFails(t)
             \/ StorageEvent(t) \/ Timers(t)
      PROVE  IInv'
  BY <1>2, OpenKeeps, CloseKeeps, ObtainKeeps, RenewFailsKeeps, StorageEventKeeps,
     StartKeeps, ExpiringTimerKeeps, ExpiredTimerKeeps DEF Timers
<1>3. CASE UNCHANGED vars
  BY <1>3 DEF IInv, TypeOK, TabSound, StartSound, Agrees, Expired, vars
<1> QED
  BY <1>1, <1>2, <1>3 DEF Next

-----------------------------------------------------------------------------
(***************************************************************************)
(* The theorems                                                            *)
(***************************************************************************)
\* Through storage events, renewals, timers that run late and pages that come
\* and go, the timers of a page are those of its token, and the tabs agree.
THEOREM ManagerInvariant == Spec => []IInv
  BY Initially, StepKeepsIInv, PTL DEF Spec

LEMMA InvariantImplies == IInv => TypeOK /\ TimersMatchToken /\ TabsAgree
<1> SUFFICES ASSUME IInv PROVE TimersMatchToken /\ TabsAgree
  BY DEF IInv
<1>1. TimersMatchToken
  BY DEF IInv, TabSound, TimersSound, TimersMatchToken, Timed
<1>2. TabsAgree
  BY DEF IInv, Agrees, TabsAgree
<1> QED BY <1>1, <1>2

\* The clock, the store and the tabs keep their types; a closed tab keeps nothing.
THEOREM ManagerTypeCorrect == Spec => []TypeOK
  BY ManagerInvariant, InvariantImplies, PTL

\* The timers are always those of the token the page holds now.
THEOREM TimersAreOfToken == Spec => []TimersMatchToken
  BY ManagerInvariant, InvariantImplies, PTL

\* Tabs that have handled their storage events agree with localStorage about
\* every token that has not expired.
THEOREM TabsAlwaysAgree == Spec => []TabsAgree
  BY ManagerInvariant, InvariantImplies, PTL

\* An expired timer that is due comes after its token's expiration.
LEMMA ExpiredTimerIsRight ==
  ASSUME IInv, NEW t \in Tabs, ExpiredTimer(t), InRange(tab[t].token)
  PROVE  Expired(tab[t].token) /\ (tab[t].told \/ tab[t].missed)
<1> DEFINE r == tab[t]
<1>1. /\ r.token # None /\ r.token.expires_at \in Int /\ now \in Nat
      /\ ~r.late
      /\ r.expired = r.token.expires_at + 1 /\ r.expired <= now
      /\ r.told \/ r.missed \/ r.start # Off \/ r.expiring = r.token.expires_at - Lead
  BY DueIsTimed DEF ExpiredTimer, Due, IInv, TypeOK, TabSound, TimersSound, InRange, HasTime,
     TabRecords, Tokens
<1>2. Expired(r.token)
  BY <1>1 DEF Expired, InRange, HasTime
<1>3. r.start = Off
  <2> SUFFICES ASSUME r.start # Off PROVE FALSE
    OBVIOUS
  <2>1. r.start \in Int /\ r.token.expires_at > r.start
    BY <1>1 DEF IInv, TabSound, StartSound
  <2>2. r.start >= r.expired
    BY DEF ExpiredTimer, NotBefore
  <2> QED
    BY <1>1, <2>1, <2>2
<1>4. r.expiring # r.token.expires_at - Lead
  <2> SUFFICES ASSUME r.expiring = r.token.expires_at - Lead PROVE FALSE
    OBVIOUS
  <2>1. r.expiring # Off
    BY <1>1, LeadAssumption, SentinelAssumption
  <2>2. r.expiring >= r.expired
    BY <2>1 DEF ExpiredTimer, NotBefore
  <2> QED
    BY <1>1, <2>2, LeadAssumption
<1> QED
  BY <1>1, <1>2, <1>3, <1>4

\* An expired timer never removes from localStorage a token that has not
\* expired: a tab without events on its way would hold that one, and its timer
\* would be that one's.
THEOREM FreshTokensAreKept == Spec => FreshTokensSurvive
<1>1. IInv /\ [Next]_vars =>
        [\A t \in Tabs : ExpiredTimer(t) /\ tab[t].events = 0 /\ InRange(tab[t].token)
                          => Expired(stored)]_vars
  <2> SUFFICES ASSUME IInv, NEW t \in Tabs, ExpiredTimer(t), tab[t].events = 0,
                      InRange(tab[t].token)
               PROVE  Expired(stored)
    OBVIOUS
  <2>1. Expired(tab[t].token) /\ tab[t].open
    BY ExpiredTimerIsRight, DueIsTimed DEF ExpiredTimer
  <2> QED
    BY <2>1 DEF IInv, Agrees
<1> QED
  BY <1>1, ManagerInvariant, PTL DEF Spec, FreshTokensSurvive

\* A write to the store adds no renewal to the other tabs.
LEMMA StoreRenews ==
  ASSUME IInv, NEW u \in Tabs, NEW value, NEW r, Store(u, value, r), NEW t \in Tabs
  PROVE  IF t = u THEN tab'[t] = r ELSE tab'[t].renewals = tab[t].renewals
<1>1. tab'[t] = IF t = u THEN r
                ELSE IF tab[t].open /\ value # stored
                  THEN [tab[t] EXCEPT !.events = @ + 1] ELSE tab[t]
  BY DEF Store
<1>2. [tab[t] EXCEPT !.events = @ + 1].renewals = tab[t].renewals
  BY DEF IInv, TypeOK, TabRecords
<1> QED
  BY <1>1, <1>2

\* Neither does saveToken to its own, unless the token it saves is expiring.
LEMMA SaveTokenRenews ==
  ASSUME IInv, NEW u \in Tabs, NEW r \in TabRecords, r.open, StartSound(r),
         r.renewals <= tab[u].renewals,
         NEW x \in Tokens \union {None}, Lent(x), SaveToken(u, r, x),
         NEW t \in Tabs, tab'[t].renewals > tab[t].renewals, InRange(tab'[t].token)
  PROVE  tab'[t].token.expires_at - now <= Lead
<1> DEFINE q == IF x = None THEN CallTokenRemoved(Hold(r, x))
                ELSE CallTokenObtained(u, Hold(r, x))
<1>1. Store(u, IF Expired(x) THEN None ELSE ToJSON(x), q)
  BY DEF SaveToken
<1>2. q.token = x /\ (q.renewals # r.renewals /\ InRange(x) => x.expires_at - now <= Lead)
  BY ObtainedIsSound, RemovedIsSound DEF IInv, TypeOK
<1> HIDE DEF q
<1>3. r.renewals \in Nat /\ tab[t].renewals \in Nat
  BY DEF IInv, TypeOK, TabRecords
<1>4. IF t = u THEN tab'[t] = q ELSE tab'[t].renewals = tab[t].renewals
  BY <1>1, StoreRenews
<1>5. t = u /\ tab'[t] = q
  BY <1>3, <1>4
<1> QED
  BY <1>2, <1>3, <1>5

\* A step adds a renewal only for a token that is expiring.
LEMMA RenewalIsInTime ==
  ASSUME IInv, Next, NEW t \in Tabs,
         tab'[t].renewals > tab[t].renewals, InRange(tab'[t].token)
  PROVE  tab'[t].token.expires_at - now <= Lead
<1>1. now \in Nat /\ tab \in [Tabs -> TabRecords] /\ tab[t].renewals \in Nat
  BY DEF IInv, TypeOK, TabRecords
<1>2. ASSUME NEW u \in Tabs, NEW q, tab' = [tab EXCEPT ![u] = q]
      PROVE  t = u /\ tab'[t] = q
  BY <1>1, <1>2
<1>3. CASE Tick
  BY <1>1, <1>3 DEF Tick
<1>4. ASSUME NEW u \in Tabs, Open(u)
      PROVE  FALSE
  <2> DEFINE r == [Closed EXCEPT !.open = TRUE]
             loaded == LoadToken(r)
             timed == ConfigureExpired(loaded)
  <2>1. r \in TabRecords /\ r.renewals = 0
    BY DEF Closed, TabRecords
  <2> HIDE DEF r
  <2>2. loaded \in TabRecords /\ loaded.renewals = 0
    BY <1>1, <2>1, LoadTokenReads, HoldFields
  <2> HIDE DEF loaded
  <2>3. timed \in TabRecords /\ timed.renewals = 0
    BY <1>1, <2>2, ConfigureExpiredFields
  <2> HIDE DEF timed
  <2>4. [timed EXCEPT !.start = now].renewals = 0
    BY <2>3 DEF TabRecords
  <2>5. tab'[t].renewals = 0
    BY <1>2, <1>4, <2>4 DEF Open, timed, loaded, r
  <2> QED
    BY <1>1, <2>5
<1>5. ASSUME NEW u \in Tabs, Close(u) \/ RenewFails(u)
      PROVE  FALSE
  <2>1. CASE Close(u)
    BY <1>1, <1>2, <2>1 DEF Close, Closed
  <2>2. CASE RenewFails(u)
    <3> DEFINE renewals == tab[u].renewals - 1
    <3>1. tab' = [tab EXCEPT ![u] = [tab[u] EXCEPT !.renewals = renewals]]
      BY <2>2 DEF RenewFails
    <3>2. t = u /\ tab'[t] = [tab[u] EXCEPT !.renewals = renewals]
      BY <1>2, <3>1
    <3> HIDE DEF renewals
    <3>3. tab'[t].renewals = renewals
      BY <1>1, <3>2 DEF TabRecords
    <3> QED
      BY <1>1, <3>2, <3>3 DEF renewals
  <2> QED BY <1>5, <2>1, <2>2
<1>6. ASSUME NEW u \in Tabs, Obtain(u)
      PROVE  tab'[t].token.expires_at - now <= Lead
  <2>1. PICK response \in Responses : SaveToken(u, tab[u], FromResponse(response))
    BY <1>6 DEF Obtain
  <2>2. /\ tab[u] \in TabRecords /\ tab[u].open /\ StartSound(tab[u])
        /\ tab[u].renewals <= tab[u].renewals
    BY <1>6 DEF Obtain, IInv, TypeOK, TabSound, TabRecords
  <2>3. FromResponse(response) \in Tokens /\ Lent(FromResponse(response))
    BY ResponsesAreTokens DEF IInv, TypeOK
  <2> QED
    BY <2>1, <2>2, <2>3, SaveTokenRenews
<1>7. ASSUME NEW u \in Tabs, RenewSucceeds(u)
      PROVE  tab'[t].token.expires_at - now <= Lead
  <2> DEFINE renewals == tab[u].renewals - 1
             r == [tab[u] EXCEPT !.renewals = renewals]
  <2>1. PICK response \in Responses : SaveToken(u, r, FromResponse(response))
    BY <1>7 DEF RenewSucceeds
  <2>2. /\ tab[u] \in TabRecords /\ tab[u].open /\ StartSound(tab[u])
        /\ renewals \in Nat /\ renewals <= tab[u].renewals
    BY <1>7 DEF RenewSucceeds, IInv, TypeOK, TabSound, Closed, TabRecords
  <2> HIDE DEF renewals
  <2>3. r \in TabRecords /\ r.open /\ StartSound(r) /\ r.renewals <= tab[u].renewals
    BY <2>2 DEF TabRecords, StartSound
  <2>4. FromResponse(response) \in Tokens /\ Lent(FromResponse(response))
    BY ResponsesAreTokens DEF IInv, TypeOK
  <2> HIDE DEF r
  <2> QED
    BY <2>1, <2>3, <2>4, SaveTokenRenews
<1>8. ASSUME NEW u \in Tabs, RemoveToken(u)
      PROVE  tab'[t].token.expires_at - now <= Lead
  <2>1. /\ tab[u] \in TabRecords /\ tab[u].open /\ StartSound(tab[u])
        /\ tab[u].renewals <= tab[u].renewals /\ SaveToken(u, tab[u], None)
    BY <1>8 DEF RemoveToken, IInv, TypeOK, TabSound, TabRecords
  <2> QED
    BY <2>1, SaveTokenRenews DEF Lent
<1>9. ASSUME NEW u \in Tabs, RedirectForLogout(u)
      PROVE  FALSE
  <2>1. IF t = u THEN tab'[t] = Closed ELSE tab'[t].renewals = tab[t].renewals
    BY <1>9, StoreRenews DEF RedirectForLogout
  <2> QED
    BY <1>1, <2>1 DEF Closed
<1>10. ASSUME NEW u \in Tabs, StorageEvent(u)
       PROVE  tab'[t].token.expires_at - now <= Lead
  <2> DEFINE r == [tab[u] EXCEPT !.events = @ - 1]
             loaded == LoadToken(r)
             q == IF loaded.token = None THEN CallTokenRemoved(loaded)
                  ELSE CallTokenObtained(u, loaded)
  <2>1. t = u /\ tab'[t] = q
    BY <1>2, <1>10 DEF StorageEvent
  <2>2. r \in TabRecords /\ r.open /\ StartSound(r) /\ r.renewals = tab[u].renewals
    <3>1. tab[u] \in TabRecords /\ tab[u].events > 0 /\ tab[u].open /\ StartSound(tab[u])
      BY <1>10 DEF StorageEvent, IInv, TypeOK, TabSound, Closed
    <3> DEFINE events == tab[u].events - 1
    <3>2. events \in Nat
      BY <3>1 DEF TabRecords
    <3>3. r = [tab[u] EXCEPT !.events = events]
      OBVIOUS
    <3> HIDE DEF events
    <3> QED
      BY <3>1, <3>2, <3>3 DEF TabRecords, StartSound
  <2> HIDE DEF r
  <2>3. PICK x \in Tokens \union {None} : loaded = Hold(r, x) /\ Lent(x)
    BY LoadTokenReads
  <2>4. loaded.token = x
    BY <1>1, <2>2, <2>3, HoldFields
  <2>5. q.token = x /\ (q.renewals # r.renewals /\ InRange(x) => x.expires_at - now <= Lead)
    <3>1. CASE x = None
      BY <1>1, <2>2, <2>3, <2>4, <3>1, RemovedIsSound
    <3>2. CASE x # None
      BY <1>1, <2>2, <2>3, <2>4, <3>2, ObtainedIsSound
    <3> QED BY <3>1, <3>2
  <2> HIDE DEF q
  <2> QED
    BY <1>1, <2>1, <2>2, <2>5
<1>11. ASSUME NEW u \in Tabs, Start(u)
       PROVE  tab'[t].token.expires_at - now <= Lead
  <2> DEFINE missed == tab[u].token # None /\ Expired(tab[u].token)
             started == [tab[u] EXCEPT !.start = Off]
             r == [started EXCEPT !.missed = missed]
             q == ConfigureExpiring(u, r)
  <2>1. tab' = [tab EXCEPT ![u] = q]
    BY <1>1, <1>11 DEF Start, TabRecords
  <2>2. r \in TabRecords /\ r.renewals = tab[u].renewals
    <3>1. missed \in BOOLEAN
      OBVIOUS
    <3> HIDE DEF missed
    <3>2. started \in TabRecords /\ started.renewals = tab[u].renewals
      BY <1>1 DEF TabRecords
    <3> HIDE DEF started
    <3> QED
      BY <3>1, <3>2 DEF TabRecords
  <2> HIDE DEF r
  <2>3. /\ q.token = r.token
        /\ q.renewals # r.renewals /\ InRange(r.token) => r.token.expires_at - now <= Lead
    BY <1>1, <2>2, ConfigureExpiringFields
  <2> HIDE DEF q
  <2>4. t = u /\ tab'[t] = q
    BY <1>2, <2>1
  <2> QED
    BY <1>1, <2>2, <2>3, <2>4
<1>12. ASSUME NEW u \in Tabs, ExpiringTimer(u)
       PROVE  tab'[t].token.expires_at - now <= Lead
  <2> DEFINE r == [tab[u] EXCEPT !.expiring = Off]
             q == CallTokenExpiring(u, r)
  <2>1. t = u /\ tab'[t] = q
    BY <1>2, <1>12 DEF ExpiringTimer
  <2>2. r \in TabRecords /\ r.token = tab[u].token
    BY <1>1 DEF TabRecords
  <2> HIDE DEF r
  <2>3. q.token = tab[u].token
    BY <2>2, CallTokenExpiringFields
  <2> HIDE DEF q
  <2>4. InRange(tab[u].token) =>
          /\ tab[u].token.expires_at \in Int
          /\ tab[u].expiring = tab[u].token.expires_at - Lead
          /\ tab[u].expiring <= now
    BY <1>12, DueIsTimed DEF ExpiringTimer, Due, IInv, TypeOK, TabSound, TimersSound,
       InRange, HasTime, TabRecords, Tokens
  <2> QED
    BY <1>1, <2>1, <2>3, <2>4, LeadAssumption
<1>13. ASSUME NEW u \in Tabs, ExpiredTimer(u)
       PROVE  tab'[t].token.expires_at - now <= Lead
  <2> DEFINE fired == [tab[u] EXCEPT !.expired = Off]
  <2>1. SaveToken(u, fired, None)
    BY <1>13, DueIsTimed DEF ExpiredTimer
  <2>2. /\ fired \in TabRecords /\ fired.open /\ StartSound(fired)
        /\ fired.renewals <= tab[u].renewals
    BY <1>13, DueIsTimed DEF ExpiredTimer, IInv, TypeOK, TabSound, TabRecords, StartSound
  <2> HIDE DEF fired
  <2> QED
    BY <2>1, <2>2, SaveTokenRenews DEF Lent
<1> QED
  BY <1>3, <1>4, <1>5, <1>6, <1>7, <1>8, <1>9, <1>10, <1>11, <1>12, <1>13 DEF Next, Timers

\* A token is not removed as expired before its page was told that it is
\* expiring, unless it had expired when the page came to register, and a renewal
\* starts only for a token that is expiring.
THEOREM TimersAreInTime == Spec => TimersActInTime
<1>1. IInv /\ [Next]_vars =>
        [\A t \in Tabs : ExpiredTimer(t) /\ InRange(tab[t].token)
                          => tab[t].told \/ tab[t].missed]_vars
  BY ExpiredTimerIsRight
<1>2. IInv /\ [Next]_vars =>
        [\A t \in Tabs : tab'[t].renewals > tab[t].renewals /\ InRange(tab'[t].token)
                          => tab'[t].token.expires_at - now <= Lead]_vars
  BY RenewalIsInTime
<1> QED
  BY <1>1, <1>2, ManagerInvariant, PTL
  DEF Spec, TimersActInTime, ToldBeforeExpired, RenewsOnlyWhenExpiring
=============================================================================
