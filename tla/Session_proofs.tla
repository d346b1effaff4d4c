--------------------------- MODULE Session_proofs ---------------------------
(***************************************************************************)
(* Theorems about Session, for every set of accounts, number of calls and  *)
(* of tokens, and every fault, and their proofs.                           *)
(***************************************************************************)
EXTENDS Session, TLAPS

----------------------------------------------------------------------------
(* The parts of the inductive invariant.                                   *)

\* Calls name tokens that have been issued, and the account they are about.
Known ==
  \A s \in Slots :
    /\ calls[s].token \in 0..Len(issued) /\ calls[s].log \in 0..Len(issued)
    /\ calls[s].kind \in {"login", "impersonate"} => calls[s].who \in Account

\* Whoever the tab has taken anyone for is an account it has held a token of.
Backed ==
  /\ token # 0 => issued[token].who \in held
  /\ user # NoUser => user.who \in held
  /\ \A s \in Slots : calls[s].kind = "profile" =>
       calls[s].token # 0 /\ issued[calls[s].token].who \in held

\* A navigation waits only while a token is stored.
WaitsSignedIn == going # "none" => token # 0

\* No one impersonates a SuperAdmin, nor asks to.
NotSuperAdmins ==
  /\ \A t \in 1..Len(issued) : Impersonating(t) => issued[t].who \notin SuperAdmins
  /\ \A s \in Slots : calls[s].kind = "impersonate" => calls[s].who \in Account \ SuperAdmins

\* A log entry that a pending call may close is not that of a token in storage.
StopsAnother ==
  \A s \in Slots :
    /\ calls[s].kind = "stop"
    /\ calls[s].token # 0 /\ issued[calls[s].token].who \in SuperAdmins
    => calls[s].log \notin {0, token, original}

\* Both tokens in storage are logged if they are impersonations.
Logged == \A t \in {token, original} : Impersonating(t) => t \in openLogs

----------------------------------------------------------------------------
(* Tokens, calls and routes.                                               *)

\* A call that is sent takes a slot that was free.
LEMMA SentFacts ==
  ASSUME TypeOK, NEW r, Sent(calls', r)
  PROVE  \E s \in Slots : /\ calls[s].kind = "none"
                         /\ calls' = [calls EXCEPT ![s] = r]
  BY DEF Sent, IsFree

\* What the storage holds.
LEMMA StorageFacts ==
  ASSUME TypeOK
  PROVE  /\ Len(issued) \in 0..MaxTokens /\ DOMAIN issued = 1..Len(issued)
         /\ \A t \in 1..Len(issued) : issued[t] \in Token
         /\ \A s \in Slots : calls[s] \in Call
  BY SessionAssumption DEF TypeOK

\* Whoever the guards let through may open the page.
LEMMA JudgeFacts ==
  ASSUME NEW p \in JudgedPage, NEW u \in Profile
  PROVE  /\ Judge(p, u) \in Page
         /\ Judge(p, u) \in GuardedPage => u.who \in MayOpen(Judge(p, u))
  BY DEF Judge, JudgedPage, EnsuringPage, GuardedPage, OpenPage, Page, Profile

\* Accounts that have a profile are not nobody.
LEMMA SomeoneFacts ==
  ASSUME TypeOK, user # NoUser
  PROVE  user \in Profile /\ user.who \in Account
  BY DEF TypeOK, Profile

----------------------------------------------------------------------------
(* Type correctness.                                                       *)

Typed == TypeOK /\ Known

\* The calls stay well formed when one is sent or replaced.
LEMMA SlotKeepsTypes ==
  ASSUME Typed, issued' = issued, NEW s \in Slots, NEW r \in Call,
         r.token \in 0..Len(issued), r.log \in 0..Len(issued),
         r.kind \in {"login", "impersonate"} => r.who \in Account,
         calls' = [calls EXCEPT ![s] = r]
  PROVE  calls' \in [Slots -> Call] /\ Known'
  BY DEF Typed, TypeOK, Known

\* What a click may send.
LEMMA RequestFacts ==
  ASSUME NEW kind \in Kind, NEW t \in 0..MaxTokens, NEW who \in Account \union {Nobody},
         NEW log \in 0..MaxTokens
  PROVE  /\ Request(kind, t, who, log) \in Call
         /\ Request(kind, t, who, log).token = t
         /\ Request(kind, t, who, log).log = log
         /\ Request(kind, t, who, log).kind = kind
         /\ Request(kind, t, who, log).who = who
  BY DEF Request, Call

\* No call is a call.
LEMMA IdleFacts ==
  Idle \in Call /\ Idle.token = 0 /\ Idle.log = 0 /\ Idle.kind = "none"
  BY SessionAssumption DEF Idle, Call, Kind

\* What is sent does not disturb the types.
LEMMA SendingKeepsTypes ==
  ASSUME Typed, issued' = issued, NEW kind \in Kind, NEW t \in 0..Len(issued),
         NEW who \in Account \union {Nobody}, NEW log \in 0..Len(issued),
         kind \in {"login", "impersonate"} => who \in Account,
         Sent(calls', Request(kind, t, who, log))
  PROVE  calls' \in [Slots -> Call] /\ Known'
  <1>1. t \in 0..MaxTokens /\ log \in 0..MaxTokens
    BY StorageFacts, SessionAssumption DEF Typed
  <1>2. PICK s \in Slots : calls' = [calls EXCEPT ![s] = Request(kind, t, who, log)]
    BY SentFacts DEF Typed
  <1>3. /\ Request(kind, t, who, log) \in Call
        /\ Request(kind, t, who, log).token \in 0..Len(issued)
        /\ Request(kind, t, who, log).log \in 0..Len(issued)
        /\ Request(kind, t, who, log).kind \in {"login", "impersonate"} =>
             Request(kind, t, who, log).who \in Account
    BY <1>1, RequestFacts
  <1> QED
    BY <1>2, <1>3, SlotKeepsTypes

\* A call ends without another.
LEMMA OverKeepsTypes ==
  ASSUME Typed, issued' = issued, NEW s \in Slots, Over(s)
  PROVE  calls' \in [Slots -> Call] /\ Known'
  <1>1. 0 \in 0..Len(issued)
    BY StorageFacts, SessionAssumption DEF Typed
  <1>2. calls' = [calls EXCEPT ![s] = Idle]
    BY DEF Over
  <1> QED
    BY <1>1, <1>2, IdleFacts, SlotKeepsTypes

\* The pages everyone may open.
LEMMA PageFacts ==
  /\ {"home", "login", "terms", "leaving", "profile"} \subseteq Page
  /\ {"home", "login", "terms", "leaving", "none"} \intersect GuardedPage = {}
  /\ "books" \in JudgedPage /\ EnsuringPage \subseteq JudgedPage
  /\ JudgedPage \subseteq GuardedPage /\ GuardedPage \subseteq Page
  /\ "none" \notin GuardedPage
  BY DEF Page, OpenPage, GuardedPage, JudgedPage, EnsuringPage

\* A tab that is loaded again hears nothing of what it sent before.
LEMMA UnheardFacts ==
  ASSUME Typed, NEW s \in Slots
  PROVE  /\ Unheard(calls[s]) \in Call
         /\ Unheard(calls[s]).token \in 0..Len(issued)
         /\ Unheard(calls[s]).log \in 0..Len(issued)
         /\ Unheard(calls[s]).kind \in {"login", "impersonate"} => Unheard(calls[s]).who \in Account
         /\ \/ Unheard(calls[s]).kind = "none"
            \/ /\ Unheard(calls[s]).kind = calls[s].kind
               /\ calls[s].kind \in {"impersonate", "stop", "accept"}
               /\ Unheard(calls[s]).token = calls[s].token
               /\ Unheard(calls[s]).who = calls[s].who
               /\ Unheard(calls[s]).log = calls[s].log
  <1>1. /\ calls[s] \in Call /\ calls[s].token \in 0..Len(issued) /\ calls[s].log \in 0..Len(issued)
        /\ calls[s].kind \in {"login", "impersonate"} => calls[s].who \in Account
    BY DEF Typed, TypeOK, Known
  <1>2. 0 \in 0..Len(issued)
    BY StorageFacts, SessionAssumption DEF Typed
  <1>3. CASE calls[s].kind \in {"impersonate", "stop", "accept"}
    BY <1>1, <1>3 DEF Unheard, Call
  <1>4. CASE calls[s].kind \notin {"impersonate", "stop", "accept"}
    BY <1>2, <1>4, IdleFacts DEF Unheard
  <1> QED
    BY <1>3, <1>4

\* What is sent when the tab is loaded.
LEMMA ReloadFacts ==
  ASSUME Typed, Reload
  PROVE  \A s \in Slots : \/ calls'[s] = Unheard(calls[s])
                          \/ token # 0 /\ calls'[s] = LoadProfile(token)
  BY DEF Reload, IsFree

\* A click leaves the types as they are.
LEMMA ReloadType ==
  ASSUME Typed, Reload
  PROVE  Typed'
  <1>1. /\ UNCHANGED <<issued, expired, openLogs, accepted, token, original>>
        /\ user' = NoUser /\ banner' \in BOOLEAN
        /\ page' = "home" /\ going' = "none" /\ failed' = FALSE
    BY DEF Reload, server, Impersonating
  <1>2. held' \subseteq Account
    BY StorageFacts DEF Reload, Typed, TypeOK, Token
  <1>3. token \in 0..Len(issued) /\ token \in 0..MaxTokens
    BY StorageFacts, SessionAssumption DEF Typed, TypeOK
  <1>4. LoadProfile(token) \in Call /\ LoadProfile(token).token = token /\ LoadProfile(token).log = 0
        /\ LoadProfile(token).kind = "profile"
    BY <1>3, SessionAssumption DEF LoadProfile, Request, Call, Kind
  <1>5. /\ calls' = [s \in Slots |-> calls'[s]]
        /\ \A s \in Slots : calls'[s] \in Call
    <2>1. calls' = [s \in Slots |-> calls'[s]]
      BY DEF Reload
    <2> QED
      BY <2>1, <1>4, ReloadFacts, UnheardFacts
  <1>6. Known'
    BY <1>1, <1>3, <1>4, ReloadFacts, UnheardFacts, StorageFacts, SessionAssumption DEF Known, Typed
  <1> QED
    BY <1>1, <1>2, <1>5, <1>6, PageFacts DEF Typed, TypeOK

\* Opening or awaiting a route leaves the types as they are.
LEMMA NavigationType ==
  ASSUME Typed, NEW p \in Page,
         OpenUnguarded(p) \/ OpenJudged(p) \/ AwaitProfile(p) \/ TurnedAway \/ OpenMyProfile
  PROVE  Typed'
  <1> USE DEF Typed
  <1>1. CASE OpenUnguarded(p)
    BY <1>1 DEF OpenUnguarded, GoTo, TypeOK, Known, server, storage, tab
  <1>2. CASE OpenJudged(p)
    <2>1. Judge(p, user) \in Page
      BY <1>2, JudgeFacts, SomeoneFacts DEF OpenJudged
    <2> QED
      BY <1>2, <2>1 DEF OpenJudged, GoTo, TypeOK, Known, server, storage, tab
  <1>3. CASE AwaitProfile(p)
    <2>1. /\ token \in 0..Len(issued) /\ 0 \in 0..Len(issued)
          /\ "profile" \in Kind /\ Nobody \in Account \union {Nobody}
      BY StorageFacts, SessionAssumption DEF TypeOK, Kind
    <2>2. calls' \in [Slots -> Call] /\ Known'
      BY <1>3, <2>1, SendingKeepsTypes DEF AwaitProfile, LoadProfile, server, TypeOK, Known
    <2> QED
      BY <1>3, <2>2 DEF AwaitProfile, TypeOK, server, storage, tab
  <1>4. CASE TurnedAway
    BY <1>4, PageFacts DEF TurnedAway, GoTo, TypeOK, Known, server, storage, tab
  <1>5. CASE OpenMyProfile
    BY <1>5, PageFacts DEF OpenMyProfile, GoTo, TypeOK, Known, server, storage, tab
  <1> QED
    BY <1>1, <1>2, <1>3, <1>4, <1>5

\* A click that sends a call leaves the types as they are.
LEMMA SendingType ==
  ASSUME Typed, NEW a \in Account \union {Nobody},
         \/ a \in Account /\ (LogIn(a) \/ Impersonate(a))
         \/ AcceptTerms \/ SwitchToGlobalReviewer \/ SwitchBackFromGlobalReviewer
         \/ EndSupportSession \/ LogOut
  PROVE  Typed'
  <1> USE DEF Typed
  <1> /\ token \in 0..Len(issued) /\ 0 \in 0..Len(issued) /\ original \in 0..Len(issued)
      /\ Nobody \in Account \union {Nobody}
      /\ {"login", "accept", "impersonate", "switch", "profile", "stop"} \subseteq Kind
    BY StorageFacts, SessionAssumption DEF TypeOK, Kind
  <1>1. CASE a \in Account /\ LogIn(a)
    <2>1. calls' \in [Slots -> Call] /\ Known'
      BY <1>1, SendingKeepsTypes DEF LogIn, server
    <2> QED
      BY <1>1, <2>1 DEF LogIn, TypeOK, server, storage, tab, route
  <1>2. CASE AcceptTerms
    <2>1. calls' \in [Slots -> Call] /\ Known'
      BY <1>2, SendingKeepsTypes DEF AcceptTerms, server
    <2> QED
      BY <1>2, <2>1 DEF AcceptTerms, TypeOK, server, storage, tab, route
  <1>3. CASE a \in Account /\ Impersonate(a)
    <2>1. calls' \in [Slots -> Call] /\ Known'
      BY <1>3, SendingKeepsTypes DEF Impersonate, server
    <2> QED
      BY <1>3, <2>1 DEF Impersonate, TypeOK, server, tab, route
  <1>4. CASE SwitchToGlobalReviewer
    <2>1. calls' \in [Slots -> Call] /\ Known'
      BY <1>4, SendingKeepsTypes DEF SwitchToGlobalReviewer, server
    <2> QED
      BY <1>4, <2>1 DEF SwitchToGlobalReviewer, TypeOK, server, tab, route
  <1>5. CASE SwitchBackFromGlobalReviewer
    <2>1. calls' \in [Slots -> Call] /\ Known'
      BY <1>5, SendingKeepsTypes DEF SwitchBackFromGlobalReviewer, LoadProfile, server
    <2>2. held' \subseteq Account
      BY <1>5, StorageFacts DEF SwitchBackFromGlobalReviewer, TypeOK, Token
    <2> QED
      BY <1>5, <2>1, <2>2, PageFacts DEF SwitchBackFromGlobalReviewer, GoTo, TypeOK, server, tab
  <1>6. CASE EndSupportSession
    <2>1. calls' \in [Slots -> Call] /\ Known'
      BY <1>6, SendingKeepsTypes DEF EndSupportSession, server
    <2>2. held' \subseteq Account
      BY <1>6, StorageFacts DEF EndSupportSession, TypeOK, Token
    <2> QED
      BY <1>6, <2>1, <2>2 DEF EndSupportSession, TypeOK, server, tab, route
  <1>7. CASE LogOut
    BY <1>7, PageFacts DEF LogOut, ClearSession, GoTo, TypeOK, Known, server
  <1> QED
    BY <1>1, <1>2, <1>3, <1>4, <1>5, <1>6, <1>7

\* What a new token does to the list of tokens.
LEMMA FreshFacts ==
  ASSUME Typed, NEW who \in Account, NEW by \in Account, Len(issued) < MaxTokens,
         issued' = Append(issued, [who |-> who, by |-> by])
  PROVE  /\ issued' \in Seq(Token) /\ Len(issued') <= MaxTokens
         /\ Len(issued') = Len(issued) + 1 /\ Len(issued) \in Nat
         /\ Fresh \in 1..Len(issued') /\ Fresh \notin 0..Len(issued)
         /\ 0..Len(issued) \subseteq 0..Len(issued') /\ 1..Len(issued) \subseteq 1..Len(issued')
         /\ Len(issued') \in 0..MaxTokens
         /\ \A t \in 1..Len(issued) : issued'[t] = issued[t]
         /\ issued'[Fresh] = [who |-> who, by |-> by]
         /\ issued'[Fresh].who = who /\ issued'[Fresh].by = by
  BY SessionAssumption DEF Typed, TypeOK, Fresh, Token

\* The calls stay well formed when an answer issues a token.
LEMMA SlotKeepsTypesFresh ==
  ASSUME Typed, Len(issued) \in Nat, Len(issued') = Len(issued) + 1,
         NEW s \in Slots, NEW r \in Call,
         r.token \in 0..Len(issued'), r.log \in 0..Len(issued'),
         r.kind \in {"login", "impersonate"} => r.who \in Account,
         calls' = [calls EXCEPT ![s] = r]
  PROVE  calls' \in [Slots -> Call] /\ Known'
  BY DEF Typed, TypeOK, Known

\* A request for the profile is a call.
LEMMA LoadFacts ==
  ASSUME NEW t \in 0..MaxTokens
  PROVE  /\ LoadProfile(t) \in Call /\ LoadProfile(t).token = t
         /\ LoadProfile(t).log = 0 /\ LoadProfile(t).kind = "profile"
  BY SessionAssumption DEF LoadProfile, Request, Call, Kind

\* An answer about the profile leaves the types as they are.
LEMMA ProfileType ==
  ASSUME Typed, NEW s \in Slots,
         ProfileLoaded(s, calls[s]) \/ ProfileUnauthorized(s, calls[s]) \/ ProfileFails(s, calls[s])
  PROVE  Typed'
  <1> USE DEF Typed
  <1>1. Over(s) /\ issued' = issued
    BY DEF ProfileLoaded, ProfileUnauthorized, ProfileFails, server
  <1>2. calls' \in [Slots -> Call] /\ Known'
    BY <1>1, OverKeepsTypes
  <1>3. CASE ProfileLoaded(s, calls[s])
    <2> DEFINE who == issued[calls[s].token].who
               u   == [who |-> who, accepted |-> who \in accepted]
    <2>1. u \in Profile
      BY <1>3, StorageFacts DEF ProfileLoaded, Valid, Known, Token, Profile
    <2>2. user' = u /\ UNCHANGED <<server, storage, banner>>
      BY <1>3 DEF ProfileLoaded
    <2>3. page' \in Page /\ going' \in JudgedPage \union {"none"} /\ failed' \in BOOLEAN
      <3>1. CASE going = "none"
        BY <1>3, <3>1 DEF ProfileLoaded, route, TypeOK
      <3>2. CASE going # "none"
        <4>1. Judge(going, u) \in Page
          BY <2>1, <3>2, JudgeFacts DEF TypeOK
        <4> QED
          BY <1>3, <3>2, <4>1 DEF ProfileLoaded, GoTo, TypeOK
      <3> QED
        BY <3>1, <3>2
    <2> QED
      BY <1>2, <2>1, <2>2, <2>3 DEF TypeOK, server, storage
  <1>4. CASE ProfileUnauthorized(s, calls[s])
    <2>1. 0 \in 0..Len(issued)
      BY StorageFacts, SessionAssumption
    <2> QED
      BY <1>2, <1>4, <2>1, PageFacts DEF ProfileUnauthorized, ClearSession, GoTo, TypeOK, server
  <1>5. CASE ProfileFails(s, calls[s])
    BY <1>2, <1>5 DEF ProfileFails, TypeOK, server, storage
  <1> QED
    BY <1>3, <1>4, <1>5

\* The calls stay well formed when an answer issues a token and asks for the
\* profile with it, or for nothing.
LEMMA FreshCalls ==
  ASSUME Typed, NEW who \in Account, NEW by \in Account, Len(issued) < MaxTokens,
         issued' = Append(issued, [who |-> who, by |-> by]), NEW s \in Slots,
         \/ calls' = [calls EXCEPT ![s] = Idle]
         \/ calls' = [calls EXCEPT ![s] = LoadProfile(Fresh)]
  PROVE  calls' \in [Slots -> Call] /\ Known'
  <1>1. /\ Len(issued) \in Nat /\ Len(issued') = Len(issued) + 1
        /\ 0 \in 0..Len(issued') /\ Fresh \in 0..Len(issued') /\ Fresh \in 0..MaxTokens
    BY FreshFacts, SessionAssumption DEF Fresh
  <1>2. CASE calls' = [calls EXCEPT ![s] = Idle]
    BY <1>1, <1>2, IdleFacts, SlotKeepsTypesFresh
  <1>3. CASE calls' = [calls EXCEPT ![s] = LoadProfile(Fresh)]
    <2>1. /\ LoadProfile(Fresh) \in Call /\ LoadProfile(Fresh).token = Fresh
          /\ LoadProfile(Fresh).log = 0 /\ LoadProfile(Fresh).kind = "profile"
      BY <1>1, LoadFacts
    <2> QED
      BY <1>1, <1>3, <2>1, SlotKeepsTypesFresh
  <1> QED
    BY <1>2, <1>3

\* An answer that issues a token leaves the types as they are.
LEMMA TokenType ==
  ASSUME Typed, NEW s \in Slots,
         LoggedIn(s, calls[s]) \/ Impersonated(s, calls[s]) \/ Switched(s, calls[s])
  PROVE  Typed'
  <1> USE DEF Typed
  <1> DEFINE c == calls[s]
  <1>1. /\ c \in Call /\ c.token \in 0..Len(issued) /\ 0 \in 0..Len(issued)
        /\ c.kind \in {"login", "impersonate"} => c.who \in Account
    BY StorageFacts, SessionAssumption DEF Known
  <1>2. CASE LoggedIn(s, c)
    <2>1. c.who \in Account
      BY <1>1, <1>2 DEF LoggedIn
    <2>2. Len(issued) < MaxTokens /\ issued' = Append(issued, [who |-> c.who, by |-> c.who])
      BY <1>2 DEF LoggedIn, Issue
    <2>4. calls' \in [Slots -> Call] /\ Known'
      BY <1>2, <2>1, <2>2, FreshCalls DEF LoggedIn, ThenLoad
    <2>5. page' \in Page /\ going' \in JudgedPage \union {"none"} /\ failed' \in BOOLEAN
      BY <1>2, JudgeFacts, SomeoneFacts, PageFacts DEF LoggedIn, GoTo, TypeOK
    <2> QED
      BY <1>2, <2>1, <2>2, <2>4, <2>5, FreshFacts DEF LoggedIn, Store, TypeOK, tab
  <1>3. CASE Impersonated(s, c)
    <2>1. c.who \in Account /\ issued[c.token].who \in Account
      BY <1>1, <1>3, StorageFacts DEF Impersonated, FromSuperAdmin, Valid, Token
    <2>2. Len(issued) < MaxTokens
          /\ issued' = Append(issued, [who |-> c.who, by |-> issued[c.token].who])
      BY <1>3 DEF Impersonated, Issue
    <2>3. calls' \in [Slots -> Call] /\ Known'
      BY <1>3, <2>1, <2>2, FreshCalls DEF Impersonated, Over
    <2>4. /\ token' = Fresh /\ held' \subseteq Account /\ openLogs' = openLogs \union {Fresh}
          /\ page' \in Page /\ going' = "none" /\ failed' = FALSE
          /\ UNCHANGED <<expired, accepted, original, tab>>
      BY <1>3, <2>1, PageFacts DEF Impersonated, Store, GoTo, TypeOK
    <2>5. /\ issued' \in Seq(Token) /\ Len(issued') <= MaxTokens /\ Len(issued) \in Nat
          /\ 1..Len(issued) \subseteq 1..Len(issued') /\ 0..Len(issued) \subseteq 0..Len(issued')
          /\ Fresh \in 1..Len(issued') /\ Fresh \in 0..Len(issued')
      BY <2>1, <2>2, FreshFacts
    <2>6. /\ expired' \subseteq 1..Len(issued') /\ openLogs' \subseteq 1..Len(issued')
          /\ token' \in 0..Len(issued') /\ original' \in 0..Len(issued')
      BY <2>4, <2>5 DEF TypeOK
    <2>7. /\ accepted' \subseteq Account /\ user' \in Profile \union {NoUser}
          /\ banner' \in BOOLEAN
      BY <2>4 DEF TypeOK, tab
    <2> QED
      BY <2>3, <2>4, <2>5, <2>6, <2>7 DEF TypeOK
  <1>4. CASE Switched(s, c)
    <2>1. PICK clone \in Clones : Issue(clone, clone) /\ Store(Fresh, clone)
      BY <1>4 DEF Switched
    <2>2. clone \in Account
      BY DEF Account
    <2>3. Len(issued) < MaxTokens /\ issued' = Append(issued, [who |-> clone, by |-> clone])
      BY <2>1 DEF Issue
    <2>5. calls' \in [Slots -> Call] /\ Known'
      BY <1>4, <2>2, <2>3, FreshCalls DEF Switched, ThenLoad
    <2> QED
      BY <1>4, <2>1, <2>2, <2>3, <2>5, FreshFacts DEF Switched, Store, TypeOK, tab, route
  <1> QED
    BY <1>2, <1>3, <1>4

\* Any other answer leaves the types as they are.
LEMMA OtherAnswerType ==
  ASSUME Typed, NEW s \in Slots,
         Stopped(s, calls[s]) \/ TermsAccepted(s, calls[s])
         \/ Refused(s, calls[s]) \/ DoneUnheard(s, calls[s])
  PROVE  Typed'
  <1> USE DEF Typed
  <1> DEFINE c == calls[s]
  <1>1. /\ c \in Call /\ c.token \in 0..Len(issued) /\ 0 \in 0..Len(issued)
        /\ c.kind \in {"login", "impersonate"} => c.who \in Account
        /\ Len(issued) \in 0..MaxTokens
    BY StorageFacts, SessionAssumption DEF Known
  <1>2. CASE Stopped(s, c)
    <2>1. token \in 0..Len(issued) /\ token \in 0..MaxTokens
      BY <1>1, SessionAssumption DEF TypeOK
    <2>2. Over(s) \/ ThenLoad(s, token)
      BY <1>2 DEF Stopped
    <2>3. calls' \in [Slots -> Call] /\ Known'
      BY <1>1, <1>2, <2>1, <2>2, IdleFacts, LoadFacts, SlotKeepsTypes DEF Stopped, Over, ThenLoad
    <2> QED
      BY <1>1, <1>2, <2>3, PageFacts DEF Stopped, GoTo, TypeOK
  <1>3. CASE TermsAccepted(s, c)
    <2>1. issued[c.token].who \in Account
      BY <1>1, <1>3, StorageFacts DEF TermsAccepted, Valid, Token
    <2>2. calls' \in [Slots -> Call] /\ Known'
      BY <1>3, OverKeepsTypes DEF TermsAccepted
    <2> QED
      BY <1>3, <2>1, <2>2, PageFacts DEF TermsAccepted, GoTo, TypeOK, storage, tab
  <1>4. CASE Refused(s, c)
    <2>1. calls' \in [Slots -> Call] /\ Known'
      BY <1>4, OverKeepsTypes DEF Refused, server
    <2> QED
      BY <1>4, <2>1 DEF Refused, TypeOK, server, storage, tab, route
  <1>5. CASE DoneUnheard(s, c)
    <2>1. Over(s) /\ UNCHANGED <<expired, storage, tab, route>>
      BY <1>5 DEF DoneUnheard
    <2>2. CASE c.kind = "impersonate"
      <3>1. /\ FromSuperAdmin(c) /\ Issue(c.who, issued[c.token].who)
            /\ openLogs' = openLogs \union {Fresh} /\ accepted' = accepted
        BY <1>5, <2>2 DEF DoneUnheard
      <3>2. c.who \in Account /\ issued[c.token].who \in Account
        BY <1>1, <2>2, <3>1, StorageFacts DEF FromSuperAdmin, Valid, Token
      <3>3. Len(issued) < MaxTokens
            /\ issued' = Append(issued, [who |-> c.who, by |-> issued[c.token].who])
        BY <3>1 DEF Issue
      <3>4. calls' \in [Slots -> Call] /\ Known'
        BY <2>1, <3>2, <3>3, FreshCalls DEF Over
      <3> QED
        BY <2>1, <3>1, <3>2, <3>3, <3>4, FreshFacts DEF TypeOK, storage, tab, route
    <2>3. CASE c.kind # "impersonate"
      <3>1. /\ issued' = issued /\ openLogs' \subseteq openLogs
            /\ \/ accepted' = accepted
               \/ Valid(c.token) /\ accepted' = accepted \union {issued[c.token].who}
        BY <1>5, <2>3 DEF DoneUnheard
      <3>2. accepted' \subseteq Account
        BY <1>1, <3>1, StorageFacts DEF Valid, Token, TypeOK
      <3>3. calls' \in [Slots -> Call] /\ Known'
        BY <2>1, <3>1, OverKeepsTypes
      <3> QED
        BY <2>1, <3>1, <3>2, <3>3 DEF TypeOK, storage, tab, route
    <2> QED
      BY <2>2, <2>3
  <1> QED
    BY <1>2, <1>3, <1>4, <1>5

\* Every step leaves the types as they are.
LEMMA TypeStep ==
  ASSUME Typed, [Next]_vars
  PROVE  Typed'
  <1>1. CASE Click
    <2>1. CASE Reload
      BY <2>1, ReloadType
    <2>2. ASSUME NEW p \in Page, OpenUnguarded(p) \/ OpenJudged(p) \/ AwaitProfile(p)
          PROVE  Typed'
      BY <2>2, NavigationType
    <2>3. CASE TurnedAway \/ OpenMyProfile
      <3>1. "home" \in Page
        BY PageFacts
      <3> QED
        BY <2>3, <3>1, NavigationType
    <2>4. ASSUME NEW a \in Account, LogIn(a) \/ Impersonate(a)
          PROVE  Typed'
      BY <2>4, SendingType
    <2>5. CASE \/ AcceptTerms \/ SwitchToGlobalReviewer \/ SwitchBackFromGlobalReviewer
               \/ EndSupportSession \/ LogOut
      <3>1. Nobody \in Account \union {Nobody}
        OBVIOUS
      <3> QED
        BY <2>5, <3>1, SendingType
    <2> QED
      BY <1>1, <2>1, <2>2, <2>3, <2>4, <2>5 DEF Click
  <1>2. ASSUME NEW s \in Slots, Answer(s)
        PROVE  Typed'
    BY <1>2, ProfileType, TokenType, OtherAnswerType DEF Answer
  <1>3. ASSUME NEW t \in 1..MaxTokens, Expire(t)
        PROVE  Typed'
    BY <1>3, StorageFacts DEF Expire, Typed, TypeOK, Known, storage, tab, route
  <1>4. CASE UNCHANGED vars
    BY <1>4 DEF vars, server, storage, tab, route, Typed, TypeOK, Known
  <1> QED
    BY <1>1, <1>2, <1>3, <1>4 DEF Next

\* The tab starts with nothing.
LEMMA TypeInit ==
  ASSUME Init
  PROVE  Typed
  <1>1. issued = <<>> /\ Len(issued) = 0 /\ issued \in Seq(Token)
    BY DEF Init
  <1>2. Known /\ calls \in [Slots -> Call]
    BY <1>1, IdleFacts DEF Init, Known
  <1>3. /\ expired = {} /\ openLogs = {} /\ accepted \subseteq Account /\ held = {}
        /\ token = 0 /\ original = 0 /\ user = NoUser /\ banner = FALSE
        /\ page \in Page /\ going = "none" /\ failed = FALSE
    BY PageFacts, SessionAssumption DEF Init
  <1>4. Len(issued) <= MaxTokens /\ 0 \in 0..Len(issued)
    BY <1>1, SessionAssumption
  <1> QED
    BY <1>1, <1>2, <1>3, <1>4 DEF Typed, TypeOK

\* TypeOK holds: the tokens that are stored, that calls carry and that entries
\* of the log are about are tokens AuthService has issued.
THEOREM TypeCorrect == Spec => []TypeOK
  <1>1. Init => Typed
    BY TypeInit
  <1>2. Typed /\ [Next]_vars => Typed'
    BY TypeStep
  <1>3. Typed => TypeOK
    BY DEF Typed
  <1> QED
    BY <1>1, <1>2, <1>3, PTL DEF Spec

----------------------------------------------------------------------------
(* Pages are open to accounts whose token the tab has held.                *)

Opened == Backed /\ OpenToHeldAccount

\* A page the guards let u through to may be opened by an account that is held.
LEMMA JudgedIsHeld ==
  ASSUME NEW p \in JudgedPage, NEW u \in Profile, NEW h, u.who \in h,
         Judge(p, u) \in GuardedPage
  PROVE  h \intersect MayOpen(Judge(p, u)) # {}
  BY JudgeFacts

\* Whoever holds the token of an account may open the page of its profile.
LEMMA ProfileIsAnyones ==
  ASSUME NEW h, h \subseteq Account, h # {}
  PROVE  h \intersect MayOpen("profile") # {}
  BY DEF MayOpen

\* Calls that are replaced by nothing or by one with a token that is held.
LEMMA BackedCalls ==
  ASSUME Typed, Backed, held \subseteq held',
         \A t \in 1..Len(issued) : issued'[t] = issued[t],
         NEW s \in Slots, NEW r, calls' = [calls EXCEPT ![s] = r],
         r.kind = "profile" => r.token # 0 /\ issued'[r.token].who \in held'
  PROVE  \A q \in Slots : calls'[q].kind = "profile" =>
           calls'[q].token # 0 /\ issued'[calls'[q].token].who \in held'
  BY DEF Typed, TypeOK, Known, Backed

\* The pages that may be opened grow with the accounts that are held.
LEMMA OpenStays ==
  ASSUME OpenToHeldAccount, held \subseteq held',
         \/ page' = page
         \/ page' \notin GuardedPage
  PROVE  OpenToHeldAccount'
  BY DEF OpenToHeldAccount

\* Loading the tab again and navigating.
LEMMA NavigationOpened ==
  ASSUME Typed, Opened, NEW p \in Page,
         \/ Reload \/ OpenUnguarded(p) \/ OpenJudged(p) \/ AwaitProfile(p)
         \/ TurnedAway \/ OpenMyProfile
  PROVE  Opened'
  <1> USE DEF Opened
  <1>1. CASE Reload
    <2>1. /\ UNCHANGED <<issued, token>> /\ user' = NoUser /\ page' = "home"
          /\ token # 0 => held' = {issued[token].who}
      BY <1>1 DEF Reload, server
    <2>2. ASSUME NEW q \in Slots, calls'[q].kind = "profile"
          PROVE  calls'[q].token # 0 /\ issued'[calls'[q].token].who \in held'
      <3>1. token # 0 /\ calls'[q] = LoadProfile(token)
        BY <1>1, <2>2, ReloadFacts, UnheardFacts
      <3> QED
        BY <2>1, <3>1 DEF LoadProfile, Request
    <2> QED
      BY <2>1, <2>2, PageFacts DEF Backed, OpenToHeldAccount
  <1>2. CASE OpenUnguarded(p)
    BY <1>2, PageFacts DEF OpenUnguarded, GoTo, Backed, OpenToHeldAccount, server, storage, tab
  <1>3. CASE OpenJudged(p)
    <2>1. user \in Profile /\ user.who \in held /\ p \in JudgedPage
      BY <1>3, SomeoneFacts DEF OpenJudged, Backed, Typed
    <2>2. page' = Judge(p, user) /\ UNCHANGED <<server, storage, tab, calls>>
      BY <1>3 DEF OpenJudged, GoTo
    <2>3. OpenToHeldAccount'
      BY <2>1, <2>2, JudgedIsHeld DEF OpenToHeldAccount, storage
    <2> QED
      BY <2>2, <2>3 DEF Backed, server, storage, tab
  <1>4. CASE AwaitProfile(p)
    <2>1. token # 0 /\ UNCHANGED <<server, storage, tab, page>>
      BY <1>4 DEF AwaitProfile
    <2>2. CASE UNCHANGED calls
      BY <2>1, <2>2 DEF Backed, OpenToHeldAccount, server, storage, tab
    <2>3. CASE Sent(calls', LoadProfile(token))
      <3>1. PICK s \in Slots : calls' = [calls EXCEPT ![s] = LoadProfile(token)]
        BY <2>3, SentFacts DEF Typed
      <3>2. LoadProfile(token).token = token
        BY DEF LoadProfile, Request
      <3>3. issued[token].who \in held
        BY <2>1 DEF Backed
      <3> QED
        BY <2>1, <3>1, <3>2, <3>3, BackedCalls DEF Backed, OpenToHeldAccount, server, storage, tab
    <2> QED
      BY <1>4, <2>2, <2>3 DEF AwaitProfile
  <1>5. CASE TurnedAway
    BY <1>5, PageFacts DEF TurnedAway, GoTo, Backed, OpenToHeldAccount, server, storage, tab
  <1>6. CASE OpenMyProfile
    <2>1. held # {} /\ held \subseteq Account
      BY <1>6 DEF OpenMyProfile, Backed, Typed, TypeOK
    <2>2. page' = "profile" /\ UNCHANGED <<server, storage, tab, calls>>
      BY <1>6 DEF OpenMyProfile, GoTo
    <2>3. OpenToHeldAccount'
      BY <2>1, <2>2, ProfileIsAnyones DEF OpenToHeldAccount, storage
    <2> QED
      BY <2>2, <2>3 DEF Backed, server, storage, tab
  <1> QED
    BY <1>1, <1>2, <1>3, <1>4, <1>5, <1>6

\* Clicks that send a call.
LEMMA SendingOpened ==
  ASSUME Typed, Opened, NEW a,
         \/ LogIn(a) \/ Impersonate(a)
         \/ AcceptTerms \/ SwitchToGlobalReviewer \/ SwitchBackFromGlobalReviewer
         \/ EndSupportSession \/ LogOut
  PROVE  Opened'
  <1> USE DEF Opened
  <1>1. ASSUME NEW kind, NEW t, NEW who, NEW log, kind # "profile",
               UNCHANGED <<server, user, page>>, held \subseteq held',
               token' # 0 => issued[token'].who \in held',
               Sent(calls', Request(kind, t, who, log))
        PROVE  Opened'
    <2>1. PICK s \in Slots : calls' = [calls EXCEPT ![s] = Request(kind, t, who, log)]
      BY <1>1, SentFacts DEF Typed
    <2>2. Request(kind, t, who, log).kind # "profile"
      BY <1>1 DEF Request
    <2>3. \A q \in Slots : calls'[q].kind = "profile" =>
            calls'[q].token # 0 /\ issued'[calls'[q].token].who \in held'
      BY <1>1, <2>1, <2>2, BackedCalls DEF server
    <2> QED
      BY <1>1, <2>3, OpenStays DEF Backed, server
  <1>2. CASE LogIn(a)
    BY <1>1, <1>2 DEF LogIn, Backed, storage, tab, route
  <1>3. CASE Impersonate(a)
    BY <1>1, <1>3 DEF Impersonate, Backed, tab, route
  <1>4. CASE AcceptTerms
    BY <1>1, <1>4 DEF AcceptTerms, Backed, storage, tab, route
  <1>5. CASE SwitchToGlobalReviewer
    BY <1>1, <1>5 DEF SwitchToGlobalReviewer, Backed, tab, route
  <1>6. CASE SwitchBackFromGlobalReviewer
    <2>1. /\ original # 0 /\ token' = original /\ UNCHANGED <<server, tab>>
          /\ held' = held \union {issued[original].who}
          /\ page' \in {"home", "leaving"}
      BY <1>6 DEF SwitchBackFromGlobalReviewer, GoTo
    <2>2. PICK s \in Slots : calls' = [calls EXCEPT ![s] = LoadProfile(original)]
      BY <1>6, SentFacts DEF SwitchBackFromGlobalReviewer, Typed
    <2>3. LoadProfile(original).token = original
      BY DEF LoadProfile, Request
    <2>4. \A q \in Slots : calls'[q].kind = "profile" =>
            calls'[q].token # 0 /\ issued'[calls'[q].token].who \in held'
      BY <2>1, <2>2, <2>3, BackedCalls DEF server
    <2> QED
      BY <2>1, <2>4, PageFacts DEF Backed, OpenToHeldAccount, server, tab
  <1>7. CASE EndSupportSession
    BY <1>1, <1>7 DEF EndSupportSession, Backed, tab, route
  <1>8. CASE LogOut
    BY <1>8, PageFacts DEF LogOut, ClearSession, GoTo, Backed, OpenToHeldAccount, server
  <1> QED
    BY <1>2, <1>3, <1>4, <1>5, <1>6, <1>7, <1>8

\* An answer about the profile.
LEMMA ProfileOpened ==
  ASSUME Typed, Opened, NEW s \in Slots,
         ProfileLoaded(s, calls[s]) \/ ProfileUnauthorized(s, calls[s]) \/ ProfileFails(s, calls[s])
  PROVE  Opened'
  <1> USE DEF Opened
  <1>1. /\ UNCHANGED <<issued, held>> /\ calls[s].kind = "profile"
        /\ calls' = [calls EXCEPT ![s] = Idle]
    BY DEF ProfileLoaded, ProfileUnauthorized, ProfileFails, server, storage, Over
  <1>2. \A q \in Slots : calls'[q].kind = "profile" =>
          calls'[q].token # 0 /\ issued'[calls'[q].token].who \in held'
    BY <1>1, IdleFacts, BackedCalls
  <1>3. CASE ProfileLoaded(s, calls[s])
    <2> DEFINE who == issued[calls[s].token].who
               u   == [who |-> who, accepted |-> who \in accepted]
    <2>1. who \in held /\ user' = u /\ UNCHANGED storage
      BY <1>1, <1>3 DEF ProfileLoaded, Backed
    <2>2. u \in Profile
      BY <2>1 DEF Profile, Typed, TypeOK
    <2>3. page' = page \/ (page' = Judge(going, u) /\ going \in JudgedPage)
      <3>1. going # "none" => going \in JudgedPage
        BY DEF Typed, TypeOK
      <3>2. going = "none" => page' = page
        BY <1>3 DEF ProfileLoaded, route
      <3>3. going # "none" => page' = page \/ page' = Judge(going, u)
        BY <1>3 DEF ProfileLoaded, GoTo
      <3> QED
        BY <3>1, <3>2, <3>3
    <2>4. OpenToHeldAccount'
      <3>1. CASE page' = page
        BY <2>1, <3>1, OpenStays DEF storage
      <3>2. CASE page' = Judge(going, u) /\ going \in JudgedPage
        BY <2>1, <2>2, <3>2, JudgedIsHeld DEF OpenToHeldAccount, storage
      <3> QED
        BY <2>3, <3>1, <3>2
    <2> QED
      BY <1>1, <1>2, <2>1, <2>4 DEF Backed, storage
  <1>4. CASE ProfileUnauthorized(s, calls[s])
    BY <1>1, <1>2, <1>4, PageFacts
    DEF ProfileUnauthorized, ClearSession, GoTo, Backed, OpenToHeldAccount
  <1>5. CASE ProfileFails(s, calls[s])
    BY <1>1, <1>2, <1>5 DEF ProfileFails, Backed, OpenToHeldAccount, storage
  <1> QED
    BY <1>3, <1>4, <1>5

\* An answer that issues a token.
LEMMA TokenOpened ==
  ASSUME Typed, Opened, NEW s \in Slots,
         LoggedIn(s, calls[s]) \/ Impersonated(s, calls[s]) \/ Switched(s, calls[s])
  PROVE  Opened'
  <1> USE DEF Opened
  <1>1. PICK who \in Account, by \in Account :
          /\ Len(issued) < MaxTokens
          /\ issued' = Append(issued, [who |-> who, by |-> by])
          /\ token' = Fresh /\ held' = held \union {who}
    <2>1. /\ calls[s].kind \in {"login", "impersonate"} => calls[s].who \in Account
          /\ calls[s].token \in 0..Len(issued)
      BY DEF Typed, Known
    <2>2. CASE LoggedIn(s, calls[s])
      BY <2>1, <2>2 DEF LoggedIn, Issue, Store
    <2>3. CASE Impersonated(s, calls[s])
      <3>1. issued[calls[s].token].who \in Account
        BY <2>1, <2>3, StorageFacts DEF Impersonated, FromSuperAdmin, Valid, Token, Typed
      <3> QED
        BY <2>1, <2>3, <3>1 DEF Impersonated, Issue, Store
    <2>4. CASE Switched(s, calls[s])
      BY <2>4 DEF Switched, Issue, Store, Account
    <2> QED
      BY <2>2, <2>3, <2>4
  <1>2. /\ \A t \in 1..Len(issued) : issued'[t] = issued[t]
        /\ issued'[Fresh].who = who /\ Fresh # 0
    <2>1. issued'[Fresh] = [who |-> who, by |-> by] /\ Fresh \notin 0..Len(issued) /\ Len(issued) \in Nat
      BY <1>1, FreshFacts
    <2> QED
      BY <1>1, <2>1, FreshFacts
  <1>3. \/ calls' = [calls EXCEPT ![s] = Idle]
        \/ calls' = [calls EXCEPT ![s] = LoadProfile(Fresh)]
    BY DEF LoggedIn, Impersonated, Switched, Over, ThenLoad
  <1>4. \A q \in Slots : calls'[q].kind = "profile" =>
          calls'[q].token # 0 /\ issued'[calls'[q].token].who \in held'
    <2>1. LoadProfile(Fresh).token = Fresh /\ Idle.kind = "none"
      BY DEF LoadProfile, Request, Idle
    <2>2. CASE calls' = [calls EXCEPT ![s] = Idle]
      BY <1>1, <1>2, <2>1, <2>2, BackedCalls
    <2>3. CASE calls' = [calls EXCEPT ![s] = LoadProfile(Fresh)]
      BY <1>1, <1>2, <2>1, <2>3, BackedCalls
    <2> QED
      BY <1>3, <2>2, <2>3
  <1>5. user' = user
    BY DEF LoggedIn, Impersonated, Switched, tab
  <1>6. OpenToHeldAccount'
    <2>1. CASE page' = page \/ page' \notin GuardedPage
      BY <1>1, <2>1, OpenStays
    <2>2. CASE user # NoUser /\ page' = Judge("books", user)
      <3>1. user \in Profile /\ user.who \in held'
        BY <1>1, <2>2, SomeoneFacts DEF Backed, Typed
      <3> QED
        BY <2>2, <3>1, PageFacts, JudgedIsHeld DEF OpenToHeldAccount
    <2>3. \/ page' = page \/ page' \notin GuardedPage
          \/ user # NoUser /\ page' = Judge("books", user)
      BY PageFacts DEF LoggedIn, Impersonated, Switched, GoTo, route
    <2> QED
      BY <2>1, <2>2, <2>3
  <1> QED
    BY <1>1, <1>2, <1>4, <1>5, <1>6 DEF Backed

\* Any other answer.
LEMMA OtherAnswerOpened ==
  ASSUME Typed, Opened, NEW s \in Slots,
         Stopped(s, calls[s]) \/ TermsAccepted(s, calls[s])
         \/ Refused(s, calls[s]) \/ DoneUnheard(s, calls[s])
  PROVE  Opened'
  <1> USE DEF Opened
  <1>1. UNCHANGED <<token, held>> /\ (user' = user \/ user' = NoUser)
    BY DEF Stopped, TermsAccepted, Refused, DoneUnheard, storage, tab
  <1>2. \A t \in 1..Len(issued) : issued'[t] = issued[t]
    <2>1. CASE issued' = issued
      BY <2>1
    <2>2. CASE DoneUnheard(s, calls[s]) /\ issued' # issued
      <3>1. /\ calls[s].kind = "impersonate" /\ FromSuperAdmin(calls[s])
            /\ Issue(calls[s].who, issued[calls[s].token].who)
        BY <2>2 DEF DoneUnheard
      <3>2. calls[s].who \in Account /\ issued[calls[s].token].who \in Account
        BY <3>1, StorageFacts DEF FromSuperAdmin, Valid, Token, Typed, Known
      <3> QED
        BY <3>1, <3>2, FreshFacts DEF Issue
    <2> QED
      BY <2>1, <2>2 DEF Stopped, TermsAccepted, Refused, server
  <1>3. \/ calls' = [calls EXCEPT ![s] = Idle]
        \/ token # 0 /\ calls' = [calls EXCEPT ![s] = LoadProfile(token)]
    BY DEF Stopped, TermsAccepted, Refused, DoneUnheard, Over, ThenLoad
  <1>4. token # 0 => token \in 1..Len(issued) /\ issued'[token].who \in held'
    <2>1. token # 0 => token \in 1..Len(issued) /\ issued[token].who \in held
      BY StorageFacts DEF Typed, TypeOK, Backed
    <2> QED
      BY <1>1, <1>2, <2>1
  <1>5. \A q \in Slots : calls'[q].kind = "profile" =>
          calls'[q].token # 0 /\ issued'[calls'[q].token].who \in held'
    <2>1. LoadProfile(token).token = token /\ Idle.kind = "none"
      BY DEF LoadProfile, Request, Idle
    <2>2. CASE calls' = [calls EXCEPT ![s] = Idle]
      BY <1>1, <1>2, <2>1, <2>2, BackedCalls
    <2>3. CASE token # 0 /\ calls' = [calls EXCEPT ![s] = LoadProfile(token)]
      BY <1>1, <1>2, <1>4, <2>1, <2>3, BackedCalls
    <2> QED
      BY <1>3, <2>2, <2>3
  <1>6. page' = page \/ page' \notin GuardedPage
    BY PageFacts DEF Stopped, TermsAccepted, Refused, DoneUnheard, GoTo, route
  <1> QED
    BY <1>1, <1>4, <1>5, <1>6, OpenStays DEF Backed

\* Every step keeps pages open to accounts that are held.
LEMMA OpenedStep ==
  ASSUME Typed, Opened, [Next]_vars
  PROVE  Opened'
  <1>1. CASE Click
    <2>1. "home" \in Page
      BY PageFacts
    <2>2. CASE Reload \/ TurnedAway \/ OpenMyProfile
      BY <2>1, <2>2, NavigationOpened
    <2>3. ASSUME NEW p \in Page, OpenUnguarded(p) \/ OpenJudged(p) \/ AwaitProfile(p)
          PROVE  Opened'
      BY <2>3, NavigationOpened
    <2>4. ASSUME NEW a \in Account, LogIn(a) \/ Impersonate(a)
          PROVE  Opened'
      BY <2>4, SendingOpened
    <2>5. CASE \/ AcceptTerms \/ SwitchToGlobalReviewer \/ SwitchBackFromGlobalReviewer
               \/ EndSupportSession \/ LogOut
      BY <2>5, SendingOpened
    <2> QED
      BY <1>1, <2>2, <2>3, <2>4, <2>5 DEF Click
  <1>2. ASSUME NEW s \in Slots, Answer(s)
        PROVE  Opened'
    BY <1>2, ProfileOpened, TokenOpened, OtherAnswerOpened DEF Answer
  <1>3. ASSUME NEW t \in 1..MaxTokens, Expire(t)
        PROVE  Opened'
    BY <1>3 DEF Expire, Opened, Backed, OpenToHeldAccount, storage, tab, route
  <1>4. CASE UNCHANGED vars
    BY <1>4 DEF vars, server, storage, tab, route, Opened, Backed, OpenToHeldAccount
  <1> QED
    BY <1>1, <1>2, <1>3, <1>4 DEF Next

\* OpenToHeldAccount holds: whatever answers are late and whichever tokens they
\* were asked for with, a guarded page is open only if the tab has held a token
\* of an account that may open it.
THEOREM OpenCorrect == Spec => []OpenToHeldAccount
  <1>1. Init => Typed /\ Opened
    <2>1. Init => Opened
      BY IdleFacts, PageFacts DEF Init, Opened, Backed, OpenToHeldAccount
    <2> QED
      BY <2>1, TypeInit
  <1>2. Typed /\ Opened /\ [Next]_vars => (Typed /\ Opened)'
    BY TypeStep, OpenedStep
  <1>3. Opened => OpenToHeldAccount
    BY DEF Opened
  <1> QED
    BY <1>1, <1>2, <1>3, PTL DEF Spec

----------------------------------------------------------------------------
(* Navigations that wait.                                                  *)

Waits == WaitsSignedIn /\ WaitsForAnAnswer

\* A call of another kind gives way to any call: whoever waits is still answered.
LEMMA OthersGiveWay ==
  ASSUME WaitsForAnAnswer, calls \in [Slots -> Call], NEW s \in Slots, NEW r,
         calls[s].kind # "profile" \/ r.kind = "profile", calls' = [calls EXCEPT ![s] = r],
         going' = going, failed' = failed
  PROVE  WaitsForAnAnswer'
  <1> SUFFICES ASSUME going' \in EnsuringPage, ~failed'
               PROVE  \E q \in Slots : calls'[q].kind = "profile"
    BY DEF WaitsForAnAnswer
  <1>1. PICK q \in Slots : calls[q].kind = "profile"
    BY DEF WaitsForAnAnswer
  <1>2. CASE q = s
    BY <1>1, <1>2
  <1>3. CASE q # s
    BY <1>1, <1>3
  <1> QED
    BY <1>2, <1>3

\* Nobody waits once a page is opened.
LEMMA NobodyWaits ==
  ASSUME going' = "none"
  PROVE  Waits'
  <1>1. "none" \notin EnsuringPage
    BY DEF EnsuringPage
  <1> QED
    BY <1>1 DEF Waits, WaitsSignedIn, WaitsForAnAnswer

\* Loading the tab again and navigating.
LEMMA NavigationWaits ==
  ASSUME Typed, Waits, NEW p \in Page,
         \/ Reload \/ OpenUnguarded(p) \/ OpenJudged(p) \/ AwaitProfile(p)
         \/ TurnedAway \/ OpenMyProfile
  PROVE  Waits'
  <1>1. CASE AwaitProfile(p)
    <2>1. token' # 0 /\ going' = p
      BY <1>1 DEF AwaitProfile, storage
    <2>2. CASE p \in EnsuringPage
      <3>1. PICK s \in Slots : calls' = [calls EXCEPT ![s] = LoadProfile(token)]
        BY <1>1, <2>2, SentFacts DEF AwaitProfile, Typed
      <3>2. calls'[s].kind = "profile"
        BY <3>1 DEF LoadProfile, Request, Typed, TypeOK
      <3> QED
        BY <2>1, <3>2 DEF Waits, WaitsSignedIn, WaitsForAnAnswer
    <2>3. CASE p \notin EnsuringPage
      BY <2>1, <2>3 DEF Waits, WaitsSignedIn, WaitsForAnAnswer
    <2> QED
      BY <2>2, <2>3
  <1>2. CASE ~AwaitProfile(p)
    <2>1. going' = "none"
      BY <1>2 DEF Reload, OpenUnguarded, OpenJudged, TurnedAway, OpenMyProfile, GoTo
    <2> QED
      BY <2>1, NobodyWaits
  <1> QED
    BY <1>1, <1>2

\* Clicks that send a call.
LEMMA SendingWaits ==
  ASSUME Typed, Waits, NEW a,
         \/ LogIn(a) \/ Impersonate(a)
         \/ AcceptTerms \/ SwitchToGlobalReviewer \/ SwitchBackFromGlobalReviewer
         \/ EndSupportSession \/ LogOut
  PROVE  Waits'
  <1>1. CASE SwitchBackFromGlobalReviewer \/ LogOut
    <2>1. going' = "none"
      BY <1>1 DEF SwitchBackFromGlobalReviewer, LogOut, GoTo
    <2> QED
      BY <2>1, NobodyWaits
  <1>2. CASE LogIn(a) \/ Impersonate(a) \/ AcceptTerms \/ SwitchToGlobalReviewer
             \/ EndSupportSession
    <2>1. UNCHANGED route /\ (token' = token \/ token' # 0)
      BY <1>2 DEF LogIn, Impersonate, AcceptTerms, SwitchToGlobalReviewer, EndSupportSession, storage
    <2>2. \E s \in Slots : \E r : calls[s].kind = "none" /\ calls' = [calls EXCEPT ![s] = r]
      BY <1>2, SentFacts DEF LogIn, Impersonate, AcceptTerms, SwitchToGlobalReviewer,
                             EndSupportSession, Typed
    <2>3. WaitsForAnAnswer'
      BY <2>1, <2>2, OthersGiveWay DEF Waits, Typed, TypeOK, route
    <2> QED
      BY <2>1, <2>3 DEF Waits, WaitsSignedIn, route
  <1> QED
    BY <1>1, <1>2

\* Answers.
LEMMA AnswerWaits ==
  ASSUME Typed, Waits, NEW s \in Slots, Answer(s)
  PROVE  Waits'
  <1>1. CASE ProfileLoaded(s, calls[s])
    <2>1. going' = "none"
      BY <1>1 DEF ProfileLoaded, GoTo, route
    <2> QED
      BY <2>1, NobodyWaits
  <1>2. CASE ProfileFails(s, calls[s])
    BY <1>2 DEF ProfileFails, Waits, WaitsSignedIn, WaitsForAnAnswer, EnsuringPage, storage
  <1>3. CASE LoggedIn(s, calls[s])
    <2>1. CASE going' = "none"
      BY <2>1, NobodyWaits
    <2>2. CASE going' # "none"
      <3>1. token' = Fresh /\ calls' = [calls EXCEPT ![s] = LoadProfile(Fresh)]
        BY <1>3 DEF LoggedIn, Store, ThenLoad
      <3>2. calls'[s].kind = "profile" /\ Fresh # 0
        BY <3>1, StorageFacts, SessionAssumption DEF LoadProfile, Request, Fresh, Typed, TypeOK
      <3> QED
        BY <3>1, <3>2 DEF Waits, WaitsSignedIn, WaitsForAnAnswer
    <2> QED
      BY <2>1, <2>2
  <1>4. CASE \/ ProfileUnauthorized(s, calls[s]) \/ Impersonated(s, calls[s])
             \/ Stopped(s, calls[s]) \/ TermsAccepted(s, calls[s])
    <2>1. going' = "none"
      BY <1>4 DEF ProfileUnauthorized, Impersonated, Stopped, TermsAccepted, GoTo
    <2> QED
      BY <2>1, NobodyWaits
  <1>5. CASE Switched(s, calls[s]) \/ Refused(s, calls[s]) \/ DoneUnheard(s, calls[s])
    <2>1. UNCHANGED route /\ calls[s].kind # "profile"
      BY <1>5 DEF Switched, Refused, DoneUnheard
    <2>2. token' = token \/ (token' = Fresh /\ Fresh # 0)
      BY <1>5, StorageFacts, SessionAssumption
      DEF Switched, Refused, DoneUnheard, storage, Store, Fresh, Typed
    <2>3. \E r : calls' = [calls EXCEPT ![s] = r]
      BY <1>5 DEF Switched, Refused, DoneUnheard, Over, ThenLoad
    <2>4. WaitsForAnAnswer'
      BY <2>1, <2>3, OthersGiveWay DEF Waits, Typed, TypeOK, route
    <2> QED
      BY <2>1, <2>2, <2>4 DEF Waits, WaitsSignedIn, route
  <1> QED
    BY <1>1, <1>2, <1>3, <1>4, <1>5 DEF Answer

\* Every step keeps whoever waits signed in and answered.
LEMMA WaitsStep ==
  ASSUME Typed, Waits, [Next]_vars
  PROVE  Waits'
  <1>1. CASE Click
    <2>1. "home" \in Page
      BY PageFacts
    <2>2. CASE Reload \/ TurnedAway \/ OpenMyProfile
      BY <2>1, <2>2, NavigationWaits
    <2>3. ASSUME NEW p \in Page, OpenUnguarded(p) \/ OpenJudged(p) \/ AwaitProfile(p)
          PROVE  Waits'
      BY <2>3, NavigationWaits
    <2>4. ASSUME NEW a \in Account, LogIn(a) \/ Impersonate(a)
          PROVE  Waits'
      BY <2>4, SendingWaits
    <2>5. CASE \/ AcceptTerms \/ SwitchToGlobalReviewer \/ SwitchBackFromGlobalReviewer
               \/ EndSupportSession \/ LogOut
      BY <2>5, SendingWaits
    <2> QED
      BY <1>1, <2>2, <2>3, <2>4, <2>5 DEF Click
  <1>2. ASSUME NEW s \in Slots, Answer(s)
        PROVE  Waits'
    BY <1>2, AnswerWaits
  <1>3. ASSUME NEW t \in 1..MaxTokens, Expire(t)
        PROVE  Waits'
    BY <1>3 DEF Expire, Waits, WaitsSignedIn, WaitsForAnAnswer, storage, route
  <1>4. CASE UNCHANGED vars
    BY <1>4 DEF vars, storage, route, Waits, WaitsSignedIn, WaitsForAnAnswer
  <1> QED
    BY <1>1, <1>2, <1>3, <1>4 DEF Next

\* WaitsForAnAnswer holds: a navigation whose guard asked for the profile waits
\* only while an answer is on its way or after one has failed.
THEOREM WaitsCorrect == Spec => []WaitsForAnAnswer
  <1>1. Init => Typed /\ Waits
    <2>1. Init => Waits
      BY DEF Init, Waits, WaitsSignedIn, WaitsForAnAnswer, EnsuringPage
    <2> QED
      BY <2>1, TypeInit
  <1>2. Typed /\ Waits /\ [Next]_vars => (Typed /\ Waits)'
    BY TypeStep, WaitsStep
  <1>3. Waits => WaitsForAnAnswer
    BY DEF Waits
  <1> QED
    BY <1>1, <1>2, <1>3, PTL DEF Spec

\* A step that opens a guarded page leaves a token stored.
LEMMA OpensSignedInStep ==
  ASSUME Typed, Waits, [Next]_vars, page' # page, page' \in GuardedPage
  PROVE  token' # 0
  <1>1. CASE Click
    BY <1>1, PageFacts
    DEF Click, Reload, OpenUnguarded, OpenJudged, AwaitProfile, TurnedAway, OpenMyProfile,
        LogIn, Impersonate, AcceptTerms, SwitchToGlobalReviewer, SwitchBackFromGlobalReviewer,
        EndSupportSession, LogOut, GoTo, storage, route
  <1>2. ASSUME NEW s \in Slots, Answer(s)
        PROVE  token' # 0
    <2>1. CASE ProfileLoaded(s, calls[s])
      <3>1. going # "none" /\ UNCHANGED storage
        BY <2>1 DEF ProfileLoaded, GoTo, route
      <3> QED
        BY <3>1 DEF Waits, WaitsSignedIn, storage
    <2>2. CASE LoggedIn(s, calls[s])
      BY <2>2, StorageFacts, SessionAssumption DEF LoggedIn, Store, Fresh, Typed
    <2>3. CASE ~ProfileLoaded(s, calls[s]) /\ ~LoggedIn(s, calls[s])
      BY <1>2, <2>3, PageFacts
      DEF Answer, ProfileUnauthorized, ProfileFails, Impersonated, Switched, Stopped,
          TermsAccepted, Refused, DoneUnheard, GoTo, route
    <2> QED
      BY <2>1, <2>2, <2>3
  <1>3. ASSUME NEW t \in 1..MaxTokens, Expire(t)
        PROVE  token' # 0
    BY <1>3 DEF Expire, route
  <1>4. CASE UNCHANGED vars
    BY <1>4 DEF vars, route
  <1> QED
    BY <1>1, <1>2, <1>3, <1>4 DEF Next

\* OpensSignedIn holds: no late profile lets a navigation through once the token
\* is gone.
THEOREM OpensSignedInCorrect == Spec => OpensSignedIn
  <1>1. Init => Typed /\ Waits
    BY TypeInit DEF Init, Waits, WaitsSignedIn, WaitsForAnAnswer, EnsuringPage
  <1>2. Typed /\ Waits /\ [Next]_vars => (Typed /\ Waits)'
    BY TypeStep, WaitsStep
  <1>3. Typed /\ Waits /\ [Next]_vars
        => [page' # page /\ page' \in GuardedPage => token' # 0]_vars
    BY OpensSignedInStep
  <1> QED
    BY <1>1, <1>2, <1>3, PTL DEF Spec, OpensSignedIn

----------------------------------------------------------------------------
(* Impersonations are logged.                                              *)

Audited == NotSuperAdmins /\ StopsAnother /\ Logged

\* A step that leaves tokens and log alone keeps the rest of an audited session
\* if it only moves tokens within the storage, and sends what may be sent.
LEMMA MovingAudited ==
  ASSUME Typed, Audited, UNCHANGED <<issued, openLogs>>,
         token' \in {0, token, original}, original' \in {0, token, original},
         \A s \in Slots :
           \/ calls'[s].kind \notin {"stop", "impersonate"}
           \/ calls'[s].kind = "impersonate" /\ calls'[s].who \in Account \ SuperAdmins
           \/ /\ calls'[s].kind = calls[s].kind /\ calls'[s].token = calls[s].token
              /\ calls'[s].log = calls[s].log /\ calls'[s].who = calls[s].who
           \/ /\ calls'[s].kind = "stop" /\ calls'[s].token = original /\ calls'[s].log = token
              /\ Impersonating(token) /\ original # 0 /\ token' = original /\ original' = original
  PROVE  Audited'
  <1>1. NotSuperAdmins'
    BY DEF Audited, NotSuperAdmins, Impersonating
  <1>2. Logged'
    BY DEF Audited, Logged, Impersonating
  <1>3. ASSUME NEW s \in Slots, calls'[s].kind = "stop", calls'[s].token # 0,
               issued[calls'[s].token].who \in SuperAdmins
        PROVE  calls'[s].log \notin {0, token', original'}
    <2>1. CASE /\ calls'[s].kind = calls[s].kind /\ calls'[s].token = calls[s].token
               /\ calls'[s].log = calls[s].log
      BY <1>3, <2>1 DEF Audited, StopsAnother
    <2>2. CASE /\ calls'[s].token = original /\ calls'[s].log = token
               /\ Impersonating(token) /\ original # 0 /\ token' = original /\ original' = original
      <3>1. token \in 1..Len(issued)
        BY <2>2, StorageFacts DEF Impersonating, Typed, TypeOK
      <3>2. issued[token].who \notin SuperAdmins
        BY <2>2, <3>1 DEF Audited, NotSuperAdmins
      <3> QED
        BY <1>3, <2>2, <3>2 DEF Impersonating
    <2> QED
      BY <1>3, <2>1, <2>2
  <1>4. StopsAnother'
    BY <1>3 DEF StopsAnother
  <1> QED
    BY <1>1, <1>2, <1>4 DEF Audited

\* What SentFacts says of each slot.
LEMMA SlotsAfterSending ==
  ASSUME Typed, NEW r, Sent(calls', r)
  PROVE  \A s \in Slots : calls'[s] = calls[s] \/ calls'[s] = r
  BY SentFacts DEF Typed, TypeOK

\* Loading the tab again, navigating and clicks that send a call.
LEMMA ClickAudited ==
  ASSUME Typed, Audited, Click
  PROVE  Audited'
  <1>1. CASE Reload
    <2>1. UNCHANGED <<issued, openLogs, token, original>>
      BY <1>1 DEF Reload, server
    <2>2. \A s \in Slots :
            \/ calls'[s].kind \notin {"stop", "impersonate"}
            \/ /\ calls'[s].kind = calls[s].kind /\ calls'[s].token = calls[s].token
               /\ calls'[s].log = calls[s].log /\ calls'[s].who = calls[s].who
      BY <1>1, ReloadFacts, UnheardFacts DEF LoadProfile, Request
    <2> QED
      BY <2>1, <2>2, MovingAudited
  <1>2. ASSUME NEW p \in Page, OpenUnguarded(p) \/ OpenJudged(p) \/ AwaitProfile(p)
        PROVE  Audited'
    <2>1. UNCHANGED <<issued, openLogs, token, original>>
      BY <1>2 DEF OpenUnguarded, OpenJudged, AwaitProfile, server, storage
    <2>2. \A s \in Slots : calls'[s] = calls[s] \/ calls'[s].kind = "profile"
      BY <1>2, SlotsAfterSending
      DEF OpenUnguarded, OpenJudged, AwaitProfile, LoadProfile, Request
    <2> QED
      BY <2>1, <2>2, MovingAudited
  <1>3. CASE TurnedAway \/ OpenMyProfile \/ LogOut
    <2>1. /\ UNCHANGED <<issued, openLogs, original, calls>>
          /\ token' \in {0, token, original}
      BY <1>3 DEF TurnedAway, OpenMyProfile, LogOut, ClearSession, server, storage
    <2> QED
      BY <2>1, MovingAudited
  <1>4. ASSUME NEW a \in Account, LogIn(a)
        PROVE  Audited'
    <2>1. UNCHANGED <<issued, openLogs, token, original>>
      BY <1>4 DEF LogIn, server, storage
    <2>2. \A s \in Slots : calls'[s] = calls[s] \/ calls'[s].kind = "login"
      BY <1>4, SlotsAfterSending DEF LogIn, Request
    <2> QED
      BY <2>1, <2>2, MovingAudited
  <1>5. ASSUME NEW a \in Account, Impersonate(a)
        PROVE  Audited'
    <2>1. UNCHANGED <<issued, openLogs, token>> /\ original' = token
      BY <1>5 DEF Impersonate, server
    <2>2. \A s \in Slots : \/ calls'[s] = calls[s]
                           \/ /\ calls'[s].kind = "impersonate"
                              /\ calls'[s].who \in Account \ SuperAdmins
      BY <1>5, SlotsAfterSending DEF Impersonate, Request
    <2> QED
      BY <2>1, <2>2, MovingAudited
  <1>6. CASE AcceptTerms \/ SwitchToGlobalReviewer \/ SwitchBackFromGlobalReviewer
    <2>1. /\ UNCHANGED <<issued, openLogs>>
          /\ token' \in {0, token, original} /\ original' \in {0, token, original}
      BY <1>6 DEF AcceptTerms, SwitchToGlobalReviewer, SwitchBackFromGlobalReviewer, server, storage
    <2>2. \A s \in Slots :
            calls'[s] = calls[s] \/ calls'[s].kind \in {"accept", "switch", "profile"}
      <3>1. CASE AcceptTerms
        BY <3>1, SlotsAfterSending DEF AcceptTerms, Request
      <3>2. CASE SwitchToGlobalReviewer
        BY <3>2, SlotsAfterSending DEF SwitchToGlobalReviewer, Request
      <3>3. CASE SwitchBackFromGlobalReviewer
        BY <3>3, SlotsAfterSending DEF SwitchBackFromGlobalReviewer, LoadProfile, Request
      <3> QED
        BY <1>6, <3>1, <3>2, <3>3
    <2> QED
      BY <2>1, <2>2, MovingAudited
  <1>7. CASE EndSupportSession
    <2>1. /\ UNCHANGED <<issued, openLogs, original>> /\ token' = original
          /\ Impersonating(token) /\ original # 0
      BY <1>7 DEF EndSupportSession, server
    <2>2. \A s \in Slots :
            \/ calls'[s] = calls[s]
            \/ calls'[s].kind = "stop" /\ calls'[s].token = original /\ calls'[s].log = token
      BY <1>7, SlotsAfterSending DEF EndSupportSession, Request
    <2> QED
      BY <2>1, <2>2, MovingAudited
  <1> QED
    BY <1>1, <1>2, <1>3, <1>4, <1>5, <1>6, <1>7 DEF Click

\* A token that is issued to someone else than a SuperAdmin, or to the account
\* that asks, and logged if it is an impersonation.
LEMMA IssuingAudited ==
  ASSUME Typed, Audited, NEW who \in Account, NEW by \in Account,
         Len(issued) < MaxTokens, issued' = Append(issued, [who |-> who, by |-> by]),
         who \notin SuperAdmins \/ who = by,
         openLogs' = openLogs \/ openLogs' = openLogs \union {Fresh},
         who # by => Fresh \in openLogs',
         token' \in {token, Fresh}, original' = original,
         \A s \in Slots : calls'[s] = calls[s] \/ calls'[s].kind \in {"none", "profile"}
  PROVE  Audited'
  <1>1. /\ \A t \in 1..Len(issued) : issued'[t] = issued[t]
        /\ issued'[Fresh].who = who /\ issued'[Fresh].by = by
        /\ Fresh \notin 0..Len(issued) /\ Len(issued) \in Nat
        /\ Len(issued') = Len(issued) + 1
    BY FreshFacts
  <1>2. /\ token \in 0..Len(issued) /\ original \in 0..Len(issued)
        /\ openLogs \subseteq 1..Len(issued)
    BY DEF Typed, TypeOK
  <1>3. \A t \in 1..Len(issued') : t \in 1..Len(issued) \/ t = Fresh
    BY <1>1 DEF Fresh
  <1>4. NotSuperAdmins'
    <2>1. ASSUME NEW t \in 1..Len(issued'), Impersonating(t)'
          PROVE  issued'[t].who \notin SuperAdmins
      BY <1>1, <1>3, <2>1 DEF Impersonating, Audited, NotSuperAdmins
    <2>2. ASSUME NEW s \in Slots, calls'[s].kind = "impersonate"
          PROVE  calls'[s].who \in Account \ SuperAdmins
      BY <2>2 DEF Audited, NotSuperAdmins
    <2> QED
      BY <2>1, <2>2 DEF NotSuperAdmins
  <1>5. StopsAnother'
    <2>1. ASSUME NEW s \in Slots, calls'[s].kind = "stop", calls'[s].token # 0,
                 issued'[calls'[s].token].who \in SuperAdmins
          PROVE  calls'[s].log \notin {0, token', original'}
      <3>1. /\ calls'[s] = calls[s]
            /\ calls[s].token \in 1..Len(issued) /\ calls[s].log \in 0..Len(issued)
        BY <1>1, <2>1 DEF Typed, Known
      <3>2. calls[s].log \notin {0, token, original}
        BY <1>1, <2>1, <3>1 DEF Audited, StopsAnother
      <3> QED
        BY <1>1, <3>1, <3>2
    <2> QED
      BY <2>1 DEF StopsAnother
  <1>6. Logged'
    <2>1. ASSUME NEW t \in {token', original'}, Impersonating(t)'
          PROVE  t \in openLogs'
      <3>1. CASE t = Fresh
        <4>1. issued'[t].by # issued'[t].who
          BY <2>1 DEF Impersonating
        <4>2. who # by
          BY <1>1, <3>1, <4>1
        <4> QED
          BY <3>1, <4>2
      <3>2. CASE t \in {token, original}
        BY <1>1, <1>2, <2>1, <3>2 DEF Impersonating, Audited, Logged
      <3> QED
        BY <3>1, <3>2
    <2> QED
      BY <2>1 DEF Logged
  <1> QED
    BY <1>4, <1>5, <1>6 DEF Audited

\* Answers that issue no token and end no log entry.
LEMMA QuietAnswerAudited ==
  ASSUME Typed, Audited, NEW s \in Slots,
         \/ ProfileLoaded(s, calls[s]) \/ ProfileUnauthorized(s, calls[s])
         \/ ProfileFails(s, calls[s]) \/ TermsAccepted(s, calls[s]) \/ Refused(s, calls[s])
  PROVE  Audited'
  <1>1. /\ UNCHANGED <<issued, openLogs, original>> /\ token' \in {0, token, original}
        /\ calls' = [calls EXCEPT ![s] = Idle]
    BY DEF ProfileLoaded, ProfileUnauthorized, ProfileFails, TermsAccepted, Refused,
           ClearSession, Over, server, storage
  <1>2. \A q \in Slots : calls'[q] = calls[q] \/ calls'[q].kind = "none"
    BY <1>1, IdleFacts DEF Typed, TypeOK
  <1> QED
    BY <1>1, <1>2, MovingAudited

\* Answers that issue a token, whether or not the tab hears them.
LEMMA TokenAudited ==
  ASSUME Typed, Audited, NEW s \in Slots,
         \/ LoggedIn(s, calls[s]) \/ Impersonated(s, calls[s]) \/ Switched(s, calls[s])
         \/ DoneUnheard(s, calls[s]) /\ calls[s].kind = "impersonate"
  PROVE  Audited'
  <1>1. /\ calls[s].kind \in {"login", "impersonate"} => calls[s].who \in Account
        /\ calls[s].kind = "impersonate" => calls[s].who \notin SuperAdmins
        /\ calls[s].token \in 0..Len(issued)
    BY DEF Typed, Known, Audited, NotSuperAdmins
  <1>2. PICK who \in Account, by \in Account :
          /\ Len(issued) < MaxTokens /\ issued' = Append(issued, [who |-> who, by |-> by])
          /\ who \notin SuperAdmins \/ who = by
          /\ openLogs' = openLogs \/ openLogs' = openLogs \union {Fresh}
          /\ who # by => Fresh \in openLogs'
          /\ token' \in {token, Fresh} /\ original' = original
    <2>1. CASE LoggedIn(s, calls[s])
      BY <1>1, <2>1 DEF LoggedIn, Issue, Store
    <2>2. CASE Impersonated(s, calls[s])
      <3>1. issued[calls[s].token].who \in Account
        BY <1>1, <2>2, StorageFacts DEF Impersonated, FromSuperAdmin, Valid, Token, Typed
      <3> QED
        BY <1>1, <2>2, <3>1 DEF Impersonated, Issue, Store
    <2>3. CASE Switched(s, calls[s])
      BY <2>3 DEF Switched, Issue, Store, Account
    <2>4. CASE DoneUnheard(s, calls[s]) /\ calls[s].kind = "impersonate"
      <3>1. issued[calls[s].token].who \in Account
        BY <1>1, <2>4, StorageFacts DEF DoneUnheard, FromSuperAdmin, Valid, Token, Typed
      <3> QED
        BY <1>1, <2>4, <3>1 DEF DoneUnheard, Issue, storage
    <2> QED
      BY <2>1, <2>2, <2>3, <2>4
  <1>3. \/ calls' = [calls EXCEPT ![s] = Idle]
        \/ calls' = [calls EXCEPT ![s] = LoadProfile(Fresh)]
    BY DEF LoggedIn, Impersonated, Switched, DoneUnheard, Over, ThenLoad
  <1>4. \A q \in Slots : calls'[q] = calls[q] \/ calls'[q].kind \in {"none", "profile"}
    BY <1>3 DEF Idle, LoadProfile, Request, Typed, TypeOK
  <1> QED
    BY <1>2, <1>4, IssuingAudited

\* The end of an impersonation closes its entry: its token is no longer stored.
LEMMA StopAudited ==
  ASSUME Typed, Audited, NEW s \in Slots,
         \/ Stopped(s, calls[s])
         \/ DoneUnheard(s, calls[s]) /\ calls[s].kind \in {"stop", "accept"}
  PROVE  Audited'
  <1>1. /\ issued' = issued /\ token' = token /\ original' \in {0, original}
        /\ openLogs' = openLogs \/ openLogs' = openLogs \ {calls[s].log}
        /\ openLogs' # openLogs => calls[s].kind = "stop" /\ FromSuperAdmin(calls[s])
    BY DEF Stopped, DoneUnheard, storage
  <1>2. \/ calls' = [calls EXCEPT ![s] = Idle]
        \/ calls' = [calls EXCEPT ![s] = LoadProfile(token)]
    BY DEF Stopped, DoneUnheard, Over, ThenLoad
  <1>3. \A q \in Slots : calls'[q] = calls[q] \/ calls'[q].kind \in {"none", "profile"}
    BY <1>2 DEF Idle, LoadProfile, Request, Typed, TypeOK
  <1>4. openLogs' # openLogs => calls[s].log \notin {0, token, original}
    BY <1>1 DEF FromSuperAdmin, Valid, Audited, StopsAnother
  <1>5. NotSuperAdmins' /\ StopsAnother'
    BY <1>1, <1>3 DEF Audited, NotSuperAdmins, StopsAnother, Impersonating
  <1>6. Logged'
    <2>1. ASSUME NEW t \in {token, original}, Impersonating(t)
          PROVE  t \in openLogs'
      BY <1>1, <1>4, <2>1 DEF Audited, Logged
    <2> QED
      BY <1>1, <2>1 DEF Logged, Impersonating
  <1> QED
    BY <1>5, <1>6 DEF Audited

\* Every step keeps impersonations logged.
LEMMA AuditedStep ==
  ASSUME Typed, Audited, [Next]_vars
  PROVE  Audited'
  <1>1. CASE Click
    BY <1>1, ClickAudited
  <1>2. ASSUME NEW s \in Slots, Answer(s)
        PROVE  Audited'
    <2>1. CASE DoneUnheard(s, calls[s])
      <3>1. calls[s].kind \in {"impersonate", "stop", "accept"}
        BY <2>1 DEF DoneUnheard
      <3> QED
        BY <2>1, <3>1, TokenAudited, StopAudited
    <2>2. CASE ~DoneUnheard(s, calls[s])
      BY <1>2, <2>2, QuietAnswerAudited, TokenAudited, StopAudited DEF Answer
    <2> QED
      BY <2>1, <2>2
  <1>3. ASSUME NEW t \in 1..MaxTokens, Expire(t)
        PROVE  Audited'
    BY <1>3 DEF Expire, storage, Audited, NotSuperAdmins, StopsAnother, Logged, Impersonating
  <1>4. CASE UNCHANGED vars
    BY <1>4 DEF vars, server, storage, Audited, NotSuperAdmins, StopsAnother, Logged, Impersonating
  <1> QED
    BY <1>1, <1>2, <1>3, <1>4 DEF Next

\* ImpersonationIsLogged holds: while the token of an impersonation is stored, no
\* call that is late, lost or repeated has closed its entry in the log.
THEOREM LoggedCorrect == Spec => []ImpersonationIsLogged
  <1>1. Init => Typed /\ Audited
    <2>1. ASSUME Init
          PROVE  Audited
      <3>1. /\ issued = <<>> /\ Len(issued) = 0 /\ token = 0 /\ original = 0
            /\ \A s \in Slots : calls[s].kind = "none"
        BY <2>1, IdleFacts DEF Init
      <3> QED
        BY <3>1 DEF Audited, NotSuperAdmins, StopsAnother, Logged, Impersonating
    <2> QED
      BY <2>1, TypeInit
  <1>2. Typed /\ Audited /\ [Next]_vars => (Typed /\ Audited)'
    BY TypeStep, AuditedStep
  <1>3. Audited => ImpersonationIsLogged
    BY DEF Audited, Logged, ImpersonationIsLogged
  <1> QED
    BY <1>1, <1>2, <1>3, PTL DEF Spec
=============================================================================
