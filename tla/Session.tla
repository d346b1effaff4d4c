------------------------------ MODULE Session ------------------------------
(***************************************************************************)
(* The session of one browser tab of MyBooks.UI: the tokens in local       *)
(* storage, the profile that UserService publishes, the navigation that    *)
(* waits for it behind the route guards, and the calls of AppComponent,    *)
(* the login page and the support pages that swap the token while answers  *)
(* to earlier calls are still on their way.  Answers come in any order.    *)
(***************************************************************************)
EXTENDS Naturals, Sequences, FiniteSets

CONSTANTS
  SuperAdmins, Owners, Readers, Clones, \* the accounts, by role
  Nobody,       \* no account
  Accepting,    \* those that have accepted the terms at the start
  Granted,      \* the accounts with active global reviewer access
  Slots,        \* 1..n, calls that may be in flight at once
  MaxTokens,    \* bound on the tokens that are issued
  MaxExpired,   \* bound on those that expire while they are stored
  Faults        \* what may go wrong: "profile", "lost"

Account == SuperAdmins \union Owners \union Readers \union Clones

ASSUME SessionAssumption ==
  /\ Nobody \notin Account /\ Accepting \subseteq Account
  /\ Slots \subseteq Nat /\ {MaxTokens, MaxExpired} \subseteq Nat

VARIABLES
  issued,       \* the tokens AuthService has issued: for whom, and by whom
  expired,      \* those that AuthService no longer accepts
  openLogs,     \* the impersonations (by token) whose log entry is open
  accepted,     \* the accounts that have accepted the terms
  token,        \* localStorage 'token'; 0 when there is none
  original,     \* localStorage 'originalToken'
  held,         \* the accounts whose token was stored since the tab loaded
  user,         \* userSubject
  banner,       \* AppComponent.isSupportUser
  page,         \* the route that is open
  going,        \* the route whose guards wait for a profile
  failed,       \* a profile could not be loaded while they waited
  calls         \* the calls in flight

server == <<issued, expired, openLogs, accepted>>
storage == <<token, original, held>>
tab == <<user, banner>>
route == <<page, going, failed>>
vars == <<server, storage, tab, route, calls>>

----------------------------------------------------------------------------
(* Tokens, profiles, calls                                                 *)

Token == [who : Account, by : Account]

Impersonating(t) == t # 0 /\ issued[t].by # issued[t].who

Profile == [who : Account, accepted : BOOLEAN]

NoUser == [who |-> Nobody, accepted |-> FALSE]

Kind == {"none", "profile", "login", "impersonate", "switch", "stop", "accept"}

\* "heard": the tab that made the call is still there to hear the answer.
Call == [kind : Kind, token : 0..MaxTokens, who : Account \union {Nobody},
         log : 0..MaxTokens, heard : BOOLEAN]

Idle == [kind |-> "none", token |-> 0, who |-> Nobody, log |-> 0, heard |-> FALSE]

\* What the code sends carries the token that is stored at that moment.
Request(kind, t, who, log) ==
  [kind |-> kind, token |-> t, who |-> who, log |-> log, heard |-> TRUE]

LoadProfile(t) == Request("profile", t, Nobody, 0)

IsFree(s) == calls[s].kind = "none"

\* The calls after r has been sent.
Sent(cs, r) ==
  \E s \in Slots :
    /\ IsFree(s) /\ \A q \in Slots : q < s => ~ IsFree(q)
    /\ cs = [calls EXCEPT ![s] = r]

----------------------------------------------------------------------------
(* Routes and their guards                                                 *)

OpenPage == {"home", "login", "terms", "leaving"}
EnsuringPage == {"books", "account", "support"}   \* a guard calls ensureProfile$
JudgedPage == EnsuringPage \union {"review"}      \* a guard waits for user$
GuardedPage == JudgedPage \union {"profile"}
Page == OpenPage \union GuardedPage

OwnerGuard == SuperAdmins \union Owners
SupportUserGuard == SuperAdmins
GlobalReviewerGuard == SuperAdmins \union Clones

MayOpen(p) ==
  CASE p = "account" -> OwnerGuard
    [] p = "support" -> SupportUserGuard
    [] p = "review"  -> GlobalReviewerGuard
    [] OTHER         -> Account

TermsGuard(p, u) == p \in {"books", "account"} => u.accepted

\* Mutant: only the terms are looked at.
JudgeTermsOnly(p, u) == IF ~ TermsGuard(p, u) THEN "terms" ELSE p

\* Where the guards of p send the account whose profile is u.
Judge(p, u) ==
  IF u.who \notin MayOpen(p) THEN "home"
  ELSE IF ~ TermsGuard(p, u) THEN "terms" ELSE p

----------------------------------------------------------------------------

TypeOK ==
  /\ issued \in Seq(Token) /\ Len(issued) <= MaxTokens
  /\ expired \subseteq 1..Len(issued) /\ openLogs \subseteq 1..Len(issued)
  /\ accepted \subseteq Account /\ held \subseteq Account
  /\ token \in 0..Len(issued) /\ original \in 0..Len(issued)
  /\ user \in Profile \union {NoUser}
  /\ failed \in BOOLEAN /\ banner \in BOOLEAN
  /\ page \in Page /\ going \in JudgedPage \union {"none"}
  /\ calls \in [Slots -> Call]

Init ==
  /\ issued = <<>> /\ expired = {} /\ openLogs = {}
  /\ accepted = Accepting
  /\ token = 0 /\ original = 0 /\ held = {}
  /\ user = NoUser /\ banner = FALSE
  /\ page = "home" /\ going = "none" /\ failed = FALSE
  /\ calls = [s \in Slots |-> Idle]

----------------------------------------------------------------------------
(* The tab loads; the user navigates                                       *)

\* Nobody hears the answer; AuthService may still do what changes its state.
Unheard(c) ==
  IF c.kind \in {"impersonate", "stop", "accept"}
  THEN [c EXCEPT !.heard = FALSE] ELSE Idle

\* The tab is loaded again: by the user, or through window.location.href.
\* ngOnInit loads the profile unless the URL is public or the start page.
Reload ==
  /\ user' = NoUser
  /\ banner' = Impersonating(token)
  /\ held' = IF token = 0 THEN {} ELSE {issued[token].who}
  /\ page' = "home" /\ going' = "none" /\ failed' = FALSE
  /\ LET unheard == [s \in Slots |-> Unheard(calls[s])]
     IN  \/ calls' = unheard
         \/ /\ token # 0
            /\ \E s \in Slots :
                 /\ IsFree(s) /\ \A q \in Slots : q < s => ~ IsFree(q)
                 /\ calls' = [unheard EXCEPT ![s] = LoadProfile(token)]
  /\ UNCHANGED <<server, token, original>>

\* A tab that is leaving has been told to load the start page.
GoTo(p) ==
  /\ page' = (IF page = "leaving" THEN page ELSE p)
  /\ going' = "none" /\ failed' = FALSE

OpenUnguarded(p) ==
  /\ page # "leaving" /\ p \in {"home", "login", "terms"}
  /\ GoTo(p)
  /\ UNCHANGED <<server, storage, tab, calls>>

\* Without a token every guard answers with the login page.
TurnedAway ==
  /\ page # "leaving" /\ token = 0
  /\ GoTo("login")
  /\ UNCHANGED <<server, storage, tab, calls>>

OpenMyProfile ==
  /\ page # "leaving" /\ token # 0
  /\ GoTo("profile")
  /\ UNCHANGED <<server, storage, tab, calls>>

\* A profile is there: the guards judge it in the same turn.
OpenJudged(p) ==
  /\ page # "leaving" /\ token # 0 /\ user # NoUser
  /\ p \in JudgedPage
  /\ GoTo(Judge(p, user))
  /\ UNCHANGED <<server, storage, tab, calls>>

\* Mutant: the guard waits for a profile that it does not ask for.
AwaitProfileUnasked(p) ==
  /\ page # "leaving" /\ token # 0 /\ user = NoUser
  /\ p \in JudgedPage
  /\ going' = p /\ failed' = FALSE
  /\ UNCHANGED <<server, storage, tab, page, calls>>

\* None is there: ensureProfile$ asks for one (the guards of one route send
\* the same request in the same turn, kept here as one), and the route waits.
\* GlobalReviewerGuard only waits.
AwaitProfile(p) ==
  /\ page # "leaving" /\ token # 0 /\ user = NoUser
  /\ p \in JudgedPage
  /\ going' = p /\ failed' = FALSE
  /\ IF p \in EnsuringPage THEN Sent(calls', LoadProfile(token))
                           ELSE UNCHANGED calls
  /\ UNCHANGED <<server, storage, tab, page>>

----------------------------------------------------------------------------
(* Clicks that send a call                                                 *)

LogIn(a) ==
  /\ page = "login" /\ a \notin Clones
  /\ Sent(calls', Request("login", 0, a, 0))
  /\ UNCHANGED <<server, storage, tab, route>>

AcceptTerms ==
  /\ page = "terms" /\ token # 0
  /\ Sent(calls', Request("accept", token, Nobody, 0))
  /\ UNCHANGED <<server, storage, tab, route>>

\* 'originalToken' is written before the call is sent, whatever it answers.
Impersonate(a) ==
  /\ page = "support" /\ token # 0 /\ a \in Account \ SuperAdmins
  /\ original' = token
  /\ Sent(calls', Request("impersonate", token, a, 0))
  /\ UNCHANGED <<server, token, held, tab, route>>

\* The menu offers the switch, and the way back, by the published profile.
HasGlobalReviewer == user.who \in Granted
CanAccessGlobalReview == user.who \in Clones

SwitchToGlobalReviewer ==
  /\ page # "leaving" /\ token # 0 /\ HasGlobalReviewer
  /\ original' = token
  /\ Sent(calls', Request("switch", token, Nobody, 0))
  /\ UNCHANGED <<server, token, held, tab, route>>

SwitchBackFromGlobalReviewer ==
  /\ page # "leaving" /\ CanAccessGlobalReview
  /\ token # 0 /\ original # 0
  /\ token' = original /\ original' = 0
  /\ held' = held \union {issued[original].who}
  /\ GoTo("home")
  /\ Sent(calls', LoadProfile(original))
  /\ UNCHANGED <<server, tab>>

\* Mutant: the log is stopped, but the token is not swapped.
EndSupportSessionUnswapped ==
  /\ page # "leaving" /\ banner
  /\ Impersonating(token) /\ original # 0
  /\ Sent(calls', Request("stop", original, Nobody, token))
  /\ UNCHANGED <<server, storage, tab, route>>

\* The banner is clicked: the token is swapped back, then the log is stopped
\* with it.
EndSupportSession ==
  /\ page # "leaving" /\ banner
  /\ Impersonating(token) /\ original # 0
  /\ token' = original
  /\ held' = held \union {issued[original].who}
  /\ Sent(calls', Request("stop", original, Nobody, token))
  /\ UNCHANGED <<server, original, tab, route>>

ClearSession == token' = 0 /\ user' = NoUser

\* Mutant: the logout leaves the route as it is.
LogOutUnrouted ==
  /\ page # "leaving" /\ token # 0 /\ ~ banner
  /\ ClearSession /\ banner' = FALSE
  /\ UNCHANGED <<server, original, held, route, calls>>

LogOut ==
  /\ page # "leaving" /\ token # 0 /\ ~ banner
  /\ ClearSession /\ banner' = FALSE
  /\ GoTo("login")
  /\ UNCHANGED <<server, original, held, calls>>

----------------------------------------------------------------------------
(* Answers.  The call in slot s is over; c is the call.                    *)

Over(s) == calls' = [calls EXCEPT ![s] = Idle]

\* The call in slot s is over and the profile is asked for with token t.
ThenLoad(s, t) == calls' = [calls EXCEPT ![s] = LoadProfile(t)]

Valid(t) == t # 0 /\ t \notin expired

FromSuperAdmin(c) == Valid(c.token) /\ issued[c.token].who \in SuperAdmins

Issue(who, by) ==
  /\ Len(issued) < MaxTokens
  /\ issued' = Append(issued, [who |-> who, by |-> by])

Fresh == Len(issued) + 1

Store(t, who) == token' = t /\ held' = held \union {who}

ProfileLoaded(s, c) ==
  /\ c.kind = "profile" /\ c.heard /\ Valid(c.token)
  /\ LET who == issued[c.token].who
         u   == [who |-> who, accepted |-> who \in accepted]
     IN  /\ user' = u
         /\ IF going = "none" THEN UNCHANGED route ELSE GoTo(Judge(going, u))
  /\ Over(s)
  /\ UNCHANGED <<server, storage, banner>>

\* 401, to whichever token: the stored one is removed.
ProfileUnauthorized(s, c) ==
  /\ c.kind = "profile" /\ c.heard /\ ~ Valid(c.token)
  /\ ClearSession
  /\ GoTo("login")
  /\ Over(s)
  /\ UNCHANGED <<server, original, held, banner>>

ProfileFails(s, c) ==
  /\ "profile" \in Faults
  /\ c.kind = "profile" /\ c.heard
  /\ user' = NoUser /\ failed' = (going # "none")
  /\ Over(s)
  /\ UNCHANGED <<server, storage, banner, page, going>>

LoggedIn(s, c) ==
  /\ c.kind = "login" /\ c.heard
  /\ Issue(c.who, c.who)
  /\ Store(Fresh, c.who)
  /\ ThenLoad(s, Fresh)
  /\ IF user = NoUser THEN going' = "books" /\ failed' = FALSE /\ UNCHANGED page
                      ELSE GoTo(Judge("books", user))
  /\ UNCHANGED <<expired, openLogs, accepted, original, tab>>

Impersonated(s, c) ==
  /\ c.kind = "impersonate" /\ c.heard /\ FromSuperAdmin(c)
  /\ Issue(c.who, issued[c.token].who)
  /\ openLogs' = openLogs \union {Fresh}
  /\ Store(Fresh, c.who)
  /\ GoTo("leaving")
  /\ Over(s)
  /\ UNCHANGED <<expired, accepted, original, tab>>

Switched(s, c) ==
  /\ c.kind = "switch" /\ c.heard /\ FromSuperAdmin(c)
  /\ issued[c.token].who \in Granted
  /\ \E clone \in Clones : Issue(clone, clone) /\ Store(Fresh, clone)
  /\ ThenLoad(s, Fresh)
  /\ UNCHANGED <<expired, openLogs, accepted, original, tab, route>>

Stopped(s, c) ==
  /\ c.kind = "stop" /\ c.heard /\ FromSuperAdmin(c)
  /\ openLogs' = openLogs \ {c.log}
  /\ original' = 0 /\ banner' = FALSE
  /\ GoTo("home")
  /\ IF token = 0 THEN user' = NoUser /\ Over(s)
                  ELSE UNCHANGED user /\ ThenLoad(s, token)
  /\ UNCHANGED <<issued, expired, accepted, token, held>>

TermsAccepted(s, c) ==
  /\ c.kind = "accept" /\ c.heard /\ Valid(c.token)
  /\ accepted' = accepted \union {issued[c.token].who}
  /\ GoTo("leaving")
  /\ Over(s)
  /\ UNCHANGED <<issued, expired, openLogs, storage, tab>>

\* The service refuses, or cannot be reached.  No handler changes the session.
Refused(s, c) ==
  /\ c.kind \notin {"none", "profile"}
  /\ Over(s)
  /\ UNCHANGED <<server, storage, tab, route>>

\* The service did it, but the tab has been reloaded or the answer is lost.
DoneUnheard(s, c) ==
  /\ "lost" \in Faults \/ ~ c.heard
  /\ \/ /\ c.kind = "impersonate" /\ FromSuperAdmin(c)
        /\ Issue(c.who, issued[c.token].who)
        /\ openLogs' = openLogs \union {Fresh}
        /\ UNCHANGED accepted
     \/ /\ c.kind = "stop" /\ FromSuperAdmin(c)
        /\ openLogs' = openLogs \ {c.log}
        /\ UNCHANGED <<issued, accepted>>
     \/ /\ c.kind = "accept" /\ Valid(c.token)
        /\ accepted' = accepted \union {issued[c.token].who}
        /\ UNCHANGED <<issued, openLogs>>
  /\ Over(s)
  /\ UNCHANGED <<expired, storage, tab, route>>

\* A token reaches its end of life: 60 minutes or 12 hours, so not in order.
Expire(t) ==
  /\ t \in DOMAIN issued /\ Cardinality(expired) < MaxExpired
  /\ t \in {token, original}
  /\ expired' = expired \union {t}
  /\ UNCHANGED <<issued, openLogs, accepted, storage, tab, route, calls>>

----------------------------------------------------------------------------

Click ==
  \/ Reload
  \/ \E p \in Page : OpenUnguarded(p) \/ OpenJudged(p) \/ AwaitProfile(p)
  \/ TurnedAway \/ OpenMyProfile
  \/ \E a \in Account : LogIn(a) \/ Impersonate(a)
  \/ AcceptTerms
  \/ SwitchToGlobalReviewer \/ SwitchBackFromGlobalReviewer
  \/ EndSupportSession \/ LogOut

Answer(s) ==
  \/ ProfileLoaded(s, calls[s]) \/ ProfileUnauthorized(s, calls[s])
  \/ ProfileFails(s, calls[s])
  \/ LoggedIn(s, calls[s]) \/ Impersonated(s, calls[s])
  \/ Switched(s, calls[s]) \/ Stopped(s, calls[s]) \/ TermsAccepted(s, calls[s])
  \/ Refused(s, calls[s]) \/ DoneUnheard(s, calls[s])

Next ==
  \/ Click
  \/ \E s \in Slots : Answer(s)
  \/ \E t \in 1..MaxTokens : Expire(t)

Spec == Init /\ [][Next]_vars

----------------------------------------------------------------------------
(* Properties                                                              *)

(***************************************************************************)
(* A guarded page is open only if this tab, since it was loaded, has held  *)
(* a token of an account that may open it: however late an answer is and   *)
(* whatever token it was asked for with, the guards do not judge a profile *)
(* from before the reload, nor the absence of one.                         *)
(***************************************************************************)
OpenToHeldAccount ==
  page \in GuardedPage => held \intersect MayOpen(page) # {}

(***************************************************************************)
(* A guarded page is opened only while a token is stored: a navigation     *)
(* that waits for its profile is superseded by whatever removes the token, *)
(* so that a late profile does not let it through after the logout.        *)
(***************************************************************************)
OpensSignedIn == [][page' # page /\ page' \in GuardedPage => token' # 0]_vars

(***************************************************************************)
(* "Every impersonation is written to an audit log" (README.md:58): while  *)
(* the stored token is an impersonation, its entry in the log is open.     *)
(* The entry is closed by a call that may be late, lost or repeated, and   *)
(* the token goes through two keys of the local storage.                   *)
(***************************************************************************)
ImpersonationIsLogged == Impersonating(token) => token \in openLogs

(***************************************************************************)
(* A navigation whose guard asked for the profile (ensureProfile$) waits   *)
(* only while an answer is on its way, or after one failed: no answer to   *)
(* another call, logout, swap of the token or late 401 leaves it waiting   *)
(* for a profile that nobody will publish.                                 *)
(***************************************************************************)
WaitsForAnAnswer ==
  going \in EnsuringPage => failed \/ \E s \in Slots : calls[s].kind = "profile"
=============================================================================
