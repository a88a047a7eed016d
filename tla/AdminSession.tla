----------------------------- MODULE AdminSession -----------------------------
(***************************************************************************)
(* The session of the CMS (authProvider.ts): a token and an identity in    *)
(* localStorage, which the tabs of a browser share, and the calls to the   *)
(* admin API whose answers write and clear them.  The API keeps no         *)
(* session: a token is good until it expires, logged out or not.           *)
(***************************************************************************)
EXTENDS Naturals

CONSTANTS
  Tabs,
  Calls,        \* calls that may be under way at once
  TabOf,        \* the tab each of them is made in
  Users,
  NoUser,
  MaxLogins     \* bound: how many tokens are issued

ASSUME TabAssumption == TabOf \in [Calls -> Tabs]
ASSUME UserAssumption == NoUser \notin Users
ASSUME LoginsAssumption == MaxLogins \in Nat

NoToken == 0
Tokens == 1..MaxLogins

VARIABLES
  token,        \* localStorage: tape_token
  identity,     \* localStorage: tape_identity
  page,         \* what a tab shows, LoginPage or the routes behind Authenticated
  call,
  issued,       \* how many tokens the API has issued, whose they are,
  owner,
  expired,      \* and which have expired
  torn          \* history: two tabs have written at once

sessionVars == <<token, identity, page, call, issued, owner, expired, torn>>

(* A call carries the token that was stored when it was sent. *)
NoCall == [kind |-> "none", at |-> "idle", sent |-> NoToken, user |-> NoUser, answer |-> "none"]

SessionInit ==
  /\ token = NoToken
  /\ identity = NoUser
  /\ page = [t \in Tabs |-> "login"]
  /\ call = [c \in Calls |-> NoCall]
  /\ issued = 0
  /\ owner = [k \in Tokens |-> NoUser]
  /\ expired = {}
  /\ torn = FALSE

(* Between the two synchronous writes of a session. *)
Writing(c) == call[c].at \in {"saving", "dropping"}

(* A tab runs one piece of code at a time; another tab may cut in. *)
Runs(c) == \A d \in Calls \ {c} : TabOf[d] = TabOf[c] => ~Writing(d)

Torn(c) == torn' = (torn \/ \E d \in Calls \ {c} : Writing(d))

Show(c, p) == page' = [page EXCEPT ![TabOf[c]] = p]

Done(c) == call' = [call EXCEPT ![c] = NoCall]

-----------------------------------------------------------------------------
(***************************************************************************)
(* Sending                                                                 *)
(***************************************************************************)

(* The interceptor reads the token as the request leaves. *)
Send(c, kind, u) ==
  /\ call[c].at = "idle"
  /\ Runs(c)
  /\ call' = [call EXCEPT ![c] = [kind |-> kind, at |-> "sent", sent |-> token,
                                  user |-> u, answer |-> "none"]]
  /\ UNCHANGED <<token, identity, page, issued, owner, expired, torn>>

Login(c, u) == page[TabOf[c]] = "login" /\ Send(c, "login", u)

(* Authenticated asks check whenever it is shown. *)
Check(c) == token # NoToken /\ Send(c, "check", NoUser)

CheckNothing(c) ==
  /\ call[c].at = "idle"
  /\ Runs(c)
  /\ token = NoToken
  /\ Show(c, "login")
  /\ UNCHANGED <<token, identity, call, issued, owner, expired, torn>>

(* A list, a form or a save, through the data provider. *)
Data(c) == page[TabOf[c]] = "admin" /\ Send(c, "data", NoUser)

-----------------------------------------------------------------------------
(***************************************************************************)
(* clearSession: the token, then the identity                              *)
(***************************************************************************)

DropToken(c, kind, answer) ==
  /\ Runs(c)
  /\ token' = NoToken
  /\ Torn(c)
  /\ call' = [call EXCEPT ![c] = [call[c] EXCEPT !.kind = kind, !.at = "dropping", !.answer = answer]]
  /\ UNCHANGED <<identity, page, issued, owner, expired>>

(* An error that ended the session makes the framework call logout, too.   *)
Dropped(c) == call' = [call EXCEPT ![c] =
  IF call[c].kind = "data" THEN [call[c] EXCEPT !.at = "leaving"] ELSE NoCall]

(* Slip: the identity stays. *)
DropNothing(c) ==
  /\ call[c].at = "dropping"
  /\ Show(c, "login")
  /\ Dropped(c)
  /\ UNCHANGED <<token, identity, issued, owner, expired, torn>>

DropIdentity(c) ==
  /\ call[c].at = "dropping"
  /\ identity' = NoUser
  /\ Show(c, "login")
  /\ Dropped(c)
  /\ UNCHANGED <<token, issued, owner, expired, torn>>

Logout(c) ==
  /\ call[c].at = "idle"
  /\ page[TabOf[c]] = "admin"
  /\ DropToken(c, "logout", "none")

LogoutAgain(c) ==
  /\ call[c].at = "leaving"
  /\ DropToken(c, "out", call[c].answer)

-----------------------------------------------------------------------------
(***************************************************************************)
(* Answers, whenever they come                                             *)
(***************************************************************************)

Refused(c) == call[c].sent = NoToken \/ call[c].sent \in expired

Ends(c, kind) ==
  /\ call[c].at = "sent"
  /\ call[c].kind = kind
  /\ Runs(c)

(* AuthController.login takes no account of the token that came along. *)
LoginAnswered(c) ==
  /\ Ends(c, "login")
  /\ issued < MaxLogins
  /\ issued' = issued + 1
  /\ owner' = [owner EXCEPT ![issued + 1] = call[c].user]
  /\ token' = issued + 1
  /\ Torn(c)
  /\ call' = [call EXCEPT ![c] = [call[c] EXCEPT !.at = "saving"]]
  /\ UNCHANGED <<identity, page, expired>>

SaveIdentity(c) ==
  /\ call[c].at = "saving"
  /\ identity' = call[c].user
  /\ Show(c, "admin")
  /\ Done(c)
  /\ UNCHANGED <<token, issued, owner, expired, torn>>

(* Refused, unreachable or answered with something that is no session. *)
LoginFails(c) ==
  /\ Ends(c, "login")
  /\ Done(c)
  /\ UNCHANGED <<token, identity, page, issued, owner, expired, torn>>

CheckAnswered(c) ==
  /\ Ends(c, "check")
  /\ ~Refused(c)
  /\ Show(c, "admin")
  /\ Done(c)
  /\ UNCHANGED <<token, identity, issued, owner, expired, torn>>

(* Whatever went wrong, the five seconds of the timeout included. *)
CheckFails(c) ==
  /\ Ends(c, "check")
  /\ DropToken(c, "check", IF Refused(c) THEN "refused" ELSE "unreachable")

DataAnswered(c) ==
  /\ Ends(c, "data")
  /\ ~Refused(c)
  /\ Done(c)
  /\ UNCHANGED <<token, identity, page, issued, owner, expired, torn>>

(* onError with 401. *)
DataRefused(c) ==
  /\ Ends(c, "data")
  /\ Refused(c)
  /\ DropToken(c, "data", "refused")

(* Slip: any error ends the session. *)
DataFailsHard(c) == Ends(c, "data") /\ DropToken(c, "data", "none")

(* onError with another status, or with none. *)
DataFails(c) ==
  /\ Ends(c, "data")
  /\ Done(c)
  /\ UNCHANGED <<token, identity, page, issued, owner, expired, torn>>

Expire(k) ==
  /\ k <= issued
  /\ k \notin expired
  /\ expired' = expired \cup {k}
  /\ UNCHANGED <<token, identity, page, call, issued, owner, torn>>

CallStep(c) ==
  \/ \E u \in Users : Login(c, u)
  \/ Check(c) \/ CheckNothing(c) \/ Data(c) \/ Logout(c) \/ LogoutAgain(c)
  \/ LoginAnswered(c) \/ SaveIdentity(c) \/ LoginFails(c)
  \/ CheckAnswered(c) \/ CheckFails(c)
  \/ DataAnswered(c) \/ DataRefused(c) \/ DataFails(c)
  \/ DropIdentity(c)

SessionNext ==
  \/ \E c \in Calls : CallStep(c)
  \/ \E k \in Tokens : Expire(k)

SessionSpec == SessionInit /\ [][SessionNext]_sessionVars

-----------------------------------------------------------------------------
(***************************************************************************)
(* Properties                                                              *)
(***************************************************************************)

CallRecord == [kind : {"none", "login", "check", "data", "logout", "out"},
               at : {"idle", "sent", "saving", "dropping", "leaving"},
               sent : {NoToken} \cup Tokens, user : Users \cup {NoUser},
               answer : {"none", "refused", "unreachable"}]

(* What is stored, and what calls carry, is a token the API gave out, or   *)
(* none: never what a login that failed was answered with (authProvider).  *)
SessionTypeOK ==
  /\ token \in 0..issued
  /\ identity \in Users \cup {NoUser}
  /\ page \in [Tabs -> {"login", "admin"}]
  /\ call \in [Calls -> CallRecord]
  /\ \A c \in Calls : call[c].sent <= issued
  /\ issued \in 0..MaxLogins
  /\ owner \in [Tokens -> Users \cup {NoUser}]
  /\ expired \subseteq 1..issued
  /\ torn \in BOOLEAN

(* A session that the API would still accept is cleared by a logout, by a  *)
(* check that got no answer in time, or by the answer to a call that was   *)
(* sent before that session's login (clearSession, authProvider.ts).       *)
SessionEndsForCause ==
  [][token # NoToken /\ token \notin expired /\ token' = NoToken =>
       \E c \in Calls :
         /\ call'[c].at = "dropping" /\ ~Writing(c)
         /\ \/ call'[c].kind = "logout"
            \/ call'[c].kind = "check" /\ call'[c].answer = "unreachable"
            \/ call'[c].sent # token]_sessionVars

(* The identity that is shown is that of the token the calls carry, unless *)
(* two tabs have written their sessions into each other: token and         *)
(* identity are two entries (setStoredString, setStoredJson).              *)
IdentityIsTokens ==
  ~torn /\ (\A c \in Calls : ~Writing(c)) =>
    identity = IF token = NoToken THEN NoUser ELSE owner[token]
=============================================================================
