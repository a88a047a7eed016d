-------------------------------- MODULE CmsProofs --------------------------------
(***************************************************************************)
(* Theorems about what an editor of the CMS meets: the session that the    *)
(* tabs share, the form of a record, and the form of a video with the      *)
(* transactions that store its attachments.  For every number of tabs,     *)
(* calls, users and logins; every set of videos, media fields and uploads, *)
(* and every number of calls that may be out at once; every number of      *)
(* editors and items.  The three share no variable (MCCmsEditor).          *)
(***************************************************************************)
EXTENDS AdminSession, RecordForm, VideoForm, TLAPS

-----------------------------------------------------------------------------
(***************************************************************************)
(* The session                                                             *)
(***************************************************************************)

(* A session whose end is under way, by a call that was refused: it was    *)
(* refused for its token, which is no better since.                        *)
EndsRefused ==
  \A c \in Calls :
    call[c].at = "leaving" \/ (call[c].at = "dropping" /\ call[c].kind = "data") => Refused(c)

(* One writes at a time, and what it has not written yet fits what it has. *)
WritesFit ==
  ~torn =>
    /\ \A c, d \in Calls : Writing(c) /\ Writing(d) => c = d
    /\ \A c \in Calls : call[c].at = "saving" => token # NoToken /\ owner[token] = call[c].user
    /\ \A c \in Calls : call[c].at = "dropping" => token = NoToken

SessionInv == SessionTypeOK /\ EndsRefused /\ WritesFit /\ IdentityIsTokens

(* Constants of the module, as facts about its sets. *)
LEMMA SessionConstants ==
  /\ MaxLogins \in Nat /\ Tokens = 1..MaxLogins
  /\ NoUser \notin Users /\ TabOf \in [Calls -> Tabs] /\ NoToken = 0
  BY TabAssumption, UserAssumption, LoginsAssumption DEF Tokens, NoToken

(* Another call in a call's place keeps the types. *)
LEMMA CallTyped ==
  ASSUME SessionTypeOK, NEW c \in Calls, NEW r \in CallRecord, r.sent <= issued,
         call' = [call EXCEPT ![c] = r], issued' = issued \/ issued' = issued + 1
  PROVE  /\ call' \in [Calls -> CallRecord]
         /\ \A d \in Calls : call'[d].sent <= issued'
<1>1. /\ \A d \in Calls : call[d] \in CallRecord /\ call[d].sent \in Nat /\ call[d].sent <= issued
      /\ issued \in Nat
  BY SessionConstants DEF SessionTypeOK, CallRecord
<1>2. r.sent \in Nat
  BY SessionConstants DEF CallRecord
<1>3. \A d \in Calls : call'[d] = IF d = c THEN r ELSE call[d]
  BY DEF SessionTypeOK
<1>4. call' \in [Calls -> CallRecord]
  BY <1>1, <1>3 DEF SessionTypeOK
<1>5. \A d \in Calls : call'[d].sent <= issued'
  BY <1>1, <1>2, <1>3
<1>6. QED
  BY <1>4, <1>5

LEMMA NoCallTyped == NoCall \in CallRecord /\ NoCall.sent = 0
  BY SessionConstants DEF NoCall, CallRecord

(* A page in its place keeps its type. *)
LEMMA PageTyped ==
  ASSUME SessionTypeOK, NEW c \in Calls, NEW p \in {"login", "admin"}, Show(c, p)
  PROVE  page' \in [Tabs -> {"login", "admin"}]
  BY SessionConstants DEF SessionTypeOK, Show

LEMMA SessionInitHolds == SessionInit => SessionInv
<1> SUFFICES ASSUME SessionInit PROVE SessionInv
  OBVIOUS
<1>1. NoCall \in CallRecord /\ NoCall.sent = 0 /\ NoCall.at = "idle"
  BY NoCallTyped DEF NoCall
<1>2. \A c \in Calls : call[c] = NoCall
  BY DEF SessionInit
<1>3. SessionTypeOK
  <2>1. call \in [Calls -> CallRecord] /\ \A c \in Calls : call[c].sent <= 0
    BY <1>1 DEF SessionInit
  <2>2. token \in 0..0 /\ issued \in 0..MaxLogins /\ issued = 0 /\ expired \subseteq 1..issued
    BY SessionConstants DEF SessionInit
  <2>3. QED
    BY <2>1, <2>2, SessionConstants DEF SessionInit, SessionTypeOK
<1>4. EndsRefused
  BY <1>1, <1>2 DEF EndsRefused
<1>5. WritesFit
  BY <1>1, <1>2 DEF WritesFit, Writing
<1>6. IdentityIsTokens
  BY DEF SessionInit, IdentityIsTokens
<1>7. QED
  BY <1>3, <1>4, <1>5, <1>6 DEF SessionInv

-----------------------------------------------------------------------------

(* Types: a call that is sent carries the token that is stored. *)
LEMMA SendTyped ==
  ASSUME SessionTypeOK, NEW c \in Calls, NEW k \in {"login", "check", "data"},
         NEW u \in Users \cup {NoUser}, Send(c, k, u)
  PROVE  SessionTypeOK'
<1> DEFINE r == [kind |-> k, at |-> "sent", sent |-> token, user |-> u, answer |-> "none"]
<1>1. token \in {NoToken} \cup Tokens /\ token <= issued /\ issued \in Nat
  BY SessionConstants DEF SessionTypeOK
<1>2. r \in CallRecord /\ r.sent <= issued
  BY <1>1 DEF CallRecord
<1>3. call' = [call EXCEPT ![c] = r] /\ UNCHANGED <<token, identity, page, issued, owner, expired, torn>>
  BY DEF Send
<1> HIDE DEF r
<1>4. /\ call' \in [Calls -> CallRecord]
      /\ \A d \in Calls : call'[d].sent <= issued'
  BY <1>1, <1>2, <1>3, CallTyped
<1>5. QED
  BY <1>3, <1>4 DEF SessionTypeOK

LEMMA DropTyped ==
  ASSUME SessionTypeOK, NEW c \in Calls, NEW k \in {"check", "data", "logout", "out"},
         NEW w \in {"none", "refused", "unreachable"}, DropToken(c, k, w)
  PROVE  SessionTypeOK'
<1> DEFINE r == [call[c] EXCEPT !.kind = k, !.at = "dropping", !.answer = w]
<1>1. call[c] \in CallRecord /\ call[c].sent <= issued /\ issued \in Nat
  BY SessionConstants DEF SessionTypeOK
<1>2. r \in CallRecord /\ r.sent <= issued
  BY <1>1 DEF CallRecord
<1>3. /\ call' = [call EXCEPT ![c] = r]
      /\ UNCHANGED <<identity, page, issued, owner, expired>>
      /\ token' = NoToken /\ torn' \in BOOLEAN
  BY DEF DropToken, Torn, SessionTypeOK
<1> HIDE DEF r
<1>4. /\ call' \in [Calls -> CallRecord]
      /\ \A d \in Calls : call'[d].sent <= issued'
  BY <1>1, <1>2, <1>3, CallTyped
<1>5. token' \in 0..issued'
  BY <1>1, <1>3, SessionConstants
<1>6. QED
  BY <1>3, <1>4, <1>5 DEF SessionTypeOK

(* A call that is over, whether its tab shows another page or not. *)
LEMMA DoneTyped ==
  ASSUME SessionTypeOK, NEW c \in Calls, Done(c),
         UNCHANGED <<token, owner, expired, issued, torn>>,
         page' \in [Tabs -> {"login", "admin"}], identity' \in Users \cup {NoUser}
  PROVE  SessionTypeOK'
<1>1. NoCall \in CallRecord /\ NoCall.sent <= issued /\ issued \in Nat
  BY NoCallTyped, SessionConstants DEF SessionTypeOK
<1>2. /\ call' \in [Calls -> CallRecord]
      /\ \A d \in Calls : call'[d].sent <= issued'
  BY <1>1, CallTyped DEF Done
<1>3. QED
  BY <1>2 DEF SessionTypeOK

LEMMA AnswerTyped ==
  ASSUME SessionTypeOK, NEW c \in Calls,
         LoginAnswered(c) \/ SaveIdentity(c) \/ LoginFails(c) \/ CheckAnswered(c)
           \/ DataAnswered(c) \/ DataFails(c)
  PROVE  SessionTypeOK'
<1>1. CASE LoginAnswered(c)
  <2> DEFINE r == [call[c] EXCEPT !.at = "saving"]
  <2>1. call[c] \in CallRecord /\ call[c].sent <= issued /\ issued \in 0..MaxLogins /\ issued \in Nat
    BY SessionConstants DEF SessionTypeOK
  <2>2. r \in CallRecord /\ r.sent <= issued
    BY <2>1 DEF CallRecord
  <2>3. /\ call' = [call EXCEPT ![c] = r] /\ issued' = issued + 1 /\ issued < MaxLogins
        /\ token' = issued + 1 /\ owner' = [owner EXCEPT ![issued + 1] = call[c].user]
        /\ torn' \in BOOLEAN /\ UNCHANGED <<identity, page, expired>>
    BY <1>1 DEF LoginAnswered, Torn, SessionTypeOK
  <2> HIDE DEF r
  <2>4. /\ call' \in [Calls -> CallRecord]
        /\ \A d \in Calls : call'[d].sent <= issued'
    BY <2>1, <2>2, <2>3, CallTyped
  <2>5. owner' \in [Tokens -> Users \cup {NoUser}]
    BY <2>1, <2>3 DEF SessionTypeOK, CallRecord
  <2>6. issued' \in 0..MaxLogins /\ token' \in 0..issued' /\ expired' \subseteq 1..issued'
    BY <2>1, <2>3, SessionConstants DEF SessionTypeOK
  <2>7. QED
    BY <2>3, <2>4, <2>5, <2>6 DEF SessionTypeOK
<1>2. CASE SaveIdentity(c)
  <2>1. call[c].user \in Users \cup {NoUser}
    BY DEF SessionTypeOK, CallRecord
  <2>2. QED
    BY <1>2, <2>1, PageTyped, DoneTyped DEF SaveIdentity
<1>3. CASE CheckAnswered(c)
  BY <1>3, PageTyped, DoneTyped DEF CheckAnswered, SessionTypeOK
<1>4. CASE LoginFails(c) \/ DataAnswered(c) \/ DataFails(c)
  BY <1>4, DoneTyped DEF LoginFails, DataAnswered, DataFails, SessionTypeOK
<1>5. QED
  BY <1>1, <1>2, <1>3, <1>4

LEMMA DropIdentityTyped ==
  ASSUME SessionTypeOK, NEW c \in Calls, DropIdentity(c) PROVE SessionTypeOK'
<1> DEFINE r == IF call[c].kind = "data" THEN [call[c] EXCEPT !.at = "leaving"] ELSE NoCall
<1>1. call[c] \in CallRecord /\ call[c].sent <= issued /\ issued \in Nat
  BY SessionConstants DEF SessionTypeOK
<1>2. r \in CallRecord /\ r.sent <= issued
  BY <1>1, NoCallTyped, SessionConstants DEF CallRecord
<1>3. /\ call' = [call EXCEPT ![c] = r] /\ identity' = NoUser
      /\ UNCHANGED <<token, issued, owner, expired, torn>>
  BY DEF DropIdentity, Dropped
<1>4. page' \in [Tabs -> {"login", "admin"}]
  BY PageTyped DEF DropIdentity
<1> HIDE DEF r
<1>5. /\ call' \in [Calls -> CallRecord]
      /\ \A d \in Calls : call'[d].sent <= issued'
  BY <1>1, <1>2, <1>3, CallTyped
<1>6. QED
  BY <1>3, <1>4, <1>5 DEF SessionTypeOK

LEMMA ExpireTyped ==
  ASSUME SessionTypeOK, NEW k \in Tokens, Expire(k) PROVE SessionTypeOK'
<1>1. k \in 1..issued
  BY SessionConstants DEF Expire, SessionTypeOK
<1>2. expired' \subseteq 1..issued'
  BY <1>1 DEF Expire, SessionTypeOK
<1>3. QED
  BY <1>2 DEF Expire, SessionTypeOK

LEMMA NothingTyped ==
  ASSUME SessionTypeOK, NEW c \in Calls, CheckNothing(c) PROVE SessionTypeOK'
  BY PageTyped DEF CheckNothing, SessionTypeOK

(* A step that ends a session, with what it leaves in its call. *)
LEMMA DropsTyped ==
  ASSUME SessionTypeOK, NEW c \in Calls, Logout(c) \/ LogoutAgain(c) \/ CheckFails(c) \/ DataRefused(c)
  PROVE  SessionTypeOK'
<1>1. CASE Logout(c)
  BY <1>1, DropTyped DEF Logout
<1>2. CASE LogoutAgain(c)
  BY <1>2, DropTyped DEF LogoutAgain, SessionTypeOK, CallRecord
<1>3. CASE CheckFails(c)
  BY <1>3, DropTyped DEF CheckFails
<1>4. CASE DataRefused(c)
  BY <1>4, DropTyped DEF DataRefused
<1>5. QED
  BY <1>1, <1>2, <1>3, <1>4

LEMMA NextTyped == SessionTypeOK /\ SessionNext => SessionTypeOK'
<1> SUFFICES ASSUME SessionTypeOK, SessionNext PROVE SessionTypeOK'
  OBVIOUS
<1>1. ASSUME NEW c \in Calls, CallStep(c) PROVE SessionTypeOK'
  <2>1. CASE \E u \in Users : Login(c, u)
    BY <2>1, SendTyped DEF Login
  <2>2. CASE Check(c) \/ Data(c)
    BY <2>2, SendTyped DEF Check, Data
  <2>3. QED
    BY <1>1, <2>1, <2>2, NothingTyped, DropsTyped, AnswerTyped, DropIdentityTyped DEF CallStep
<1>2. QED
  BY <1>1, ExpireTyped DEF SessionNext

-----------------------------------------------------------------------------

(* What the end of a session leaves in its call. *)
LEMMA Drops ==
  ASSUME SessionTypeOK, NEW c \in Calls, NEW k, NEW w, DropToken(c, k, w)
  PROVE  /\ \A d \in Calls \ {c} : call'[d] = call[d]
         /\ call'[c].at = "dropping" /\ call'[c].kind = k /\ call'[c].answer = w
         /\ call'[c].sent = call[c].sent
         /\ token' = NoToken /\ expired' = expired /\ identity' = identity /\ owner' = owner
         /\ torn' = (torn \/ \E d \in Calls \ {c} : Writing(d))
  BY DEF DropToken, Torn, SessionTypeOK, CallRecord

(* The steps that end a session, and why they do. *)
LEMMA DropCauses ==
  ASSUME SessionTypeOK, EndsRefused, NEW c \in Calls,
         Logout(c) \/ LogoutAgain(c) \/ CheckFails(c) \/ DataRefused(c)
  PROVE  \E k \in {"check", "data", "logout", "out"}, w \in {"none", "refused", "unreachable"} :
           /\ DropToken(c, k, w)
           /\ k = "logout" \/ (k = "check" /\ w = "unreachable") \/ Refused(c)
           /\ call[c].at \notin {"saving", "dropping"}
<1>1. CASE Logout(c)
  BY <1>1 DEF Logout
<1>2. CASE LogoutAgain(c)
  <2>1. call[c].answer \in {"none", "refused", "unreachable"} /\ Refused(c)
    BY <1>2 DEF LogoutAgain, EndsRefused, SessionTypeOK, CallRecord
  <2>2. QED
    BY <1>2, <2>1 DEF LogoutAgain
<1>3. CASE CheckFails(c)
  BY <1>3 DEF CheckFails, Ends
<1>4. CASE DataRefused(c)
  BY <1>4 DEF DataRefused, Ends
<1>5. QED
  BY <1>1, <1>2, <1>3, <1>4

(* The other steps: what they do to a call, and that they leave the token. *)
LEMMA KeepsToken ==
  ASSUME SessionTypeOK, NEW c \in Calls,
         (\E u \in Users : Login(c, u)) \/ Check(c) \/ Data(c) \/ CheckNothing(c)
           \/ SaveIdentity(c) \/ LoginFails(c) \/ CheckAnswered(c) \/ DataAnswered(c) \/ DataFails(c)
           \/ DropIdentity(c)
  PROVE  /\ token' = token /\ owner' = owner /\ expired' = expired /\ torn' = torn
         /\ \A d \in Calls \ {c} : call'[d] = call[d]
         /\ call'[c].at \in {"idle", "sent", "leaving"} \/ call'[c] = call[c]
<1>1. CASE \E u \in Users : Login(c, u)
  BY <1>1 DEF Login, Send, SessionTypeOK
<1>2. CASE Check(c) \/ Data(c)
  BY <1>2 DEF Check, Data, Send, SessionTypeOK
<1>3. CASE CheckNothing(c)
  BY <1>3 DEF CheckNothing
<1>4. CASE SaveIdentity(c) \/ LoginFails(c) \/ CheckAnswered(c) \/ DataAnswered(c) \/ DataFails(c)
  BY <1>4 DEF SaveIdentity, LoginFails, CheckAnswered, DataAnswered, DataFails, Done, NoCall, SessionTypeOK
<1>5. CASE DropIdentity(c)
  BY <1>5 DEF DropIdentity, Dropped, NoCall, SessionTypeOK, CallRecord
<1>6. QED
  BY <1>1, <1>2, <1>3, <1>4, <1>5

LEMMA NextRefused == SessionTypeOK /\ EndsRefused /\ SessionNext => EndsRefused'
<1> SUFFICES ASSUME SessionTypeOK, EndsRefused, SessionNext,
                    NEW d \in Calls,
                    call'[d].at = "leaving" \/ (call'[d].at = "dropping" /\ call'[d].kind = "data")
             PROVE  Refused(d)'
  BY DEF EndsRefused
<1>1. CASE \E k \in Tokens : Expire(k)
  BY <1>1 DEF Expire, EndsRefused, Refused
<1>2. ASSUME NEW c \in Calls, CallStep(c) PROVE Refused(d)'
  <2>1. CASE Logout(c) \/ LogoutAgain(c) \/ CheckFails(c) \/ DataRefused(c)
    <3>1. PICK k \in {"check", "data", "logout", "out"}, w \in {"none", "refused", "unreachable"} :
            /\ DropToken(c, k, w)
            /\ k = "logout" \/ (k = "check" /\ w = "unreachable") \/ Refused(c)
      BY <2>1, DropCauses
    <3>2. CASE d = c
      <4>1. k = "data"
        BY <3>1, <3>2, Drops
      <4>2. Refused(c)
        BY <3>1, <4>1
      <4>3. QED
        BY <3>1, <3>2, <4>2, Drops DEF Refused
    <3>3. CASE d # c
      BY <3>1, <3>3, Drops DEF Refused, EndsRefused
    <3>4. QED
      BY <3>2, <3>3
  <2>2. CASE LoginAnswered(c)
    <3>1. d # c /\ call'[d] = call[d] /\ expired' = expired
      BY <2>2 DEF LoginAnswered, SessionTypeOK, CallRecord
    <3>2. QED
      BY <3>1 DEF EndsRefused, Refused
  <2>3. CASE DropIdentity(c) /\ d = c
    <3>1. call[c].kind = "data" /\ call'[c].sent = call[c].sent /\ expired' = expired
      BY <2>3 DEF DropIdentity, Dropped, NoCall, SessionTypeOK, CallRecord
    <3>2. QED
      BY <2>3, <3>1 DEF EndsRefused, Refused, DropIdentity
  <2>4. CASE d = c /\ ((\E u \in Users : Login(c, u)) \/ Check(c) \/ Data(c) \/ SaveIdentity(c)
                        \/ LoginFails(c) \/ CheckAnswered(c) \/ DataAnswered(c) \/ DataFails(c))
    <3>1. call'[c].at \in {"sent", "idle"}
      BY <2>4 DEF Login, Check, Data, Send, SaveIdentity, LoginFails, CheckAnswered, DataAnswered, DataFails,
                  Done, NoCall, SessionTypeOK
    <3>2. QED
      BY <2>4, <3>1
  <2>5. CASE CheckNothing(c)
    BY <2>5 DEF CheckNothing, EndsRefused, Refused
  <2>6. CASE d # c /\ ~(Logout(c) \/ LogoutAgain(c) \/ CheckFails(c) \/ DataRefused(c) \/ LoginAnswered(c))
    <3>1. call'[d] = call[d] /\ expired' = expired
      BY <1>2, <2>6, KeepsToken DEF CallStep
    <3>2. QED
      BY <3>1 DEF EndsRefused, Refused
  <2>7. QED
    BY <1>2, <2>1, <2>2, <2>3, <2>4, <2>5, <2>6 DEF CallStep
<1>3. QED
  BY <1>1, <1>2 DEF SessionNext

-----------------------------------------------------------------------------

(* Token and identity                                                      *)

(* When a session is started or ended and nobody else was writing, one is. *)
LEMMA WriteBegins ==
  ASSUME SessionTypeOK, NEW c \in Calls, ~torn',
         torn' = (torn \/ \E d \in Calls \ {c} : Writing(d)),
         \A d \in Calls \ {c} : call'[d] = call[d],
         call'[c].at \in {"saving", "dropping"},
         call'[c].at = "saving" => token' # NoToken /\ owner'[token'] = call'[c].user,
         call'[c].at = "dropping" => token' = NoToken
  PROVE  WritesFit' /\ IdentityIsTokens'
<1>1. \A d \in Calls \ {c} : ~Writing(d)'
  BY DEF Writing
<1>2. Writing(c)'
  BY DEF Writing
<1>3. \A d \in Calls : d # c => call'[d].at \notin {"saving", "dropping"}
  BY <1>1 DEF Writing
<1>4. WritesFit'
  BY <1>1, <1>2, <1>3 DEF WritesFit
<1>5. QED
  BY <1>2, <1>4 DEF IdentityIsTokens

(* When neither is written, and nobody begins to write, all stays.         *)
LEMMA WriteGoesOn ==
  ASSUME WritesFit, IdentityIsTokens, UNCHANGED <<token, owner, torn, identity>>,
         \A d \in Calls : call'[d].at \in {"saving", "dropping"} => call'[d] = call[d],
         \A d \in Calls : call[d].at \in {"saving", "dropping"} => call'[d] = call[d]
  PROVE  WritesFit' /\ IdentityIsTokens'
<1>1. \A d \in Calls : Writing(d)' = Writing(d)
  BY DEF Writing
<1>2. WritesFit'
  BY <1>1 DEF WritesFit
<1>3. IdentityIsTokens'
  BY <1>1 DEF IdentityIsTokens
<1>4. QED
  BY <1>2, <1>3

(* When the one who writes is done, the identity is the token's.           *)
LEMMA WriteEnds ==
  ASSUME WritesFit, NEW c \in Calls, Writing(c), UNCHANGED <<token, owner, torn>>,
         \A d \in Calls \ {c} : call'[d] = call[d], ~Writing(c)',
         call[c].at = "saving" => identity' = call[c].user,
         call[c].at = "dropping" => identity' = NoUser
  PROVE  WritesFit' /\ IdentityIsTokens'
<1> SUFFICES ASSUME ~torn' PROVE WritesFit' /\ IdentityIsTokens'
  BY DEF WritesFit, IdentityIsTokens
<1>1. \A d \in Calls : ~Writing(d)'
  BY DEF WritesFit, Writing
<1>2. \A d \in Calls : call'[d].at \notin {"saving", "dropping"}
  BY <1>1 DEF Writing
<1>3. WritesFit'
  BY <1>1, <1>2 DEF WritesFit
<1>4. identity' = IF token' = NoToken THEN NoUser ELSE owner'[token']
  BY DEF WritesFit, Writing
<1>5. QED
  BY <1>3, <1>4 DEF IdentityIsTokens

LEMMA NextFits == SessionInv /\ SessionNext => WritesFit' /\ IdentityIsTokens'
<1> SUFFICES ASSUME SessionInv, SessionNext PROVE WritesFit' /\ IdentityIsTokens'
  OBVIOUS
<1> USE DEF SessionInv
<1>1. CASE \E k \in Tokens : Expire(k)
  BY <1>1, WriteGoesOn DEF Expire
<1>2. ASSUME NEW c \in Calls, CallStep(c) PROVE WritesFit' /\ IdentityIsTokens'
  <2>1. CASE Logout(c) \/ LogoutAgain(c) \/ CheckFails(c) \/ DataRefused(c)
    <3>1. PICK k \in {"check", "data", "logout", "out"}, w \in {"none", "refused", "unreachable"} :
            DropToken(c, k, w)
      BY <2>1, DropCauses
    <3>2. CASE torn'
      BY <3>2 DEF WritesFit, IdentityIsTokens
    <3>3. CASE ~torn'
      BY <3>1, <3>3, Drops, WriteBegins
    <3>4. QED
      BY <3>2, <3>3
  <2>2. CASE LoginAnswered(c)
    <3>1. /\ token' = issued + 1 /\ issued + 1 \in Tokens
          /\ owner' = [owner EXCEPT ![issued + 1] = call[c].user]
          /\ \A d \in Calls \ {c} : call'[d] = call[d]
          /\ call'[c].at = "saving" /\ call'[c].user = call[c].user
          /\ torn' = (torn \/ \E d \in Calls \ {c} : Writing(d))
      BY <2>2, SessionConstants DEF LoginAnswered, Torn, SessionTypeOK, CallRecord
    <3>2. token' # NoToken /\ owner'[token'] = call'[c].user
      BY <3>1, SessionConstants DEF SessionTypeOK
    <3>3. CASE torn'
      BY <3>3 DEF WritesFit, IdentityIsTokens
    <3>4. CASE ~torn'
      BY <3>1, <3>2, <3>4, WriteBegins
    <3>5. QED
      BY <3>3, <3>4
  <2>3. CASE SaveIdentity(c)
    <3>1. call'[c].at = "idle" /\ \A d \in Calls \ {c} : call'[d] = call[d]
      BY <2>3 DEF SaveIdentity, Done, NoCall, SessionTypeOK
    <3>2. QED
      BY <2>3, <3>1, WriteEnds DEF SaveIdentity, Writing
  <2>4. CASE DropIdentity(c)
    <3>1. call'[c].at \in {"idle", "leaving"} /\ \A d \in Calls \ {c} : call'[d] = call[d]
      BY <2>4 DEF DropIdentity, Dropped, NoCall, SessionTypeOK, CallRecord
    <3>2. QED
      BY <2>4, <3>1, WriteEnds DEF DropIdentity, Writing
  <2>5. CASE CheckNothing(c)
    BY <2>5, WriteGoesOn DEF CheckNothing
  <2>6. CASE \/ \E u \in Users : Login(c, u)
             \/ Check(c) \/ Data(c) \/ LoginFails(c) \/ CheckAnswered(c) \/ DataAnswered(c) \/ DataFails(c)
    <3>1. /\ call[c].at \in {"idle", "sent"} /\ call'[c].at \in {"idle", "sent"}
          /\ \A d \in Calls \ {c} : call'[d] = call[d]
          /\ UNCHANGED <<token, owner, torn, identity>>
      BY <2>6 DEF Login, Check, Data, Send, LoginFails, CheckAnswered, DataAnswered, DataFails, Ends,
                  Done, NoCall, SessionTypeOK
    <3>2. QED
      BY <3>1, WriteGoesOn
  <2>7. QED
    BY <1>2, <2>1, <2>2, <2>3, <2>4, <2>5, <2>6 DEF CallStep
<1>3. QED
  BY <1>1, <1>2 DEF SessionNext

LEMMA StutterHolds == SessionInv /\ UNCHANGED sessionVars => SessionInv'
  BY DEF SessionInv, SessionTypeOK, EndsRefused, WritesFit, IdentityIsTokens, Writing, Refused, sessionVars

LEMMA SessionNextHolds == SessionInv /\ [SessionNext]_sessionVars => SessionInv'
  BY NextTyped, NextRefused, NextFits, StutterHolds DEF SessionInv

THEOREM SessionHolds == SessionSpec => []SessionInv
  BY SessionInitHolds, SessionNextHolds, PTL DEF SessionSpec

(* What is stored is a token the API gave out, and calls carry such.       *)
THEOREM SessionTyped == SessionSpec => []SessionTypeOK
  BY SessionHolds, PTL DEF SessionInv

(* Unless two tabs wrote at once, the identity is that of the token.       *)
THEOREM IdentityFollows == SessionSpec => []IdentityIsTokens
  BY SessionHolds, PTL DEF SessionInv

(* A session the API would accept ends by a logout, by a check without an  *)
(* answer, or by the answer to a call of an earlier session.               *)
THEOREM EndsForCause == SessionSpec => SessionEndsForCause
<1>1. ASSUME SessionInv, [SessionNext]_sessionVars,
             token # NoToken, token \notin expired, token' = NoToken
      PROVE  \E c \in Calls :
               /\ call'[c].at = "dropping" /\ ~Writing(c)
               /\ \/ call'[c].kind = "logout"
                  \/ call'[c].kind = "check" /\ call'[c].answer = "unreachable"
                  \/ call'[c].sent # token
  <2>1. SessionNext
    BY <1>1 DEF sessionVars
  <2>2. ~\E k \in Tokens : Expire(k)
    BY <1>1 DEF Expire
  <2>3. PICK c \in Calls : CallStep(c)
    BY <2>1, <2>2 DEF SessionNext
  <2>4. ~LoginAnswered(c)
    BY <1>1, SessionConstants DEF LoginAnswered, SessionInv, SessionTypeOK
  <2>5. Logout(c) \/ LogoutAgain(c) \/ CheckFails(c) \/ DataRefused(c)
    BY <1>1, <2>3, <2>4, KeepsToken DEF CallStep, SessionInv
  <2>6. PICK k \in {"check", "data", "logout", "out"}, w \in {"none", "refused", "unreachable"} :
          /\ DropToken(c, k, w)
          /\ k = "logout" \/ (k = "check" /\ w = "unreachable") \/ Refused(c)
          /\ call[c].at \notin {"saving", "dropping"}
    BY <1>1, <2>5, DropCauses DEF SessionInv
  <2>7. /\ call'[c].at = "dropping" /\ call'[c].kind = k /\ call'[c].answer = w
        /\ call'[c].sent = call[c].sent
    BY <1>1, <2>6, Drops DEF SessionInv
  <2>8. Refused(c) => call'[c].sent # token
    BY <1>1, <2>7 DEF Refused
  <2>9. QED
    BY <2>6, <2>7, <2>8 DEF Writing
<1>2. QED
  BY <1>1, SessionHolds, SessionNextHolds, PTL DEF SessionSpec, SessionEndsForCause

-----------------------------------------------------------------------------
(***************************************************************************)
(* The form of a record                                                    *)
(***************************************************************************)

Fit(f) == (IF f = "stream" THEN Names ELSE Media) \cup {Empty}

(* What a save has taken is what is still shown, but for fields set since. *)
ValuesInv ==
  /\ open \in BOOLEAN
  /\ value \in [Fields -> Values] /\ stored \in [Fields -> Values] /\ save \in SaveRecord
  /\ touched \subseteq Fields
  /\ \A f \in Fields : value[f] \in Fit(f) /\ stored[f] \in Fit(f) /\ save.taken[f] \in Fit(f)
  /\ save.at = "sent" => open /\ \A f \in Fields \ touched : save.taken[f] = value[f]

MediaInv ==
  /\ isUploading \in BOOLEAN /\ posting \in MediaFields \cup {NoField}
  /\ isUploading => posting # NoField

StreamTyped ==
  /\ streamer \subseteq Names /\ videos \subseteq Names /\ excused \subseteq Names
  /\ picked \in Names \cup {Empty}
  /\ list \in [Lists -> ListRecord] /\ upload \in [Uploads -> UploadRecord]
  /\ \A u \in Uploads : upload[u].at # "none" => upload[u].name \in Names
  /\ loading \in BOOLEAN /\ uploading \in BOOLEAN

StreamBusy ==
  /\ loading => \E l \in Lists : list[l].at # "none"
  /\ uploading => \E u \in Uploads : upload[u].at # "none"

(* A GET that an upload waits for is out, and it is the only one.          *)
CallsMatch ==
  /\ \A l \in Lists : list[l].for # "page" =>
       list[l].at # "none" /\ list[l].for \in Uploads /\ upload[list[l].for].at = "listing"
  /\ \A l, m \in Lists : list[l].for # "page" /\ list[l].for = list[m].for => l = m

(* An answer on its way misses nothing that is listed, unless a newer one  *)
(* has arrived, and it has the video that waits for it.                    *)
Covers(names, l) == list[l].for # "page" => upload[list[l].for].name \in names

ListsCover ==
  /\ videos \subseteq streamer \cup excused
  /\ picked # Empty => picked \in videos \cup excused
  /\ \A l \in Lists : list[l].at = "asked" => Covers(streamer \cup excused, l)
  /\ \A l \in Lists : list[l].at = "served" =>
       /\ list[l].names \subseteq streamer \cup excused
       /\ ~list[l].stale => videos \subseteq list[l].names \cup excused
       /\ Covers(list[l].names \cup excused, l)

StreamInv == StreamTyped /\ StreamBusy /\ CallsMatch /\ ListsCover

FormInv == ValuesInv /\ MediaInv /\ StreamInv /\ changes \in 0..MaxChanges

(* Facts about the constants and the records that stand for no call. *)
LEMMA ConstantFacts ==
  /\ Empty \notin Names \cup Media
  /\ "stream" \notin MediaFields /\ "none" \notin MediaFields /\ "page" \notin Uploads
  /\ \A f : Fit(f) \subseteq Values
  /\ "stream" \in Fields /\ Fit("stream") = Names \cup {Empty}
  /\ \A f \in MediaFields : f \in Fields /\ Fit(f) = Media \cup {Empty}
  BY EmptyAssumption, CallsAssumption DEF Fields, Values, Fit

LEMMA RecordFacts ==
  /\ NoList \in ListRecord /\ NoList.at = "none" /\ NoList.for = "page"
  /\ NoUpload \in UploadRecord /\ NoUpload.at = "none" /\ NoUpload.name = Empty
  /\ NoSave \in SaveRecord /\ NoSave.at = "none" /\ \A f \in Fields : NoSave.taken[f] = Empty
  BY DEF NoList, ListRecord, NoUpload, UploadRecord, NoSave, SaveRecord, Values

-----------------------------------------------------------------------------

(* The values and the save                                                 *)

LEMMA SameValues ==
  ASSUME ValuesInv, UNCHANGED <<open, value, stored, save, touched>> PROVE ValuesInv'
  BY DEF ValuesInv

(* A field takes a value of its kind. *)
LEMMA SetHolds ==
  ASSUME ValuesInv, NEW f \in Fields, NEW v \in Fit(f), Set(f, v), UNCHANGED <<open, stored, save>>
  PROVE  ValuesInv'
<1>1. v \in Values
  BY ConstantFacts
<1>2. value' \in [Fields -> Values] /\ \A g \in Fields : value'[g] = IF g = f THEN v ELSE value[g]
  BY <1>1 DEF ValuesInv, Set
<1>3. touched' \subseteq Fields
  BY DEF ValuesInv, Set
<1>4. \A g \in Fields : value'[g] \in Fit(g)
  BY <1>2 DEF ValuesInv
<1>5. ASSUME save.at = "sent", NEW g \in Fields \ touched' PROVE save.taken[g] = value'[g]
  <2>1. touched' = touched \cup {f}
    BY <1>5 DEF Set
  <2>2. QED
    BY <1>2, <1>5, <2>1 DEF ValuesInv
<1>6. QED
  BY <1>2, <1>3, <1>4, <1>5 DEF ValuesInv

(* What is stored after a save fits its fields. *)
LEMMA AppliedFits ==
  ASSUME ValuesInv
  PROVE  /\ Applied(save.taken) \in [Fields -> Values]
         /\ \A f \in Fields : Applied(save.taken)[f] \in Fit(f)
         /\ \A f \in Fields : Applied(save.taken)[f] = IF save.taken[f] = Empty THEN stored[f] ELSE save.taken[f]
<1>1. \A f \in Fields : Applied(save.taken)[f] = IF save.taken[f] = Empty THEN stored[f] ELSE save.taken[f]
  BY DEF Applied
<1>2. \A f \in Fields : Applied(save.taken)[f] \in Fit(f)
  BY <1>1 DEF ValuesInv
<1>3. \A f \in Fields : Applied(save.taken)[f] \in Values
  BY <1>2, ConstantFacts
<1>4. QED
  BY <1>1, <1>2, <1>3 DEF Applied

LEMMA FinishValues == ValuesInv /\ Finish => ValuesInv'
<1> SUFFICES ASSUME ValuesInv, Finish PROVE ValuesInv'
  OBVIOUS
<1>1. /\ open /\ save' = [at |-> "sent", taken |-> value] /\ touched' = {}
      /\ open' = open /\ value' = value /\ stored' = stored
  BY DEF Finish
<1>2. save' \in SaveRecord /\ save'.taken = value /\ save'.at = "sent"
  BY <1>1 DEF ValuesInv, SaveRecord
<1>3. QED
  BY <1>1, <1>2 DEF ValuesInv

(* The save has ended, well or not, and the form may have gone. *)
LEMMA SaveEnds ==
  ASSUME ValuesInv, save' = NoSave, value' = value, open' \in BOOLEAN,
         touched' \subseteq Fields, stored' = stored \/ stored' = Applied(save.taken)
  PROVE  ValuesInv'
<1>1. stored' \in [Fields -> Values] /\ \A f \in Fields : stored'[f] \in Fit(f)
  BY AppliedFits DEF ValuesInv
<1>2. \A f \in Fields : Empty \in Fit(f)
  BY DEF Fit
<1>3. QED
  BY <1>1, <1>2, RecordFacts DEF ValuesInv

LEMMA LeaveValues == ValuesInv /\ Leave => ValuesInv'
<1> SUFFICES ASSUME ValuesInv, Leave PROVE ValuesInv'
  OBVIOUS
<1>1. /\ open' = FALSE /\ touched' = {} /\ value' = value /\ stored' = stored
      /\ save' = IF save.at = "sent" THEN [save EXCEPT !.at = "left"] ELSE save
  BY DEF Leave, Unmount
<1>2. save' \in SaveRecord /\ save'.taken = save.taken /\ save'.at # "sent"
  BY <1>1 DEF ValuesInv, SaveRecord
<1>3. QED
  BY <1>1, <1>2 DEF ValuesInv

LEMMA OpenValues == ASSUME ValuesInv, NEW l \in Lists, Open(l) PROVE ValuesInv'
<1>1. ~open /\ open' = TRUE /\ value' = stored /\ stored' = stored /\ save' = save /\ touched' = touched
  BY DEF Open
<1>2. save.at # "sent"
  BY <1>1 DEF ValuesInv
<1>3. QED
  BY <1>1, <1>2 DEF ValuesInv

-----------------------------------------------------------------------------

(* The list of videos and the uploads                                      *)

StreamUnchanged == UNCHANGED <<streamer, videos, loading, uploading, list, upload, picked, excused>>

LEMMA SameStream == ASSUME StreamInv, StreamUnchanged PROVE StreamInv'
  BY DEF StreamInv, StreamUnchanged, StreamTyped, StreamBusy, CallsMatch, ListsCover, Covers

(* A list is asked for, and no upload waits for it. *)
LEMMA AskedHolds ==
  ASSUME StreamInv, NEW l \in Lists, loading' = TRUE, Asked(l, "page"),
         UNCHANGED <<streamer, videos, uploading, upload, picked, excused>>
  PROVE  StreamInv'
<1> DEFINE r == [NoList EXCEPT !.at = "asked", !.for = "page"]
<1>1. r \in ListRecord /\ r.at = "asked" /\ r.for = "page"
  BY DEF NoList, ListRecord
<1>2. list' = [list EXCEPT ![l] = r]
  BY DEF Asked
<1> HIDE DEF r
<1>3. list' \in [Lists -> ListRecord] /\ \A m \in Lists : list'[m] = IF m = l THEN r ELSE list[m]
  BY <1>1, <1>2 DEF StreamInv, StreamTyped
<1>4. StreamTyped'
  BY <1>3 DEF StreamInv, StreamTyped
<1>5. StreamBusy'
  BY <1>1, <1>3 DEF StreamInv, StreamBusy
<1>6. CallsMatch'
  BY <1>1, <1>3 DEF StreamInv, CallsMatch
<1>7. ListsCover'
  BY <1>1, <1>3 DEF StreamInv, ListsCover, Covers
<1>8. QED
  BY <1>4, <1>5, <1>6, <1>7 DEF StreamInv

LEMMA ListServedHolds == ASSUME StreamInv, NEW l \in Lists, ListServed(l) PROVE StreamInv'
<1> DEFINE r == [list[l] EXCEPT !.at = "served", !.names = streamer]
<1>1. /\ list[l] \in ListRecord /\ list[l].at = "asked" /\ streamer \subseteq Names
      /\ list' = [list EXCEPT ![l] = r]
  BY DEF ListServed, StreamInv, StreamTyped
<1>2. /\ r \in ListRecord /\ r.at = "served" /\ r.for = list[l].for
      /\ r.names = streamer
  BY <1>1 DEF ListRecord
<1> HIDE DEF r
<1>3. list' \in [Lists -> ListRecord] /\ \A m \in Lists : list'[m] = IF m = l THEN r ELSE list[m]
  BY <1>1, <1>2 DEF StreamInv, StreamTyped
<1>4. UNCHANGED <<streamer, videos, loading, uploading, upload, picked, excused>>
  BY DEF ListServed
<1>5. StreamTyped'
  BY <1>3, <1>4 DEF StreamInv, StreamTyped
<1>6. StreamBusy'
  BY <1>1, <1>2, <1>3, <1>4 DEF StreamInv, StreamBusy
<1>7. CallsMatch'
  BY <1>1, <1>2, <1>3, <1>4 DEF StreamInv, CallsMatch
<1>8. ListsCover'
  BY <1>1, <1>2, <1>3, <1>4 DEF StreamInv, ListsCover, Covers
<1>9. QED
  BY <1>5, <1>6, <1>7, <1>8 DEF StreamInv

LEMMA StartUploadHolds ==
  ASSUME StreamInv, NEW u \in Uploads, NEW n \in Names, StartUpload(u, n) PROVE StreamInv'
<1> DEFINE r == [at |-> "posting", name |-> n]
<1>1. /\ r \in UploadRecord /\ r.at = "posting" /\ r.name \in Names
      /\ upload[u].at = "none" /\ upload' = [upload EXCEPT ![u] = r]
  BY DEF UploadRecord, StartUpload
<1> HIDE DEF r
<1>2. upload' \in [Uploads -> UploadRecord] /\ \A w \in Uploads : upload'[w] = IF w = u THEN r ELSE upload[w]
  BY <1>1 DEF StreamInv, StreamTyped
<1>3. uploading' = TRUE /\ UNCHANGED <<streamer, videos, loading, list, picked, excused>>
  BY DEF StartUpload
<1>4. StreamTyped'
  BY <1>1, <1>2, <1>3 DEF StreamInv, StreamTyped
<1>5. StreamBusy'
  BY <1>1, <1>2, <1>3 DEF StreamInv, StreamBusy
<1>6. \A l \in Lists : list[l].for # "page" => list[l].for \in Uploads /\ list[l].for # u
  BY <1>1 DEF StreamInv, CallsMatch
<1>7. CallsMatch'
  BY <1>2, <1>3, <1>6 DEF StreamInv, CallsMatch
<1>8. ListsCover'
  BY <1>2, <1>3, <1>6 DEF StreamInv, ListsCover, Covers
<1>9. QED
  BY <1>4, <1>5, <1>7, <1>8 DEF StreamInv

LEMMA UploadFailsHolds == ASSUME StreamInv, NEW u \in Uploads, UploadFails(u) PROVE StreamInv'
<1>1. /\ upload[u].at = "posting" /\ upload[u] \in UploadRecord /\ upload' = [upload EXCEPT ![u] = NoUpload]
      /\ streamer' \in {streamer, streamer \cup {upload[u].name}}
      /\ uploading' = FALSE /\ UNCHANGED <<videos, loading, list, picked, excused>>
  BY DEF UploadFails, StreamInv, StreamTyped
<1>2. upload' \in [Uploads -> UploadRecord] /\ \A w \in Uploads : upload'[w] = IF w = u THEN NoUpload ELSE upload[w]
  BY <1>1, RecordFacts DEF StreamInv, StreamTyped
<1>3. streamer \subseteq streamer'
  BY <1>1
<1>4. upload[u].name \in Names
  BY <1>1 DEF StreamInv, StreamTyped
<1>5. StreamTyped'
  BY <1>1, <1>2, <1>4, RecordFacts DEF StreamInv, StreamTyped
<1>6. StreamBusy'
  BY <1>1 DEF StreamInv, StreamBusy
<1>7. \A l \in Lists : list[l].for # "page" => list[l].for \in Uploads /\ list[l].for # u
  BY <1>1 DEF StreamInv, CallsMatch
<1>8. CallsMatch'
  BY <1>1, <1>2, <1>7 DEF StreamInv, CallsMatch
<1>9. ListsCover'
  BY <1>1, <1>2, <1>3, <1>7 DEF StreamInv, ListsCover, Covers
<1>10. QED
  BY <1>5, <1>6, <1>8, <1>9 DEF StreamInv

LEMMA UploadAcceptedHolds ==
  ASSUME StreamInv, NEW u \in Uploads, NEW l \in Lists, UploadAccepted(u, l) PROVE StreamInv'
<1> DEFINE r == [NoList EXCEPT !.at = "asked", !.for = u]
<1> DEFINE e == [upload[u] EXCEPT !.at = "listing"]
<1>1. /\ upload[u].at = "posting" /\ upload[u] \in UploadRecord /\ list[l].at = "none"
      /\ streamer' = streamer \cup {upload[u].name} /\ upload[u].name \in Names
      /\ loading' = TRUE /\ UNCHANGED <<videos, uploading, picked, excused>>
  BY DEF UploadAccepted, StreamInv, StreamTyped
<1>2. r \in ListRecord /\ r.at = "asked" /\ r.for = u
  BY DEF NoList, ListRecord
<1>3. e \in UploadRecord /\ e.at = "listing" /\ e.name = upload[u].name
  BY <1>1 DEF UploadRecord
<1>4. list' = [list EXCEPT ![l] = r] /\ upload' = [upload EXCEPT ![u] = e]
  BY DEF UploadAccepted, Asked
<1> HIDE DEF r, e
<1>5. list' \in [Lists -> ListRecord] /\ \A m \in Lists : list'[m] = IF m = l THEN r ELSE list[m]
  BY <1>2, <1>4 DEF StreamInv, StreamTyped
<1>6. upload' \in [Uploads -> UploadRecord] /\ \A w \in Uploads : upload'[w] = IF w = u THEN e ELSE upload[w]
  BY <1>3, <1>4 DEF StreamInv, StreamTyped
<1>7. StreamTyped'
  BY <1>1, <1>3, <1>5, <1>6 DEF StreamInv, StreamTyped
<1>8. StreamBusy'
  BY <1>1, <1>2, <1>3, <1>5, <1>6 DEF StreamInv, StreamBusy
<1>9. \A m \in Lists : list[m].for # "page" => list[m].for \in Uploads /\ list[m].for # u
  BY <1>1 DEF StreamInv, CallsMatch
<1>10. CallsMatch'
  BY <1>2, <1>3, <1>5, <1>6, <1>9 DEF StreamInv, CallsMatch
<1>11. ListsCover'
  <2>1. \A m \in Lists : list'[m].at = "asked" => Covers(streamer \cup excused, m)'
    BY <1>1, <1>2, <1>3, <1>5, <1>6, <1>9 DEF StreamInv, ListsCover, Covers
  <2>2. \A m \in Lists : list'[m].at = "served" =>
           /\ list'[m].names \subseteq streamer' \cup excused'
           /\ ~list'[m].stale => videos' \subseteq list'[m].names \cup excused'
           /\ Covers(list[m].names \cup excused, m)'
    <3> SUFFICES ASSUME NEW m \in Lists, list'[m].at = "served"
                 PROVE  /\ list'[m].names \subseteq streamer' \cup excused'
                        /\ ~list'[m].stale => videos' \subseteq list'[m].names \cup excused'
                        /\ Covers(list[m].names \cup excused, m)'
      OBVIOUS
    <3>1. m # l /\ list'[m] = list[m]
      BY <1>2, <1>5
    <3>2. QED
      BY <1>1, <1>6, <1>9, <3>1 DEF StreamInv, ListsCover, Covers
  <2>3. QED
    BY <1>1, <2>1, <2>2 DEF StreamInv, ListsCover
<1>12. QED
  BY <1>7, <1>8, <1>10, <1>11 DEF StreamInv

(* refresh has ended: what is listed now, and what the page excuses it for *)
(* missing.                                                                *)
LEMMA RefreshedHolds ==
  ASSUME StreamInv, NEW l \in Lists, list[l].at # "none", NEW names \in SUBSET Names,
         Refreshed(l, names), streamer' = streamer,
         excused \subseteq excused', excused' \subseteq Names,
         names \subseteq streamer \cup excused',
         videos \subseteq names \cup excused',
         Covers(names \cup excused', l)
  PROVE  StreamInv'
<1> DEFINE u == list[l].for
<1> DEFINE After(m) == IF m = l THEN NoList
                       ELSE IF list[m].at = "served" THEN [list[m] EXCEPT !.stale = TRUE] ELSE list[m]
<1>1. list \in [Lists -> ListRecord] /\ upload \in [Uploads -> UploadRecord] /\ u \in {"page"} \cup Uploads
  BY DEF StreamInv, StreamTyped, ListRecord
<1>2. \A m \in Lists : /\ After(m) \in ListRecord
                       /\ m # l => After(m).at = list[m].at /\ After(m).for = list[m].for
                                   /\ After(m).names = list[m].names
                                   /\ (list[m].at = "served" => After(m).stale)
  BY <1>1, RecordFacts DEF ListRecord
<1>3. After(l) = NoList /\ list' = [m \in Lists |-> After(m)] /\ videos' = names /\ loading' = FALSE
  BY DEF Refreshed
<1> HIDE DEF After
<1>4. list' \in [Lists -> ListRecord] /\ \A m \in Lists : list'[m] = After(m)
  BY <1>2, <1>3
<1>5. CASE u = "page"
  <2>1. uploading' = uploading /\ upload' = upload /\ picked' = picked
    BY <1>5 DEF Refreshed
  <2>2. StreamTyped'
    BY <1>3, <1>4, <2>1 DEF StreamInv, StreamTyped
  <2>3. StreamBusy'
    BY <1>3, <2>1 DEF StreamInv, StreamBusy
  <2>4. CallsMatch'
    BY <1>2, <1>3, <1>4, <2>1, RecordFacts DEF StreamInv, CallsMatch
  <2>5. ListsCover'
    <3>1. videos' \subseteq streamer' \cup excused'
      BY <1>3
    <3>2. picked' # Empty => picked' \in videos' \cup excused'
      BY <1>3, <2>1 DEF StreamInv, ListsCover
    <3>3. \A m \in Lists : list'[m].at = "asked" => Covers(streamer \cup excused, m)'
      BY <1>2, <1>3, <1>4, <2>1, RecordFacts DEF StreamInv, ListsCover, Covers
    <3>4. \A m \in Lists : list'[m].at = "served" =>
             /\ list'[m].names \subseteq streamer' \cup excused'
             /\ list'[m].stale
             /\ Covers(list[m].names \cup excused, m)'
      BY <1>2, <1>3, <1>4, <2>1, RecordFacts DEF StreamInv, ListsCover, Covers
    <3>5. QED
      BY <3>1, <3>2, <3>3, <3>4 DEF ListsCover
  <2>6. QED
    BY <2>2, <2>3, <2>4, <2>5 DEF StreamInv
<1>6. CASE u # "page"
  <2>1. u \in Uploads /\ upload[u].at = "listing" /\ upload[u].name \in Names
    BY <1>1, <1>6 DEF StreamInv, StreamTyped, CallsMatch
  <2>2. /\ picked' = upload[u].name /\ uploading' = FALSE
        /\ upload' = [upload EXCEPT ![u] = NoUpload]
    BY <1>6 DEF Refreshed
  <2>3. upload' \in [Uploads -> UploadRecord] /\ \A w \in Uploads : upload'[w] = IF w = u THEN NoUpload ELSE upload[w]
    BY <1>1, <2>1, <2>2, RecordFacts
  <2>4. \A m \in Lists : m # l /\ list[m].for # "page" => list[m].for \in Uploads /\ list[m].for # u
    BY <1>6 DEF StreamInv, CallsMatch
  <2>5. StreamTyped'
    BY <1>3, <1>4, <2>1, <2>2, <2>3, RecordFacts DEF StreamInv, StreamTyped
  <2>6. StreamBusy'
    BY <1>3, <2>2 DEF StreamBusy
  <2>7. CallsMatch'
    BY <1>2, <1>3, <1>4, <2>3, <2>4, RecordFacts DEF StreamInv, CallsMatch
  <2>8. ListsCover'
    <3>1. videos' \subseteq streamer' \cup excused'
      BY <1>3
    <3>2. picked' \in videos' \cup excused'
      BY <1>3, <1>6, <2>2 DEF Covers
    <3>3. \A m \in Lists : list'[m].at = "asked" => Covers(streamer \cup excused, m)'
      BY <1>2, <1>3, <1>4, <2>3, <2>4, RecordFacts DEF StreamInv, ListsCover, Covers
    <3>4. \A m \in Lists : list'[m].at = "served" =>
             /\ list'[m].names \subseteq streamer' \cup excused'
             /\ list'[m].stale
             /\ Covers(list[m].names \cup excused, m)'
      BY <1>2, <1>3, <1>4, <2>3, <2>4, RecordFacts DEF StreamInv, ListsCover, Covers
    <3>5. QED
      BY <3>1, <3>2, <3>3, <3>4 DEF ListsCover
  <2>9. QED
    BY <2>5, <2>6, <2>7, <2>8 DEF StreamInv
<1>7. QED
  BY <1>5, <1>6

LEMMA ListArrivesHolds == ASSUME StreamInv, NEW l \in Lists, ListArrives(l) PROVE StreamInv'
<1>1. /\ list[l].at = "served" /\ list[l] \in ListRecord /\ list[l].names \in SUBSET Names
      /\ Refreshed(l, list[l].names) /\ streamer' = streamer
      /\ excused' = IF list[l].stale THEN excused \cup (videos \ list[l].names) ELSE excused
  BY DEF ListArrives, StreamInv, StreamTyped, ListRecord
<1>2. /\ list[l].names \subseteq streamer \cup excused
      /\ ~list[l].stale => videos \subseteq list[l].names \cup excused
      /\ Covers(list[l].names \cup excused, l)
  BY <1>1 DEF StreamInv, ListsCover
<1>3. excused \subseteq excused' /\ excused' \subseteq Names
  BY <1>1 DEF StreamInv, StreamTyped
<1>4. /\ list[l].names \subseteq streamer \cup excused'
      /\ videos \subseteq list[l].names \cup excused'
      /\ Covers(list[l].names \cup excused', l)
  BY <1>1, <1>2, <1>3 DEF Covers
<1>5. QED
  BY <1>1, <1>3, <1>4, RefreshedHolds

LEMMA ListFailsHolds == ASSUME StreamInv, NEW l \in Lists, ListFails(l) PROVE StreamInv'
<1>1. /\ list[l].at # "none" /\ videos \in SUBSET Names
      /\ Refreshed(l, videos) /\ streamer' = streamer
      /\ excused' = IF list[l].for = "page" THEN excused ELSE excused \cup {upload[list[l].for].name}
  BY DEF ListFails, StreamInv, StreamTyped
<1>2. list[l].for # "page" => upload[list[l].for].name \in Names
  BY DEF StreamInv, StreamTyped, CallsMatch
<1>3. excused \subseteq excused' /\ excused' \subseteq Names
  BY <1>1, <1>2 DEF StreamInv, StreamTyped
<1>4. /\ videos \subseteq streamer \cup excused' /\ videos \subseteq videos \cup excused'
      /\ Covers(videos \cup excused', l)
  BY <1>1, <1>3 DEF StreamInv, ListsCover, Covers
<1>5. QED
  BY <1>1, <1>3, <1>4, RefreshedHolds

(* The page has gone, and nobody waits for anything. *)
LEMMA UnmountHolds ==
  ASSUME StreamInv, Unmount, streamer' = streamer PROVE StreamInv' /\ MediaInv'
<1>1. /\ videos' = {} /\ loading' = FALSE /\ uploading' = FALSE /\ picked' = Empty /\ excused' = {}
      /\ isUploading' = FALSE /\ posting' = NoField
      /\ list' \in [Lists -> ListRecord] /\ \A l \in Lists : list'[l] = NoList
      /\ upload' \in [Uploads -> UploadRecord] /\ \A u \in Uploads : upload'[u] = NoUpload
  BY RecordFacts DEF Unmount
<1>2. StreamTyped'
  BY <1>1, RecordFacts DEF StreamInv, StreamTyped
<1>3. StreamBusy' /\ CallsMatch'
  BY <1>1, RecordFacts DEF StreamBusy, CallsMatch
<1>4. ListsCover'
  BY <1>1, RecordFacts DEF ListsCover
<1>5. QED
  BY <1>1, <1>2, <1>3, <1>4 DEF StreamInv, MediaInv

LEMMA OthersChangeHolds == ASSUME StreamInv, NEW n \in Names, OthersChange(n) PROVE StreamInv'
<1>1. /\ streamer' = IF n \in streamer THEN streamer \ {n} ELSE streamer \cup {n}
      /\ excused' = IF n \in streamer THEN excused \cup {n} ELSE excused
      /\ UNCHANGED <<videos, loading, uploading, list, upload, picked>>
  BY DEF OthersChange
<1>2. excused \subseteq excused' /\ streamer \cup excused \subseteq streamer' \cup excused'
  BY <1>1
<1>3. StreamTyped'
  BY <1>1 DEF StreamInv, StreamTyped
<1>4. StreamBusy' /\ CallsMatch'
  BY <1>1 DEF StreamInv, StreamBusy, CallsMatch
<1>5. ListsCover'
  BY <1>1, <1>2 DEF StreamInv, ListsCover, Covers
<1>6. QED
  BY <1>3, <1>4, <1>5 DEF StreamInv

-----------------------------------------------------------------------------

(* The steps of the form                                                   *)

LEMMA SameMedia == ASSUME MediaInv, UNCHANGED <<isUploading, posting>> PROVE MediaInv'
  BY DEF MediaInv

LEMMA EditedHolds == changes \in 0..MaxChanges /\ Edited => changes' \in 0..MaxChanges
  BY ChangesAssumption DEF Edited

LEMMA InitHolds == FormInit => FormInv
<1> SUFFICES ASSUME FormInit PROVE FormInv
  OBVIOUS
<1>1. /\ open = TRUE /\ value = stored /\ stored \in [Fields -> Values] /\ save = NoSave /\ touched = {}
      /\ stored["stream"] \in Names \cup {Empty} /\ \A f \in MediaFields : stored[f] \in Media \cup {Empty}
      /\ streamer \subseteq Names /\ changes = 0
  BY DEF FormInit
<1>2. \A f \in Fields : stored[f] \in Fit(f) /\ Empty \in Fit(f)
  BY <1>1 DEF Fields, Fit
<1>3. ValuesInv
  BY <1>1, <1>2, RecordFacts DEF ValuesInv
<1>4. PICK l \in Lists : Mounted(l)
  BY DEF FormInit
<1> DEFINE r == [NoList EXCEPT !.at = "asked"]
<1>5. r \in ListRecord /\ r.at = "asked" /\ r.for = "page"
  BY DEF NoList, ListRecord
<1>6. /\ videos = {} /\ loading = TRUE /\ uploading = FALSE
      /\ list = [m \in Lists |-> IF m = l THEN r ELSE NoList]
      /\ upload = [u \in Uploads |-> NoUpload]
      /\ isUploading = FALSE /\ posting = NoField /\ picked = Empty /\ excused = {}
  BY <1>4 DEF Mounted
<1> HIDE DEF r
<1>7. /\ list \in [Lists -> ListRecord] /\ \A m \in Lists : list[m] = IF m = l THEN r ELSE NoList
      /\ upload \in [Uploads -> UploadRecord] /\ \A u \in Uploads : upload[u] = NoUpload
  BY <1>5, <1>6, RecordFacts
<1>8. StreamTyped
  BY <1>1, <1>6, <1>7, RecordFacts DEF StreamTyped
<1>9. StreamBusy /\ CallsMatch
  BY <1>5, <1>6, <1>7, RecordFacts DEF StreamBusy, CallsMatch
<1>10. ListsCover
  BY <1>5, <1>6, <1>7, RecordFacts DEF ListsCover, Covers
<1>11. MediaInv
  BY <1>6 DEF MediaInv
<1>12. changes \in 0..MaxChanges
  BY <1>1, ChangesAssumption
<1>13. QED
  BY <1>3, <1>8, <1>9, <1>10, <1>11, <1>12 DEF FormInv, StreamInv

(* The editor sets a field. *)
LEMMA EditHolds ==
  ASSUME FormInv, NEW f \in Fields, NEW v \in Fit(f), Edited, Set(f, v),
         UNCHANGED <<open, stored, save, streamer, streamVars, mediaVars>>
  PROVE  FormInv'
<1>1. ValuesInv' /\ changes' \in 0..MaxChanges
  BY SetHolds, EditedHolds DEF FormInv
<1>2. StreamInv'
  BY SameStream DEF FormInv, StreamUnchanged, streamVars
<1>3. MediaInv'
  BY SameMedia DEF FormInv, mediaVars
<1>4. QED
  BY <1>1, <1>2, <1>3 DEF FormInv

LEMMA ChooseHolds == ASSUME FormInv, NEW n \in Names, Choose(n) PROVE FormInv'
<1>1. n \in Fit("stream") /\ "stream" \in Fields
  BY ConstantFacts
<1>2. QED
  BY <1>1, EditHolds DEF Choose

LEMMA ClearStreamHolds == ASSUME FormInv, ClearStream PROVE FormInv'
<1>1. Empty \in Fit("stream") /\ "stream" \in Fields
  BY ConstantFacts
<1>2. QED
  BY <1>1, EditHolds DEF ClearStream

(* A call of the field of the stream that sets no value. *)
LEMMA CallHolds ==
  ASSUME FormInv, StreamInv',
         UNCHANGED <<open, value, stored, save, touched, mediaVars>>,
         Edited \/ changes' = changes
  PROVE  FormInv'
<1>1. ValuesInv'
  BY SameValues DEF FormInv
<1>2. MediaInv'
  BY SameMedia DEF FormInv, mediaVars
<1>3. changes' \in 0..MaxChanges
  BY EditedHolds DEF FormInv
<1>4. QED
  BY <1>1, <1>2, <1>3 DEF FormInv

(* refresh may set the value an upload waited with. *)
LEMMA RefreshedValues ==
  ASSUME FormInv, NEW l \in Lists, NEW names, Refreshed(l, names), UNCHANGED <<open, stored, save>>
  PROVE  ValuesInv'
<1>1. CASE list[l].for = "page"
  <2>1. value' = value /\ touched' = touched
    BY <1>1 DEF Refreshed
  <2>2. QED
    BY <2>1, SameValues DEF FormInv
<1>2. CASE list[l].for # "page"
  <2>1. upload[list[l].for].name \in Names
    BY <1>2 DEF FormInv, StreamInv, CallsMatch, StreamTyped
  <2>2. upload[list[l].for].name \in Fit("stream") /\ "stream" \in Fields
    BY <2>1, ConstantFacts
  <2>3. Set("stream", upload[list[l].for].name)
    BY <1>2 DEF Refreshed
  <2>4. QED
    BY <2>2, <2>3, SetHolds DEF FormInv
<1>3. QED
  BY <1>1, <1>2

LEMMA ListHolds ==
  ASSUME FormInv, NEW l \in Lists,
         Refresh(l) \/ ListServed(l) \/ ListArrives(l) \/ ListFails(l) \/ Open(l)
  PROVE  FormInv'
<1> USE DEF FormInv
<1>1. CASE Refresh(l)
  <2>1. StreamInv'
    BY <1>1, AskedHolds DEF Refresh
  <2>2. QED
    BY <1>1, <2>1, CallHolds DEF Refresh
<1>2. CASE ListServed(l)
  <2>1. StreamInv'
    BY <1>2, ListServedHolds
  <2>2. QED
    BY <1>2, <2>1, CallHolds DEF ListServed
<1>3. CASE ListArrives(l)
  <2>1. StreamInv'
    BY <1>3, ListArrivesHolds
  <2>2. ValuesInv' /\ MediaInv' /\ changes' = changes
    BY <1>3, RefreshedValues, SameMedia DEF ListArrives, mediaVars
  <2>3. QED
    BY <2>1, <2>2
<1>4. CASE ListFails(l)
  <2>1. StreamInv'
    BY <1>4, ListFailsHolds
  <2>2. ValuesInv' /\ MediaInv' /\ changes' = changes
    BY <1>4, RefreshedValues, SameMedia DEF ListFails, mediaVars
  <2>3. QED
    BY <2>1, <2>2
<1>5. CASE Open(l)
  <2>1. StreamInv'
    BY <1>5, AskedHolds DEF Open
  <2>2. ValuesInv' /\ MediaInv' /\ changes' = changes
    BY <1>5, OpenValues, SameMedia DEF Open, mediaVars
  <2>3. QED
    BY <2>1, <2>2
<1>6. QED
  BY <1>1, <1>2, <1>3, <1>4, <1>5

LEMMA UploadHolds ==
  ASSUME FormInv, NEW u \in Uploads,
         \/ \E n \in Names : StartUpload(u, n)
         \/ UploadFails(u) \/ \E l \in Lists : UploadAccepted(u, l)
  PROVE  FormInv'
<1>1. ASSUME NEW n \in Names, StartUpload(u, n) PROVE FormInv'
  <2>1. StreamInv'
    BY <1>1, StartUploadHolds DEF FormInv
  <2>2. QED
    BY <1>1, <2>1, CallHolds DEF StartUpload
<1>2. CASE UploadFails(u)
  <2>1. StreamInv'
    BY <1>2, UploadFailsHolds DEF FormInv
  <2>2. QED
    BY <1>2, <2>1, CallHolds DEF UploadFails
<1>3. ASSUME NEW l \in Lists, UploadAccepted(u, l) PROVE FormInv'
  <2>1. StreamInv'
    BY <1>3, UploadAcceptedHolds DEF FormInv
  <2>2. QED
    BY <1>3, <2>1, CallHolds DEF UploadAccepted
<1>4. QED
  BY <1>1, <1>2, <1>3

LEMMA MediaHolds ==
  ASSUME FormInv, NEW f \in MediaFields,
         ChooseFile(f) \/ MediaFails(f) \/ ClearMedia(f) \/ \E id \in Media : MediaUploaded(f, id)
  PROVE  FormInv'
<1> USE DEF FormInv
<1>1. f \in Fields /\ f # NoField /\ Fit(f) = Media \cup {Empty}
  BY ConstantFacts DEF NoField
<1>2. CASE ChooseFile(f)
  <2>1. MediaInv' /\ ValuesInv' /\ changes' \in 0..MaxChanges
    BY <1>1, <1>2, SameValues, EditedHolds DEF ChooseFile, MediaInv
  <2>2. StreamInv'
    BY <1>2, SameStream DEF ChooseFile, StreamUnchanged, streamVars
  <2>3. QED
    BY <2>1, <2>2
<1>3. CASE MediaFails(f)
  <2>1. MediaInv' /\ ValuesInv' /\ changes' = changes
    BY <1>3, SameValues DEF MediaFails, MediaInv
  <2>2. StreamInv'
    BY <1>3, SameStream DEF MediaFails, StreamUnchanged, streamVars
  <2>3. QED
    BY <2>1, <2>2
<1>4. CASE ClearMedia(f)
  <2>1. Empty \in Fit(f)
    BY <1>1
  <2>2. QED
    BY <1>1, <1>4, <2>1, EditHolds DEF ClearMedia
<1>5. ASSUME NEW id \in Media, MediaUploaded(f, id) PROVE FormInv'
  <2>1. id \in Fit(f)
    BY <1>1
  <2>2. ValuesInv'
    BY <1>1, <1>5, <2>1, SetHolds DEF MediaUploaded
  <2>3. MediaInv' /\ changes' = changes
    BY <1>5 DEF MediaUploaded, MediaInv
  <2>4. StreamInv'
    BY <1>5, SameStream DEF MediaUploaded, StreamUnchanged, streamVars
  <2>5. QED
    BY <2>2, <2>3, <2>4
<1>6. QED
  BY <1>2, <1>3, <1>4, <1>5

LEMMA SaveHolds ==
  ASSUME FormInv, Finish \/ Saved \/ SavedAfterLeaving \/ SaveFails \/ Leave
  PROVE  FormInv'
<1> USE DEF FormInv
<1>1. CASE Finish
  <2>1. ValuesInv' /\ MediaInv' /\ changes' = changes
    BY <1>1, FinishValues, SameMedia DEF Finish, mediaVars
  <2>2. StreamInv'
    BY <1>1, SameStream DEF Finish, StreamUnchanged, streamVars
  <2>3. QED
    BY <2>1, <2>2
<1>2. CASE Saved
  <2>1. StreamInv' /\ MediaInv'
    BY <1>2, UnmountHolds DEF Saved
  <2>2. open' \in BOOLEAN /\ touched' \subseteq Fields
    BY <1>2 DEF Saved, Unmount
  <2>3. ValuesInv' /\ changes' = changes
    BY <1>2, <2>2, SaveEnds DEF Saved
  <2>4. QED
    BY <2>1, <2>3
<1>3. CASE SavedAfterLeaving
  <2>1. open' \in BOOLEAN /\ touched' \subseteq Fields
    BY <1>3 DEF SavedAfterLeaving, ValuesInv
  <2>2. ValuesInv' /\ MediaInv' /\ changes' = changes
    BY <1>3, <2>1, SaveEnds, SameMedia DEF SavedAfterLeaving, mediaVars
  <2>3. StreamInv'
    BY <1>3, SameStream DEF SavedAfterLeaving, StreamUnchanged, streamVars
  <2>4. QED
    BY <2>2, <2>3
<1>4. CASE SaveFails
  <2>1. open' \in BOOLEAN /\ touched' \subseteq Fields
    BY <1>4 DEF SaveFails, ValuesInv
  <2>2. ValuesInv' /\ MediaInv' /\ changes' = changes
    BY <1>4, <2>1, SaveEnds, SameMedia DEF SaveFails, mediaVars
  <2>3. StreamInv'
    BY <1>4, SameStream DEF SaveFails, StreamUnchanged, streamVars
  <2>4. QED
    BY <2>2, <2>3
<1>5. CASE Leave
  <2>1. StreamInv' /\ MediaInv'
    BY <1>5, UnmountHolds DEF Leave
  <2>2. ValuesInv' /\ changes' = changes
    BY <1>5, LeaveValues DEF Leave
  <2>3. QED
    BY <2>1, <2>2
<1>6. QED
  BY <1>1, <1>2, <1>3, <1>4, <1>5

LEMMA OthersHolds == ASSUME FormInv, NEW n \in Names, OthersChange(n) PROVE FormInv'
<1>1. StreamInv'
  BY OthersChangeHolds DEF FormInv
<1>2. QED
  BY <1>1, CallHolds DEF OthersChange, mediaVars

LEMMA NextHolds == FormInv /\ [FormNext]_formVars => FormInv'
<1> SUFFICES ASSUME FormInv, [FormNext]_formVars PROVE FormInv'
  OBVIOUS
<1>1. ASSUME NEW n \in Names, Choose(n) \/ OthersChange(n) PROVE FormInv'
  BY <1>1, ChooseHolds, OthersHolds
<1>2. CASE ClearStream \/ Finish \/ Saved \/ SavedAfterLeaving \/ SaveFails \/ Leave
  BY <1>2, ClearStreamHolds, SaveHolds
<1>3. ASSUME NEW l \in Lists, Refresh(l) \/ ListServed(l) \/ ListArrives(l) \/ ListFails(l) \/ Open(l)
      PROVE FormInv'
  BY <1>3, ListHolds
<1>4. ASSUME NEW u \in Uploads,
             \/ \E n \in Names : StartUpload(u, n)
             \/ UploadFails(u) \/ \E l \in Lists : UploadAccepted(u, l)
      PROVE FormInv'
  BY <1>4, UploadHolds
<1>5. ASSUME NEW f \in MediaFields,
             ChooseFile(f) \/ MediaFails(f) \/ ClearMedia(f) \/ \E id \in Media : MediaUploaded(f, id)
      PROVE FormInv'
  BY <1>5, MediaHolds
<1>6. CASE UNCHANGED formVars
  <2>1. ValuesInv' /\ MediaInv' /\ changes' = changes
    BY <1>6, SameValues, SameMedia DEF formVars, mediaVars, FormInv
  <2>2. StreamInv'
    BY <1>6, SameStream DEF formVars, streamVars, StreamUnchanged, FormInv
  <2>3. QED
    BY <2>1, <2>2 DEF FormInv
<1>7. QED
  BY <1>1, <1>2, <1>3, <1>4, <1>5, <1>6 DEF FormNext

-----------------------------------------------------------------------------

(* Theorems                                                                *)

(* Whatever happens, the inductive invariant holds.                        *)
THEOREM FormHolds == FormSpec => []FormInv
  BY InitHolds, NextHolds, PTL DEF FormSpec

(* Whatever the editor, the streamer and the API do, in whatever order     *)
(* their answers come, a stream field holds names and a media field ids.   *)
THEOREM FormTyped == FormSpec => []FormTypeOK
<1>1. FormInv => FormTypeOK
  BY DEF FormInv, ValuesInv, MediaInv, StreamInv, StreamTyped, FormTypeOK, Fit
<1>2. QED
  BY <1>1, FormHolds, PTL

(* A field of the form that looks busy waits for a call that can still     *)
(* end, however many are out (the finally blocks of refresh, beforeUpload  *)
(* and upload).                                                            *)
THEOREM BusyIsWaiting == FormSpec => []BusyWaits
<1>1. FormInv => BusyWaits
  BY DEF FormInv, MediaInv, StreamInv, StreamBusy, BusyWaits
<1>2. QED
  BY <1>1, FormHolds, PTL

(* What an upload has selected is among the options, and known, but for    *)
(* what failed, was overtaken or was removed (buildVideoOptions).          *)
THEOREM UploadOffered == FormSpec => []UploadIsOffered
<1>1. FormInv => UploadIsOffered
  <2> SUFFICES ASSUME FormInv, picked # Empty, value["stream"] = picked
               PROVE  \E o \in Options : o.value = picked /\ (o.known \/ picked \in excused)
    BY DEF UploadIsOffered
  <2>1. picked \in videos \cup excused
    BY DEF FormInv, StreamInv, ListsCover
  <2>2. CASE picked \in videos
    <3> DEFINE o == [value |-> picked, known |-> TRUE]
    <3>1. o \in Options /\ o.value = picked /\ o.known
      BY <2>2 DEF Options
    <3>2. QED
      BY <3>1
  <2>3. CASE picked \notin videos
    <3> DEFINE o == [value |-> picked, known |-> FALSE]
    <3>1. o \in Options /\ o.value = picked /\ picked \in excused
      BY <2>1, <2>3 DEF Options
    <3>2. QED
      BY <3>1
  <2>4. QED
    BY <2>2, <2>3
<1>2. QED
  BY <1>1, FormHolds, PTL

(* What the form shows when a save takes it away is what is stored, but    *)
(* for fields set since and fields that were cleared (handleFinish).       *)
THEOREM SavedIsShown == FormSpec => SavedAsShown
<1>1. FormInv /\ [FormNext]_formVars =>
        [save.at = "sent" /\ open /\ Saved =>
           \A f \in Fields \ touched :
             stored'[f] = IF value[f] = Empty THEN stored[f] ELSE value[f]]_formVars
  <2> SUFFICES ASSUME FormInv, save.at = "sent", Saved, NEW f \in Fields \ touched
               PROVE  stored'[f] = IF value[f] = Empty THEN stored[f] ELSE value[f]
    OBVIOUS
  <2>1. save.taken[f] = value[f]
    BY DEF FormInv, ValuesInv
  <2>2. stored'[f] = IF save.taken[f] = Empty THEN stored[f] ELSE save.taken[f]
    BY AppliedFits DEF FormInv, Saved
  <2>3. QED
    BY <2>1, <2>2
<1>2. QED
  BY <1>1, FormHolds, PTL DEF FormSpec, SavedAsShown

-----------------------------------------------------------------------------
(***************************************************************************)
(* The form of a video                                                     *)
(***************************************************************************)

Rows == Items \cup {Blank}

(* Until another PUT of the field overtakes it, what a transaction has     *)
(* found is what the table holds.                                          *)
FoundIsStored ==
  \A t \in Forms, f \in AttachFields :
    put[t][f].at = "read" /\ ~put[t][f].overtaken => put[t][f].found = links[f]

AttachmentsInv == TypeOK /\ FoundIsStored

-----------------------------------------------------------------------------
(* What is sent, and what is made of it, is rows and items. *)
LEMMA SentIsItems ==
  /\ \A rows \in SUBSET Rows : Payload(rows) \in SUBSET Items
  /\ \A f \in AttachFields, sent \in SUBSET {Blank} : ToRows(f, sent) \in SUBSET Rows
  /\ \A items \in SUBSET Items : Dto(items) \in SUBSET {Blank}
  BY BlankAssumption DEF Payload, ToRows, Dto, Rows

LEMMA EmptyFields ==
  /\ EachField({}) \in [AttachFields -> SUBSET Rows]
  /\ EachField(None) \in [AttachFields -> {None} \cup SUBSET {Blank}]
  BY DEF EachField

LEMMA ClosedTyped == Closed \in Form
  BY EmptyFields DEF Closed, Form, Rows

LEMMA NoPutTyped == NoPut \in PutRecord
  BY DEF NoPut, PutRecord

(* Whether or not it fills the form, the effect leaves a form; one that    *)
(* was filled before keeps its values.                                     *)
LEMMA SeedTyped ==
  ASSUME NEW fm \in Form
  PROVE  Seed(fm) \in Form /\ (fm.seeded => Seed(fm).value = fm.value)
<1>1. CASE fm.seeded
  BY <1>1, EmptyFields DEF Seed, Form
<1>2. CASE ~fm.seeded /\ \E f \in AttachFields : fm.answer[f] = None
  BY <1>2 DEF Seed
<1>3. CASE ~fm.seeded /\ \A f \in AttachFields : fm.answer[f] # None
  <2> DEFINE filled == [f \in AttachFields |-> ToRows(f, fm.answer[f])]
  <2>1. \A f \in AttachFields : fm.answer[f] \in SUBSET {Blank}
    BY <1>3 DEF Form
  <2>2. filled \in [AttachFields -> SUBSET Rows]
    BY <2>1, SentIsItems
  <2> HIDE DEF filled
  <2>3. Seed(fm) = [fm EXCEPT !.seeded = TRUE, !.untouched = TRUE, !.answer = EachField(None), !.value = filled]
    BY <1>3 DEF Seed, filled
  <2> DEFINE none == EachField(None)
  <2>4. none \in [AttachFields -> {None} \cup SUBSET {Blank}]
    BY EmptyFields
  <2> HIDE DEF none
  <2>5. [fm EXCEPT !.seeded = TRUE, !.untouched = TRUE, !.answer = none, !.value = filled] \in Form
    BY <2>2, <2>4 DEF Form, Rows
  <2>6. QED
    BY <1>3, <2>3, <2>5 DEF none
<1>4. QED
  BY <1>1, <1>2, <1>3

(* The effect of an update of one form, and of one put. *)
LEMMA FormUpdate ==
  ASSUME TypeOK, NEW t \in Forms, NEW fm \in Form, form' = [form EXCEPT ![t] = fm]
  PROVE  form' \in [Forms -> Form]
  BY DEF TypeOK

LEMMA PutUpdate ==
  ASSUME TypeOK, NEW t \in Forms, NEW f \in AttachFields, NEW p \in PutRecord,
         put' = [put EXCEPT ![t][f] = p]
  PROVE  /\ put' \in [Forms -> [AttachFields -> PutRecord]]
         /\ \A u \in Forms, g \in AttachFields : put'[u][g] = IF u = t /\ g = f THEN p ELSE put[u][g]
  BY DEF TypeOK

LEMMA AttachmentsInitHolds == Init => AttachmentsInv
  BY ClosedTyped, NoPutTyped DEF Init, AttachmentsInv, TypeOK, FoundIsStored, EachField, NoPut

(* What neither stores nor reads leaves every transaction as it stands. *)
LEMMA QuietKeeps ==
  ASSUME AttachmentsInv, UNCHANGED <<links, put>>, form' \in [Forms -> Form], edits' \in Nat
  PROVE  AttachmentsInv'
  BY DEF AttachmentsInv, TypeOK, FoundIsStored

LEMMA EditKeeps ==
  ASSUME AttachmentsInv, NEW t \in Forms, NEW f \in AttachFields, NEW held \in SUBSET Rows, Edit(t, f, held)
  PROVE  AttachmentsInv'
<1> DEFINE values == [form[t].value EXCEPT ![f] = held]
<1>1. form[t] \in Form
  BY DEF AttachmentsInv, TypeOK
<1>2. values \in [AttachFields -> SUBSET Rows]
  BY <1>1 DEF Form, Rows
<1>3. form' = [form EXCEPT ![t] = [form[t] EXCEPT !.value = values, !.untouched = FALSE]]
  BY DEF Edit, AttachmentsInv, TypeOK
<1> HIDE DEF values
<1> DEFINE fm == [form[t] EXCEPT !.value = values, !.untouched = FALSE]
<1>4. fm \in Form
  BY <1>1, <1>2 DEF Form, Rows
<1> HIDE DEF fm
<1>5. form' = [form EXCEPT ![t] = fm]
  BY <1>3 DEF fm
<1>6. form' \in [Forms -> Form]
  BY <1>4, <1>5, FormUpdate DEF AttachmentsInv
<1>7. edits' \in Nat /\ UNCHANGED <<links, put>>
  BY DEF Edit, AttachmentsInv, TypeOK
<1>8. QED
  BY <1>6, <1>7, QuietKeeps

-----------------------------------------------------------------------------
(* Each step of the form and of the transactions. *)
LEMMA FormSteps ==
  ASSUME AttachmentsInv, NEW t \in Forms,
         OpenForm(t) \/ HandleFinish(t) \/ PatchFails(t) \/ LeaveForm(t)
  PROVE  AttachmentsInv'
<1>1. form[t] \in Form
  BY DEF AttachmentsInv, TypeOK
<1>2. PICK fm \in Form : form' = [form EXCEPT ![t] = fm]
  <2>1. CASE OpenForm(t)
    <3>1. [Closed EXCEPT !.at = "open"] \in Form
      BY ClosedTyped DEF Form
    <3>2. QED
      BY <2>1, <3>1 DEF OpenForm
  <2>2. CASE HandleFinish(t)
    <3> DEFINE fm == [form[t] EXCEPT !.at = "patching", !.taken = form[t].value, !.asFilled = form[t].untouched]
    <3>1. fm \in Form
      BY <1>1 DEF Form
    <3>2. form' = [form EXCEPT ![t] = fm]
      BY <2>2 DEF HandleFinish, AttachmentsInv, TypeOK
    <3>3. QED
      BY <3>1, <3>2
  <2>3. CASE PatchFails(t)
    <3> DEFINE fm == [form[t] EXCEPT !.at = "open"]
    <3>1. fm \in Form
      BY <1>1 DEF Form
    <3>2. form' = [form EXCEPT ![t] = fm]
      BY <2>3 DEF PatchFails, AttachmentsInv, TypeOK
    <3>3. QED
      BY <3>1, <3>2
  <2>4. CASE LeaveForm(t)
    BY <2>4, ClosedTyped DEF LeaveForm
  <2>5. QED
    BY <2>1, <2>2, <2>3, <2>4
<1>3. form' \in [Forms -> Form]
  BY <1>2, FormUpdate DEF AttachmentsInv
<1>4. edits' \in Nat /\ UNCHANGED <<links, put>>
  BY DEF OpenForm, HandleFinish, PatchFails, LeaveForm, AttachmentsInv, TypeOK
<1>5. QED
  BY <1>3, <1>4, QuietKeeps

LEMMA EditorSteps ==
  ASSUME AttachmentsInv, NEW t \in Forms,
         \/ "securities" \in AttachFields /\ EditSecurities(t)
         \/ "people" \in AttachFields /\ EditPeople(t)
  PROVE  AttachmentsInv'
<1>1. \A f \in AttachFields : form[t].value[f] \in SUBSET Rows
  BY DEF AttachmentsInv, TypeOK, Form, Rows
<1>2. CASE "securities" \in AttachFields /\ EditSecurities(t)
  <2>1. PICK held \in SUBSET Rows : Edit(t, "securities", held)
    BY <1>1, <1>2 DEF EditSecurities, Rows
  <2>2. QED
    BY <1>2, <2>1, EditKeeps
<1>3. CASE "people" \in AttachFields /\ EditPeople(t)
  <2>1. PICK held \in SUBSET Rows : Edit(t, "people", held)
    BY <1>1, <1>3 DEF EditPeople, Rows
  <2>2. QED
    BY <1>3, <2>1, EditKeeps
<1>4. QED
  BY <1>2, <1>3

(* What an answer leaves of the form that gets it. *)
LEMMA Answered ==
  ASSUME TypeOK, NEW t \in Forms, NEW f \in AttachFields, Answer(t, f)
  PROVE  /\ form' \in [Forms -> Form]
         /\ \A u \in Forms : form[u].seeded => form'[u].value = form[u].value
<1> DEFINE answer == [form[t].answer EXCEPT ![f] = Dto(links[f])]
           got == [form[t] EXCEPT !.answer = answer]
<1>1. form[t] \in Form
  BY DEF TypeOK
<1>2. answer \in [AttachFields -> {None} \cup SUBSET {Blank}]
  <2>1. Dto(links[f]) \in SUBSET {Blank}
    BY SentIsItems DEF TypeOK
  <2>2. QED
    BY <1>1, <2>1 DEF Form
<1>3. form' = [form EXCEPT ![t] = Seed(got)]
  BY DEF Answer
<1> HIDE DEF answer
<1>4. got \in Form /\ got.seeded = form[t].seeded /\ got.value = form[t].value
  BY <1>1, <1>2 DEF Form
<1> HIDE DEF got
<1>5. Seed(got) \in Form /\ (got.seeded => Seed(got).value = got.value)
  BY <1>4, SeedTyped
<1>6. form' \in [Forms -> Form]
  BY <1>3, <1>5, FormUpdate
<1>7. \A u \in Forms : form'[u] = IF u = t THEN Seed(got) ELSE form[u]
  BY <1>3 DEF TypeOK
<1>8. QED
  BY <1>4, <1>5, <1>6, <1>7

LEMMA PatchedKeeps ==
  ASSUME AttachmentsInv, NEW t \in Forms, Patched(t)
  PROVE  AttachmentsInv'
<1> DEFINE sent(f) == [NoPut EXCEPT !.at = "sent", !.set = Payload(form[t].taken[f]), !.asFilled = form[t].asFilled]
<1>1. form[t] \in Form
  BY DEF AttachmentsInv, TypeOK
<1>2. \A f \in AttachFields : sent(f) \in PutRecord /\ sent(f).at = "sent"
  <2> TAKE f \in AttachFields
  <2>1. Payload(form[t].taken[f]) \in SUBSET Items /\ form[t].asFilled \in BOOLEAN
    BY <1>1, SentIsItems DEF Form, Rows
  <2>2. QED
    BY <2>1, NoPutTyped DEF PutRecord
<1>3. put' = [put EXCEPT ![t] = [f \in AttachFields |-> sent(f)]]
  BY DEF Patched
<1>4. form' \in [Forms -> Form] /\ links' = links /\ edits' = edits
  BY ClosedTyped, FormUpdate DEF Patched, AttachmentsInv
<1> HIDE DEF sent
<1>5. put' \in [Forms -> [AttachFields -> PutRecord]]
  BY <1>2, <1>3 DEF AttachmentsInv, TypeOK
<1>6. \A u \in Forms, f \in AttachFields : put'[u][f] = IF u = t THEN sent(f) ELSE put[u][f]
  BY <1>3 DEF AttachmentsInv, TypeOK
<1>7. FoundIsStored'
  BY <1>2, <1>4, <1>6 DEF AttachmentsInv, FoundIsStored
<1>8. QED
  BY <1>4, <1>5, <1>7 DEF AttachmentsInv, TypeOK

LEMMA ReadsKeeps ==
  ASSUME AttachmentsInv, NEW t \in Forms, NEW f \in AttachFields, PutReads(t, f)
  PROVE  AttachmentsInv'
<1> DEFINE p == [put[t][f] EXCEPT !.at = "read", !.found = links[f]]
<1>1. p \in PutRecord /\ p.found = links[f]
  <2>1. put[t][f] \in PutRecord /\ links[f] \in SUBSET Items
    BY DEF AttachmentsInv, TypeOK
  <2>2. QED
    BY <2>1 DEF PutRecord
<1>2. put' = [put EXCEPT ![t][f] = p]
  BY DEF PutReads, AttachmentsInv, TypeOK
<1> HIDE DEF p
<1>3. /\ put' \in [Forms -> [AttachFields -> PutRecord]]
      /\ \A u \in Forms, g \in AttachFields : put'[u][g] = IF u = t /\ g = f THEN p ELSE put[u][g]
  BY <1>1, <1>2, PutUpdate DEF AttachmentsInv
<1>4. FoundIsStored'
  BY <1>1, <1>3 DEF PutReads, AttachmentsInv, FoundIsStored
<1>5. QED
  BY <1>3, <1>4 DEF PutReads, AttachmentsInv, TypeOK

LEMMA FailsKeeps ==
  ASSUME AttachmentsInv, NEW t \in Forms, NEW f \in AttachFields, PutFails(t, f)
  PROVE  AttachmentsInv'
<1>1. put' = [put EXCEPT ![t][f] = NoPut]
  BY DEF PutFails
<1>2. /\ put' \in [Forms -> [AttachFields -> PutRecord]]
      /\ \A u \in Forms, g \in AttachFields : put'[u][g] = IF u = t /\ g = f THEN NoPut ELSE put[u][g]
  BY <1>1, NoPutTyped, PutUpdate DEF AttachmentsInv
<1>3. NoPut.at = "none"
  BY DEF NoPut
<1>4. FoundIsStored'
  BY <1>2, <1>3 DEF PutFails, AttachmentsInv, FoundIsStored
<1>5. QED
  BY <1>2, <1>4 DEF PutFails, AttachmentsInv, TypeOK

(* Every other transaction that has read the field is overtaken. *)
LEMMA CommitsKeeps ==
  ASSUME AttachmentsInv, NEW t \in Forms, NEW f \in AttachFields, PutCommits(t, f)
  PROVE  AttachmentsInv'
<1> DEFINE kept == (links[f] \ put[t][f].found) \cup put[t][f].set
           next(u, g) == IF u = t /\ g = f THEN NoPut
                         ELSE IF g = f /\ put[u][g].at = "read" THEN [put[u][g] EXCEPT !.overtaken = TRUE]
                         ELSE put[u][g]
<1>1. kept \in SUBSET Items
  BY DEF AttachmentsInv, TypeOK, PutRecord
<1>2. links' = [links EXCEPT ![f] = kept] /\ UNCHANGED <<form, edits>>
  BY DEF PutCommits, Committed
<1>3. put' = [u \in Forms |-> [g \in AttachFields |-> next(u, g)]]
  BY DEF PutCommits, Committed
<1>4. \A u \in Forms, g \in AttachFields :
         /\ next(u, g) \in PutRecord
         /\ next(u, g).at = "read" /\ ~next(u, g).overtaken => g # f /\ next(u, g) = put[u][g]
  <2> TAKE u \in Forms, g \in AttachFields
  <2>1. put[u][g] \in PutRecord
    BY DEF AttachmentsInv, TypeOK
  <2>2. CASE u = t /\ g = f
    BY <2>2, NoPutTyped DEF NoPut
  <2>3. CASE ~(u = t /\ g = f) /\ g = f /\ put[u][g].at = "read"
    BY <2>1, <2>3 DEF PutRecord
  <2>4. CASE ~(u = t /\ g = f) /\ ~(g = f /\ put[u][g].at = "read")
    BY <2>1, <2>4
  <2>5. QED
    BY <2>2, <2>3, <2>4
<1> HIDE DEF kept, next
<1>5. put' \in [Forms -> [AttachFields -> PutRecord]]
  BY <1>3, <1>4
<1>6. \A u \in Forms, g \in AttachFields : put'[u][g] = next(u, g)
  BY <1>3
<1>7. links' \in [AttachFields -> SUBSET Items] /\ \A g \in AttachFields : g # f => links'[g] = links[g]
  BY <1>1, <1>2 DEF AttachmentsInv, TypeOK
<1>8. FoundIsStored'
  BY <1>4, <1>6, <1>7 DEF AttachmentsInv, FoundIsStored
<1>9. QED
  BY <1>2, <1>5, <1>7, <1>8 DEF AttachmentsInv, TypeOK

LEMMA NextKeeps == AttachmentsInv /\ [Next]_vars => AttachmentsInv'
<1> SUFFICES ASSUME AttachmentsInv, [Next]_vars PROVE AttachmentsInv'
  OBVIOUS
<1>1. CASE UNCHANGED vars
  BY <1>1 DEF vars, AttachmentsInv, TypeOK, FoundIsStored
<1>2. ASSUME NEW t \in Forms, OpenForm(t) \/ HandleFinish(t) \/ PatchFails(t) \/ LeaveForm(t)
      PROVE  AttachmentsInv'
  BY <1>2, FormSteps
<1>3. ASSUME NEW t \in Forms, Patched(t) PROVE AttachmentsInv'
  BY <1>3, PatchedKeeps
<1>4. ASSUME NEW t \in Forms,
             \/ "securities" \in AttachFields /\ EditSecurities(t)
             \/ "people" \in AttachFields /\ EditPeople(t)
      PROVE  AttachmentsInv'
  BY <1>4, EditorSteps
<1>5. ASSUME NEW t \in Forms, NEW f \in AttachFields, Answer(t, f) PROVE AttachmentsInv'
  <2>1. form' \in [Forms -> Form]
    BY <1>5, Answered DEF AttachmentsInv
  <2>2. UNCHANGED <<links, put>> /\ edits' \in Nat
    BY <1>5 DEF Answer, AttachmentsInv, TypeOK
  <2>3. QED
    BY <2>1, <2>2, QuietKeeps
<1>6. ASSUME NEW t \in Forms, NEW f \in AttachFields, PutReads(t, f) PROVE AttachmentsInv'
  BY <1>6, ReadsKeeps
<1>7. ASSUME NEW t \in Forms, NEW f \in AttachFields, PutCommits(t, f) PROVE AttachmentsInv'
  BY <1>7, CommitsKeeps
<1>8. ASSUME NEW t \in Forms, NEW f \in AttachFields, PutFails(t, f) PROVE AttachmentsInv'
  BY <1>8, FailsKeeps
<1>9. QED
  BY <1>1, <1>2, <1>3, <1>4, <1>5, <1>6, <1>7, <1>8 DEF Next

LEMMA Invariance == Spec => []AttachmentsInv
  BY AttachmentsInitHolds, NextKeeps, PTL DEF Spec

-----------------------------------------------------------------------------
(* However answers come and saves overlap, forms hold rows, and what is    *)
(* sent and stored is items (ResourceForm.tsx, VideoMetadataService).      *)
THEOREM AttachmentsTyped == Spec => []TypeOK
<1>1. AttachmentsInv => TypeOK
  BY DEF AttachmentsInv
<1>2. QED
  BY <1>1, Invariance, PTL

(* No answer changes what a form shows that was filled before: the effect  *)
(* of ResourceForm.tsx fills it once.                                      *)
THEOREM EditsAreKept == Spec => EditsSurvive
<1>1. AttachmentsInv /\ [Next]_vars =>
        [\A t \in Forms, f \in AttachFields :
            form[t].seeded /\ Answer(t, f) => form'[t].value = form[t].value]_vars
  BY Answered DEF AttachmentsInv
<1>2. QED
  BY <1>1, Invariance, PTL DEF Spec, EditsSurvive

(* A PUT that no other has overtaken stores the set it was sent, whatever  *)
(* was there (VideoMetadataService.java).                                  *)
THEOREM PutsReplace == Spec => PutReplacesUnlessOvertaken
<1>1. AttachmentsInv =>
        \A t \in Forms, f \in AttachFields :
          PutCommits(t, f) /\ ~put[t][f].overtaken => links'[f] = put[t][f].set
  BY DEF AttachmentsInv, TypeOK, FoundIsStored, PutCommits, Committed
<1>2. AttachmentsInv /\ [Next]_vars =>
        [\A t \in Forms, f \in AttachFields :
            PutCommits(t, f) /\ ~put[t][f].overtaken => links'[f] = put[t][f].set]_vars
  BY <1>1
<1>3. QED
  BY <1>2, Invariance, PTL DEF Spec, PutReplacesUnlessOvertaken
=============================================================================
