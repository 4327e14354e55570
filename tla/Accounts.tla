------------------------------- MODULE Accounts -------------------------------
(***************************************************************************)
(* Accounts: sign-up and activation by e-mailed links, log-in by password  *)
(* or Google, the throttle on e-mails, profile updates and the erasure of  *)
(* an account.                                                             *)
(*                                                                         *)
(*   user.Service       Signup, ActivateUserAndLogin, Login, ...           *)
(*   privacy.Service    DeleteAccount                                      *)
(*   Redis              the e-mail throttle and the list of revoked users  *)
(*                                                                         *)
(* A request is a sequence of database statements and Redis commands;      *)
(* other requests run between them.  A user is an e-mail address and has   *)
(* one row at most.  The second factor is in TwoFactor.                    *)
(*                                                                         *)
(* A definition whose comment begins with "Mutant" is no part of the model *)
(* (see OrderPayment).                                                     *)
(***************************************************************************)
EXTENDS Naturals, FiniteSets

CONSTANTS AccUsers,
          AccCalls,     \* requests that can be in flight at once
          Links,        \* tokens e-mailed for activation and password reset
          NoLink,
          MaxSends,     \* EmailMaxSends, 3 in the code
          MaxTries,     \* bound on the throttle's counter
          MaxAccessTokenTTL, \* in days, 30 in the code
          AccMaxFaults  \* bound on crashes, Redis errors and failed enqueues

ASSUME NoLinkAssumption == NoLink \notin Links
ASSUME MaxSendsAssumption == MaxSends \in Nat \ {0}
ASSUME MaxTriesAssumption == MaxTries \in Nat
ASSUME MaxAccessTokenTTLAssumption == MaxAccessTokenTTL \in Nat \ {0}
ASSUME AccMaxFaultsAssumption == AccMaxFaults \in Nat

VARIABLES account,   \* the users row: see Rows
          inbox,     \* links that were e-mailed
          sends,     \* the counter email:throttle:<email>
          sendsTtl,  \* whether that counter has an expiry
          granted,   \* e-mails the throttle allowed since it was last empty
          activated, \* how often a link activated an account
          token,     \* days a user's youngest access token is still good for
          revoked,   \* days jwt:revoked:<user> will still be there
          late,      \* users whose youngest token was minted after that was set
          requests,  \* requests in flight
          accFaults  \* faults so far

accVars == <<account, inbox, sends, sendsTtl, granted, activated, token,
             revoked, late, requests, accFaults>>
throttleVars == <<sends, sendsTtl, granted>>
tokenVars == <<token, revoked, late>>

\* `personal` stands for the columns that hold personal data.
AccRows == [state : {"none", "live", "erased"}, active : BOOLEAN, password : BOOLEAN,
            personal : BOOLEAN, activation : Links \cup {NoLink}, reset : Links \cup {NoLink}]
NoRow == [state |-> "none", active |-> FALSE, password |-> FALSE, personal |-> FALSE,
          activation |-> NoLink, reset |-> NoLink]

\* Where a request stands: its next statement, and what it remembers.
Steps == {"idle", "insertInactive", "insertOAuth", "mint", "allow", "expire",
          "saveLink", "mail", "update", "anonymize", "revoke"}
AccRequests == [at : Steps, user : AccUsers, for : {"activation", "reset"},
                link : Links \cup {NoLink}]

AccTypeOK ==
    /\ account \in [AccUsers -> AccRows]
    /\ inbox \subseteq Links
    /\ sends \in [AccUsers -> Nat]
    /\ sendsTtl \in [AccUsers -> BOOLEAN]
    /\ granted \in [AccUsers -> Nat]
    /\ activated \in [Links -> Nat]
    /\ token \in [AccUsers -> 0..MaxAccessTokenTTL]
    /\ revoked \in [AccUsers -> 0..MaxAccessTokenTTL]
    /\ late \subseteq AccUsers
    /\ requests \in [AccCalls -> AccRequests]
    /\ accFaults \in 0..AccMaxFaults

AccInit ==
    /\ account = [u \in AccUsers |-> NoRow]
    /\ inbox = {}
    /\ sends = [u \in AccUsers |-> 0]
    /\ sendsTtl = [u \in AccUsers |-> FALSE]
    /\ granted = [u \in AccUsers |-> 0]
    /\ activated = [l \in Links |-> 0]
    /\ token = [u \in AccUsers |-> 0]
    /\ revoked = [u \in AccUsers |-> 0]
    /\ late = {}
    /\ requests \in [AccCalls -> {r \in AccRequests :
                        r.at = "idle" /\ r.for = "activation" /\ r.link = NoLink}]
    /\ accFaults = 0

AccFault == accFaults < AccMaxFaults /\ accFaults' = accFaults + 1

Idle(c) == requests[c].at = "idle"
At(c, step) == requests[c].at = step
Goto(c, step) == requests' = [requests EXCEPT ![c].at = step]
\* The response is sent, and what the request remembered is gone.
Finish(c) ==
    requests' = [requests EXCEPT ![c].at = "idle", ![c].for = "activation", ![c].link = NoLink]
Start(c, u, step, purpose) ==
    requests' = [requests EXCEPT ![c] =
        [at |-> step, user |-> u, for |-> purpose, link |-> NoLink]]

\* GenerateSecureToken: a token nobody has seen.
FreshLink(l) ==
    /\ l \notin inbox
    /\ \A u \in AccUsers : l # account[u].activation /\ l # account[u].reset
    /\ \A c \in AccCalls : l # requests[c].link

-------------------------------------------------------------------------------
(* Signing up, activating, logging in *)

\* The address is looked up; a taken one is a conflict.
Signup(c, u) ==
    /\ Idle(c) /\ account[u].state = "none"
    /\ Start(c, u, "insertInactive", "activation")
    /\ UNCHANGED <<account, inbox, throttleVars, activated, tokenVars, accFaults>>

\* The row is inserted unless the unique index on the address refuses it.
CreateInactiveUser(c) ==
    LET u == requests[c].user IN
    /\ At(c, "insertInactive")
    /\ IF account[u].state = "none"
       THEN \E l \in Links :
              /\ FreshLink(l)
              /\ account' = [account EXCEPT ![u] = [NoRow EXCEPT
                     !.state = "live", !.password = TRUE, !.personal = TRUE,
                     !.activation = l]]
              /\ requests' = [requests EXCEPT ![c].at = "mail", ![c].link = l]
       ELSE Finish(c) /\ UNCHANGED account
    /\ UNCHANGED <<inbox, throttleVars, activated, tokenVars, accFaults>>

\* The e-mail is enqueued; a failure is logged and the request succeeds.
EnqueueEmailSend(c) ==
    /\ At(c, "mail")
    /\ Finish(c)
    /\ \/ inbox' = inbox \cup {requests[c].link} /\ UNCHANGED accFaults
       \/ UNCHANGED inbox /\ AccFault
    /\ UNCHANGED <<account, throttleVars, activated, tokenVars>>

\* Mutant: the update goes by the token alone and leaves it in the row.
ActivateKeepingLink(c, l) ==
    /\ Idle(c) /\ l \in inbox
    /\ \E u \in AccUsers :
         /\ account[u].activation = l
         /\ account' = [account EXCEPT ![u].active = TRUE]
         /\ IF account[u].state = "live"
            THEN Start(c, u, "mint", "activation") ELSE UNCHANGED requests
    /\ activated' = [activated EXCEPT ![l] = @ + 1]
    /\ UNCHANGED <<inbox, throttleVars, tokenVars, accFaults>>

\* A click on a mailed link before it expires: one UPDATE by token, after which
\* the request goes on to mint.  On an erased row the UPDATE takes place and
\* reading it back fails, its address being NULL.
ActivateUser(c, l) ==
    /\ Idle(c) /\ l \in inbox
    /\ \E u \in AccUsers :
         /\ account[u].activation = l /\ ~account[u].active
         /\ account' = [account EXCEPT ![u].active = TRUE, ![u].activation = NoLink]
         /\ IF account[u].state = "live"
            THEN Start(c, u, "mint", "activation") ELSE UNCHANGED requests
    /\ activated' = [activated EXCEPT ![l] = @ + 1]
    /\ UNCHANGED <<inbox, throttleVars, tokenVars, accFaults>>

\* FindByEmail, the password and the active flag; the token is minted later.
Login(c, u) ==
    /\ Idle(c)
    /\ account[u].state = "live" /\ account[u].password /\ account[u].active
    /\ Start(c, u, "mint", "activation")
    /\ UNCHANGED <<account, inbox, throttleVars, activated, tokenVars, accFaults>>

\* A verified Google address: an existing row is logged in, active or not.
HandleGoogleCallback(c, u) ==
    /\ Idle(c) /\ account[u].state \in {"none", "live"}
    /\ Start(c, u, IF account[u].state = "none" THEN "insertOAuth" ELSE "mint", "activation")
    /\ UNCHANGED <<account, inbox, throttleVars, activated, tokenVars, accFaults>>

CreateOAuthUser(c) ==
    LET u == requests[c].user IN
    /\ At(c, "insertOAuth")
    /\ IF account[u].state = "none"
       THEN /\ account' = [account EXCEPT ![u] = [NoRow EXCEPT
                   !.state = "live", !.active = TRUE, !.personal = TRUE]]
            /\ Goto(c, "mint")
       ELSE Finish(c) /\ UNCHANGED account
    /\ UNCHANGED <<inbox, throttleVars, activated, tokenVars, accFaults>>

\* A request has erased the account and is about to revoke its tokens.
BeingRevoked(u) == \E c \in AccCalls : At(c, "revoke") /\ requests[c].user = u

\* The token is minted for the row that was read, whatever became of it since.
generateAuthResponse(c) ==
    LET u == requests[c].user IN
    /\ At(c, "mint")
    /\ token' = [token EXCEPT ![u] = MaxAccessTokenTTL]
    /\ late' = IF account[u].state = "erased" /\ ~BeingRevoked(u)
               THEN late \cup {u} ELSE late \ {u}
    /\ Finish(c)
    /\ UNCHANGED <<account, inbox, throttleVars, activated, revoked, accFaults>>

\* Tokens and the entries of the blocklist age alike.
DayPasses ==
    /\ \E u \in AccUsers : token[u] > 0 \/ revoked[u] > 0
    /\ token' = [u \in AccUsers |-> IF token[u] > 0 THEN token[u] - 1 ELSE 0]
    /\ revoked' = [u \in AccUsers |-> IF revoked[u] > 0 THEN revoked[u] - 1 ELSE 0]
    /\ UNCHANGED <<account, inbox, throttleVars, activated, late, requests, accFaults>>

-------------------------------------------------------------------------------
(* E-mails with links, three in an hour *)

\* The address is found, and the account is not active.
ResendActivationEmail(c, u) ==
    /\ Idle(c) /\ account[u].state = "live" /\ ~account[u].active
    /\ Start(c, u, "allow", "activation")
    /\ UNCHANGED <<account, inbox, throttleVars, activated, tokenVars, accFaults>>

RequestPasswordReset(c, u) ==
    /\ Idle(c) /\ account[u].state = "live"
    /\ Start(c, u, "allow", "reset")
    /\ UNCHANGED <<account, inbox, throttleVars, activated, tokenVars, accFaults>>

\* Mutant: the limit is compared with the count before the increment.
AllowByRead(c) ==
    LET u == requests[c].user
        n == sends[u] + 1
    IN
    /\ At(c, "allow") /\ n <= MaxTries
    /\ sends' = [sends EXCEPT ![u] = n]
    /\ IF sends[u] > MaxSends
       THEN Finish(c) /\ UNCHANGED granted
       ELSE /\ Goto(c, IF n = 1 THEN "expire" ELSE "saveLink")
            /\ granted' = [granted EXCEPT ![u] = @ + 1]
    /\ UNCHANGED <<account, inbox, sendsTtl, activated, tokenVars, accFaults>>

\* INCR; the first e-mail of a window goes on to EXPIRE, one too many ends here.
\* On a Redis error the e-mail is let through uncounted.
Allow(c) ==
    LET u == requests[c].user
        n == sends[u] + 1
    IN
    /\ At(c, "allow")
    /\ \/ /\ n <= MaxTries
          /\ sends' = [sends EXCEPT ![u] = n]
          /\ IF n > MaxSends
             THEN Finish(c) /\ UNCHANGED granted
             ELSE /\ Goto(c, IF n = 1 THEN "expire" ELSE "saveLink")
                  /\ granted' = [granted EXCEPT ![u] = @ + 1]
          /\ UNCHANGED accFaults
       \/ /\ Goto(c, "saveLink") /\ AccFault
          /\ granted' = [granted EXCEPT ![u] = @ + 1]
          /\ UNCHANGED sends
    /\ UNCHANGED <<account, inbox, sendsTtl, activated, tokenVars>>

\* Mutant: no expiry is set.
NeverExpire(c) ==
    /\ At(c, "expire") /\ Goto(c, "saveLink")
    /\ UNCHANGED <<account, inbox, throttleVars, activated, tokenVars, accFaults>>

\* EXPIRE, a command of its own whose error is ignored.
Expire(c) ==
    /\ At(c, "expire") /\ Goto(c, "saveLink")
    /\ \/ sendsTtl' = [sendsTtl EXCEPT ![requests[c].user] = TRUE] /\ UNCHANGED accFaults
       \/ AccFault /\ UNCHANGED sendsTtl
    /\ UNCHANGED <<account, inbox, sends, granted, activated, tokenVars>>

\* Redis drops a counter that has an expiry.
ThrottleExpires(u) ==
    /\ sendsTtl[u]
    /\ sends' = [sends EXCEPT ![u] = 0]
    /\ sendsTtl' = [sendsTtl EXCEPT ![u] = FALSE]
    /\ granted' = [granted EXCEPT ![u] = 0]
    /\ UNCHANGED <<account, inbox, activated, tokenVars, requests, accFaults>>

\* The new link goes into the row by id, whatever became of the row.
SaveLink(c) ==
    LET r == requests[c] IN
    /\ At(c, "saveLink")
    /\ \E l \in Links :
         /\ FreshLink(l)
         /\ account' = IF r.for = "activation"
                       THEN [account EXCEPT ![r.user].activation = l]
                       ELSE [account EXCEPT ![r.user].reset = l]
         /\ requests' = [requests EXCEPT ![c].at = "mail", ![c].link = l]
    /\ UNCHANGED <<inbox, throttleVars, activated, tokenVars, accFaults>>

-------------------------------------------------------------------------------
(* Signed-in users *)

\* JWTMAuth: the signature passes and the user is not on the list; when Redis
\* does not answer the list is skipped.
Authenticated(u) ==
    /\ token[u] > 0
    /\ \/ revoked[u] = 0 /\ UNCHANGED accFaults
       \/ AccFault

UpdateProfile(c, u) ==
    /\ Idle(c) /\ Authenticated(u)
    /\ Start(c, u, "update", "activation")
    /\ UNCHANGED <<account, inbox, throttleVars, activated, tokenVars>>

\* UPDATE users SET ... WHERE id, whatever became of the row.
UpdateRow(c) ==
    /\ At(c, "update") /\ Finish(c)
    /\ account' = [account EXCEPT ![requests[c].user].personal = TRUE]
    /\ UNCHANGED <<inbox, throttleVars, activated, tokenVars, accFaults>>

\* The profile is read first; that of an erased account cannot be.
DeleteAccount(c, u) ==
    /\ Idle(c) /\ Authenticated(u) /\ account[u].state = "live"
    /\ Start(c, u, "anonymize", "activation")
    /\ UNCHANGED <<account, inbox, throttleVars, activated, tokenVars>>

\* One UPDATE of a row that is not erased yet; the loser of a race ends.
AnonymizeUser(c) ==
    LET u == requests[c].user IN
    /\ At(c, "anonymize")
    /\ IF account[u].state = "live"
       THEN /\ account' = [account EXCEPT ![u] = [NoRow EXCEPT !.state = "erased"]]
            /\ Goto(c, "revoke")
       ELSE Finish(c) /\ UNCHANGED account
    /\ UNCHANGED <<inbox, throttleVars, activated, tokenVars, accFaults>>

\* Mutant: the entry of the blocklist lives a day shorter than a token.
RevokeBriefly(c) ==
    /\ At(c, "revoke") /\ Finish(c)
    /\ revoked' = [revoked EXCEPT ![requests[c].user] = MaxAccessTokenTTL - 1]
    /\ UNCHANGED <<account, inbox, throttleVars, activated, token, late, accFaults>>

\* SET with the lifetime of a token; best effort.  The confirmation e-mail follows.
Revoke(c) ==
    /\ At(c, "revoke") /\ Finish(c)
    /\ \/ /\ revoked' = [revoked EXCEPT ![requests[c].user] = MaxAccessTokenTTL]
          /\ UNCHANGED accFaults
       \/ AccFault /\ UNCHANGED revoked
    /\ UNCHANGED <<account, inbox, throttleVars, activated, token, late>>

\* The process dies with all its requests.
AccCrash ==
    /\ \E c \in AccCalls : ~Idle(c)
    /\ requests' = [c \in AccCalls |-> [requests[c] EXCEPT
           !.at = "idle", !.for = "activation", !.link = NoLink]]
    /\ AccFault
    /\ UNCHANGED <<account, inbox, throttleVars, activated, tokenVars>>

-------------------------------------------------------------------------------
RequestStarts(c) ==
    \E u \in AccUsers :
        \/ Signup(c, u) \/ Login(c, u) \/ HandleGoogleCallback(c, u)
        \/ ResendActivationEmail(c, u) \/ RequestPasswordReset(c, u)
        \/ UpdateProfile(c, u) \/ DeleteAccount(c, u)
RequestGoesOn(c) ==
    \/ CreateInactiveUser(c) \/ CreateOAuthUser(c) \/ generateAuthResponse(c)
    \/ Allow(c) \/ Expire(c) \/ SaveLink(c) \/ EnqueueEmailSend(c)
    \/ UpdateRow(c) \/ AnonymizeUser(c) \/ Revoke(c)
AccExpiry == DayPasses \/ \E u \in AccUsers : ThrottleExpires(u)

AccNext ==
    \/ \E c \in AccCalls : RequestStarts(c) \/ RequestGoesOn(c)
    \/ \E c \in AccCalls, l \in Links : ActivateUser(c, l)
    \/ AccExpiry
    \/ AccCrash

AccSpec == AccInit /\ [][AccNext]_accVars

-------------------------------------------------------------------------------
(* Properties *)

\* A mailed link activates an account once, however often and by however many
\* requests it is used.
ActivatedOnce == \A l \in Links : activated[l] <= 1

\* Between two expiries of the counter at most MaxSends e-mails to an address
\* pass the throttle, and one more for each time that Redis did not answer,
\* whatever the interleaving of the requests for them.
SendsAreBounded == \A u \in AccUsers : granted[u] <= MaxSends + accFaults

\* The tokens of an erased account are dead before its entry on the blocklist
\* is: no token outlives the entry, or the request that erases the account is
\* about to set it, or something failed, or the token was minted after the
\* entry was set by a log-in that had read the row before.
ErasedIsLockedOut ==
    \A u \in AccUsers :
        account[u].state = "erased" /\ token[u] > revoked[u] =>
            BeingRevoked(u) \/ u \in late \/ accFaults > 0

\* An address that used up its e-mails can be sent some again, unless a request
\* died between INCR and EXPIRE.
ThrottleLifts ==
    \A u \in AccUsers : sends[u] >= MaxSends ~> (sends[u] = 0 \/ accFaults > 0)
===============================================================================
