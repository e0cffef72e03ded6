------------------------------ MODULE Pairing ------------------------------
(***************************************************************************)
(* Pairing the browser extension with an account.  The extension's worker  *)
(* asks for a pair of codes, stores and polls them (background.js) while   *)
(* its popup shows the user code; the user types that code into the app,   *)
(* where she is signed in (ClaimGrantCode); the next poll deletes the      *)
(* grant and answers with a token (CheckPairingStatus), and the extension  *)
(* then submits articles with it.  Grants expire, polls overlap, answers   *)
(* are lost, the popup closes, the worker dies.                            *)
(*                                                                         *)
(* The worker and the popup run one callback at a time: a step is the code *)
(* between two awaits together with the storage operation it issues.  A    *)
(* request reaches the backend at once, its answer when it does.           *)
(***************************************************************************)
EXTENDS Accounts

CONSTANTS
    Check,      \* polls that may be under way at the same time
    MaxCodes    \* bound: how many pairs of codes are generated

ASSUME PairingAssumption == MaxCodes \in Nat \ {0}

VARIABLES
    \* the backend
    grant,      \* auth_grant_codes: whether the row exists, and claimed_by
    expired,    \* the codes whose expires_at has passed
    key,        \* the issuer's signing key
    \* the extension
    stored,     \* storage.local: the codes, or none
    late,       \* storage.local: EXPIRES_AT has passed
    token,      \* storage.local: SESSION_TOKEN, or none
    up,         \* the worker is running
    polling,    \* pollTimer is set
    check,      \* checkStatus: the polls under way
    start,      \* startPairing: the call under way, and its codes
    unpairing,  \* unpair(): the call under way, by what made it
    refused,    \* the 401 of a submission is on its way
    popup,      \* "closed", "open", or "asking": in its retry loop
    resume,     \* a RESUME_POLLING message is on its way
    \* history
    claimers,   \* who was told that she paired a code
    tokens,     \* how many tokens were issued for a code
    overlapped, \* codes that two polls found settled before either deleted them
    cut,        \* an older call stopped the polling of the codes stored since
    astray,     \* polling was started for an extension that holds a token, or a
                \* poll was answered for codes that are not stored any more
    wiped       \* a poll removed a valid token without either

backend == <<grant, expired, key>>
storage == <<stored, late, token>>
worker == <<up, polling, check, start, unpairing, refused>>
screen == <<popup, resume>>
history == <<claimers, tokens, overlapped, cut, astray, wiped>>
vars == <<accounts, trouble, backend, storage, worker, screen, history>>

Code == 1..MaxCodes
NoCode == 0
Token == [by : User, code : Code, key : 0..MaxTrouble]
NoToken == [by |-> "none", code |-> NoCode, key |-> 0]
Poll == [pc : {"none", "sent", "found", "expired", "paired", "stop"},
         code : Code \cup {NoCode}, by : User \cup {"null"},
         expired : BOOLEAN, key : 0..MaxTrouble]
NoCheck == [pc |-> "none", code |-> NoCode, by |-> "null", expired |-> FALSE,
            key |-> 0]
NoStart == [pc |-> "none", code |-> NoCode]

TypeOK ==
    /\ AccountsTypeOK
    /\ grant \in [Code -> [row : {"none", "there", "deleted"}, by : User \cup {"null"}]]
    /\ expired \subseteq Code /\ key \in 0..MaxTrouble
    /\ stored \in Code \cup {NoCode} /\ late \in BOOLEAN /\ token \in Token \cup {NoToken}
    /\ up \in BOOLEAN /\ polling \in BOOLEAN /\ polling => up
    /\ check \in [Check -> Poll]
    /\ start \in [pc : {"none", "asked", "stored"}, code : Code \cup {NoCode}]
    /\ unpairing \in {"none", "click", "refused"}
    /\ refused \in BOOLEAN
    /\ popup \in {"closed", "open", "asking"}
    /\ resume \in BOOLEAN
    /\ claimers \in [Code -> SUBSET User] /\ overlapped \subseteq Code
    /\ tokens \in [Code -> Nat]
    /\ cut \in BOOLEAN /\ astray \in BOOLEAN /\ wiped \in BOOLEAN

Init ==
    /\ AccountsInit
    /\ grant = [c \in Code |-> [row |-> "none", by |-> "null"]]
    /\ expired = {} /\ key = 0
    /\ stored = NoCode /\ late = FALSE /\ token = NoToken
    /\ up = TRUE /\ polling = FALSE
    /\ check = [k \in Check |-> NoCheck] /\ start = NoStart
    /\ unpairing = "none" /\ refused = FALSE
    /\ popup = "closed" /\ resume = FALSE
    /\ claimers = [c \in Code |-> {}] /\ tokens = [c \in Code |-> 0]
    /\ overlapped = {} /\ cut = FALSE /\ astray = FALSE /\ wiped = FALSE

----------------------------------------------------------------------------
(* Time and the backend. *)

\* Codes live equally long, so they expire in their order.
Expire(c) ==
    /\ grant[c].row = "there" \/ stored = c
    /\ c \notin expired /\ \A d \in Code : d < c /\ grant[d].row = "there" => d \in expired
    /\ expired' = expired \cup {c}
    /\ UNCHANGED <<accounts, trouble, grant, key, storage, worker, screen, history>>

\* The extension counts from when it got the codes: for it they expire later.
ExpireInExtension ==
    /\ stored \in expired /\ ~late
    /\ late' = TRUE
    /\ UNCHANGED <<accounts, trouble, backend, stored, token, worker, screen, history>>

\* The key is generated when the backend starts: every token it signed dies.
\* (So does a token after its 24 hours.)
NewKey ==
    /\ Trouble("key") /\ key' = key + 1
    /\ UNCHANGED <<accounts, grant, expired, storage, worker, screen, history>>

\* Mutant: the UPDATE does not ask whether the code is claimed.
ClaimGrantCode_Again(u, c) ==
    /\ Authenticated(u) /\ u \in users
    /\ grant[c].row = "there" /\ c \notin expired
    /\ grant' = [grant EXCEPT ![c].by = u]
    /\ claimers' = [claimers EXCEPT ![c] = @ \cup {u}]
    /\ UNCHANGED <<accounts, trouble, expired, key, storage, worker, screen,
                   tokens, overlapped, cut, astray, wiped>>

\* One UPDATE: nobody has claimed the code, it has not expired, and claimed_by
\* references a users row.
ClaimGrantCode(u, c) ==
    /\ Authenticated(u) /\ u \in users
    /\ grant[c].row = "there" /\ grant[c].by = "null" /\ c \notin expired
    /\ grant' = [grant EXCEPT ![c].by = u]
    /\ claimers' = [claimers EXCEPT ![c] = @ \cup {u}]
    /\ UNCHANGED <<accounts, trouble, expired, key, storage, worker, screen,
                   tokens, overlapped, cut, astray, wiped>>

\* CheckPairingStatus first reads the grant.  No row is an error, and an open
\* grant is "pending": checkStatus makes nothing of either.
GetDeviceGrant(k) ==
    LET c == check[k].code
        g == grant[c]  IN
    /\ check[k].pc = "sent"
    /\ check' = [check EXCEPT ![k] =
          IF g.row = "there" /\ (c \in expired \/ g.by # "null")
          THEN [@ EXCEPT !.pc = "found", !.by = g.by, !.expired = c \in expired]
          ELSE NoCheck]
    /\ overlapped' = overlapped \cup
          {d \in {c} : check'[k].pc = "found"
                       /\ \E j \in Check \ {k} : check[j].pc = "found" /\ check[j].code = c}
    /\ UNCHANGED <<accounts, trouble, backend, storage, up, polling, start, unpairing,
                   refused, screen, claimers, tokens, cut, astray, wiped>>

\* Mutant: the grant stays.
DeleteGrantCodes_Kept(k) ==
    LET c == check[k].code  IN
    /\ check[k].pc = "found"
    /\ check' = [check EXCEPT ![k] =
          [@ EXCEPT !.pc = IF check[k].expired THEN "expired" ELSE "paired", !.key = key]]
    /\ tokens' = IF check[k].expired THEN tokens ELSE [tokens EXCEPT ![c] = @ + 1]
    /\ UNCHANGED <<accounts, trouble, backend, storage, up, polling, start, unpairing,
                   refused, screen, claimers, overlapped, cut, astray, wiped>>

\* Then it deletes it, whether or not the row is still there, and answers by
\* what it read.
DeleteGrantCodes(k) ==
    LET c == check[k].code  IN
    /\ check[k].pc = "found"
    /\ grant' = [grant EXCEPT ![c].row = "deleted"]
    /\ check' = [check EXCEPT ![k] =
          [@ EXCEPT !.pc = IF check[k].expired THEN "expired" ELSE "paired", !.key = key]]
    /\ tokens' = IF check[k].expired THEN tokens ELSE [tokens EXCEPT ![c] = @ + 1]
    /\ UNCHANGED <<accounts, trouble, expired, key, storage, up, polling, start, unpairing,
                   refused, screen, claimers, overlapped, cut, astray, wiped>>

\* The backend fails, or its answer is lost on the way.
PollFails(k) ==
    /\ Trouble("lost")
    /\ check[k].pc \in {"found", "expired", "paired"}
    /\ check' = [check EXCEPT ![k] = NoCheck]
    /\ UNCHANGED <<accounts, backend, storage, up, polling, start, unpairing, refused,
                   screen, history>>

----------------------------------------------------------------------------
(* The extension's storage. *)

PairingObject == IF stored # NoCode /\ ~late THEN stored ELSE NoCode
AuthState == IF token # NoToken THEN "paired"
             ELSE IF PairingObject # NoCode THEN "pairing" ELSE "unpaired"

\* An open popup that sees an unpaired extension asks for codes, and asks again
\* five seconds after every answer, whatever it was and whatever came since.
Ask == IF popup = "closed" THEN "closed" ELSE "asking"

\* Removing a token that is there makes the open popup begin (sessionTokenUpdated).
ResetAll ==
    /\ stored' = NoCode /\ late' = FALSE /\ token' = NoToken
    /\ popup' = IF token # NoToken THEN Ask ELSE popup

----------------------------------------------------------------------------
(* The worker: pairing. *)

\* History: a valid token is removed, and polling has not gone astray.
Wipes == token # NoToken /\ token.key = key /\ ~astray /\ overlapped = {}

\* startPairing.  Calls do not overlap: a popup waits for its own, and one that
\* was closed and opened again is assumed to be slower than the backend.
RequestCodes(c) ==
    /\ up /\ popup = "asking" /\ start = NoStart
    /\ grant[c].row = "none" /\ \A d \in Code : d < c => grant[d].row # "none"
    /\ start' = [pc |-> "asked", code |-> c]
    /\ grant' = [grant EXCEPT ![c].row = "there"]
    /\ UNCHANGED <<accounts, trouble, expired, key, storage, up, polling, check, unpairing,
                   refused, screen, history>>

RequestFails ==
    /\ Trouble("lost") /\ start.pc = "asked"
    /\ start' = NoStart
    /\ UNCHANGED <<accounts, backend, storage, up, polling, check, unpairing, refused,
                   screen, history>>

SetPairingMode ==
    /\ start.pc = "asked"
    /\ stored' = start.code /\ late' = FALSE
    /\ start' = [start EXCEPT !.pc = "stored"]
    /\ UNCHANGED <<accounts, trouble, backend, token, up, polling, check, unpairing,
                   refused, screen, history>>

StartPolling ==
    /\ start.pc = "stored"
    /\ start' = NoStart
    /\ polling' = TRUE /\ cut' = FALSE
    /\ astray' = (astray \/ token # NoToken)
    /\ UNCHANGED <<accounts, trouble, backend, storage, up, check, unpairing, refused,
                   screen, claimers, tokens, overlapped, wiped>>

\* The interval fires, whether or not earlier polls have been answered; with no
\* codes, or late ones, the extension is reset.
Tick(k) ==
    /\ polling /\ check[k].pc = "none"
    /\ IF PairingObject = NoCode
       THEN /\ ResetAll
            /\ check' = [check EXCEPT ![k].pc = "stop"]
            /\ wiped' = (wiped \/ Wipes)
       ELSE /\ check' = [check EXCEPT ![k] = [NoCheck EXCEPT !.pc = "sent", !.code = PairingObject]]
            /\ UNCHANGED <<storage, popup, wiped>>
    /\ UNCHANGED <<accounts, trouble, backend, up, polling, start, unpairing, refused,
                   resume, claimers, tokens, overlapped, cut, astray>>

\* checkStatus goes on with the answer, whatever happened since it asked.
\* Mutant: the polling is not stopped.
AnsweredPaired_GoesOn(k) ==
    /\ check[k].pc = "paired"
    /\ token' = [by |-> check[k].by, code |-> check[k].code, key |-> check[k].key]
    /\ check' = [check EXCEPT ![k] = NoCheck]
    /\ astray' = (astray \/ check[k].code # stored)
    /\ UNCHANGED <<accounts, trouble, backend, stored, late, up, polling, start, unpairing, refused,
                   screen, claimers, tokens, overlapped, cut, wiped>>

AnsweredPaired(k) ==
    /\ check[k].pc = "paired"
    /\ token' = [by |-> check[k].by, code |-> check[k].code, key |-> check[k].key]
    /\ polling' = FALSE
    /\ check' = [check EXCEPT ![k] = NoCheck]
    /\ astray' = (astray \/ check[k].code # stored)
    /\ UNCHANGED <<accounts, trouble, backend, stored, late, up, start, unpairing, refused,
                   screen, claimers, tokens, overlapped, cut, wiped>>

AnsweredExpired(k) ==
    /\ check[k].pc = "expired"
    /\ ResetAll
    /\ check' = [check EXCEPT ![k].pc = "stop"]
    /\ astray' = (astray \/ check[k].code # stored)
    /\ wiped' = (wiped \/ (Wipes /\ check[k].code = stored))
    /\ UNCHANGED <<accounts, trouble, backend, up, polling, start, unpairing, refused,
                   resume, claimers, tokens, overlapped, cut>>

\* stopPolling after an await: it stops the timer there is by now.
Stop == polling' = FALSE /\ cut' = (cut \/ AuthState = "pairing")

StopPolling(k) ==
    /\ check[k].pc = "stop"
    /\ Stop
    /\ check' = [check EXCEPT ![k] = NoCheck]
    /\ UNCHANGED <<accounts, trouble, backend, storage, up, start, unpairing, refused,
                   screen, claimers, tokens, overlapped, astray, wiped>>

----------------------------------------------------------------------------
(* The worker: unpairing and submitting. *)

\* unpair(): the button of a popup that shows "paired", or a refused submission.
Unpair ==
    /\ up /\ popup # "closed" /\ token # NoToken /\ unpairing = "none"
    /\ ResetAll
    /\ unpairing' = "click"
    /\ UNCHANGED <<accounts, trouble, backend, up, polling, check, start, refused,
                   resume, history>>

\* The popup then renders the state there is by now and starts from it.
Unpaired ==
    /\ unpairing = "click"
    /\ unpairing' = "none"
    /\ Stop
    /\ popup' = IF AuthState = "unpaired" THEN Ask ELSE popup
    /\ resume' = (resume \/ (popup # "closed" /\ AuthState = "pairing"))
    /\ UNCHANGED <<accounts, trouble, backend, storage, up, check, start, refused,
                   claimers, tokens, overlapped, astray, wiped>>

\* SEND_URL with a token the backend does not accept any more.  (One it accepts
\* is ParseArticle for its subject, and changes nothing here.)
SubmitRefused ==
    /\ up /\ popup # "closed" /\ token # NoToken /\ token.key # key
    /\ refused' = TRUE
    /\ UNCHANGED <<accounts, trouble, backend, storage, up, polling, check, start,
                   unpairing, screen, history>>

\* 401: the extension unpairs, whatever token it holds by now.
UnpairRefused ==
    /\ refused /\ unpairing = "none"
    /\ refused' = FALSE
    /\ ResetAll
    /\ unpairing' = "refused"
    /\ UNCHANGED <<accounts, trouble, backend, up, polling, check, start, resume, history>>

RefusedUnpaired ==
    /\ unpairing = "refused"
    /\ unpairing' = "none"
    /\ Stop
    /\ UNCHANGED <<accounts, trouble, backend, storage, up, check, start, refused,
                   screen, claimers, tokens, overlapped, astray, wiped>>

----------------------------------------------------------------------------
(* The popup and the worker's life. *)

OpenPopup ==
    /\ popup = "closed"
    /\ popup' = IF AuthState = "unpaired" THEN "asking" ELSE "open"
    /\ resume' = (resume \/ AuthState = "pairing")
    /\ UNCHANGED <<accounts, trouble, backend, storage, worker, history>>

ClosePopup ==
    /\ popup # "closed"
    /\ popup' = "closed"
    /\ UNCHANGED <<accounts, trouble, backend, storage, worker, resume, history>>

\* RESUME_POLLING does not look at the token either.
ResumePolling ==
    /\ up /\ resume
    /\ resume' = FALSE
    /\ polling' = (polling \/ PairingObject # NoCode) /\ cut' = (cut /\ ~polling')
    /\ astray' = (astray \/ (PairingObject # NoCode /\ token # NoToken))
    /\ UNCHANGED <<accounts, trouble, backend, storage, up, check, start, unpairing,
                   refused, popup, claimers, tokens, overlapped, wiped>>

\* What the worker was doing is forgotten, and a loop that waits for it ends.
WorkerDies ==
    /\ Trouble("worker") /\ up
    /\ up' = FALSE /\ polling' = FALSE /\ unpairing' = "none" /\ refused' = FALSE
    /\ check' = [k \in Check |-> NoCheck] /\ start' = NoStart
    /\ popup' = IF popup = "asking" /\ start # NoStart THEN "open" ELSE popup
    /\ resume' = FALSE
    /\ UNCHANGED <<accounts, backend, storage, history>>

\* Mutant: it waits for the popup to resume the polling.
WorkerStarts_Idle ==
    /\ ~up /\ popup # "closed"
    /\ up' = TRUE
    /\ cut' = FALSE
    /\ UNCHANGED <<accounts, trouble, backend, storage, polling, check, start, unpairing,
                   refused, screen, claimers, tokens, overlapped, astray, wiped>>

\* A message of the popup starts it again.
WorkerStarts ==
    /\ ~up /\ popup # "closed"
    /\ up' = TRUE
    /\ polling' = (AuthState = "pairing") /\ cut' = FALSE
    /\ UNCHANGED <<accounts, trouble, backend, storage, check, start, unpairing,
                   refused, screen, claimers, tokens, overlapped, astray, wiped>>

----------------------------------------------------------------------------
AccountsAct ==
    AccountsStep /\ UNCHANGED <<backend, storage, worker, screen, history>>

CodeStep ==
    \E c \in Code : \/ Expire(c)
                    \/ RequestCodes(c)
                    \/ \E u \in User : ClaimGrantCode(u, c)

PollStep ==
    \E k \in Check : \/ Tick(k) \/ GetDeviceGrant(k) \/ DeleteGrantCodes(k)
                     \/ PollFails(k) \/ AnsweredPaired(k)
                     \/ AnsweredExpired(k) \/ StopPolling(k)

Next ==
    \/ AccountsAct \/ CodeStep \/ PollStep
    \/ ExpireInExtension \/ NewKey
    \/ RequestFails \/ SetPairingMode \/ StartPolling \/ Unpair \/ Unpaired
    \/ SubmitRefused \/ UnpairRefused \/ RefusedUnpaired
    \/ OpenPopup \/ ClosePopup \/ ResumePolling \/ WorkerDies \/ WorkerStarts

Spec == Init /\ [][Next]_vars

----------------------------------------------------------------------------
(* Safety. *)

\* Hazard (two users type the same code; a token for the wrong account): at
\* most one user is ever told that she paired a code, every token for it is
\* hers, on its way or stored, and she has a users row to link articles to.
OneClaimer ==
    /\ \A c \in Code : Cardinality(claimers[c]) <= 1 /\ claimers[c] \subseteq users
    /\ token # NoToken => claimers[token.code] = {token.by}
    /\ \A k \in Check : check[k].pc = "paired" => claimers[check[k].code] = {check[k].by}

\* Hazard (the deletion does not look whether it deleted anything): a claimed
\* code is good for one token, except when two polls found it before either
\* deleted it.
OneTokenUnlessOverlapped ==
    \A c \in Code \ overlapped : tokens[c] <= 1

\* Hazard (the codes stay stored, so that more polling goes on to their expiry
\* and resets the extension): a poll costs the extension a valid token only when
\* polling went astray, or two polls overlapped.
TokenKept == ~wiped

\* Hazard (a timer nobody owns: every call may start or stop it): the worker
\* polls the codes the popup shows, or is about to, except when a call that reset
\* the extension stopped the polling begun since.
ShownCodeIsPolled ==
    up /\ AuthState = "pairing" /\ start.pc # "stored" => polling \/ cut
=============================================================================
