--------------------------- MODULE PairingProofs ---------------------------
(***************************************************************************)
(* Pairing's safety for any users, any number of polls and codes, and      *)
(* however much goes wrong.  None of the properties but the accounts' is   *)
(* inductive by itself: what a poll found out has to stay true until it    *)
(* acts on it (ClaimInv), the grant has to be gone when the token is there *)
(* (PollInv), and codes have to be nobody else's until they are stored     *)
(* (FreshInv), for a stored token to be safe from old polls (KeptInv).     *)
(***************************************************************************)
EXTENDS Pairing, FiniteSetTheorems, TLAPS

----------------------------------------------------------------------------
(* Records of polls. *)

\* No poll, ...
LEMMA NoPoll == NoCheck \in Poll /\ NoCheck.pc = "none"
  BY AccountsAssumption DEF NoCheck, Poll, NoCode

\* ... one that is sent, ...
LEMMA SentPoll ==
    ASSUME NEW r \in Poll, NEW c \in Code
    PROVE LET s == [r EXCEPT !.pc = "sent", !.code = c]
          IN s \in Poll /\ s.pc = "sent" /\ s.code = c
  BY DEF Poll

\* ... one that found a settled grant, ...
LEMMA FoundPoll ==
    ASSUME NEW r \in Poll, NEW u \in User \cup {"null"}, NEW b \in BOOLEAN
    PROVE LET f == [r EXCEPT !.pc = "found", !.by = u, !.expired = b]
          IN /\ f \in Poll /\ f.pc = "found" /\ f.code = r.code
             /\ f.by = u /\ f.expired = b
  BY DEF Poll

\* ... one that is answered, ...
LEMMA AnsweredPoll ==
    ASSUME NEW r \in Poll, NEW n \in 0..MaxTrouble, NEW pc \in {"expired", "paired"}
    PROVE LET a == [r EXCEPT !.pc = pc, !.key = n]
          IN /\ a \in Poll /\ a.pc = pc /\ a.code = r.code
             /\ a.by = r.by /\ a.expired = r.expired
  BY DEF Poll

\* ... and one that is to stop the polling are polls.
LEMMA StopPoll ==
    ASSUME NEW r \in Poll
    PROVE LET s == [r EXCEPT !.pc = "stop"] IN s \in Poll /\ s.pc = "stop"
  BY DEF Poll

----------------------------------------------------------------------------
(* Types. *)

Asked == {"sent", "found", "expired", "paired"}

\* The code and the claimer a poll has at the step it has reached.
PollOK(r) ==
    /\ r.pc \in Asked => r.code \in Code
    /\ r.pc = "paired" \/ (r.pc = "found" /\ ~r.expired) => r.by \in User

TypeInv ==
    /\ TypeOK
    /\ key \in 0..trouble
    /\ \A k \in Check : PollOK(check[k])
    /\ start.pc # "none" => start.code \in Code /\ up

----------------------------------------------------------------------------
(* What the steps of a poll do. *)

OnlyCheck(k) ==
    check' \in [Check -> Poll] /\ \A j \in Check \ {k} : check'[j] = check[j]

\* A tick resets the extension, or sends a poll for the codes that are stored.
TickDoes(k) ==
    /\ OnlyCheck(k)
    /\ polling /\ check[k].pc = "none"
    /\ \/ /\ PairingObject = NoCode /\ check'[k].pc = "stop"
          /\ ResetAll /\ wiped' = (wiped \/ Wipes)
       \/ /\ PairingObject \in Code
          /\ check'[k].pc = "sent" /\ check'[k].code = PairingObject
          /\ UNCHANGED <<storage, popup, wiped>>
    /\ UNCHANGED <<accounts, trouble, backend, up, polling, start, unpairing, refused,
                   resume, claimers, tokens, overlapped, cut, astray>>

\* TickDoes is what Tick does.
LEMMA Ticked ==
    ASSUME TypeInv, NEW k \in Check, Tick(k) PROVE TickDoes(k)
<1> USE DEF OnlyCheck
<1>1. check \in [Check -> Poll] /\ check[k] \in Poll
  BY DEF TypeInv, TypeOK
<1>2. CASE PairingObject = NoCode
  <2>1. check' = [check EXCEPT ![k] = [check[k] EXCEPT !.pc = "stop"]]
    BY <1>2 DEF Tick
  <2>2. check'[k].pc = "stop" /\ check'[k] \in Poll
    BY <1>1, <2>1, StopPoll
  <2>3. OnlyCheck(k)
    BY <1>1, <2>1, <2>2
  <2> QED
    BY <1>2, <2>2, <2>3 DEF Tick, TickDoes
<1>3. CASE PairingObject # NoCode
  <2> DEFINE s == [NoCheck EXCEPT !.pc = "sent", !.code = PairingObject]
  <2>1. check' = [check EXCEPT ![k] = s]
    BY <1>3 DEF Tick
  <2>2. PairingObject \in Code
    BY <1>3 DEF PairingObject, TypeInv, TypeOK
  <2>3. s \in Poll /\ s.pc = "sent" /\ s.code = PairingObject
    BY <2>2, NoPoll, SentPoll
  <2> HIDE DEF s
  <2>4. OnlyCheck(k)
    BY <1>1, <2>1, <2>3
  <2>5. check'[k] = s
    BY <1>1, <2>1
  <2> QED
    BY <1>3, <2>2, <2>3, <2>4, <2>5 DEF Tick, TickDoes
<1> QED
  BY <1>2, <1>3

\* A read finds a grant that is claimed or has expired, or the poll is over.
LookDoes(k) ==
    LET c == check[k].code IN
    /\ OnlyCheck(k)
    /\ check[k].pc = "sent" /\ c \in Code
    /\ \/ /\ check'[k].pc = "found" /\ check'[k].code = c
          /\ grant[c].row = "there" /\ check'[k].by = grant[c].by
          /\ check'[k].by = "null" => check'[k].expired
          /\ overlapped' = overlapped \cup
                {d \in {c} : \E j \in Check \ {k} :
                                check[j].pc = "found" /\ check[j].code = c}
       \/ check'[k] = NoCheck /\ UNCHANGED overlapped
    /\ UNCHANGED <<accounts, trouble, backend, storage, up, polling, start, unpairing,
                   refused, screen, claimers, tokens, cut, astray, wiped>>

\* LookDoes is what GetDeviceGrant does.
LEMMA Looked ==
    ASSUME TypeInv, NEW k \in Check, GetDeviceGrant(k) PROVE LookDoes(k)
<1> USE DEF OnlyCheck
<1> DEFINE c == check[k].code
           g == grant[c]
           settled == g.row = "there" /\ (c \in expired \/ g.by # "null")
           gone == c \in expired
           f == [check[k] EXCEPT !.pc = "found", !.by = g.by, !.expired = gone]
<1>1. check \in [Check -> Poll] /\ check[k] \in Poll /\ check[k].pc = "sent" /\ c \in
     Code
  BY DEF GetDeviceGrant, TypeInv, TypeOK, PollOK, Asked
<1>2. g.by \in User \cup {"null"}
  BY <1>1 DEF TypeInv, TypeOK
<1>3. CASE settled
  <2>1. check' = [check EXCEPT ![k] = f]
    BY <1>3 DEF GetDeviceGrant
  <2>2. /\ f \in Poll /\ f.pc = "found" /\ f.code = c
        /\ f.by = g.by
    <3>1. f.pc = "found" /\ f.code = c /\ f.by = g.by
      BY <1>1 DEF Poll
    <3>2. f \in Poll
      <4> DEFINE Found(b) == [check[k] EXCEPT !.pc = "found", !.by = g.by, !.expired =
           b]
      <4>1. Found(TRUE) \in Poll /\ Found(FALSE) \in Poll
        BY <1>1, <1>2 DEF Poll
      <4>2. gone = TRUE \/ gone = FALSE
        OBVIOUS
      <4> QED
        BY <4>1, <4>2
    <3> QED
      BY <3>1, <3>2
  <2>5. f.by = "null" => f.expired
    BY <1>1, <1>2, <1>3 DEF Poll
  <2> HIDE DEF f
  <2>3. OnlyCheck(k) /\ check'[k] = f
    BY <1>1, <2>1, <2>2
  <2>4. overlapped' = overlapped \cup
            {d \in {c} : \E j \in Check \ {k} : check[j].pc = "found" /\ check[j].code =
                 c}
    BY <2>2, <2>3 DEF GetDeviceGrant
  <2> QED
    BY <1>1, <1>3, <2>2, <2>3, <2>4, <2>5 DEF GetDeviceGrant, LookDoes
<1>4. CASE ~settled
  <2>1. check' = [check EXCEPT ![k] = NoCheck]
    BY <1>4 DEF GetDeviceGrant
  <2>2. OnlyCheck(k) /\ check'[k] = NoCheck
    BY <1>1, <2>1, NoPoll
  <2>3. overlapped' = overlapped
    BY <2>2, NoPoll DEF GetDeviceGrant
  <2> QED
    BY <1>1, <2>2, <2>3 DEF GetDeviceGrant, LookDoes
<1> QED
  BY <1>3, <1>4

\* The deletion answers by what was read, with a token for the claimer.
DeletionDoes(k) ==
    LET c == check[k].code IN
    /\ OnlyCheck(k)
    /\ check[k].pc = "found" /\ c \in Code
    /\ check'[k].pc = (IF check[k].expired THEN "expired" ELSE "paired")
    /\ check'[k].code = c /\ check'[k].by = check[k].by
    /\ check'[k].expired = check[k].expired
    /\ grant' = [grant EXCEPT ![c].row = "deleted"]
    /\ tokens' = IF check[k].expired THEN tokens ELSE [tokens EXCEPT ![c] = @ + 1]
    /\ UNCHANGED <<accounts, trouble, expired, key, storage, up, polling, start,
                   unpairing, refused, screen, claimers, overlapped, cut, astray,
                        wiped>>

\* DeletionDoes is what DeleteGrantCodes does.
LEMMA Deleted ==
    ASSUME TypeInv, NEW k \in Check, DeleteGrantCodes(k) PROVE DeletionDoes(k)
<1> DEFINE pc == IF check[k].expired THEN "expired" ELSE "paired"
           a == [check[k] EXCEPT !.pc = pc, !.key = key]
<1>1. /\ check \in [Check -> Poll] /\ check[k] \in Poll /\ check[k].pc = "found"
      /\ check[k].code \in Code
  BY DEF DeleteGrantCodes, TypeInv, TypeOK, PollOK, Asked
<1>2. key \in 0..MaxTrouble
  BY DEF TypeInv, TypeOK
<1>3. check' = [check EXCEPT ![k] = a]
  BY DEF DeleteGrantCodes
<1>4. /\ a \in Poll /\ a.pc = pc /\ a.code = check[k].code
      /\ a.by = check[k].by /\ a.expired = check[k].expired
  BY <1>1, <1>2 DEF Poll
<1> HIDE DEF a
<1>5. OnlyCheck(k) /\ check'[k] = a
  BY <1>1, <1>3, <1>4 DEF OnlyCheck
<1> QED
  BY <1>1, <1>4, <1>5 DEF DeleteGrantCodes, DeletionDoes

\* An answered poll is over, ...
LEMMA Over ==
    ASSUME TypeInv, NEW k \in Check, check' = [check EXCEPT ![k] = NoCheck]
    PROVE OnlyCheck(k) /\ check'[k].pc = "none"
  BY NoPoll DEF OnlyCheck, TypeInv, TypeOK

\* ... or about to stop the polling.
LEMMA ToStop ==
    ASSUME TypeInv, NEW k \in Check,
           check' = [check EXCEPT ![k].pc = "stop"]
    PROVE OnlyCheck(k) /\ check'[k].pc = "stop"
<1>1. check \in [Check -> Poll] /\ check[k] \in Poll
  BY DEF TypeInv, TypeOK
<1>2. check' = [check EXCEPT ![k] = [check[k] EXCEPT !.pc = "stop"]]
  OBVIOUS
<1> QED
  BY <1>1, <1>2, StopPoll DEF OnlyCheck

\* Every step keeps the types.
LEMMA TypeStep ==
    ASSUME TypeInv, [Next]_vars PROVE TypeInv'
<1> USE PairingAssumption, AccountsAssumption DEF TypeInv, TypeOK, AccountsTypeOK, Code,
     NoCode, Asked, accounts, backend,
     storage, worker, screen, history, vars
<1>1. ASSUME NEW u \in User, Register(u), UNCHANGED <<backend, storage, worker, screen,
     history>> PROVE TypeInv'
  BY <1>1 DEF Register
<1>2. ASSUME NEW u \in User, CreateUser(u), UNCHANGED <<backend, storage, worker,
     screen, history>> PROVE TypeInv'
  BY <1>2 DEF CreateUser
<1>3. ASSUME NEW u \in User, CreateUserFails(u), UNCHANGED <<backend, storage, worker,
     screen, history>> PROVE TypeInv'
  BY <1>3 DEF CreateUserFails, Trouble
<1>4. ASSUME NEW c \in Code, Expire(c) PROVE TypeInv'
  BY <1>4 DEF Expire
<1>5. ASSUME NEW c \in Code, RequestCodes(c) PROVE TypeInv'
  <2>1. grant' \in [Code -> [row : {"none", "there", "deleted"}, by : User \cup
       {"null"}]]
    BY <1>5 DEF RequestCodes
  <2> QED
    BY <1>5, <2>1 DEF RequestCodes
<1>6. ASSUME NEW u \in User, NEW c \in Code, ClaimGrantCode(u, c) PROVE TypeInv'
  BY <1>6 DEF ClaimGrantCode, Authenticated
<1>7. ASSUME NEW k \in Check, Tick(k) PROVE TypeInv'
  <2>1. TickDoes(k)
    BY <1>7, Ticked
  <2>2. \A j \in Check : PollOK(check'[j])
    BY <2>1 DEF TickDoes, OnlyCheck, PollOK
  <2>3. wiped' \in BOOLEAN
    BY <2>1 DEF TickDoes
  <2>4. CASE ResetAll
    BY <2>1, <2>2, <2>3, <2>4 DEF TickDoes, OnlyCheck, ResetAll, Ask
  <2>5. CASE UNCHANGED <<storage, popup>>
    BY <2>1, <2>2, <2>3, <2>5 DEF TickDoes, OnlyCheck
  <2> QED
    BY <2>1, <2>4, <2>5 DEF TickDoes
<1>8. ASSUME NEW k \in Check, GetDeviceGrant(k) PROVE TypeInv'
  <2>1. LookDoes(k)
    BY <1>8, Looked
  <2>2. check'[k] = NoCheck \/ check'[k].by \in User \cup {"null"}
    BY <2>1 DEF LookDoes
  <2>3. \A j \in Check : PollOK(check'[j])
    BY <2>1, <2>2, NoPoll DEF LookDoes, OnlyCheck, PollOK
  <2>4. overlapped' \subseteq Code
    BY <2>1 DEF LookDoes
  <2> QED
    BY <2>1, <2>3, <2>4 DEF LookDoes, OnlyCheck
<1>9. ASSUME NEW k \in Check, DeleteGrantCodes(k) PROVE TypeInv'
  <2>1. DeletionDoes(k)
    BY <1>9, Deleted
  <2>2. grant' \in [Code -> [row : {"none", "there", "deleted"}, by : User \cup
       {"null"}]]
    BY <2>1 DEF DeletionDoes
  <2>3. tokens' \in [Code -> Nat]
    BY <2>1 DEF DeletionDoes
  <2>4. \A j \in Check : PollOK(check'[j])
    BY <2>1 DEF DeletionDoes, OnlyCheck, PollOK
  <2> QED
    BY <2>1, <2>2, <2>3, <2>4 DEF DeletionDoes, OnlyCheck
<1>10. ASSUME NEW k \in Check, PollFails(k) PROVE TypeInv'
  <2>1. OnlyCheck(k) /\ check'[k].pc = "none"
    BY <1>10, Over DEF PollFails
  <2> QED
    BY <1>10, <2>1 DEF OnlyCheck, PollOK, PollFails, Trouble
<1>11. ASSUME NEW k \in Check, AnsweredPaired(k) PROVE TypeInv'
  <2>1. OnlyCheck(k) /\ check'[k].pc = "none"
    BY <1>11, Over DEF AnsweredPaired
  <2>2. /\ check[k].by \in User /\ check[k].code \in Code
        /\ check[k].key \in 0..MaxTrouble
    BY <1>11 DEF AnsweredPaired, Poll, PollOK
  <2>3. token' \in Token
    BY <1>11, <2>2 DEF AnsweredPaired, Token
  <2> QED
    BY <1>11, <2>1, <2>3 DEF OnlyCheck, AnsweredPaired, PollOK
<1>12. ASSUME NEW k \in Check, AnsweredExpired(k) PROVE TypeInv'
  <2>1. OnlyCheck(k) /\ check'[k].pc = "stop"
    BY <1>12, ToStop DEF AnsweredExpired
  <2> QED
    BY <1>12, <2>1 DEF OnlyCheck, PollOK, AnsweredExpired, ResetAll, Ask, Wipes, NoToken
<1>13. ASSUME NEW k \in Check, StopPolling(k) PROVE TypeInv'
  <2>1. OnlyCheck(k) /\ check'[k].pc = "none"
    BY <1>13, Over DEF StopPolling
  <2> QED
    BY <1>13, <2>1 DEF OnlyCheck, PollOK, StopPolling, Stop
<1>14. CASE ExpireInExtension
  BY <1>14 DEF ExpireInExtension
<1>15. CASE NewKey
  BY <1>15 DEF NewKey, Trouble
<1>16. CASE RequestFails
  BY <1>16 DEF RequestFails, Trouble, NoStart
<1>17. CASE SetPairingMode
  BY <1>17 DEF SetPairingMode
<1>18. CASE StartPolling
  BY <1>18 DEF StartPolling, NoStart
<1>19. CASE Unpair
  BY <1>19 DEF Unpair, ResetAll, Ask
<1>20. CASE Unpaired
  BY <1>20 DEF Unpaired, Stop, Ask
<1>21. CASE SubmitRefused
  BY <1>21 DEF SubmitRefused
<1>22. CASE UnpairRefused
  BY <1>22 DEF UnpairRefused, ResetAll, Ask
<1>23. CASE RefusedUnpaired
  BY <1>23 DEF RefusedUnpaired, Stop
<1>24. CASE OpenPopup
  BY <1>24 DEF OpenPopup
<1>25. CASE ClosePopup
  BY <1>25 DEF ClosePopup
<1>26. CASE ResumePolling
  BY <1>26 DEF ResumePolling, PairingObject
<1>27. CASE WorkerDies
  <2>1. check' \in [Check -> Poll] /\ \A k \in Check : PollOK(check'[k])
    BY <1>27, NoPoll DEF WorkerDies, PollOK
  <2>2. start' \in [pc : {"none", "asked", "stored"}, code : Code \cup {NoCode}]
    BY <1>27 DEF WorkerDies, NoStart
  <2>3. start'.pc = "none"
    BY <1>27 DEF WorkerDies, NoStart
  <2>4. trouble' \in 0..MaxTrouble /\ key' \in 0..trouble'
    BY <1>27 DEF WorkerDies, Trouble
  <2>5. popup' \in {"closed", "open", "asking"}
    BY <1>27 DEF WorkerDies
  <2> QED
    BY <1>27, <2>1, <2>2, <2>3, <2>4, <2>5 DEF WorkerDies
<1>28. CASE WorkerStarts
  BY <1>28 DEF WorkerStarts, AuthState
<1>29. CASE UNCHANGED vars
  BY <1>29
<1> QED
  BY <1>1, <1>2, <1>3, <1>4, <1>5, <1>6, <1>7, <1>8, <1>9, <1>10, <1>11, <1>12, <1>13,
       <1>14, <1>15, <1>16, <1>17, <1>18, <1>19, <1>20, <1>21, <1>22, <1>23, <1>24,
       <1>25, <1>26, <1>27, <1>28, <1>29
  DEF Next, AccountsAct, AccountsStep, CodeStep, PollStep

----------------------------------------------------------------------------
(* Accounts. *)

\* Only the three steps of a registration matter, and each moves the user on.
LEMMA RowsStep ==
    ASSUME EveryAccountHasItsRow, [Next]_vars PROVE EveryAccountHasItsRow'
<1> USE DEF EveryAccountHasItsRow, accounts, vars
<1>1. ASSUME NEW u \in User, Register(u) PROVE EveryAccountHasItsRow'
  BY <1>1 DEF Register
<1>2. ASSUME NEW u \in User, CreateUser(u) PROVE EveryAccountHasItsRow'
  BY <1>2 DEF CreateUser
<1>3. ASSUME NEW u \in User, CreateUserFails(u) PROVE EveryAccountHasItsRow'
  BY <1>3 DEF CreateUserFails
<1>4. CASE CodeStep
  BY <1>4 DEF CodeStep, Expire, RequestCodes, ClaimGrantCode
<1>5. CASE PollStep
  BY <1>5
  DEF PollStep, Tick, GetDeviceGrant, DeleteGrantCodes, PollFails, AnsweredPaired,
       AnsweredExpired, StopPolling
<1>6. CASE ExpireInExtension \/ NewKey \/ RequestFails \/ SetPairingMode \/ StartPolling
     \/ Unpair \/ Unpaired \/ SubmitRefused \/ UnpairRefused \/ RefusedUnpaired \/
     OpenPopup \/ ClosePopup \/ ResumePolling \/ WorkerDies \/ WorkerStarts
  BY <1>6
  DEF ExpireInExtension, NewKey, RequestFails, SetPairingMode, StartPolling, Unpair,
       Unpaired, SubmitRefused, UnpairRefused, RefusedUnpaired, OpenPopup, ClosePopup,
       ResumePolling, WorkerDies, WorkerStarts
<1>7. CASE UNCHANGED vars
  BY <1>7
<1> QED
  BY <1>1, <1>2, <1>3, <1>4, <1>5, <1>6, <1>7 DEF Next, AccountsAct, AccountsStep

----------------------------------------------------------------------------
(* Claims. *)

\* Who claimed a code is who was told so; what was read of a grant stays true of
\* it, for nobody can claim it again.
ClaimInv ==
    /\ \A c \in Code : IF grant[c].by = "null" THEN claimers[c] = {}
                      ELSE claimers[c] = {grant[c].by} /\ grant[c].by \in users
    /\ \A k \in Check : check[k].pc = "paired" \/ (check[k].pc = "found" /\ ~check[k].expired)
                      => claimers[check[k].code] = {check[k].by}
    /\ token # NoToken => claimers[token.code] = {token.by}

\* No step takes a claim back or adds another to the code.
LEMMA ClaimStep ==
    ASSUME ClaimInv, TypeInv, [Next]_vars PROVE ClaimInv'
<1> USE DEF ClaimInv, accounts, backend, storage, worker, screen, history, vars
<1>1. CASE ExpireInExtension \/ NewKey \/ RequestFails \/ SetPairingMode \/ StartPolling
     \/ Unpaired \/ SubmitRefused \/ RefusedUnpaired \/ OpenPopup \/ ClosePopup \/
     ResumePolling \/ WorkerStarts
  BY <1>1 DEF ExpireInExtension, NewKey, RequestFails, SetPairingMode, StartPolling,
       Unpaired, SubmitRefused, RefusedUnpaired, OpenPopup, ClosePopup, ResumePolling,
       WorkerStarts
<1>2. ASSUME NEW u \in User, Register(u), UNCHANGED <<backend, storage, worker, screen,
     history>> PROVE ClaimInv'
  BY <1>2 DEF Register
<1>3. ASSUME NEW u \in User, CreateUser(u), UNCHANGED <<backend, storage, worker,
     screen, history>> PROVE ClaimInv'
  BY <1>3 DEF CreateUser
<1>4. ASSUME NEW u \in User, CreateUserFails(u), UNCHANGED <<backend, storage, worker,
     screen, history>> PROVE ClaimInv'
  BY <1>4 DEF CreateUserFails, Trouble
<1>5. ASSUME NEW c \in Code, Expire(c) PROVE ClaimInv'
  BY <1>5 DEF Expire
<1>6. ASSUME NEW c \in Code, RequestCodes(c) PROVE ClaimInv'
  BY <1>6 DEF RequestCodes, NoStart
<1>7. ASSUME NEW u \in User, NEW c \in Code, ClaimGrantCode(u, c) PROVE ClaimInv'
  <2>1. /\ grant[c].by = "null" /\ u # "null" /\ u \in users
        /\ grant' = [grant EXCEPT ![c].by = u]
        /\ claimers' = [claimers EXCEPT ![c] = @ \cup {u}]
        /\ UNCHANGED <<users, check, token>>
    BY <1>7, AccountsAssumption DEF ClaimGrantCode
  <2>2. claimers[c] = {} /\ claimers'[c] = {u} /\ grant'[c].by = u
    BY <2>1 DEF TypeInv, TypeOK
  <2>3. \A d \in Code \ {c} : claimers'[d] = claimers[d] /\ grant'[d] = grant[d]
    BY <2>1 DEF TypeInv, TypeOK
  <2>4. \A k \in Check : check[k].pc \in {"paired", "found"} => check[k].code \in Code
    BY DEF TypeInv, PollOK, Asked
  <2>5. token # NoToken => token.code \in Code
    BY DEF TypeInv, TypeOK, Token
  <2>6. \A d \in Code : IF grant'[d].by = "null" THEN claimers'[d] = {}
                         ELSE claimers'[d] = {grant'[d].by} /\ grant'[d].by \in users'
    BY <2>1, <2>2, <2>3
  <2>7. \A d \in Code : claimers[d] # {} => claimers'[d] = claimers[d]
    BY <2>2, <2>3
  <2>8. token # NoToken => claimers'[token.code] = {token.by}
    BY <2>5, <2>7
  <2>9. \A k \in Check : check[k].pc = "paired" \/ (check[k].pc = "found" /\
       ~check[k].expired)
            => claimers'[check[k].code] = {check[k].by}
    BY <2>4, <2>7
  <2> QED
    BY <2>1, <2>6, <2>8, <2>9
<1>8. ASSUME NEW k \in Check, Tick(k) PROVE ClaimInv'
  <2>1. TickDoes(k)
    BY <1>8, Ticked
  <2> QED
    BY <2>1 DEF TickDoes, OnlyCheck, PairingObject, ResetAll, Ask, Wipes
<1>9. ASSUME NEW k \in Check, GetDeviceGrant(k) PROVE ClaimInv'
  <2>1. LookDoes(k)
    BY <1>9, Looked
  <2>2. CASE check'[k].pc = "found"
    BY <2>1, <2>2, NoPoll DEF LookDoes, OnlyCheck
  <2>3. CASE check'[k] = NoCheck
    BY <2>1, <2>3, NoPoll DEF LookDoes, OnlyCheck
  <2> QED
    BY <2>1, <2>2, <2>3 DEF LookDoes
<1>10. ASSUME NEW k \in Check, DeleteGrantCodes(k) PROVE ClaimInv'
  <2>1. DeletionDoes(k)
    BY <1>10, Deleted
  <2> QED
    BY <2>1 DEF DeletionDoes, OnlyCheck
<1>11. ASSUME NEW k \in Check, PollFails(k) PROVE ClaimInv'
  <2>1. OnlyCheck(k) /\ check'[k].pc = "none"
    BY <1>11, Over DEF PollFails
  <2> QED
    BY <1>11, <2>1 DEF OnlyCheck, PollFails, Trouble
<1>12. ASSUME NEW k \in Check, AnsweredPaired(k) PROVE ClaimInv'
  <2>1. OnlyCheck(k) /\ check'[k].pc = "none"
    BY <1>12, Over DEF AnsweredPaired
  <2> QED
    BY <1>12, <2>1 DEF OnlyCheck, AnsweredPaired
<1>13. ASSUME NEW k \in Check, AnsweredExpired(k) PROVE ClaimInv'
  <2>1. OnlyCheck(k) /\ check'[k].pc = "stop"
    BY <1>13, ToStop DEF AnsweredExpired
  <2> QED
    BY <1>13, <2>1 DEF OnlyCheck, AnsweredExpired, ResetAll, Ask, Wipes, NoToken
<1>14. ASSUME NEW k \in Check, StopPolling(k) PROVE ClaimInv'
  <2>1. OnlyCheck(k) /\ check'[k].pc = "none"
    BY <1>14, Over DEF StopPolling
  <2> QED
    BY <1>14, <2>1 DEF OnlyCheck, StopPolling, Stop
<1>15. CASE Unpair
  BY <1>15 DEF Unpair, ResetAll, Ask
<1>16. CASE UnpairRefused
  BY <1>16 DEF UnpairRefused, ResetAll, Ask
<1>17. CASE WorkerDies
  BY <1>17 DEF WorkerDies, Trouble, NoStart, NoCheck
<1>18. CASE UNCHANGED vars
  BY <1>18
<1> QED
  BY <1>1, <1>2, <1>3, <1>4, <1>5, <1>6, <1>7, <1>8, <1>9, <1>10, <1>11, <1>12, <1>13,
       <1>14, <1>15, <1>16, <1>17, <1>18
  DEF Next, AccountsAct, AccountsStep, CodeStep, PollStep

----------------------------------------------------------------------------
(* Polls that found their grant. *)

Holds(k, c) == check[k].code = c /\ check[k].pc \in {"found", "expired", "paired"}

\* A grant is held by one poll, which then deletes it and takes its token; with
\* the token stored, no poll holds the grant.
Settled(c) ==
    /\ \A j, k \in Check : Holds(j, c) /\ Holds(k, c) => j = k
    /\ \A k \in Check : Holds(k, c) =>
          grant[c].row = (IF check[k].pc = "found" THEN "there" ELSE "deleted")
    /\ tokens[c] <= 1 /\ (tokens[c] # 0 => grant[c].row = "deleted")
    /\ token # NoToken /\ token.code = c =>
          grant[c].row = "deleted" /\ \A k \in Check : ~Holds(k, c)

\* So it is unless two polls found it.
PollInv == \A c \in Code \ overlapped : Settled(c)

\* A second poll to find a grant makes it one of the overlapped.
LEMMA PollsStep ==
    ASSUME PollInv, TypeInv, [Next]_vars PROVE PollInv'
<1> USE DEF PollInv, Settled, Holds, accounts, backend, storage, worker, screen,
     history, vars
<1>1. CASE ExpireInExtension \/ NewKey \/ RequestFails \/ SetPairingMode \/ StartPolling
     \/ Unpaired \/ SubmitRefused \/ RefusedUnpaired \/ OpenPopup \/ ClosePopup \/
     ResumePolling \/ WorkerStarts
  BY <1>1 DEF ExpireInExtension, NewKey, RequestFails, SetPairingMode, StartPolling,
       Unpaired, SubmitRefused, RefusedUnpaired, OpenPopup, ClosePopup, ResumePolling,
       WorkerStarts
<1>2. ASSUME NEW u \in User, Register(u), UNCHANGED <<backend, storage, worker, screen,
     history>> PROVE PollInv'
  BY <1>2 DEF Register
<1>3. ASSUME NEW u \in User, CreateUser(u), UNCHANGED <<backend, storage, worker,
     screen, history>> PROVE PollInv'
  BY <1>3 DEF CreateUser
<1>4. ASSUME NEW u \in User, CreateUserFails(u), UNCHANGED <<backend, storage, worker,
     screen, history>> PROVE PollInv'
  BY <1>4 DEF CreateUserFails, Trouble
<1>5. ASSUME NEW c \in Code, Expire(c) PROVE PollInv'
  BY <1>5 DEF Expire
<1>6. ASSUME NEW c \in Code, RequestCodes(c) PROVE PollInv'
  <2>1. /\ \A d \in Code : d # c => grant'[d].row = grant[d].row
        /\ grant[c].row = "none" /\ grant'[c].row = "there"
    BY <1>6 DEF RequestCodes, TypeInv, TypeOK
  <2> QED
    BY <1>6, <2>1 DEF RequestCodes, Holds
<1>7. ASSUME NEW u \in User, NEW c \in Code, ClaimGrantCode(u, c) PROVE PollInv'
  <2>1. \A d \in Code : grant'[d].row = grant[d].row
    BY <1>7 DEF ClaimGrantCode, TypeInv, TypeOK
  <2> QED
    BY <1>7, <2>1 DEF ClaimGrantCode, Holds
<1>8. ASSUME NEW k \in Check, Tick(k) PROVE PollInv'
  <2>1. TickDoes(k)
    BY <1>8, Ticked
  <2> QED
    BY <2>1 DEF TickDoes, OnlyCheck, PairingObject, ResetAll, Ask, Wipes
<1>9. ASSUME NEW k \in Check, GetDeviceGrant(k) PROVE PollInv'
  <2> DEFINE c == check[k].code
  <2>1. LookDoes(k)
    BY <1>9, Looked
  <2> SUFFICES ASSUME NEW e \in Code \ overlapped' PROVE Settled(e)'
    OBVIOUS
  <2>2. e \notin overlapped /\ Settled(e)
    BY <2>1 DEF LookDoes
  <2>3. CASE e # c \/ check'[k] = NoCheck
    BY <2>1, <2>2, <2>3, NoPoll DEF LookDoes, OnlyCheck
  <2>4. CASE e = c /\ check'[k].pc = "found"
    <3>1. /\ grant[e].row = "there"
          /\ \A j \in Check \ {k} : ~(check[j].pc = "found" /\ check[j].code = e)
      BY <2>1, <2>4, NoPoll DEF LookDoes
    <3>2. \A j \in Check \ {k} : ~Holds(j, e)'
      BY <2>1, <2>2, <3>1 DEF LookDoes, OnlyCheck
    <3> QED
      BY <2>1, <2>2, <2>4, <3>1, <3>2 DEF LookDoes
  <2> QED
    BY <2>1, <2>3, <2>4 DEF LookDoes
<1>10. ASSUME NEW k \in Check, DeleteGrantCodes(k) PROVE PollInv'
  <2> DEFINE c == check[k].code
  <2>1. DeletionDoes(k)
    BY <1>10, Deleted
  <2> SUFFICES ASSUME NEW e \in Code \ overlapped PROVE Settled(e)'
    BY <2>1 DEF DeletionDoes
  <2>2. /\ grant'[c].row = "deleted"
        /\ \A d \in Code \ {c} : grant'[d] = grant[d] /\ tokens'[d] = tokens[d]
        /\ tokens'[c] \in {tokens[c], tokens[c] + 1} /\ tokens[c] \in Nat
    BY <2>1 DEF DeletionDoes, TypeInv, TypeOK
  <2>3. CASE e # c
    BY <2>1, <2>2, <2>3 DEF DeletionDoes, OnlyCheck
  <2>4. CASE e = c
    <3>1. /\ grant[e].row = "there" /\ tokens[e] = 0
          /\ \A j \in Check \ {k} : ~Holds(j, e)
          /\ ~(token # NoToken /\ token.code = e)
      BY <2>1, <2>2, <2>4 DEF DeletionDoes
    <3>2. \A j \in Check \ {k} : ~Holds(j, e)'
      BY <2>1, <3>1 DEF DeletionDoes, OnlyCheck
    <3> QED
      BY <2>1, <2>2, <2>4, <3>1, <3>2 DEF DeletionDoes
  <2> QED
    BY <2>3, <2>4
<1>11. ASSUME NEW k \in Check, PollFails(k) PROVE PollInv'
  <2>1. OnlyCheck(k) /\ check'[k].pc = "none"
    BY <1>11, Over DEF PollFails
  <2> QED
    BY <1>11, <2>1 DEF OnlyCheck, PollFails, Trouble
<1>12. ASSUME NEW k \in Check, AnsweredPaired(k) PROVE PollInv'
  <2>1. OnlyCheck(k) /\ check'[k].pc = "none"
    BY <1>12, Over DEF AnsweredPaired
  <2> QED
    BY <1>12, <2>1 DEF OnlyCheck, AnsweredPaired
<1>13. ASSUME NEW k \in Check, AnsweredExpired(k) PROVE PollInv'
  <2>1. OnlyCheck(k) /\ check'[k].pc = "stop"
    BY <1>13, ToStop DEF AnsweredExpired
  <2> QED
    BY <1>13, <2>1 DEF OnlyCheck, AnsweredExpired, ResetAll, Ask, Wipes, NoToken
<1>14. ASSUME NEW k \in Check, StopPolling(k) PROVE PollInv'
  <2>1. OnlyCheck(k) /\ check'[k].pc = "none"
    BY <1>14, Over DEF StopPolling
  <2> QED
    BY <1>14, <2>1 DEF OnlyCheck, StopPolling, Stop
<1>15. CASE Unpair
  BY <1>15 DEF Unpair, ResetAll, Ask
<1>16. CASE UnpairRefused
  BY <1>16 DEF UnpairRefused, ResetAll, Ask
<1>17. CASE WorkerDies
  BY <1>17 DEF WorkerDies, Trouble, NoStart, NoCheck
<1>18. CASE UNCHANGED vars
  BY <1>18
<1> QED
  BY <1>1, <1>2, <1>3, <1>4, <1>5, <1>6, <1>7, <1>8, <1>9, <1>10, <1>11, <1>12, <1>13,
       <1>14, <1>15, <1>16, <1>17, <1>18
  DEF Next, AccountsAct, AccountsStep, CodeStep, PollStep

----------------------------------------------------------------------------
(* Fresh codes. *)

\* What is called a code is one.
LEMMA CodesInUse ==
    ASSUME TypeInv
    PROVE /\ NoCode \notin Code /\ stored \in Code \cup {NoCode}
          /\ \A k \in Check : check[k].pc \in Asked => check[k].code \in Code
          /\ start.pc # "none" => start.code \in Code
          /\ token # NoToken => token.code \in Code
  BY DEF TypeInv, TypeOK, PollOK, Code, NoCode, Token

\* Codes in use were generated, and those startPairing has not stored yet nobody
\* has asked about.
FreshInv ==
    /\ \A k \in Check : check[k].pc \in Asked => grant[check[k].code].row # "none"
    /\ stored # NoCode => grant[stored].row # "none"
    /\ start.pc # "none" => grant[start.code].row # "none"
    /\ start.pc = "asked" =>
          /\ stored # start.code
          /\ \A k \in Check : check[k].pc \in Asked => check[k].code # start.code

\* Codes that were just generated are told to nobody before they are stored.
LEMMA FreshStep ==
    ASSUME FreshInv, TypeInv, [Next]_vars PROVE FreshInv'
<1> USE DEF FreshInv, Asked, accounts, backend, storage, worker, screen, history, vars
<1>1. CASE ExpireInExtension \/ NewKey \/ Unpaired \/ SubmitRefused \/ RefusedUnpaired
     \/ OpenPopup \/ ClosePopup \/ ResumePolling \/ WorkerStarts
  BY <1>1 DEF ExpireInExtension, NewKey, Unpaired, SubmitRefused, RefusedUnpaired,
       OpenPopup, ClosePopup, ResumePolling, WorkerStarts
<1>2. ASSUME NEW u \in User, Register(u), UNCHANGED <<backend, storage, worker, screen,
     history>> PROVE FreshInv'
  BY <1>2 DEF Register
<1>3. ASSUME NEW u \in User, CreateUser(u), UNCHANGED <<backend, storage, worker,
     screen, history>> PROVE FreshInv'
  BY <1>3 DEF CreateUser
<1>4. ASSUME NEW u \in User, CreateUserFails(u), UNCHANGED <<backend, storage, worker,
     screen, history>> PROVE FreshInv'
  BY <1>4 DEF CreateUserFails, Trouble
<1>5. ASSUME NEW c \in Code, Expire(c) PROVE FreshInv'
  BY <1>5 DEF Expire
<1>6. ASSUME NEW c \in Code, RequestCodes(c) PROVE FreshInv'
  <2>1. /\ \A d \in Code : d # c => grant'[d].row = grant[d].row
        /\ grant[c].row = "none" /\ grant'[c].row = "there"
        /\ start'.pc = "asked" /\ start'.code = c /\ UNCHANGED <<stored, check>>
    BY <1>6 DEF RequestCodes, TypeInv, TypeOK
  <2> QED
    BY <2>1, CodesInUse
<1>7. ASSUME NEW u \in User, NEW c \in Code, ClaimGrantCode(u, c) PROVE FreshInv'
  <2>1. \A d \in Code : grant'[d].row = grant[d].row
    BY <1>7 DEF ClaimGrantCode, TypeInv, TypeOK
  <2> QED
    BY <1>7, <2>1, CodesInUse DEF ClaimGrantCode
<1>8. ASSUME NEW k \in Check, Tick(k) PROVE FreshInv'
  <2>1. TickDoes(k)
    BY <1>8, Ticked
  <2>2. CASE ResetAll /\ check'[k].pc = "stop"
    BY <2>1, <2>2, CodesInUse DEF TickDoes, OnlyCheck, ResetAll
  <2>3. CASE /\ UNCHANGED storage
             /\ stored # NoCode /\ check'[k].pc = "sent" /\ check'[k].code = stored
    BY <2>1, <2>3, CodesInUse DEF TickDoes, OnlyCheck
  <2> QED
    BY <2>1, <2>2, <2>3, CodesInUse DEF TickDoes, PairingObject
<1>9. ASSUME NEW k \in Check, GetDeviceGrant(k) PROVE FreshInv'
  <2>1. LookDoes(k)
    BY <1>9, Looked
  <2>2. check'[k].pc \in Asked => check[k].pc \in Asked /\ check'[k].code =
       check[k].code
    BY <2>1, NoPoll DEF LookDoes
  <2> HIDE DEF Asked
  <2>3. UNCHANGED <<grant, stored, start>> /\ OnlyCheck(k)
    BY <2>1 DEF LookDoes
  <2> QED
    BY <2>2, <2>3 DEF OnlyCheck
<1>10. ASSUME NEW k \in Check, DeleteGrantCodes(k) PROVE FreshInv'
  <2>1. DeletionDoes(k)
    BY <1>10, Deleted
  <2>2. \A d \in Code : grant[d].row # "none" => grant'[d].row # "none"
    BY <2>1 DEF DeletionDoes, TypeInv, TypeOK
  <2>3. check[k].pc \in Asked /\ check'[k].code = check[k].code
    BY <2>1 DEF DeletionDoes
  <2>4. UNCHANGED <<stored, start>> /\ OnlyCheck(k)
    BY <2>1 DEF DeletionDoes
  <2> HIDE DEF Asked
  <2> QED
    BY <2>2, <2>3, <2>4, CodesInUse DEF OnlyCheck
<1>11. ASSUME NEW k \in Check, PollFails(k) PROVE FreshInv'
  <2>1. OnlyCheck(k) /\ check'[k].pc = "none"
    BY <1>11, Over DEF PollFails
  <2> QED
    BY <1>11, <2>1 DEF OnlyCheck, PollFails, Trouble
<1>12. ASSUME NEW k \in Check, AnsweredPaired(k) PROVE FreshInv'
  <2>1. OnlyCheck(k) /\ check'[k].pc = "none"
    BY <1>12, Over DEF AnsweredPaired
  <2> QED
    BY <1>12, <2>1 DEF OnlyCheck, AnsweredPaired
<1>13. ASSUME NEW k \in Check, AnsweredExpired(k) PROVE FreshInv'
  <2>1. OnlyCheck(k) /\ check'[k].pc = "stop"
    BY <1>13, ToStop DEF AnsweredExpired
  <2> QED
    BY <1>13, <2>1, CodesInUse DEF OnlyCheck, AnsweredExpired, ResetAll
<1>14. ASSUME NEW k \in Check, StopPolling(k) PROVE FreshInv'
  <2>1. OnlyCheck(k) /\ check'[k].pc = "none"
    BY <1>14, Over DEF StopPolling
  <2> QED
    BY <1>14, <2>1 DEF OnlyCheck, StopPolling, Stop
<1>15. CASE RequestFails
  BY <1>15 DEF RequestFails, Trouble, NoStart
<1>16. CASE SetPairingMode
  BY <1>16 DEF SetPairingMode
<1>17. CASE StartPolling
  BY <1>17 DEF StartPolling, NoStart
<1>18. CASE Unpair
  BY <1>18, CodesInUse DEF Unpair, ResetAll
<1>19. CASE UnpairRefused
  BY <1>19, CodesInUse DEF UnpairRefused, ResetAll
<1>20. CASE WorkerDies
  BY <1>20 DEF WorkerDies, NoCheck, Trouble, NoStart, NoCheck
<1>21. CASE UNCHANGED vars
  BY <1>21
<1> QED
  BY <1>1, <1>2, <1>3, <1>4, <1>5, <1>6, <1>7, <1>8, <1>9, <1>10, <1>11, <1>12, <1>13,
       <1>14, <1>15, <1>16, <1>17, <1>18, <1>19, <1>20, <1>21
  DEF Next, AccountsAct, AccountsStep, CodeStep, PollStep

----------------------------------------------------------------------------
(* The token and the polling. *)

\* With a token that polling has not gone astray of, nothing is polled, and what
\* is still under way is about the code of the token.
KeptInv ==
    /\ ~wiped
    /\ token # NoToken /\ ~astray =>
          /\ ~polling
          /\ token.code # stored =>
                \A k \in Check : check[k].pc \in Asked => check[k].code # stored

\* No poll of the codes before or after the token's removes it.
LEMMA KeptStep ==
    ASSUME KeptInv, TypeInv, PollInv, FreshInv, [Next]_vars PROVE KeptInv'
<1> USE DEF KeptInv, Asked, accounts, backend, storage, worker, screen, history, vars
<1>1. CASE ExpireInExtension \/ NewKey \/ RequestFails \/ Unpaired \/ SubmitRefused \/
     RefusedUnpaired \/ OpenPopup \/ ClosePopup
  BY <1>1 DEF ExpireInExtension, NewKey, RequestFails, Unpaired, SubmitRefused,
       RefusedUnpaired, OpenPopup, ClosePopup, Stop
<1>2. ASSUME NEW u \in User, Register(u), UNCHANGED <<backend, storage, worker, screen,
     history>> PROVE KeptInv'
  BY <1>2 DEF Register
<1>3. ASSUME NEW u \in User, CreateUser(u), UNCHANGED <<backend, storage, worker,
     screen, history>> PROVE KeptInv'
  BY <1>3 DEF CreateUser
<1>4. ASSUME NEW u \in User, CreateUserFails(u), UNCHANGED <<backend, storage, worker,
     screen, history>> PROVE KeptInv'
  BY <1>4 DEF CreateUserFails, Trouble
<1>5. ASSUME NEW c \in Code, Expire(c) PROVE KeptInv'
  BY <1>5 DEF Expire
<1>6. ASSUME NEW c \in Code, RequestCodes(c) PROVE KeptInv'
  BY <1>6 DEF RequestCodes, NoStart
<1>7. ASSUME NEW u \in User, NEW c \in Code, ClaimGrantCode(u, c) PROVE KeptInv'
  BY <1>7 DEF ClaimGrantCode, Authenticated
<1>8. ASSUME NEW k \in Check, Tick(k) PROVE KeptInv'
  <2>1. TickDoes(k)
    BY <1>8, Ticked
  <2>2. (token = NoToken \/ astray) /\ ~Wipes
    BY <2>1 DEF TickDoes, Wipes
  <2>3. ~wiped'
    BY <2>1, <2>2 DEF TickDoes
  <2>4. token' = NoToken \/ astray'
    BY <2>1, <2>2 DEF TickDoes, ResetAll
  <2> QED
    BY <2>3, <2>4
<1>9. ASSUME NEW k \in Check, GetDeviceGrant(k) PROVE KeptInv'
  <2>1. LookDoes(k)
    BY <1>9, Looked
  <2>2. check'[k].pc \in Asked => check[k].pc \in Asked /\ check'[k].code =
       check[k].code
    BY <2>1, NoPoll DEF LookDoes
  <2> HIDE DEF Asked
  <2>3. UNCHANGED <<storage, polling, astray, wiped>> /\ OnlyCheck(k)
    BY <2>1 DEF LookDoes
  <2> QED
    BY <2>2, <2>3 DEF OnlyCheck
<1>10. ASSUME NEW k \in Check, DeleteGrantCodes(k) PROVE KeptInv'
  <2>1. DeletionDoes(k)
    BY <1>10, Deleted
  <2> QED
    BY <2>1 DEF DeletionDoes, OnlyCheck
<1>11. ASSUME NEW k \in Check, PollFails(k) PROVE KeptInv'
  <2>1. OnlyCheck(k) /\ check'[k].pc = "none"
    BY <1>11, Over DEF PollFails
  <2> QED
    BY <1>11, <2>1 DEF OnlyCheck, PollFails, Trouble
<1>12. ASSUME NEW k \in Check, AnsweredPaired(k) PROVE KeptInv'
  <2>1. OnlyCheck(k) /\ check'[k].pc = "none"
    BY <1>12, Over DEF AnsweredPaired
  <2> QED
    BY <1>12, <2>1 DEF OnlyCheck, AnsweredPaired
<1>13. ASSUME NEW k \in Check, AnsweredExpired(k) PROVE KeptInv'
  <2>1. OnlyCheck(k) /\ check'[k].pc = "stop"
    BY <1>13, ToStop DEF AnsweredExpired
  <2>2. ~(Wipes /\ check[k].code = stored)
    <3> SUFFICES ASSUME Wipes, check[k].code = stored PROVE FALSE
      OBVIOUS
    <3>1. check[k].pc = "expired" /\ stored \in Code
      BY <1>13, CodesInUse DEF AnsweredExpired
    <3>2. token # NoToken /\ ~astray /\ overlapped = {}
      BY DEF Wipes
    <3>3. token.code = stored
      BY <3>1, <3>2
    <3>4. ~Holds(k, stored)
      BY <3>1, <3>2, <3>3 DEF PollInv, Settled
    <3> QED
      BY <3>1, <3>4 DEF Holds
  <2>3. ~wiped'
    BY <1>13, <2>2 DEF AnsweredExpired
  <2>4. token' = NoToken
    BY <1>13 DEF AnsweredExpired, ResetAll
  <2> QED
    BY <2>3, <2>4
<1>14. ASSUME NEW k \in Check, StopPolling(k) PROVE KeptInv'
  <2>1. OnlyCheck(k) /\ check'[k].pc = "none"
    BY <1>14, Over DEF StopPolling
  <2> QED
    BY <1>14, <2>1 DEF OnlyCheck, StopPolling, Stop
<1>15. CASE SetPairingMode
  <2>1. \A k \in Check : check[k].pc \in Asked => check[k].code # start.code
    BY <1>15 DEF SetPairingMode, FreshInv
  <2> QED
    BY <1>15, <2>1 DEF SetPairingMode
<1>16. CASE StartPolling
  BY <1>16 DEF StartPolling, NoStart
<1>17. CASE Unpair
  BY <1>17 DEF Unpair, ResetAll, Ask
<1>18. CASE UnpairRefused
  BY <1>18 DEF UnpairRefused, ResetAll, Ask
<1>19. CASE ResumePolling
  BY <1>19 DEF ResumePolling, PairingObject
<1>20. CASE WorkerDies
  BY <1>20 DEF WorkerDies, Trouble, NoStart, NoCheck
<1>21. CASE WorkerStarts
  BY <1>21 DEF WorkerStarts, AuthState
<1>22. CASE UNCHANGED vars
  BY <1>22
<1> QED
  BY <1>1, <1>2, <1>3, <1>4, <1>5, <1>6, <1>7, <1>8, <1>9, <1>10, <1>11, <1>12, <1>13,
       <1>14, <1>15, <1>16, <1>17, <1>18, <1>19, <1>20, <1>21, <1>22
  DEF Next, AccountsAct, AccountsStep, CodeStep, PollStep

----------------------------------------------------------------------------
(* The codes that are shown. *)

\* The codes shown are polled after every step.
LEMMA ShownStep ==
    ASSUME ShownCodeIsPolled, TypeInv, [Next]_vars PROVE ShownCodeIsPolled'
<1> USE DEF ShownCodeIsPolled, AuthState, PairingObject, accounts, backend, storage,
     worker, screen, history, vars
<1>1. ASSUME NEW u \in User, Register(u), UNCHANGED <<backend, storage, worker, screen,
     history>> PROVE ShownCodeIsPolled'
  BY <1>1 DEF Register
<1>2. ASSUME NEW u \in User, CreateUser(u), UNCHANGED <<backend, storage, worker,
     screen, history>> PROVE ShownCodeIsPolled'
  BY <1>2 DEF CreateUser
<1>3. ASSUME NEW u \in User, CreateUserFails(u), UNCHANGED <<backend, storage, worker,
     screen, history>> PROVE ShownCodeIsPolled'
  BY <1>3 DEF CreateUserFails, Trouble
<1>4. ASSUME NEW c \in Code, Expire(c) PROVE ShownCodeIsPolled'
  BY <1>4 DEF Expire
<1>5. ASSUME NEW c \in Code, RequestCodes(c) PROVE ShownCodeIsPolled'
  BY <1>5 DEF RequestCodes, NoStart
<1>6. ASSUME NEW u \in User, NEW c \in Code, ClaimGrantCode(u, c) PROVE
     ShownCodeIsPolled'
  BY <1>6 DEF ClaimGrantCode, Authenticated
<1>7. ASSUME NEW k \in Check, Tick(k) PROVE ShownCodeIsPolled'
  <2>1. TickDoes(k)
    BY <1>7, Ticked
  <2> QED
    BY <2>1 DEF TickDoes, OnlyCheck, PairingObject, ResetAll, Ask, Wipes
<1>8. ASSUME NEW k \in Check, GetDeviceGrant(k) PROVE ShownCodeIsPolled'
  <2>1. LookDoes(k)
    BY <1>8, Looked
  <2> QED
    BY <2>1 DEF LookDoes, OnlyCheck
<1>9. ASSUME NEW k \in Check, DeleteGrantCodes(k) PROVE ShownCodeIsPolled'
  <2>1. DeletionDoes(k)
    BY <1>9, Deleted
  <2> QED
    BY <2>1 DEF DeletionDoes, OnlyCheck
<1>10. ASSUME NEW k \in Check, PollFails(k) PROVE ShownCodeIsPolled'
  <2>1. OnlyCheck(k) /\ check'[k].pc = "none"
    BY <1>10, Over DEF PollFails
  <2> QED
    BY <1>10, <2>1 DEF OnlyCheck, PollFails, Trouble
<1>11. ASSUME NEW k \in Check, AnsweredPaired(k) PROVE ShownCodeIsPolled'
  <2>1. token'.code \in Code /\ NoToken.code = NoCode
    BY <1>11, CodesInUse DEF AnsweredPaired, NoToken, Asked
  <2>2. token' # NoToken
    BY <2>1, CodesInUse
  <2> QED
    BY <2>2
<1>12. ASSUME NEW k \in Check, AnsweredExpired(k) PROVE ShownCodeIsPolled'
  <2>1. OnlyCheck(k) /\ check'[k].pc = "stop"
    BY <1>12, ToStop DEF AnsweredExpired
  <2> QED
    BY <1>12, <2>1 DEF OnlyCheck, AnsweredExpired, ResetAll, Ask, Wipes, NoToken
<1>13. ASSUME NEW k \in Check, StopPolling(k) PROVE ShownCodeIsPolled'
  <2>1. OnlyCheck(k) /\ check'[k].pc = "none"
    BY <1>13, Over DEF StopPolling
  <2> QED
    BY <1>13, <2>1 DEF OnlyCheck, StopPolling, Stop
<1>14. CASE ExpireInExtension
  BY <1>14 DEF ExpireInExtension
<1>15. CASE NewKey
  BY <1>15 DEF NewKey, Trouble
<1>16. CASE RequestFails
  BY <1>16 DEF RequestFails, Trouble, NoStart
<1>17. CASE SetPairingMode
  BY <1>17 DEF SetPairingMode
<1>18. CASE StartPolling
  BY <1>18 DEF StartPolling, NoStart
<1>19. CASE Unpair
  BY <1>19 DEF Unpair, ResetAll, Ask
<1>20. CASE Unpaired
  BY <1>20 DEF Unpaired, Stop, Ask
<1>21. CASE SubmitRefused
  BY <1>21 DEF SubmitRefused
<1>22. CASE UnpairRefused
  BY <1>22 DEF UnpairRefused, ResetAll, Ask
<1>23. CASE RefusedUnpaired
  BY <1>23 DEF RefusedUnpaired, Stop
<1>24. CASE OpenPopup
  BY <1>24 DEF OpenPopup
<1>25. CASE ClosePopup
  BY <1>25 DEF ClosePopup
<1>26. CASE ResumePolling
  BY <1>26 DEF ResumePolling
<1>27. CASE WorkerDies
  BY <1>27 DEF WorkerDies, Trouble, NoStart, NoCheck
<1>28. CASE WorkerStarts
  BY <1>28 DEF WorkerStarts
<1>29. CASE UNCHANGED vars
  BY <1>29
<1> QED
  BY <1>1, <1>2, <1>3, <1>4, <1>5, <1>6, <1>7, <1>8, <1>9, <1>10, <1>11, <1>12, <1>13,
       <1>14, <1>15, <1>16, <1>17, <1>18, <1>19, <1>20, <1>21, <1>22, <1>23, <1>24,
       <1>25, <1>26, <1>27, <1>28, <1>29
  DEF Next, AccountsAct, AccountsStep, CodeStep, PollStep

----------------------------------------------------------------------------
(* The theorems. *)

\* Everything that is kept holds to begin with.
LEMMA Begins ==
    ASSUME Init
    PROVE /\ TypeInv /\ EveryAccountHasItsRow /\ ClaimInv /\ PollInv
          /\ FreshInv /\ KeptInv /\ ShownCodeIsPolled
<1> USE AccountsAssumption, PairingAssumption DEF Init, AccountsInit
<1>1. check \in [Check -> Poll] /\ \A k \in Check : check[k].pc = "none"
  BY NoPoll
<1>2. TypeInv
  <2>1. AccountsTypeOK /\ key \in 0..trouble /\ key \in 0..MaxTrouble
    BY DEF AccountsTypeOK
  <2>2. start \in [pc : {"none", "asked", "stored"}, code : Code \cup {NoCode}]
    BY DEF NoStart
  <2>3. /\ grant \in [Code -> [row : {"none", "there", "deleted"},
                             by : User \cup {"null"}]]
        /\ claimers \in [Code -> SUBSET User] /\ tokens \in [Code -> Nat]
    OBVIOUS
  <2>4. TypeOK
    BY <1>1, <2>1, <2>2, <2>3 DEF TypeOK
  <2> QED
    BY <1>1, <2>1, <2>4 DEF TypeInv, PollOK, Asked, NoStart
<1>3. EveryAccountHasItsRow /\ ShownCodeIsPolled
  BY DEF EveryAccountHasItsRow, ShownCodeIsPolled, AuthState, PairingObject
<1>4. ClaimInv /\ PollInv
  BY <1>1 DEF ClaimInv, PollInv, Settled, Holds
<1>5. FreshInv /\ KeptInv
  BY <1>1 DEF FreshInv, KeptInv, NoStart, Asked
<1> QED
  BY <1>2, <1>3, <1>4, <1>5

\* The variables have their types: so they do because what a poll knows fits the
\* step it has reached.
THEOREM TypeCorrect == Spec => []TypeOK
<1>1. TypeInv => TypeOK
  BY DEF TypeInv
<1> QED
  BY <1>1, Begins, TypeStep, PTL DEF Spec

\* However registrations fail half-way, every identity is accounted for.
THEOREM AccountsKept == Spec => []EveryAccountHasItsRow
  BY Begins, RowsStep, PTL DEF Spec

\* Whoever types a code and however it is polled, the token for it belongs to the
\* one user who was told that she paired it.
THEOREM Claims == Spec => []OneClaimer
<1>1. TypeInv /\ ClaimInv => OneClaimer
  <2> SUFFICES ASSUME TypeInv, ClaimInv PROVE OneClaimer
    OBVIOUS
  <2>1. ASSUME NEW c \in Code PROVE Cardinality(claimers[c]) <= 1 /\ claimers[c] \subseteq users
    <3>1. CASE claimers[c] = {}
      BY <3>1, FS_EmptySet
    <3>2. CASE claimers[c] = {grant[c].by} /\ grant[c].by \in users
      <4>1. Cardinality({grant[c].by}) = 1
        BY FS_Singleton
      <4> QED
        BY <3>2, <4>1
    <3> QED
      BY <3>1, <3>2 DEF ClaimInv
  <2> QED
    BY <2>1 DEF ClaimInv, OneClaimer
<1> QED
  BY <1>1, Begins, TypeStep, ClaimStep, PTL DEF Spec

\* A code that two polls did not find before either deleted it gets one token.
THEOREM Tokens == Spec => []OneTokenUnlessOverlapped
<1>1. PollInv => OneTokenUnlessOverlapped
  BY DEF PollInv, Settled, OneTokenUnlessOverlapped
<1> QED
  BY <1>1, Begins, TypeStep, PollsStep, PTL DEF Spec

\* A poll removes a valid token only after polling went astray or overlapped.
THEOREM Kept == Spec => []TokenKept
<1>1. KeptInv => TokenKept
  BY DEF KeptInv, TokenKept
<1> QED
  BY <1>1, Begins, TypeStep, PollsStep, FreshStep, KeptStep, PTL DEF Spec

\* The worker polls the codes that are shown unless a call of the past stopped it.
THEOREM Shown == Spec => []ShownCodeIsPolled
  BY Begins, TypeStep, ShownStep, PTL DEF Spec
=============================================================================
