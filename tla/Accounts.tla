------------------------------ MODULE Accounts ------------------------------
(***************************************************************************)
(* The user's accounts: identities are Kratos's, and the backend keeps a   *)
(* users row for each of them, to which links, grant codes and everything  *)
(* else refer (services/auth).  The two stores are written one after the   *)
(* other, with nothing that makes up for a failure in between.  A module   *)
(* that needs accounts extends this one.                                   *)
(*                                                                         *)
(* Sessions are left out: who has an identity can sign in and out when she *)
(* likes (PasswordLogin, OIDCLogin, Logout), a request is authenticated    *)
(* when it comes, and nothing outlives a session that depends on it.       *)
(***************************************************************************)
EXTENDS Naturals, FiniteSets

CONSTANTS
    User,
    Early,      \* those who have an account to begin with
    MayFail,    \* what may go wrong: some of Kind
    MaxTrouble  \* bound: how many times something goes wrong

\* What may go wrong: the users row is not written; an answer is lost; the
\* extension's worker dies; the backend restarts with a new signing key.
Kind == {"row", "lost", "worker", "key"}

ASSUME AccountsAssumption ==
    Early \subseteq User /\ "null" \notin User /\ MayFail \subseteq Kind /\ MaxTrouble \in Nat

VARIABLES
    identity,   \* Kratos: the identities
    users,      \* table users
    enrolling,  \* registered with Kratos, before CreateUser
    rowless,    \* history: CreateUser did not happen
    trouble     \* how often something went wrong

accounts == <<identity, users, enrolling, rowless>>

AccountsTypeOK ==
    /\ identity \subseteq User
    /\ users \subseteq identity /\ enrolling \subseteq identity
    /\ rowless \subseteq identity /\ trouble \in 0..MaxTrouble

AccountsInit ==
    /\ identity = Early /\ users = Early /\ enrolling = {}
    /\ rowless = {} /\ trouble = 0

Trouble(kind) ==
    kind \in MayFail /\ trouble < MaxTrouble /\ trouble' = trouble + 1

\* Mutant: the row is written before the identity exists.
Register_RowFirst(u) ==
    /\ u \notin identity /\ u \notin users
    /\ users' = users \cup {u}
    /\ UNCHANGED <<identity, enrolling, rowless, trouble>>
\* Mutant: OIDCLogin does not say that the user is new.
Register_NotNew(u) ==
    /\ u \notin identity
    /\ identity' = identity \cup {u}
    /\ UNCHANGED <<users, enrolling, rowless, trouble>>

\* PasswordRegistration, or OIDCLogin of somebody Kratos does not know.
Register(u) ==
    /\ u \notin identity
    /\ identity' = identity \cup {u} /\ enrolling' = enrolling \cup {u}
    /\ UNCHANGED <<users, rowless, trouble>>

CreateUser(u) ==
    /\ u \in enrolling
    /\ enrolling' = enrolling \ {u}
    /\ users' = users \cup {u}
    /\ UNCHANGED <<identity, rowless, trouble>>

\* The insertion fails, or the backend stops before it: the registration is an
\* error, and the identity stays.
CreateUserFails(u) ==
    /\ Trouble("row")
    /\ u \in enrolling
    /\ enrolling' = enrolling \ {u} /\ rowless' = rowless \cup {u}
    /\ UNCHANGED <<identity, users>>

\* A request comes with a session of hers: logging in asks Kratos only, and
\* writes no row.
Authenticated(u) == u \in identity

AccountsStep ==
    \E u \in User : \/ Register(u) \/ CreateUser(u) \/ CreateUserFails(u)

\* Hazard (the account is made in two stores): every identity has its users
\* row, is about to get it, or is one whose registration failed half-way.
EveryAccountHasItsRow == identity = users \cup enrolling \cup rowless
=============================================================================
