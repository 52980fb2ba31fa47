------------------------------- MODULE Credentials -------------------------------
(***************************************************************************)
(* A user's row and its password.  Registration, social login and          *)
(* provisioning each look for the email and then add the user; the email   *)
(* is unique.  A password is reset with a token that was mailed: it must   *)
(* be unused and fresh when it is looked up, and is marked used in the     *)
(* transaction that changes the password.  Several tokens may be out.      *)
(***************************************************************************)
EXTENDS Naturals, FiniteSets

CONSTANTS
  Clients,       \* threads that serve requests
  MaxUsers,      \* bound: requests that may add the user
  MaxResets,     \* bound: tokens
  MaxConfirms    \* bound: confirmations

ASSUME CredentialAssumption == {MaxUsers, MaxResets, MaxConfirms} \subseteq Nat /\ IsFiniteSet(Clients)

Tokens == 1 .. MaxResets

VARIABLES
  userRows,      \* users with the email
  password,      \* who set it: 0 for the creator, or a reset token
  mailed,        \* tokens that were sent
  spent,         \* those with used_at
  stale,         \* those past expires_at
  doing,           \* per client: <<>>, <<"add", kind>> or <<"confirm", token>>
  adds, confirms,
  created,       \* history: requests answered as having created the user
  uses,          \* history: per token, the passwords it set
  crossed        \* history: per token, confirmations that overlapped another of it

credentialVars == <<userRows, password, mailed, spent, stale, doing, adds, confirms, created, uses, crossed>>

CredentialInit ==
  /\ userRows = 0 /\ password = 0 /\ mailed = {} /\ spent = {} /\ stale = {}
  /\ doing = [c \in Clients |-> <<>>] /\ adds = 0 /\ confirms = 0 /\ created = 0
  /\ uses = [t \in Tokens |-> 0] /\ crossed = [t \in Tokens |-> 0]

Reset == <<password, mailed, spent, stale, confirms, uses, crossed>>

\* A registration of a known email is refused, a social login of one succeeds: neither adds.
LookUp(c, kind) ==
  /\ doing[c] = <<>> /\ adds < MaxUsers /\ adds' = adds + 1
  /\ IF userRows = 0 THEN doing' = [doing EXCEPT ![c] = <<"add", kind>>] ELSE UNCHANGED doing
  /\ UNCHANGED <<userRows, created, Reset>>

Register(c) == LookUp(c, "register")
SocialLogin(c) == LookUp(c, "social")

\* The constraint on users.email.
Taken == userRows > 0

\* 500 for whoever comes second.
Add(c) ==
  /\ doing[c] # <<>> /\ doing[c][1] = "add" /\ doing' = [doing EXCEPT ![c] = <<>>]
  /\ IF Taken THEN UNCHANGED <<userRows, created>> ELSE userRows' = userRows + 1 /\ created' = created + 1
  /\ UNCHANGED <<adds, Reset>>

\* The earlier tokens stay good.
RequestReset ==
  /\ userRows > 0 /\ mailed # Tokens /\ mailed' = mailed \cup {Cardinality(mailed) + 1}
  /\ UNCHANGED <<userRows, password, spent, stale, doing, adds, confirms, created, uses, crossed>>

\* An hour passes.
ExpireTokens ==
  /\ \E t \in mailed \ stale : stale' = {s \in mailed : s <= t}
  /\ UNCHANGED <<userRows, password, mailed, spent, doing, adds, confirms, created, uses, crossed>>

GoodTokens == mailed \ (spent \cup stale)

Confirming(c, t) == doing[c] = <<"confirm", t>>

LookUpToken(c, t) ==
  /\ doing[c] = <<>> /\ confirms < MaxConfirms /\ confirms' = confirms + 1 /\ t \in GoodTokens
  /\ doing' = [doing EXCEPT ![c] = <<"confirm", t>>]
  /\ crossed' = [crossed EXCEPT ![t] = @ + IF \E d \in Clients : Confirming(d, t) THEN 1 ELSE 0]
  /\ UNCHANGED <<userRows, password, mailed, spent, stale, adds, created, uses>>

\* Mutant: the token is not marked.
NotSpent(t) == spent

Spent(t) == spent \cup {t}

Confirm(c) ==
  \E t \in Tokens :
    /\ Confirming(c, t) /\ doing' = [doing EXCEPT ![c] = <<>>]
    /\ password' = t /\ spent' = Spent(t) /\ uses' = [uses EXCEPT ![t] = @ + 1]
    /\ UNCHANGED <<userRows, mailed, stale, adds, confirms, created, crossed>>

\* The process dies before the commit.
Abandon(c) ==
  /\ doing[c] # <<>> /\ doing' = [doing EXCEPT ![c] = <<>>]
  /\ UNCHANGED <<userRows, adds, created, Reset>>

CredentialNext ==
  \/ \E c \in Clients :
       \/ Register(c) \/ SocialLogin(c) \/ Add(c) \/ Confirm(c) \/ Abandon(c)
       \/ \E t \in Tokens : LookUpToken(c, t)
  \/ RequestReset \/ ExpireTokens

CredentialSpec == CredentialInit /\ [][CredentialNext]_credentialVars

--------------------------------------------------------------------------------
CredentialTypeOK ==
  /\ {userRows, created} \subseteq 0 .. MaxUsers /\ password \in 0 .. MaxResets
  /\ spent \subseteq mailed /\ stale \subseteq mailed /\ mailed \subseteq Tokens
  /\ doing \in [Clients -> {<<>>} \cup ({"add"} \X {"register", "social"}) \cup ({"confirm"} \X Tokens)]

\* However registrations and social logins of an email interleave, one of them creates the
\* user, and no other is told that it did.
OneCreator == userRows <= 1 /\ created = userRows

\* "A one-time reset token": it sets a password once, and once more for every confirmation
\* that was under way together with another of the same token.
OneTimeToken == \A t \in Tokens : uses[t] <= 1 + crossed[t]

\* What is to happen once, a user or a reset, happens once.
OnceOnly == CredentialTypeOK /\ OneCreator /\ OneTimeToken
================================================================================
