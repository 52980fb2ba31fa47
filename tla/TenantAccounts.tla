------------------------------ MODULE TenantAccounts ------------------------------
(***************************************************************************)
(* The row of a tenant.  Platform administrators create it under a slug    *)
(* that is looked for and then added, suspend and reactivate it; the       *)
(* tenant's own replace its plugin configuration.  Each request reads the  *)
(* row and commits what it changed: a column whose value was read as the   *)
(* one that is asked for is not written.  One slug.                        *)
(***************************************************************************)
EXTENDS Naturals, FiniteSets

CONSTANTS
  Admins,        \* threads that serve administrators
  Settings,      \* what may be asked for under "plugins"
  Sector,        \* the configuration of a tenant created with a sector
  MaxAsks        \* bound: requests

ASSUME AccountAssumption == MaxAsks \in Nat /\ Sector \notin Settings /\ IsFiniteSet(Admins)

VARIABLES
  accounts,      \* ids of the tenants with the slug
  active,        \* per id
  config,        \* per id: plugin_config
  ask,           \* per administrator: <<>>, or <<what, id, value asked for, value read>>
  asks,          \* requests so far; the ids are taken from it
  crossings,     \* history: requests that began while another was under way
  unheeded       \* history: requests that succeeded and left another value than asked for

accountVars == <<accounts, active, config, ask, asks, crossings, unheeded>>

Ids == 1 .. MaxAsks

AccountInit ==
  /\ accounts = {} /\ active = [i \in Ids |-> TRUE] /\ config = [i \in Ids |-> Sector]
  /\ ask = [a \in Admins |-> <<>>] /\ asks = 0 /\ crossings = 0 /\ unheeded = 0

\* A request has read what it goes by.
Begun(a, what, id, value, read) ==
  /\ ask[a] = <<>> /\ asks < MaxAsks /\ asks' = asks + 1
  /\ ask' = [ask EXCEPT ![a] = <<what, id, value, read>>]
  /\ crossings' = crossings + IF \E b \in Admins : ask[b] # <<>> THEN 1 ELSE 0
  /\ UNCHANGED <<accounts, active, config, unheeded>>

\* 400 for a slug that is there; 404, below, for a tenant that is not.
CreateAccount(a) ==
  \E value \in Settings \cup {Sector} : accounts = {} /\ Begun(a, "create", asks + 1, value, value)
UpdateStatus(a) ==
  \E i \in accounts, value \in BOOLEAN : Begun(a, "status", i, value, active[i])
UpdatePlugins(a) ==
  \E i \in accounts, value \in Settings : Begun(a, "plugins", i, value, config[i])

Asked(a, what) == ask[a] # <<>> /\ ask[a][1] = what
Id(a) == ask[a][2]
Value(a) == ask[a][3]

Done(a) == ask' = [ask EXCEPT ![a] = <<>>] /\ UNCHANGED <<asks, crossings>>

\* The constraint on tenants.slug.
SlugTaken == accounts # {}

\* 500 for whoever comes second.
CommitAccount(a) ==
  /\ Asked(a, "create") /\ Done(a) /\ UNCHANGED <<active, unheeded>>
  /\ IF SlugTaken THEN UNCHANGED <<accounts, config>>
     ELSE accounts' = accounts \cup {Id(a)} /\ config' = [config EXCEPT ![Id(a)] = Value(a)]

\* What the commit leaves in a column that holds now.
Flushed(a, now) == IF Value(a) = ask[a][4] THEN now ELSE Value(a)

Heed(a, left) == unheeded' = unheeded + IF left = Value(a) THEN 0 ELSE 1

\* Of a row that is gone meanwhile there is nothing to write: 500, or what was asked for was
\* there and the answer says so.
CommitStatus(a) ==
  /\ Asked(a, "status") /\ Done(a) /\ UNCHANGED <<accounts, config>>
  /\ IF Id(a) \notin accounts THEN UNCHANGED <<active, unheeded>>
     ELSE active' = [active EXCEPT ![Id(a)] = Flushed(a, @)] /\ Heed(a, active'[Id(a)])

\* The configuration is replaced as a whole.
CommitPlugins(a) ==
  /\ Asked(a, "plugins") /\ Done(a) /\ UNCHANGED <<accounts, active>>
  /\ IF Id(a) \notin accounts THEN UNCHANGED <<config, unheeded>>
     ELSE config' = [config EXCEPT ![Id(a)] = Flushed(a, @)] /\ Heed(a, config'[Id(a)])

\* The last step of a deletion.
DeleteAccount ==
  /\ accounts # {} /\ accounts' = {} /\ UNCHANGED <<active, config, ask, asks, crossings, unheeded>>

AccountNext ==
  \/ \E a \in Admins :
       \/ CreateAccount(a) \/ UpdateStatus(a) \/ UpdatePlugins(a)
       \/ CommitAccount(a) \/ CommitStatus(a) \/ CommitPlugins(a)
  \/ DeleteAccount

AccountSpec == AccountInit /\ [][AccountNext]_accountVars

--------------------------------------------------------------------------------
AccountTypeOK ==
  /\ accounts \subseteq Ids /\ active \in [Ids -> BOOLEAN]
  /\ config \in [Ids -> Settings \cup {Sector}]
  /\ \A a \in Admins : Asked(a, "create") => Id(a) \notin accounts

\* However requests interleave there is one tenant of a slug; and one that succeeds leaves
\* what it asked for, unless another was under way with it: a reactivation that read an
\* active tenant does not undo the suspension that was committed since.
AccountsHold ==
  /\ AccountTypeOK /\ Cardinality(accounts) <= 1 /\ unheeded <= crossings

\* "sector, stored in plugin_config", whatever plugins are configured later.
SectorIsKept == [][\A i \in accounts \cap accounts' : config[i] = Sector => config'[i] = Sector]_accountVars
================================================================================
