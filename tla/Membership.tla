------------------------------- MODULE Membership -------------------------------
(***************************************************************************)
(* Provisioning a user in a tenant: the user, its membership, the role and *)
(* the assignment of the one to the other are each looked for and, if      *)
(* missing, added in a transaction of its own.  Nothing but the user's     *)
(* email is unique.  A login takes the first membership it is given and    *)
(* the roles of that one into its token; an API key is for a member.  The  *)
(* rows refer to each other with foreign keys that cascade, so they go     *)
(* with the tenant, the user excepted.  One tenant, one email.             *)
(***************************************************************************)
EXTENDS Naturals, FiniteSets

CONSTANTS
  Requests,      \* threads that provision
  Roles,         \* names of roles
  MaxStarts,     \* bound: requests to provision
  MaxLogins,     \* bound: logins
  MaxDeaths      \* bound: requests cut short

ASSUME MemberAssumption == MaxStarts \in Nat /\ MaxLogins \in Nat /\ MaxDeaths \in Nat

VARIABLES
  tenant,        \* the tenant's row exists
  user,          \* so does the user's
  members,       \* ids of the user's memberships
  roleRows,      \* <<id, name>>
  assigned,      \* <<id, membership, role>>
  keys,          \* memberships checked for the API keys
  lastId,        \* the last id given
  prov,          \* per request: <<>>, or <<stage, role name, membership, role>>
  login,         \* <<>>, or <<membership>>; 0 is for none
  keyFor,        \* an API key's membership, checked; 0 is for none
  starts, logins, deaths,
  granted,       \* history: roles whose provisioning was answered with 201
  due,           \* history: granted when the login began
  short,         \* history: a token lacked a role that was due
  overlaps       \* history: requests that began while another was at it

rows == <<tenant, user, members, roleRows, assigned, keys, lastId>>
loginVars == <<login, logins, due, short>>
memberHistory == <<granted, overlaps>>
memberVars == <<rows, prov, keyFor, starts, deaths, loginVars, memberHistory>>

MemberInit ==
  /\ tenant = TRUE /\ user = FALSE /\ members = {} /\ roleRows = {} /\ assigned = {} /\ keys = {} /\ lastId = 0
  /\ prov = [r \in Requests |-> <<>>] /\ keyFor = 0 /\ starts = 0 /\ deaths = 0
  /\ login = <<>> /\ logins = 0 /\ due = {} /\ short = FALSE /\ granted = {} /\ overlaps = 0

Stage(r, stage) == prov[r] # <<>> /\ prov[r][1] = stage
Name(r) == prov[r][2]
Member(r) == prov[r][3]
RoleId(r) == prov[r][4]

To(r, stage, m, i) == prov' = [prov EXCEPT ![r] = <<stage, Name(r), m, i>>]
EndOf(r) == prov' = [prov EXCEPT ![r] = <<>>]

Others == <<keyFor, starts, deaths, loginVars>>

\* 404 if the tenant is gone.
Provision(r, name) ==
  /\ prov[r] = <<>> /\ tenant /\ starts < MaxStarts /\ starts' = starts + 1
  /\ prov' = [prov EXCEPT ![r] = <<"user?", name, 0, 0>>]
  /\ overlaps' = overlaps + IF \E s \in Requests \ {r} : prov[s] # <<>> THEN 1 ELSE 0
  /\ UNCHANGED <<rows, keyFor, deaths, loginVars, granted>>

LookUser(r) ==
  /\ Stage(r, "user?") /\ To(r, IF user THEN "member?" ELSE "user+", 0, 0)
  /\ UNCHANGED <<rows, Others, memberHistory>>

\* Of two that add the user, the second breaks the constraint: 500.
AddUser(r) ==
  /\ Stage(r, "user+") /\ user' = TRUE /\ IF user THEN EndOf(r) ELSE To(r, "member?", 0, 0)
  /\ UNCHANGED <<tenant, members, roleRows, assigned, keys, lastId, Others, memberHistory>>

LookMember(r) ==
  /\ Stage(r, "member?")
  /\ \/ members = {} /\ To(r, "member+", 0, 0)
     \/ \E m \in members : To(r, "role?", m, 0)
  /\ UNCHANGED <<rows, Others, memberHistory>>

\* Foreign keys: what refers to a row that is gone is refused, 500.
AddMember(r) ==
  /\ Stage(r, "member+")
  /\ IF tenant THEN members' = members \cup {lastId + 1} /\ lastId' = lastId + 1 /\ To(r, "role?", lastId + 1, 0)
     ELSE EndOf(r) /\ UNCHANGED <<members, lastId>>
  /\ UNCHANGED <<tenant, user, roleRows, assigned, keys, Others, memberHistory>>

RolesNamed(name) == {i \in 1 .. lastId : <<i, name>> \in roleRows}

LookRole(r) ==
  /\ Stage(r, "role?")
  /\ \/ RolesNamed(Name(r)) = {} /\ To(r, "role+", Member(r), 0)
     \/ \E i \in RolesNamed(Name(r)) : To(r, "assign?", Member(r), i)
  /\ UNCHANGED <<rows, Others, memberHistory>>

AddRole(r) ==
  /\ Stage(r, "role+")
  /\ IF tenant THEN /\ roleRows' = roleRows \cup {<<lastId + 1, Name(r)>>} /\ lastId' = lastId + 1
                    /\ To(r, "assign?", Member(r), lastId + 1)
     ELSE EndOf(r) /\ UNCHANGED <<roleRows, lastId>>
  /\ UNCHANGED <<tenant, user, members, assigned, keys, Others, memberHistory>>

Assigned(m, i) == \E a \in assigned : a[2] = m /\ a[3] = i

LookAssigned(r) ==
  /\ Stage(r, "assign?")
  /\ IF Assigned(Member(r), RoleId(r))
     THEN EndOf(r) /\ granted' = granted \cup {Name(r)}
     ELSE To(r, "assign+", Member(r), RoleId(r)) /\ UNCHANGED granted
  /\ UNCHANGED <<rows, Others, overlaps>>

\* Mutant: 201 without the assignment.
NotAssigned(r) == assigned

WithAssigned(r) == assigned \cup {<<lastId + 1, Member(r), RoleId(r)>>}

Assign(r) ==
  /\ Stage(r, "assign+") /\ EndOf(r)
  /\ IF Member(r) \in members
     THEN assigned' = WithAssigned(r) /\ lastId' = lastId + 1 /\ granted' = granted \cup {Name(r)}
     ELSE UNCHANGED <<assigned, lastId, granted>>
  /\ UNCHANGED <<tenant, user, members, roleRows, keys, Others, overlaps>>

\* The request fails or its process dies: what it has committed stays.
CutShort(r) ==
  /\ prov[r] # <<>> /\ EndOf(r) /\ deaths < MaxDeaths /\ deaths' = deaths + 1
  /\ UNCHANGED <<rows, keyFor, starts, loginVars, memberHistory>>

\* The first active membership, in no order that was asked for.
LoginMember ==
  /\ login = <<>> /\ user /\ logins < MaxLogins /\ logins' = logins + 1 /\ due' = granted
  /\ IF members = {} THEN login' = <<0>> ELSE \E m \in members : login' = <<m>>
  /\ UNCHANGED <<rows, prov, keyFor, starts, deaths, short, memberHistory>>

RolesOf(m) == {name \in Roles : \E a \in assigned : a[2] = m /\ <<a[3], name>> \in roleRows}

\* The token.
LoginRoles ==
  /\ login # <<>> /\ login' = <<>>
  /\ short' = (short \/ (tenant /\ ~(due \subseteq RolesOf(login[1]))))
  /\ UNCHANGED <<rows, prov, keyFor, starts, deaths, logins, due, memberHistory>>

CheckKey ==
  /\ keyFor = 0 /\ members # {} /\ keyFor' \in members
  /\ UNCHANGED <<rows, prov, starts, deaths, loginVars, memberHistory>>

CreateKey ==
  /\ keyFor # 0 /\ keyFor' = 0 /\ keys' = IF tenant THEN keys \cup {keyFor} ELSE keys
  /\ UNCHANGED <<tenant, user, members, roleRows, assigned, lastId, prov, starts, deaths, loginVars, memberHistory>>

\* Rows that refer to a row that is deleted go with it.
Cascade(K) == {}

DeleteTenant ==
  /\ tenant /\ tenant' = FALSE /\ members' = {} /\ roleRows' = {} /\ assigned' = {} /\ keys' = Cascade(keys)
  /\ UNCHANGED <<user, lastId, prov, keyFor, starts, deaths, loginVars, memberHistory>>

MemberNext ==
  \/ \E r \in Requests :
       \/ \E name \in Roles : Provision(r, name)
       \/ LookUser(r) \/ AddUser(r) \/ LookMember(r) \/ AddMember(r) \/ LookRole(r) \/ AddRole(r)
       \/ LookAssigned(r) \/ Assign(r) \/ CutShort(r)
  \/ LoginMember \/ LoginRoles \/ CheckKey \/ CreateKey \/ DeleteTenant

MemberSpec == MemberInit /\ [][MemberNext]_memberVars

--------------------------------------------------------------------------------
MemberTypeOK ==
  /\ {tenant, user, short} \subseteq BOOLEAN /\ members \subseteq 1 .. lastId
  /\ roleRows \subseteq (1 .. lastId) \X Roles /\ assigned \subseteq (1 .. lastId) \X members \X (1 .. lastId)
  /\ granted \subseteq Roles

\* Membership, role and assignment rows that say the same as another were each added by
\* requests that overlapped: one at a time, with any of them cut short, leaves one of each.
RowsPaidFor ==
  /\ Cardinality(members) <= 1 + overlaps
  /\ \A name \in Roles : Cardinality({row \in roleRows : row[2] = name}) <= 1 + overlaps
  /\ \A m \in members, i \in 1 .. lastId :
       Cardinality({a \in assigned : a[2] = m /\ a[3] = i}) <= 1 + overlaps

\* A login that begins after a role was granted puts it in the token, as long as no two
\* requests overlapped: then there is one membership, and the login finds the role at it.
TokenIsWhole == overlaps = 0 => ~short

\* An API key is for somebody who is a member, although the tenant may be deleted between
\* the check of the membership and the key's row.
KeyHasMember == keys \subseteq members

\* What provisioning leaves of a user is of one piece, and is what logins and keys go by.
MembershipsAreWhole == MemberTypeOK /\ RowsPaidFor /\ TokenIsWhole /\ KeyHasMember

\* A granted role is in the token, whatever overlaps.
TokenIsAlwaysWhole == ~short
================================================================================
