--------------------------------- MODULE Tenancy ---------------------------------
(***************************************************************************)
(* The administration of tenants: their data and its deletion, their       *)
(* accounts, users, credentials, edge devices, live cameras and legal      *)
(* holds, and the audit trail.  The eight share no state, so a behaviour   *)
(* runs one of them, picked at the start, and leaves the others alone.     *)
(***************************************************************************)
EXTENDS TenantData, TenantAccounts, Membership, Credentials, EdgeLockout, EdgeLiveness, LegalHold, AuditTrail

VARIABLE side

Sides == {"data", "accounts", "members", "credentials", "devices", "cameras", "holds", "audit"}

Init ==
  /\ side \in Sides
  /\ TenantInit /\ (side = "data" \/ clients = {})
  /\ AccountInit /\ MemberInit /\ CredentialInit /\ LockoutInit /\ LivenessInit /\ LegalInit
  /\ AuditInit /\ (side = "audit" \/ (producer = TRUE /\ immutable = TRUE))

Next ==
  /\ UNCHANGED side
  /\ \/ side = "data" /\ TenantNext
        /\ UNCHANGED <<accountVars, memberVars, credentialVars, lockoutVars, livenessVars, legalVars, auditVars>>
     \/ side = "accounts" /\ AccountNext
        /\ UNCHANGED <<tenantVars, memberVars, credentialVars, lockoutVars, livenessVars, legalVars, auditVars>>
     \/ side = "members" /\ MemberNext
        /\ UNCHANGED <<tenantVars, accountVars, credentialVars, lockoutVars, livenessVars, legalVars, auditVars>>
     \/ side = "credentials" /\ CredentialNext
        /\ UNCHANGED <<tenantVars, accountVars, memberVars, lockoutVars, livenessVars, legalVars, auditVars>>
     \/ side = "devices" /\ LockoutNext
        /\ UNCHANGED <<tenantVars, accountVars, memberVars, credentialVars, livenessVars, legalVars, auditVars>>
     \/ side = "cameras" /\ LivenessNext
        /\ UNCHANGED <<tenantVars, accountVars, memberVars, credentialVars, lockoutVars, legalVars, auditVars>>
     \/ side = "holds" /\ LegalNext
        /\ UNCHANGED <<tenantVars, accountVars, memberVars, credentialVars, lockoutVars, livenessVars, auditVars>>
     \/ side = "audit" /\ AuditNext
        /\ UNCHANGED <<tenantVars, accountVars, memberVars, credentialVars, lockoutVars, livenessVars, legalVars>>

Spec == Init /\ [][Next]_
  <<side, tenantVars, accountVars, memberVars, credentialVars, lockoutVars, livenessVars, legalVars, auditVars>>

\* Users, resets, and changes of a tenant's row: what is asked for once happens once, however
\* the requests interleave.
ProvisionedOnce == OnceOnly /\ AccountsHold

\* An edge device that misbehaves is locked out, and a camera that is silent called stale, for
\* cause, by however many threads serve them.
DevicesHold == LockoutHolds /\ []LivenessHolds
================================================================================
