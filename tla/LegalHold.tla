-------------------------------- MODULE LegalHold --------------------------------
(***************************************************************************)
(* Legal holds on a tenant's objects and the cleaner that honours them.    *)
(* A hold is on one camera or on all; it is kept in the memory of the      *)
(* process that set it and, if Redis answers, in Redis.  The cleaner       *)
(* looks at each expired object's holds, its own memory first and then     *)
(* Redis, where no answer counts as no hold, and then removes the object.  *)
(* A bucket with a lifecycle rule expires objects by itself.               *)
(***************************************************************************)
EXTENDS Naturals, FiniteSets

CONSTANTS
  Processes,     \* that set holds
  Cleaner,       \* the process of the scheduled cleaner
  Cameras, All,  \* what a hold is on; All is "*"
  Objects,       \* of the tenant
  CameraOf,      \* per object
  Lifecycle,     \* the bucket has the rule
  MaxSets,       \* bound: holds set or lifted
  MaxOutages     \* bound: calls of Redis that fail

Targets == Cameras \cup {All}

ASSUME HoldAssumption == All \notin Cameras /\ CameraOf \in [Objects -> Cameras] /\ Lifecycle \in BOOLEAN

VARIABLES
  memory,        \* per process: targets held
  redis,         \* targets held
  sync,          \* per process: <<>>, or <<target, enabled>> on its way to Redis
  stored,        \* objects
  old,           \* those past their retention
  scan,          \* objects that the cleaner has yet to look at
  look,          \* its look at one: <<>>, or <<stage, object>>; camera, all or remove
  sets, outages,
  held,          \* history: targets that were last put under hold, not lifted
  broken,        \* history: objects the cleaner removed under a hold
  raced          \* history: holds set while the cleaner was looking at an object

holdVars == <<memory, sync, sets>>
scanVars == <<stored, old, scan, look, broken>>
legalVars == <<holdVars, redis, held, raced, scanVars, outages>>

Everyone == Processes \cup {Cleaner}

LegalInit ==
  /\ memory = [p \in Everyone |-> {}] /\ redis = {} /\ sync = [p \in Everyone |-> <<>>]
  /\ stored = Objects /\ old = {} /\ scan = {} /\ look = <<>>
  /\ sets = 0 /\ outages = 0 /\ held = {} /\ broken = 0 /\ raced = 0

InForce(o, H) == All \in H \/ CameraOf[o] \in H

Outage == outages < MaxOutages /\ outages' = outages + 1

After(H, t, enabled) == IF enabled THEN H \cup {t} ELSE H \ {t}

\* In the memory of this process first.
SetHold(p, t, enabled) ==
  /\ sync[p] = <<>> /\ sets < MaxSets /\ sets' = sets + 1
  /\ memory' = [memory EXCEPT ![p] = After(@, t, enabled)]
  /\ sync' = [sync EXCEPT ![p] = <<t, enabled>>]
  /\ UNCHANGED <<redis, held, raced, scanVars, outages>>

InRedis(H, t, enabled) == After(H, t, enabled)

\* The command is over, whether Redis took it or not.
Sync(p) ==
  /\ sync[p] # <<>> /\ sync' = [sync EXCEPT ![p] = <<>>]
  /\ LET t == sync[p][1] enabled == sync[p][2] IN
     /\ held' = After(held, t, enabled)
     /\ raced' = raced + IF enabled /\ look # <<>> THEN 1 ELSE 0
     /\ \/ redis' = InRedis(redis, t, enabled) /\ UNCHANGED outages
        \/ Outage /\ UNCHANGED redis
  /\ UNCHANGED <<memory, sets, scanVars>>

GrowOld(o) ==
  /\ o \in stored \ old /\ old' = old \cup {o}
  /\ UNCHANGED <<holdVars, redis, held, raced, stored, scan, look, broken, outages>>

\* The objects past the cutoff.
BeginScan ==
  /\ scan = {} /\ look = <<>> /\ scan' = stored \cap old /\ scan' # {}
  /\ UNCHANGED <<holdVars, redis, held, raced, stored, old, look, broken, outages>>

\* One that is gone already is removed like any other.
Pick(o) ==
  /\ look = <<>> /\ o \in scan /\ scan' = scan \ {o} /\ look' = <<"camera", o>>
  /\ UNCHANGED <<holdVars, redis, held, raced, stored, old, broken, outages>>

\* Mutant: the holds of this process.
SeesOwn(o, H) == InForce(o, memory[Cleaner])

\* is_legal_hold_active, with Redis answering H.
Sees(o, H) == InForce(o, memory[Cleaner]) \/ InForce(o, H)

\* Asked for the camera, then for the tenant; an outage of Redis is an answer of none.
Check(stage, next, H) ==
  /\ look # <<>> /\ look[1] = stage
  /\ \E answer \in {H, {}} :
       /\ IF answer = H THEN UNCHANGED outages ELSE Outage
       /\ look' = IF Sees(look[2], answer) THEN <<>> ELSE <<next, look[2]>>
  /\ UNCHANGED <<holdVars, redis, held, raced, stored, old, scan, broken>>

CheckCamera == Check("camera", "all", redis)
CheckTenant == Check("all", "remove", redis \cap {All})

Remove ==
  /\ look # <<>> /\ look[1] = "remove" /\ look' = <<>> /\ stored' = stored \ {look[2]}
  /\ broken' = broken + IF look[2] \in stored /\ InForce(look[2], held) THEN 1 ELSE 0
  /\ UNCHANGED <<holdVars, redis, held, raced, old, scan, outages>>

\* The removal fails, and with it the scan.
BreakOff ==
  /\ look # <<>> /\ look[1] = "remove" /\ look' = <<>> /\ scan' = {}
  /\ UNCHANGED <<holdVars, redis, held, raced, stored, old, broken, outages>>

\* The bucket's rule knows of no hold.
Expire(o) ==
  /\ Lifecycle /\ o \in stored \cap old /\ stored' = stored \ {o}
  /\ UNCHANGED <<holdVars, redis, held, raced, old, scan, look, broken, outages>>

LegalNext ==
  \/ \E p \in Everyone : Sync(p) \/ \E t \in Targets, enabled \in BOOLEAN : SetHold(p, t, enabled)
  \/ \E o \in Objects : GrowOld(o) \/ Pick(o) \/ Expire(o)
  \/ BeginScan \/ CheckCamera \/ CheckTenant \/ Remove \/ BreakOff

LegalSpec == LegalInit /\ [][LegalNext]_legalVars

--------------------------------------------------------------------------------
LegalTypeOK ==
  /\ memory \in [Everyone -> SUBSET Targets] /\ redis \subseteq Targets /\ held \subseteq Targets
  /\ {old, stored, scan} \subseteq SUBSET Objects

\* Whichever process put the object's camera or the whole tenant under hold, the cleaner
\* removes it only if Redis failed, or if the hold came while it was looking at the object:
\* one object for each such hold.
HeldIsKept == LegalTypeOK /\ (outages = 0 => broken <= raced)

\* "Enforces fail-closed legal-hold gating: objects under active legal hold are never deleted."
HeldIsNeverDeleted == broken = 0
================================================================================
