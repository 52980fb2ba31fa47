-------------------------------- MODULE MCTenancy --------------------------------
(* The eight sides of the administration of tenants on one small instance.       *)
EXTENDS Tenancy

CONSTANTS c1, c2, r1, r2, p1, p2, admin, editor, api, cleaner, north, south, star, o1, o2, nightly, manual,
          retail, counting

\* Without any of the clients in the auth service, and with two of them and the frames.
InstalledHere == {{}, {"redis", "minio", "frames"}}

CameraHere == [o \in {o1, o2} |-> IF o = o1 THEN north ELSE south]
================================================================================
