--------------------------- MODULE Gate530ApiClaims ---------------------------
(***************************************************************************)
(* What the tests of the Wave 1 API say of it and the code does not do.    *)
(* It is refuted with a database that never fails (DbFaults = FALSE).      *)
(***************************************************************************)
EXTENDS Gate530ApiProperties

(***************************************************************************)
(* __tests__/api.test.ts:117-130, "should allow public resource access":   *)
(* a decided evaluation of a public resource is an allow.  The default     *)
(* rule of api-server.ts:77-92 has a condition that throws.                *)
(***************************************************************************)
PublicAllowed ==
    \A r \in Reqs :
        Decided(r) /\ request[r].ctx.attr["resource.classification"] = "public"
            => response[r].decision = "allow"

===============================================================================
