---------------------------- MODULE MCRequestPath ----------------------------
(* Two server processes and a worker; two tenants with a user of the same  *)
(* name, the first constrained to a project, a session and an agent, the   *)
(* second a reviewer who may not write.                                    *)
EXTENDS RequestPath, TLC

CONSTANTS s1, s2, n1, n2, A, B, U, G, H, X

Scope(tenant, agent, work) ==
  [d \in Dimensions |-> CASE d = "tenant" -> {tenant} [] d = "user" -> {U}
                          [] d = "agent" -> {agent} [] OTHER -> work]
TwoPrincipals == n1 :> [scope |-> Scope(A, G, {X}), ops |-> Operations]
              @@ n2 :> [scope |-> Scope(B, H, {}), ops |-> {"read", "admin_review"}]
TwoCredentials == "key1" :> n1 @@ "key2" :> n2
SomeContexts == {NoSelector, [NoSelector EXCEPT !["tenant"] = B, !["agent"] = H]}
Limits == [r \in Resources |-> IF r \in {"requests"} THEN 2 ELSE IF r = "recall_limit" THEN 5 ELSE 1]
WindowSizes == [r \in Resources |-> IF r = "recall_limit" THEN 0 ELSE 2]
ServerSymmetry == Permutations(Servers)
=============================================================================
