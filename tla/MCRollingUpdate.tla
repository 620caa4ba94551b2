---------------------------- MODULE MCRollingUpdate ----------------------------
(* Small instances of RollingUpdate for TLC.                                  *)
EXTENDS RollingUpdate

MCSpecs == {[version |-> 1, replicas |-> 1], [version |-> 2, replicas |-> 3]}
OneSpec == {[version |-> 1, replicas |-> 1]}

(* A service principal, and one under the deprecated name of its client.      *)
Principal == {"AZURE_SUBSCRIPTION_ID", "AZURE_TENANT_ID", "AZURE_CLIENT_ID",
              "AZURE_CLIENT_SECRET", "AZURE_VALIDATE_CONNECTIVITY"}
Deprecated == (Principal \ {"AZURE_CLIENT_ID"}) \cup {"AZURE_OBJECT_ID"}
MCSettings == {Principal, Deprecated}

(* A workload identity.                                                       *)
Workload == (Principal \ {"AZURE_CLIENT_SECRET"}) \cup {"AZURE_FEDERATED_TOKEN_FILE"}
OneSetting == {Workload}
===============================================================================
