----------------------------- MODULE MCSchemaUpdate -----------------------------
(***************************************************************************)
(* Clusters and settings of SchemaUpdate for TLC.                          *)
(***************************************************************************)
EXTENDS SchemaUpdate

\* dns is of two groups; pool was of another version before, which is still served. An
\* option of a request has a definition, and is no kind.
MCDefinition == {"dns.config", "dns.operator", "pool.old", "pool.new", "option"}
MCKind == {"dns", "pool", "options"}
MCKindOf == [d \in MCDefinition |->
  CASE d \in {"dns.config", "dns.operator"} -> "dns"
    [] d \in {"pool.old", "pool.new"} -> "pool"
    [] OTHER -> "options"]

\* Two clusters of the same version, and one of them upgraded.
MCCluster == {"first", "second", "upgraded"}
MCVersionOf == [c \in MCCluster |-> IF c = "upgraded" THEN 2 ELSE 1]
MCServed == [c \in MCCluster |->
  CASE c = "first" -> {"dns.config", "pool.old", "pool.new"}
    [] c = "second" -> {"dns.config", "dns.operator", "option"}
    [] OTHER -> {"dns.config", "dns.operator", "pool.new"}]
MCListed == [c \in MCCluster |->
  CASE c = "first" -> {"dns.config", "pool.old"}
    [] c = "second" -> {"dns.config", "dns.operator"}
    [] OTHER -> {"dns.config", "dns.operator", "pool.new"}]

Calm == [crashes |-> FALSE, failures |-> FALSE, upgrades |-> FALSE]
Killed == [Calm EXCEPT !.crashes = TRUE]
Failing == [Calm EXCEPT !.failures = TRUE]
Changing == [Calm EXCEPT !.upgrades = TRUE]
MCSettings == {Calm, Killed, Failing, Changing}
===============================================================================
