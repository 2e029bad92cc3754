---------------------------- MODULE MCResourceBody ----------------------------
(***************************************************************************)
(* The bodies of all the classes, for TLC, and the exceptions: the README  *)
(* says of each why it is one.                                             *)
(***************************************************************************)
EXTENDS ResourceBody, ClassesKubernetes, ClassesVirtualization, ClassesOpenShift,
        ClassesOperators, TLC

All == OfKubernetes @@ OfVirtualization @@ OfOpenShift @@ OfOperators

Hooks == {"pre_hook_name", "pre_hook_namespace", "after_hook_name", "after_hook_namespace"}

KnownLost ==
  {"Task"} \X {"steps", "description", "params", "workspaces", "results", "volumes",
               "step_template", "sidecars"}
  \cup {"CronJob"} \X {"starting_deadline_seconds"}
  \cup {"Secret"} \X {"accesskeyid", "htpasswd", "secretkey"}
  \cup {"PersistentVolumeClaim", "MachineHealthCheck", "MultiNetworkPolicy"} \X {"annotations"}
  \cup {"MachineSet"} \X {"label"}
  \cup {"Role"} \X {"label", "annotations"}
  \cup {<<"Layer2UserDefinedNetwork", "layer2">>, <<"Layer3UserDefinedNetwork", "layer3">>}
  \cup {"Plan"} \X Hooks

KnownStale ==
  {"Role"} \X {"label", "annotations"}
  \cup {"OVNOverlayNetworkAttachmentDefinition"} \X {"vlan", "mtu"}
  \cup {"Plan"} \X Hooks

KnownAltering ==
  {<<"ClusterClaim", "kind_dict">>, <<"OCSInitialization", "kind_dict">>}
  \cup {"Role"} \X {"kind_dict", "yaml_file"}

\* These are the exceptions that the table has, and no others.
ASSUME EveryClassWrites == WellFormed
ASSUME NoOtherIsLost == Lost = LossyForms
ASSUME NoOtherIsStale == Stale = StickyForms
ASSUME NoOtherIsAltered == Altering = MeddlingForms
===============================================================================
