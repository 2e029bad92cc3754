---------------------------- MODULE ClassesKubernetes ---------------------------
(***************************************************************************)
(* Classes of Kubernetes itself: workloads, storage, networks, access      *)
(* control. Each is what its constructor and its to_dict say of its        *)
(* arguments; see ClassTable for the fields.                               *)
(***************************************************************************)
EXTENDS ClassTable

\* network_attachment_definition.py
BridgeNetworkAttachmentDefinition == [Plain EXCEPT
    !.always = {"bridge_name", "cni_type", "cni_version"},
    !.ifTrue = {"vlan", "mtu", "macspoofchk"}, !.base = {}, !.sources = {"args"}]

\* csi_driver.py
CSIDriver == [Plain EXCEPT !.namespaced = FALSE,
    !.ifTrue = {"fs_group_policy", "token_requests", "volume_lifecycle_modes"},
    !.ifGiven = {"attach_required", "pod_info_on_mount", "requires_republish",
       "se_linux_mount", "storage_capacity"}]

\* csi_storage_capacity.py
CSIStorageCapacity == [Requiring({"storage_class_name"}) EXCEPT
    !.ifTrue = {"capacity", "maximum_volume_size", "node_topology"}]

\* cluster_role.py
ClusterRole == [Requiring({"rules"}) EXCEPT !.namespaced = FALSE]

\* cluster_role_binding.py
ClusterRoleBinding == [Requiring({"cluster_role"}) EXCEPT !.namespaced = FALSE,
    !.ifTrue = {"subjects"}]

\* config_map.py
ConfigMap == [Plain EXCEPT !.ifTrue = {"binary_data", "data"}, !.ifGiven = {"immutable"}]

\* controller_revision.py
ControllerRevision == [Requiring({"revision"}) EXCEPT
    !.ifTrue = {"owner_references", "revision_object"}]

\* cron_job.py
CronJob == [Requiring({"schedule", "job_template"}) EXCEPT
    !.ifTrue = {"timezone", "concurrency_policy", "suspend",
       "successful_jobs_history_limit", "failed_jobs_history_limit"},
    !.ignored = {"starting_deadline_seconds"}]

\* deployment.py
Deployment == [Requiring({"selector", "template"}) EXCEPT
    !.ifTrue = {"min_ready_seconds", "progress_deadline_seconds", "replicas",
       "revision_history_limit", "strategy"},
    !.ifGiven = {"paused"}]

\* endpoint_slice.py
EndpointSlice == [Requiring({"address_type", "endpoints"}) EXCEPT !.ifTrue = {"ports"}]

\* endpoints.py
Endpoints == Requiring({"addresses", "ports"})

\* job.py
Job == [Plain EXCEPT
    !.ifTrue = {"restart_policy", "service_account", "containers"},
    !.ifGiven = {"backoff_limit"},
    !.inside = [restart_policy |-> {"containers"}, service_account |-> {"containers"}]]

\* user_defined_network.py
Layer2UserDefinedNetwork == [Requiring({"role"}) EXCEPT
    !.ifTrue = {"layer2", "layer3", "local_net", "mtu", "subnets", "join_subnets",
       "ipam_lifecycle"},
    !.overwrites = [role |-> {"layer2"}]]

\* user_defined_network.py
Layer3UserDefinedNetwork == [Requiring({"role", "subnets"}) EXCEPT
    !.ifTrue = {"layer2", "layer3", "local_net", "mtu", "join_subnets"},
    !.overwrites = [role |-> {"layer3"}]]

\* lease.py
Lease == [Plain EXCEPT
    !.ifTrue = {"holder_identity", "acquire_time", "renew_time", "lease_duration_seconds",
       "lease_transitions"},
    !.breaks = [acquire_time |-> {}, holder_identity |-> {}, lease_duration_seconds |-> {},
       lease_transitions |-> {}, renew_time |-> {}]]

\* limit_range.py
LimitRange == Requiring({"limits"})

\* network_attachment_definition.py
LinuxBridgeNetworkAttachmentDefinition == [Plain EXCEPT
    !.always = {"bridge_name", "cni_type", "cni_version"},
    !.ifTrue = {"vlan", "mtu", "tuning_type", "macspoofchk"}, !.base = {},
    !.sources = {"args"}]

\* multi_network_policy.py
MultiNetworkPolicy == [Plain EXCEPT
    !.requires = {{"network_name", "pod_selector"}},
    !.always = {"network_name", "pod_selector"}, !.ifTrue = {"policy_types"},
    !.ifGiven = {"ingress", "egress"}, !.noneOnly = {"pod_selector"},
    !.overwrites = [network_name |-> {"annotations"}]]

\* namespace.py
Namespace == [Plain EXCEPT !.namespaced = FALSE, !.ifTrue = {"finalizers"}]

\* network_attachment_definition.py
NetworkAttachmentDefinition == [Plain EXCEPT
    !.always = {"cni_type", "cni_version"}, !.ifTrue = {"config"},
    !.unless = [cni_type |-> {"config"}, cni_version |-> {"config"}]]

\* node.py
Node == [Plain EXCEPT !.namespaced = FALSE,
    !.ifTrue = {"config_source", "external_id", "pod_cidr", "pod_cidrs", "provider_id",
       "taints"},
    !.ifGiven = {"unschedulable"}]

\* network_attachment_definition.py
OVNOverlayNetworkAttachmentDefinition == [Plain EXCEPT
    !.requires = {{"network_name", "topology"}},
    !.always = {"network_name", "topology", "cni_version"},
    !.ifTrue = {"vlan", "mtu", "config"},
    !.unless = [cni_version |-> {"config"}],
    !.into = [vlan |-> "config", mtu |-> "config"]]

\* network_attachment_definition.py
OvsBridgeNetworkAttachmentDefinition == [Plain EXCEPT
    !.always = {"bridge_name", "cni_version"}, !.ifTrue = {"vlan", "mtu"}, !.base = {},
    !.sources = {"args"}]

\* persistent_volume_claim.py
PersistentVolumeClaim == [Plain EXCEPT
    !.always = {"accessmodes", "volume_mode", "size"},
    !.ifTrue = {"storage_class", "hostpath_node", "pvlabel"},
    !.overwrites = [hostpath_node |-> {"annotations"}]]

\* pod.py
Pod == [Requiring({"containers"}) EXCEPT
    !.ifTrue = {"active_deadline_seconds", "affinity", "dns_config", "dns_policy",
       "ephemeral_containers", "host_aliases", "hostname", "image_pull_secrets",
       "init_containers", "node_name", "node_selector", "os", "overhead",
       "preemption_policy", "priority", "priority_class_name", "readiness_gates",
       "resource_claims", "restart_policy", "runtime_class_name", "scheduler_name",
       "scheduling_gates", "security_context", "service_account", "service_account_name",
       "subdomain", "termination_grace_period_seconds", "tolerations",
       "topology_spread_constraints", "volumes"},
    !.ifGiven = {"automount_service_account_token", "enable_service_links", "host_ipc",
       "host_network", "host_pid", "host_users", "set_hostname_as_fqdn",
       "share_process_namespace"}]

\* pod_disruption_budget.py
PodDisruptionBudget == [Plain EXCEPT
    !.always = {"selector"}, !.ifGiven = {"min_available", "max_unavailable"}]

\* pod_metrics.py
PodMetrics == [Requiring({"containers", "timestamp", "window"}) EXCEPT
    !.noneOnly = {"containers", "timestamp", "window"}]

\* priority_class.py
PriorityClass == [Plain EXCEPT !.namespaced = FALSE,
    !.ifTrue = {"value", "global_default", "description", "preemption_policy"}]

\* replica_set.py
ReplicaSet == [Requiring({"selector"}) EXCEPT
    !.ifTrue = {"min_ready_seconds", "replicas", "template"}]

\* resource_quota.py
ResourceQuota == [Requiring({"hard"}) EXCEPT !.ifTrue = {"scope_selector", "scopes"}]

\* role.py
Role == [Requiring({"rules"}) EXCEPT !.checked = {"args", "kind_dict"}, !.rebuilt = FALSE]

\* role_binding.py
RoleBinding == [Plain EXCEPT
    !.ifTrue = {"subjects_kind", "subjects_name", "subjects_namespace",
       "subjects_api_group", "role_ref_kind", "role_ref_name"}]

\* secret.py
Secret == [Plain EXCEPT
    !.always = {"secretkey"},
    !.ifTrue = {"accesskeyid", "htpasswd", "data_dict", "string_data", "type"},
    !.inside = [secretkey |-> {"accesskeyid"}],
    !.overwrites = [data_dict |-> {"accesskeyid", "htpasswd", "secretkey"}, htpasswd |->
       {"accesskeyid", "secretkey"}]]

\* service.py
Service == [Plain EXCEPT
    !.ifTrue = {"cluster_ip", "cluster_ips", "external_ips", "external_name",
       "external_traffic_policy", "health_check_node_port", "internal_traffic_policy",
       "ip_families", "ip_family_policy", "load_balancer_class", "load_balancer_ip",
       "load_balancer_source_ranges", "ports", "selector", "session_affinity",
       "session_affinity_config", "traffic_distribution", "type"},
    !.ifGiven = {"allocate_load_balancer_node_ports", "publish_not_ready_addresses"}]

\* service_account.py
ServiceAccount == [Plain EXCEPT
    !.ifTrue = {"automount_service_account_token", "image_pull_secrets", "secrets"}]

\* storage_class.py
StorageClass == [Requiring({"provisioner"}) EXCEPT !.namespaced = FALSE,
    !.ifTrue = {"reclaim_policy", "volume_binding_mode", "allow_volume_expansion",
       "parameters", "allowed_topologies", "mount_options"}]

\* user_defined_network.py
UserDefinedNetwork == [Requiring({"topology"}) EXCEPT
    !.ifTrue = {"layer2", "layer3", "local_net"}]

\* volume_snapshot.py
VolumeSnapshot == [Requiring({"source"}) EXCEPT !.ifGiven = {"volume_snapshot_class_name"}]

\* volume_snapshot_class.py
VolumeSnapshotClass == [Requiring({"deletion_policy", "driver"}) EXCEPT
    !.namespaced = FALSE,
    !.ifTrue = {"parameters"}]

OfKubernetes ==
  [BridgeNetworkAttachmentDefinition |-> BridgeNetworkAttachmentDefinition, CSIDriver |->
   CSIDriver, CSIStorageCapacity |-> CSIStorageCapacity, ClusterRole |-> ClusterRole,
   ClusterRoleBinding |-> ClusterRoleBinding, ConfigMap |-> ConfigMap, ControllerRevision
   |-> ControllerRevision, CronJob |-> CronJob, Deployment |-> Deployment, EndpointSlice |->
   EndpointSlice, Endpoints |-> Endpoints, Job |-> Job, Layer2UserDefinedNetwork |->
   Layer2UserDefinedNetwork, Layer3UserDefinedNetwork |-> Layer3UserDefinedNetwork, Lease
   |-> Lease, LimitRange |-> LimitRange, LinuxBridgeNetworkAttachmentDefinition |->
   LinuxBridgeNetworkAttachmentDefinition, MultiNetworkPolicy |-> MultiNetworkPolicy,
   Namespace |-> Namespace, NetworkAttachmentDefinition |-> NetworkAttachmentDefinition,
   Node |-> Node, OVNOverlayNetworkAttachmentDefinition |->
   OVNOverlayNetworkAttachmentDefinition, OvsBridgeNetworkAttachmentDefinition |->
   OvsBridgeNetworkAttachmentDefinition, PersistentVolumeClaim |-> PersistentVolumeClaim,
   Pod |-> Pod, PodDisruptionBudget |-> PodDisruptionBudget, PodMetrics |-> PodMetrics,
   PriorityClass |-> PriorityClass, ReplicaSet |-> ReplicaSet, ResourceQuota |->
   ResourceQuota, Role |-> Role, RoleBinding |-> RoleBinding, Secret |-> Secret, Service |->
   Service, ServiceAccount |-> ServiceAccount, StorageClass |-> StorageClass,
   UserDefinedNetwork |-> UserDefinedNetwork, VolumeSnapshot |-> VolumeSnapshot,
   VolumeSnapshotClass |-> VolumeSnapshotClass]
===============================================================================
