---------------------------- MODULE ClassesOpenShift ----------------------------
(***************************************************************************)
(* Classes of OpenShift configuration, machines, images, operators. Each   *)
(* is what its constructor and its to_dict say of its arguments; see       *)
(* ClassTable for the fields.                                              *)
(***************************************************************************)
EXTENDS ClassTable

\* api_server.py
APIServer == [Plain EXCEPT !.namespaced = FALSE,
    !.ifTrue = {"additional_cors_allowed_origins", "audit", "client_ca", "encryption",
       "serving_certs", "tls_security_profile"}]

\* catalog_source.py
CatalogSource == [Requiring({"source_type", "image", "display_name", "publisher"}) EXCEPT
    !.ifTrue = {"update_strategy_registry_poll_interval"}]

\* cluster_claim.py
ClusterClaim == [Plain EXCEPT
    !.ifTrue = {"cluster_pool_name"}, !.built = {"args", "kind_dict"}]

\* cluster_deployment.py
ClusterDeployment == [Plain EXCEPT
    !.ifTrue = {"base_domain", "cluster_name", "platform", "provisioning",
       "pull_secret_ref_name"}]

\* cluster_pool.py
ClusterPool == [Plain EXCEPT
    !.ifTrue = {"base_domain", "image_set_ref_name", "platform", "pull_secret_ref_name",
       "running_count", "size"}]

\* dns_config_openshift_io.py
DNSConfig == [Plain EXCEPT !.namespaced = FALSE,
    !.ifTrue = {"base_domain", "platform", "private_zone", "public_zone"}]

\* dns_operator_openshift_io.py
DNSOperator == [Plain EXCEPT !.namespaced = FALSE,
    !.ifTrue = {"cache", "log_level", "management_state", "node_placement",
       "operator_log_level", "servers", "upstream_resolvers"}]

\* group.py
Group == [Requiring({"users"}) EXCEPT !.namespaced = FALSE]

\* image_config_openshift_io.py
ImageConfig == [Plain EXCEPT !.namespaced = FALSE,
    !.ifTrue = {"additional_trusted_ca", "allowed_registries_for_import",
       "external_registry_hostnames", "registry_sources"}]

\* image_content_source_policy.py
ImageContentSourcePolicy == [Plain EXCEPT !.namespaced = FALSE,
    !.ifTrue = {"repository_digest_mirrors"}]

\* image_digest_mirror_set.py
ImageDigestMirrorSet == [Requiring({"image_digest_mirrors"}) EXCEPT !.namespaced = FALSE]

\* image_image_openshift_io.py
ImageRegistry == [Plain EXCEPT !.namespaced = FALSE,
    !.ifTrue = {"docker_image_config", "docker_image_layers", "docker_image_manifest",
       "docker_image_manifest_media_type", "docker_image_manifests",
       "docker_image_metadata", "docker_image_metadata_version", "docker_image_reference",
       "docker_image_signatures", "signatures"}]

\* image_stream.py
ImageStream == [Plain EXCEPT !.always = {"lookup_policy", "tags"}]

\* ingress_controller.py
IngressController == [Plain EXCEPT
    !.ifTrue = {"domain", "replicas", "endpoint_publishing_strategy", "default_certificate",
       "namespace_selector", "node_selector", "route_selector", "tls_security_profile",
       "logging", "route_admission", "client_tls", "trusted_ca", "http_compression",
       "http_empty_requests_policy", "http_error_code_pages", "http_headers",
       "node_placement", "tuning_options", "unsupported_config_overrides"}]

\* kube_descheduler.py
KubeDescheduler == [Plain EXCEPT
    !.ifTrue = {"descheduling_interval_seconds", "log_level", "management_state", "mode",
       "observed_config", "operator_log_level", "profile_customizations", "profiles",
       "unsupported_config_overrides"}]

\* machine.py
Machine == [Plain EXCEPT
    !.ifTrue = {"lifecycle_hooks", "metadata", "provider_id", "provider_spec", "taints"}]

\* machine_config.py
MachineConfig == [Plain EXCEPT !.namespaced = FALSE,
    !.ifTrue = {"os_image_url", "config", "kernel_arguments", "extensions", "kernel_type",
       "base_os_extensions_container_image"},
    !.ifGiven = {"fips"}]

\* machine_config_pool.py
MachineConfigPool == [Plain EXCEPT !.namespaced = FALSE,
    !.always = {"configuration"},
    !.ifTrue = {"machine_config_selector", "node_selector", "max_unavailable", "paused"},
    !.filled = [configuration |-> "zero"]]

\* machine_health_check.py
MachineHealthCheck == [Plain EXCEPT
    !.always = {"cluster_name", "machineset_name", "machine_role", "machine_type",
       "node_startup_timeout", "max_unhealthy", "unhealthy_timeout"},
    !.ifTrue = {"reboot_strategy"},
    !.overwrites = [reboot_strategy |-> {"annotations"}]]

\* machine_set.py
MachineSet == [Plain EXCEPT
    !.always = {"cluster_name", "machine_role", "machine_type", "replicas",
       "provider_spec"},
    !.defaults = [provider_spec |-> "zero"], !.overwrites = [cluster_name |-> {"label"}]]

\* network_config_openshift_io.py
NetworkConfig == [Plain EXCEPT !.namespaced = FALSE,
    !.ifTrue = {"cluster_network", "external_ip", "network_diagnostics", "network_type",
       "service_network", "service_node_port_range"}]

\* network_operator_openshift_io.py
NetworkOperator == [Plain EXCEPT !.namespaced = FALSE,
    !.ifTrue = {"additional_networks", "cluster_network", "default_network",
       "export_network_flows", "kube_proxy_config", "log_level", "management_state",
       "migration", "observed_config", "operator_log_level", "service_network",
       "unsupported_config_overrides"},
    !.ifGiven = {"deploy_kube_proxy", "disable_multi_network",
       "disable_network_diagnostics", "use_multi_network_policy"}]

\* node_config_openshift_io.py
NodeConfig == [Plain EXCEPT !.namespaced = FALSE,
    !.ifTrue = {"cgroup_mode", "worker_latency_profile"}]

\* oauth.py
OAuth == [Plain EXCEPT !.namespaced = FALSE,
    !.ifTrue = {"identity_providers", "templates", "token_config"}]

\* ocs_initialization.py
OCSInitialization == [Plain EXCEPT
    !.ifGiven = {"enable_ceph_tools"}, !.built = {"args", "kind_dict"}]

\* operator_group.py
OperatorGroup == [Plain EXCEPT !.always = {"target_namespaces"}]

\* operator_source.py
OperatorSource == [Plain EXCEPT
    !.always = {"registry_namespace", "display_name", "publisher", "secret"}]

\* performance_profile.py
PerformanceProfile == [Plain EXCEPT !.namespaced = FALSE,
    !.requires = {{"cpu", "node_selector"}}, !.always = {"cpu", "node_selector"},
    !.ifTrue = {"additional_kernel_args", "hugepages", "machine_config_label",
       "machine_config_pool_selector", "net", "numa", "real_time_kernel", "workload_hints"},
    !.ifGiven = {"globally_disable_irq_load_balancing"}]

\* project_project_openshift_io.py
Project == [Plain EXCEPT !.namespaced = FALSE, !.ifTrue = {"finalizers"}]

\* project_config_openshift_io.py
ProjectConfig == [Plain EXCEPT !.namespaced = FALSE,
    !.ifTrue = {"project_request_message", "project_request_template"}]

\* project_request.py
ProjectRequest == [Plain EXCEPT !.namespaced = FALSE,
    !.ifTrue = {"description", "display_name"}]

\* proxy.py
Proxy == [Plain EXCEPT !.namespaced = FALSE,
    !.ifTrue = {"http_proxy", "https_proxy", "no_proxy", "readiness_endpoints",
       "trusted_ca"}]

\* reclaim_space_cron_job.py
ReclaimSpaceCronJob == [Requiring({"schedule", "job_template"}) EXCEPT
    !.ifTrue = {"concurrency_policy", "successful_jobs_history_limit",
       "failed_jobs_history_limit"}]

\* reclaim_space_job.py
ReclaimSpaceJob == [Requiring({"target"}) EXCEPT
    !.ifTrue = {"backoff_limit", "retry_deadline_seconds", "timeout_seconds_reclaim_job"}]

\* route.py
Route == [Plain EXCEPT
    !.ifTrue = {"service", "destination_ca_cert"},
    !.breaks = [destination_ca_cert |-> {"service"}]]

\* scheduler.py
Scheduler == [Plain EXCEPT !.namespaced = FALSE,
    !.ifTrue = {"default_node_selector", "policy", "profile"},
    !.ifGiven = {"masters_schedulable"}]

\* security_context_constraints.py
SecurityContextConstraints == [Requiring({"allow_host_dir_volume_plugin", "allow_host_ipc",
    "allow_host_network", "allow_host_pid", "allow_host_ports",
    "allow_privileged_container", "read_only_root_filesystem"}) EXCEPT
    !.namespaced = FALSE,
    !.ifTrue = {"allow_privilege_escalation", "allowed_capabilities",
       "allowed_flex_volumes", "allowed_unsafe_sysctls", "default_add_capabilities",
       "default_allow_privilege_escalation", "forbidden_sysctls", "fs_group", "groups",
       "priority", "required_drop_capabilities", "run_as_user", "se_linux_context",
       "seccomp_profiles", "supplemental_groups", "users", "volumes"}]

\* sriov_network.py
SriovNetwork == [Plain EXCEPT
    !.always = {"network_namespace", "resource_name", "ipam"},
    !.ifTrue = {"vlan", "macspoofchk"}, !.filled = [ipam |-> "value"]]

\* sriov_network_node_policy.py
SriovNetworkNodePolicy == [Plain EXCEPT
    !.always = {"pf_names", "root_devices", "num_vfs", "resource_name", "node_selector"},
    !.ifTrue = {"priority", "mtu"}, !.filled = [node_selector |-> "value"]]

\* subscription.py
Subscription == [Plain EXCEPT
    !.always = {"source", "source_namespace", "package_name", "install_plan_approval",
       "channel", "starting_csv"},
    !.ifTrue = {"node_selector", "tolerations"}, !.filled = [package_name |-> "value"]]

OfOpenShift ==
  [APIServer |-> APIServer, CatalogSource |-> CatalogSource, ClusterClaim |-> ClusterClaim,
   ClusterDeployment |-> ClusterDeployment, ClusterPool |-> ClusterPool, DNSConfig |->
   DNSConfig, DNSOperator |-> DNSOperator, Group |-> Group, ImageConfig |-> ImageConfig,
   ImageContentSourcePolicy |-> ImageContentSourcePolicy, ImageDigestMirrorSet |->
   ImageDigestMirrorSet, ImageRegistry |-> ImageRegistry, ImageStream |-> ImageStream,
   IngressController |-> IngressController, KubeDescheduler |-> KubeDescheduler, Machine |->
   Machine, MachineConfig |-> MachineConfig, MachineConfigPool |-> MachineConfigPool,
   MachineHealthCheck |-> MachineHealthCheck, MachineSet |-> MachineSet, NetworkConfig |->
   NetworkConfig, NetworkOperator |-> NetworkOperator, NodeConfig |-> NodeConfig, OAuth |->
   OAuth, OCSInitialization |-> OCSInitialization, OperatorGroup |-> OperatorGroup,
   OperatorSource |-> OperatorSource, PerformanceProfile |-> PerformanceProfile, Project |->
   Project, ProjectConfig |-> ProjectConfig, ProjectRequest |-> ProjectRequest, Proxy |->
   Proxy, ReclaimSpaceCronJob |-> ReclaimSpaceCronJob, ReclaimSpaceJob |-> ReclaimSpaceJob,
   Route |-> Route, Scheduler |-> Scheduler, SecurityContextConstraints |->
   SecurityContextConstraints, SriovNetwork |-> SriovNetwork, SriovNetworkNodePolicy |->
   SriovNetworkNodePolicy, Subscription |-> Subscription]
===============================================================================
