-------------------------- MODULE ClassesVirtualization -------------------------
(***************************************************************************)
(* Classes of KubeVirt, CDI, Forklift and the other virtualization         *)
(* operators. Each is what its constructor and its to_dict say of its      *)
(* arguments; see ClassTable for the fields.                               *)
(***************************************************************************)
EXTENDS ClassTable

\* aaq.py
AAQ == [Plain EXCEPT !.namespaced = FALSE,
    !.ifTrue = {"cert_config", "configuration", "image_pull_policy", "infra",
       "namespace_selector", "priority_class", "workload"}]

\* application_aware_cluster_resource_quota.py
ApplicationAwareClusterResourceQuota == [Plain EXCEPT !.namespaced = FALSE,
    !.requires = {{"quota", "selector"}}, !.always = {"quota", "selector"}]

\* application_aware_resource_quota.py
ApplicationAwareResourceQuota == [Requiring({"hard"}) EXCEPT
    !.ifTrue = {"scope_selector", "scopes"}]

\* cdi.py
CDI == [Plain EXCEPT !.namespaced = FALSE,
    !.ifTrue = {"cert_config", "clone_strategy_override", "config", "customize_components",
       "image_pull_policy", "infra", "priority_class", "uninstall_strategy", "workload"}]

\* cdi_config.py
CDIConfig == [Plain EXCEPT !.namespaced = FALSE,
    !.ifTrue = {"data_volume_ttl_seconds", "feature_gates", "filesystem_overhead",
       "image_pull_secrets", "import_proxy", "insecure_registries", "log_verbosity",
       "pod_resource_requirements", "scratch_space_storage_class", "tls_security_profile",
       "upload_proxy_url_override"},
    !.ifGiven = {"preallocation"}]

\* data_import_cron.py
DataImportCron == [Requiring({"managed_data_source", "schedule", "template"}) EXCEPT
    !.ifGiven = {"garbage_collect", "imports_to_keep", "retention_policy"},
    !.noneOnly = {"managed_data_source", "schedule", "template"}]

\* data_source.py
DataSource == Requiring({"source"})

\* hook.py
Hook == [Plain EXCEPT !.always = {"image", "playbook"}]

\* host.py
Host == [Plain EXCEPT
    !.always = {"host_id", "ip_address", "provider_name", "provider_namespace",
       "secret_name", "secret_namespace"},
    !.defaults = [secret_name |-> "value", secret_namespace |-> "value"]]

\* hostpath_provisioner.py
HostPathProvisioner == [Plain EXCEPT !.namespaced = FALSE,
    !.ifTrue = {"path", "image_pull_policy"}]

\* hyperconverged.py
HyperConverged == [Plain EXCEPT !.ifTrue = {"infra", "workloads"}]

\* kubevirt.py
KubeVirt == [Plain EXCEPT
    !.ifTrue = {"certificate_rotate_strategy", "configuration", "customize_components",
       "image_pull_policy", "image_pull_secrets", "image_registry", "image_tag", "infra",
       "monitor_account", "monitor_namespace", "product_component", "product_name",
       "product_version", "service_monitor_namespace", "uninstall_strategy",
       "workload_update_strategy", "workloads"}]

\* mtq.py
MTQ == [Plain EXCEPT !.namespaced = FALSE,
    !.ifTrue = {"cert_config", "image_pull_policy", "infra", "priority_class", "workload"}]

\* migration.py
Migration == [Plain EXCEPT
    !.always = {"plan_name", "plan_namespace"}, !.ifTrue = {"cut_over"}]

\* migration_policy.py
MigrationPolicy == [Plain EXCEPT !.namespaced = FALSE,
    !.ifTrue = {"bandwidth_per_migration", "completion_timeout_per_gb",
       "namespace_selector", "vmi_selector"},
    !.ifGiven = {"allow_auto_converge", "allow_post_copy"},
    !.defaults = [namespace_selector |-> "zero", vmi_selector |-> "zero"]]

\* nm_state.py
NMState == [Plain EXCEPT !.namespaced = FALSE,
    !.ifTrue = {"affinity", "infra_affinity", "infra_node_selector", "infra_tolerations",
       "node_selector", "self_sign_configuration", "tolerations"}]

\* network_map.py
NetworkMap == [Plain EXCEPT
    !.always = {"mapping", "source_provider_name", "source_provider_namespace",
       "destination_provider_name", "destination_provider_namespace"}]

\* plan.py
Plan == [Plain EXCEPT
    !.always = {"source_provider_name", "source_provider_namespace",
       "destination_provider_name", "destination_provider_namespace", "storage_map_name",
       "storage_map_namespace", "network_map_name", "network_map_namespace",
       "virtual_machines_list", "target_namespace", "warm_migration"},
    !.ifTrue = {"pre_hook_name", "pre_hook_namespace", "after_hook_name",
       "after_hook_namespace"},
    !.defaults = [target_namespace |-> "value"],
    !.fixed = {"pre_hook_name", "pre_hook_namespace", "after_hook_name",
       "after_hook_namespace"},
    !.into = [hook \in {"pre_hook_name", "pre_hook_namespace", "after_hook_name",
       "after_hook_namespace"} |-> "virtual_machines_list"],
    !.inside = [after_hook_name |-> {"after_hook_namespace", "virtual_machines_list"},
       after_hook_namespace |-> {"after_hook_name", "virtual_machines_list"}, pre_hook_name
       |-> {"pre_hook_namespace", "virtual_machines_list"}, pre_hook_namespace |->
       {"pre_hook_name", "virtual_machines_list"}]]

\* provider.py
Provider == [Plain EXCEPT
    !.always = {"provider_type", "url", "secret_name", "secret_namespace",
       "vddk_init_image"}]

\* ssp.py
SSP == [Requiring({"common_templates"}) EXCEPT
    !.ifTrue = {"common_instancetypes", "feature_gates", "tekton_pipelines", "tekton_tasks",
       "template_validator", "tls_security_profile"}]

\* storage_map.py
StorageMap == [Plain EXCEPT
    !.always = {"source_provider_name", "source_provider_namespace",
       "destination_provider_name", "destination_provider_namespace", "mapping"}]

\* upload_token_request.py
UploadTokenRequest == [Plain EXCEPT !.always = {"pvc_name"}]

\* virtual_machine.py
VirtualMachine == [Plain EXCEPT !.always = {"body"}, !.filled = [body |-> "value"]]

\* virtual_machine_clone.py
VirtualMachineClone == [Plain EXCEPT
    !.requires = Each({"source_name"}), !.always = {"source_name", "source_kind"},
    !.ifTrue = {"target_name", "label_filters", "annotation_filters", "new_mac_addresses",
       "new_smbios_serial"},
    !.filled = [source_kind |-> "value"]]

\* virtual_machine_cluster_instancetype.py
VirtualMachineClusterInstancetype == [Requiring({"cpu", "memory"}) EXCEPT
    !.namespaced = FALSE,
    !.ifTrue = {"spec_annotations", "gpus", "host_devices", "io_threads_policy",
       "launch_security", "node_selector", "scheduler_name"}]

\* virtual_machine_cluster_preference.py
VirtualMachineClusterPreference == [Plain EXCEPT !.namespaced = FALSE,
    !.ifTrue = {"spec_annotations", "clock", "cpu", "devices", "features", "firmware",
       "machine", "prefer_spread_socket_to_core_ratio", "preferred_subdomain",
       "preferred_termination_grace_period_seconds", "requirements", "volumes"}]

\* virtual_machine_export.py
VirtualMachineExport == [Requiring({"source"}) EXCEPT
    !.ifTrue = {"token_secret_ref", "ttl_duration"}, !.noneOnly = {"source"}]

\* virtual_machine_import.py
VirtualMachineImport == [Plain EXCEPT
    !.always = {"provider_credentials_secret_name", "provider_type"},
    !.ifTrue = {"provider_credentials_secret_namespace", "vm_id", "vm_name", "cluster_id",
       "cluster_name", "target_vm_name", "provider_mappings", "resource_mapping_name",
       "resource_mapping_namespace", "warm", "finalize_date"},
    !.ifGiven = {"start_vm"}]

\* virtual_machine_instance_migration.py
VirtualMachineInstanceMigration == [Plain EXCEPT !.ifTrue = {"vmi_name"}]

\* virtual_machine_instance_preset.py
VirtualMachineInstancePreset == [Requiring({"selector"}) EXCEPT !.ifTrue = {"domain"}]

\* virtual_machine_instance_replica_set.py
VirtualMachineInstanceReplicaSet == [Requiring({"selector", "template"}) EXCEPT
    !.ifTrue = {"replicas"}, !.ifGiven = {"paused"}]

\* virtual_machine_instancetype.py
VirtualMachineInstancetype == [Requiring({"cpu", "memory"}) EXCEPT
    !.ifTrue = {"spec_annotations", "gpus", "host_devices", "io_threads_policy",
       "launch_security", "node_selector", "scheduler_name"}]

\* virtual_machine_migration_resource_quota.py
VirtualMachineMigrationResourceQuota == [Plain EXCEPT
    !.ifTrue = {"requests_cpu", "requests_memory", "limits_cpu", "limits_memory"}]

\* virtual_machine_preference.py
VirtualMachinePreference == [Plain EXCEPT
    !.ifTrue = {"spec_annotations", "clock", "cpu", "devices", "features", "firmware",
       "machine", "prefer_spread_socket_to_core_ratio", "preferred_subdomain",
       "preferred_termination_grace_period_seconds", "requirements", "volumes"}]

\* virtual_machine_restore.py
VirtualMachineRestore == [Plain EXCEPT !.always = {"vm_name", "snapshot_name"}]

\* virtual_machine_snapshot.py
VirtualMachineSnapshot == [Plain EXCEPT !.always = {"vm_name"}]

OfVirtualization ==
  [AAQ |-> AAQ, ApplicationAwareClusterResourceQuota |->
   ApplicationAwareClusterResourceQuota, ApplicationAwareResourceQuota |->
   ApplicationAwareResourceQuota, CDI |-> CDI, CDIConfig |-> CDIConfig, DataImportCron |->
   DataImportCron, DataSource |-> DataSource, Hook |-> Hook, Host |-> Host,
   HostPathProvisioner |-> HostPathProvisioner, HyperConverged |-> HyperConverged, KubeVirt
   |-> KubeVirt, MTQ |-> MTQ, Migration |-> Migration, MigrationPolicy |-> MigrationPolicy,
   NMState |-> NMState, NetworkMap |-> NetworkMap, Plan |-> Plan, Provider |-> Provider, SSP
   |-> SSP, StorageMap |-> StorageMap, UploadTokenRequest |-> UploadTokenRequest,
   VirtualMachine |-> VirtualMachine, VirtualMachineClone |-> VirtualMachineClone,
   VirtualMachineClusterInstancetype |-> VirtualMachineClusterInstancetype,
   VirtualMachineClusterPreference |-> VirtualMachineClusterPreference, VirtualMachineExport
   |-> VirtualMachineExport, VirtualMachineImport |-> VirtualMachineImport,
   VirtualMachineInstanceMigration |-> VirtualMachineInstanceMigration,
   VirtualMachineInstancePreset |-> VirtualMachineInstancePreset,
   VirtualMachineInstanceReplicaSet |-> VirtualMachineInstanceReplicaSet,
   VirtualMachineInstancetype |-> VirtualMachineInstancetype,
   VirtualMachineMigrationResourceQuota |-> VirtualMachineMigrationResourceQuota,
   VirtualMachinePreference |-> VirtualMachinePreference, VirtualMachineRestore |->
   VirtualMachineRestore, VirtualMachineSnapshot |-> VirtualMachineSnapshot]
===============================================================================
