---------------------------- MODULE ClassesOperators ----------------------------
(***************************************************************************)
(* Classes of operators of other projects: Tekton, Open Data Hub, MariaDB, *)
(* Prometheus, MetalLB and so on. Each is what its constructor and its     *)
(* to_dict say of its arguments; see ClassTable for the fields.            *)
(***************************************************************************)
EXTENDS ClassTable

\* authorino.py
Authorino == [Requiring({"listener", "oidc_server"}) EXCEPT
    !.ifTrue = {"auth_config_label_selectors", "evaluator_cache_size", "healthz", "image",
       "image_pull_policy", "log_level", "log_mode", "metrics", "replicas",
       "secret_label_selectors", "tracing", "volumes"},
    !.ifGiven = {"cluster_wide", "superseding_host_subsets"}]

\* backup.py
Backup == [Plain EXCEPT
    !.ifTrue = {"included_namespaces", "excluded_resources", "snapshot_move_data",
       "storage_location"}]

\* dsc_initialization.py
DSCInitialization == [Requiring({"applications_namespace"}) EXCEPT !.namespaced = FALSE,
    !.ifTrue = {"dev_flags", "monitoring", "service_mesh", "trusted_ca_bundle"}]

\* data_science_cluster.py
DataScienceCluster == [Plain EXCEPT !.namespaced = FALSE, !.ifTrue = {"components"}]

\* fence_agent_remediation_templates.py
FenceAgentsRemediationTemplate == [Requiring({"agent"}) EXCEPT
    !.ifTrue = {"remediation_strategy", "retry_interval", "remediation_timeout",
       "shared_parameters", "node_parameters"},
    !.ifGiven = {"retry_count"}]

\* ip_address_pool.py
IPAddressPool == [Requiring({"addresses"}) EXCEPT
    !.ifTrue = {"auto_assign", "avoid_buggy_ips"}]

\* image_caching_internal_knative_dev.py
ImageCaching == [Requiring({"image"}) EXCEPT
    !.ifTrue = {"image_pull_secrets", "service_account_name"}]

\* inference_service.py
InferenceService == [Requiring({"predictor"}) EXCEPT
    !.ifTrue = {"explainer", "transformer"}]

\* l2_advertisement.py
L2Advertisement == [Plain EXCEPT
    !.ifTrue = {"interfaces", "ip_address_pools", "ip_address_pools_selectors"}]

\* lm_eval_job.py
LMEvalJob == [Requiring({"model", "task_list"}) EXCEPT
    !.ifTrue = {"batch_size", "gen_args", "limit", "model_args", "num_few_shot", "offline",
       "outputs", "pod"},
    !.ifGiven = {"allow_code_execution", "allow_online", "log_samples", "suspend"}]

\* maria_db.py
MariaDB == [Plain EXCEPT
    !.ifTrue = {"affinity", "bootstrap_from", "command", "connection", "database", "env",
       "env_from", "galera", "image", "image_pull_policy", "image_pull_secrets",
       "inherit_metadata", "init_containers", "liveness_probe", "max_scale",
       "max_scale_ref", "metrics", "my_cnf", "my_cnf_config_map_key_ref", "node_selector",
       "password_hash_secret_key_ref", "password_plugin", "password_secret_key_ref",
       "pod_disruption_budget", "pod_metadata", "pod_security_context", "port",
       "primary_connection", "primary_service", "priority_class_name", "readiness_probe",
       "replicas", "replication", "resources", "root_password_secret_key_ref",
       "secondary_connection", "secondary_service", "security_context", "service",
       "service_account_name", "service_ports", "sidecar_containers", "storage",
       "time_zone", "tolerations", "topology_spread_constraints", "update_strategy",
       "username", "volume_mounts", "volumes"},
    !.ifGiven = {"replicas_allow_even_number", "root_empty_password", "suspend"}]

\* mariadb_operator.py
MariadbOperator == [Plain EXCEPT
    !.ifGiven = {"affinity", "cert_controller", "cluster_name", "extr_args",
       "extra_volume_mounts", "extra_volumes", "fullname_override", "ha", "image",
       "image_pull_secrets", "log_level", "metrics", "name_override", "node_selector",
       "pod_annotations", "pod_security_context", "rbac", "resources", "security_context",
       "service_account", "tolerations", "webhook"}]

\* metallb.py
MetalLB == [Plain EXCEPT
    !.always = {"log_level"}, !.ifTrue = {"speaker_config", "speaker_tolerations"}]

\* model_registry.py
ModelRegistry == [Requiring({"grpc", "rest"}) EXCEPT
    !.ifTrue = {"downgrade_db_schema_version", "istio", "mysql", "postgres"},
    !.ifGiven = {"enable_database_upgrade"},
    !.noneOnly = {"grpc", "rest"}]

\* multi_cluster_observability.py
MultiClusterObservability == [Plain EXCEPT !.namespaced = FALSE,
    !.requires = Each({"metric_object_storage"}),
    !.always = {"observability_addon_spec", "metric_object_storage"},
    !.ifTrue = {"enable_downsampling", "image_pull_policy", "image_pull_secret"},
    !.defaults = [observability_addon_spec |-> "zero"]]

\* node_health_check.py
NodeHealthCheck == [Plain EXCEPT !.namespaced = FALSE,
    !.requires = {{"selector_match_expressions", "selector_match_labels"}},
    !.ifTrue = {"selector_match_expressions", "selector_match_labels", "min_unhealthy",
       "unhealthy_conditions", "escalating_remediation", "remediation_template"},
    !.exclusive = {{"escalating_remediation", "remediation_template"}}]

\* pipeline.py
Pipeline == [Plain EXCEPT
    !.requires = {{"tasks", "params", "final_parallel_tasks"}},
    !.ifTrue = {"tasks", "params", "final_parallel_tasks"}]

\* pipelineruns.py
PipelineRun == [Requiring({"pipelineref"}) EXCEPT
    !.ifTrue = {"params", "service_account_name"}]

\* prometheus.py
Prometheus == [Plain EXCEPT
    !.ifTrue = {"additional_alert_manager_configs", "additional_alert_relabel_configs",
       "additional_args", "additional_scrape_configs", "affinity", "alerting",
       "apiserver_config", "arbitrary_fs_access_through_sms", "base_image",
       "body_size_limit", "config_maps", "containers", "enable_features",
       "enforced_body_size_limit", "enforced_keep_dropped_targets", "enforced_label_limit",
       "enforced_label_name_length_limit", "enforced_label_value_length_limit",
       "enforced_namespace_label", "enforced_sample_limit", "enforced_target_limit",
       "evaluation_interval", "excluded_from_enforcement", "exemplars", "external_labels",
       "external_url", "host_aliases", "image", "image_pull_policy", "image_pull_secrets",
       "init_containers", "keep_dropped_targets", "label_limit", "label_name_length_limit",
       "label_value_length_limit", "log_format", "log_level",
       "maximum_startup_duration_seconds", "min_ready_seconds", "node_selector",
       "persistent_volume_claim_retention_policy", "pod_metadata",
       "pod_monitor_namespace_selector", "pod_monitor_selector", "pod_target_labels",
       "port_name", "priority_class_name", "probe_namespace_selector", "probe_selector",
       "prometheus_external_label_name", "prometheus_rules_excluded_from_enforce", "query",
       "query_log_file", "reload_strategy", "remote_read", "remote_write",
       "replica_external_label_name", "replicas", "resources", "retention",
       "retention_size", "route_prefix", "rule_namespace_selector", "rule_selector",
       "rules", "sample_limit", "scrape_classes", "scrape_config_namespace_selector",
       "scrape_config_selector", "scrape_interval", "scrape_protocols", "scrape_timeout",
       "secrets", "security_context", "service_account_name",
       "service_monitor_namespace_selector", "service_monitor_selector", "sha", "shards",
       "storage", "tag", "target_limit", "thanos", "tolerations",
       "topology_spread_constraints", "tracing_config", "tsdb", "version", "volume_mounts",
       "volumes", "web"},
    !.ifGiven = {"allow_overlapping_blocks", "automount_service_account_token",
       "disable_compaction", "enable_admin_api", "enable_remote_write_receiver",
       "host_network", "ignore_namespace_selectors", "listen_local",
       "override_honor_labels", "override_honor_timestamps", "paused", "wal_compression"}]

\* restore.py
Restore == [Requiring({"backup_name"}) EXCEPT !.ifTrue = {"included_namespaces"}]

\* sealed_secret.py
SealedSecret == [Requiring({"encrypted_data"}) EXCEPT !.ifTrue = {"template", "data"}]

\* self_node_remediation_templates.py
SelfNodeRemediationTemplate == [Plain EXCEPT !.ifTrue = {"remediation_strategy"}]

\* service_serving_knative_dev.py
ServiceKnative == [Plain EXCEPT !.ifTrue = {"template", "traffic"}]

\* service_mesh_member.py
ServiceMeshMember == Requiring({"control_plane_ref"})

\* serving_runtime.py
ServingRuntime == [Requiring({"containers"}) EXCEPT
    !.ifTrue = {"affinity", "spec_annotations", "built_in_adapter", "grpc_data_endpoint",
       "grpc_endpoint", "http_data_endpoint", "image_pull_secrets", "spec_labels",
       "node_selector", "protocol_versions", "replicas", "storage_helper",
       "supported_model_formats", "tolerations", "volumes"},
    !.ifGiven = {"disabled", "multi_model"},
    !.noneOnly = {"containers"}]

\* task.py
Task == [Plain EXCEPT
    !.requires = Each({"steps"}),
    !.ignored = {"steps", "description", "params", "workspaces", "results", "volumes",
       "step_template", "sidecars"}]

\* task_run.py
TaskRun == [Plain EXCEPT
    !.requires = {{"task_ref", "task_spec"}},
    !.ifTrue = {"task_ref", "task_spec", "params", "service_account_name",
       "taskrun_timeout"},
    !.exclusive = {{"task_ref", "task_spec"}}]

\* trustyai_service.py
TrustyAIService == [Plain EXCEPT
    !.requires = {{"storage", "data", "metrics"}},
    !.always = {"storage", "data", "metrics"}, !.ifTrue = {"replicas", "image", "tag"}]

OfOperators ==
  [Authorino |-> Authorino, Backup |-> Backup, DSCInitialization |-> DSCInitialization,
   DataScienceCluster |-> DataScienceCluster, FenceAgentsRemediationTemplate |->
   FenceAgentsRemediationTemplate, IPAddressPool |-> IPAddressPool, ImageCaching |->
   ImageCaching, InferenceService |-> InferenceService, L2Advertisement |-> L2Advertisement,
   LMEvalJob |-> LMEvalJob, MariaDB |-> MariaDB, MariadbOperator |-> MariadbOperator,
   MetalLB |-> MetalLB, ModelRegistry |-> ModelRegistry, MultiClusterObservability |->
   MultiClusterObservability, NodeHealthCheck |-> NodeHealthCheck, Pipeline |-> Pipeline,
   PipelineRun |-> PipelineRun, Prometheus |-> Prometheus, Restore |-> Restore, SealedSecret
   |-> SealedSecret, SelfNodeRemediationTemplate |-> SelfNodeRemediationTemplate,
   ServiceKnative |-> ServiceKnative, ServiceMeshMember |-> ServiceMeshMember,
   ServingRuntime |-> ServingRuntime, Task |-> Task, TaskRun |-> TaskRun, TrustyAIService
   |-> TrustyAIService]
===============================================================================
