--------------------------------- MODULE Api ---------------------------------
(***************************************************************************)
(* The functions of src/packages/velaux-ui/src/api, one table per file: what each *)
(* reads on the server, or what it changes there.  What a function does is not *)
(* what its method says: users are enabled and disabled with GET, and POST *)
(* carries the questions whose parameters are long.                        *)
(***************************************************************************)
EXTENDS PageModel

addonsApi ==
    [getAddonRegistriesList |-> Reads("registry"),
     createAddonRegistry |-> Changes({"registry", "addon"}),
     deleteAddonRegistry |-> Changes({"registry", "addon"}),
     getAddonsList |-> Reads("addon"), getAddonsDetails |-> Reads("addon"),
     disableAddon |-> Changes({"enabledAddon", "addonStatus"}),
     enableAddon |-> Changes({"enabledAddon", "addonStatus"}),
     upgradeAddon |-> Changes({"enabledAddon", "addonStatus"}),
     getAddonsStatus |-> Reads("addonStatus"), getEnabledAddons |-> Reads("enabledAddon")]

applicationApi1 ==
    [getApplicationList |-> Reads("application"),
     createApplication |-> Changes({"application"}),
     getApplicationDetails |-> Reads("application"),
     getApplicationStatus |-> Reads("status"),
     getApplicationDataFlows |-> Reads("status"),
     getApplicationAllStatus |-> Reads("status"),
     deleteApplication |-> Changes({"application"}),
     getApplicationComponents |-> Reads("component"),
     createApplicationComponent |-> Changes({"component"}),
     getComponentDetails |-> Reads("component"),
     deployApplication |-> Changes({"record", "revision"}),
     getPolicyList |-> Reads("policy"), createPolicy |-> Changes({"policy"}),
     updatePolicy |-> Changes({"policy"}), getPolicyDetail |-> Reads("policy"),
     deletePolicy |-> Changes({"policy"}), getSources |-> Reads("source"),
     createSource |-> Changes({"source"}), updateSource |-> Changes({"source"}),
     deleteSource |-> Changes({"source"}),
     createApplicationTemplate |-> Changes({"template"}),
     createApplicationEnvbinding |-> Changes({"envbinding"}),
     updateApplicationEnvbinding |-> Changes({"envbinding"}),
     getApplicationEnvbinding |-> Reads("envbinding"),
     deleteApplicationEnvbinding |-> Changes({"envbinding"}),
     recycleApplicationEnvbinding |-> Changes({"status"}),
     pauseApplicationEnvbinding |-> Changes({"status"}),
     setReconcileInterval |-> Changes({"status"}),
     restartApplicationWorkflow |-> Changes({"status"}),
     cancelWorkflowRestart |-> Changes({"status"}),
     resumeApplicationEnvbinding |-> Changes({"status"}),
     getApplicationComponent |-> Reads("component"),
     createTrait |-> Changes({"component"})]

applicationApi2 ==
    [updateTrait |-> Changes({"component"}), deleteTrait |-> Changes({"component"}),
     listRevisions |-> Reads("revision"), detailRevision |-> Reads("revision"),
     rollbackWithRevision |-> Changes({"record"}),
     getApplicationStatistics |-> Reads("statistics"),
     getApplicationWorkflowRecord |-> Reads("record"),
     getApplicationEnvRecords |-> Reads("record"),
     updateComponentProperties |-> Changes({"component"}),
     resumeApplicationWorkflowRecord |-> Changes({"record"}),
     rollbackApplicationWorkflowRecord |-> Changes({"record"}),
     terminateApplicationWorkflowRecord |-> Changes({"record"}),
     getApplicationTriggers |-> Reads("trigger"),
     updateApplication |-> Changes({"application"}),
     createTrigger |-> Changes({"trigger"}), updateTrigger |-> Changes({"trigger"}),
     deleteTrigger |-> Changes({"trigger"}), deleteComponent |-> Changes({"component"}),
     compareApplication |-> Reads("diff"), dryRunApplication |-> Reads("dryRun"),
     getExpressionEnv |-> Reads("expression"),
     getDraftExpressionEnv |-> Reads("expression")]

applicationApi3 ==
    [checkDraftExpression |-> Reads("expression"),
     checkExpression |-> Reads("expression"),
     setExpressionOptIn |-> Changes({"expression"})]

authenticationApi ==
    [loginSSO |-> Reads("session"), loginLocal |-> Reads("session"),
     getDexConfig |-> Reads("dex"), getLoginType |-> Reads("loginType"),
     updateSystemInfo |-> Changes({"system"}), getLoginUserInfo |-> Reads("user"),
     isAdminConfigured |-> Reads("admin"), initAdmin |-> Changes({"admin"})]

clusterApi ==
    [getClusterList |-> Reads("cluster"), createCluster |-> Changes({"cluster"}),
     updateCluster |-> Changes({"cluster"}), deleteCluster |-> Changes({"cluster"}),
     getClusterDetails |-> Reads("cluster"),
     getCloudClustersList |-> Reads("cloudCluster"),
     connectcloudCluster |-> Changes({"cluster"}),
     createClusterNamespace |-> Changes({"namespace"})]

configApi ==
    [listTemplates |-> Reads("template"), detailTemplate |-> Reads("template"),
     createConfig |-> Changes({"config"}), updateConfig |-> Changes({"config"}),
     getConfigs |-> Reads("config"), detailConfig |-> Reads("config"),
     deleteConfig |-> Changes({"config"}), getProjectConfigs |-> Reads("config"),
     getProjectConfigDistributions |-> Reads("distribution"),
     applyProjectConfigDistribution |-> Changes({"distribution"}),
     deleteProjectConfigDistribution |-> Changes({"distribution"})]

customisationApi ==
    [getCustomisation |-> Reads("customisation"),
     updateCustomisation |-> Changes({"customisation"}),
     loadCustomisation |-> Reads("customisation")]

definitionsApi1 ==
    [getDefinitionsList |-> Reads("definition"),
     detailDefinition |-> Reads("definition"),
     updateDefinitionStatus |-> Changes({"definition"}),
     updateUISchema |-> Changes({"definition"}),
     getComponentDefinitions |-> Reads("definition"),
     detailComponentDefinition |-> Reads("definition"),
     getPolicyDefinitions |-> Reads("definition"),
     detailPolicyDefinition |-> Reads("definition"),
     getSourceDefinitions |-> Reads("definition"),
     detailSourceDefinition |-> Reads("definition"),
     getTraitDefinitions |-> Reads("definition"), getDefinitionUsage |-> Reads("usage"),
     getDefinitionCUE |-> Reads("definition"), getDefinitionDoc |-> Reads("definition"),
     detailTraitDefinition |-> Reads("definition")]

definitionsApi2 == [listDefinitionRevisions |-> Reads("definition")]

defkitApi ==
    [listDefKitModules |-> Reads("defkit"),
     listDefKitRepositories |-> Reads("repository"),
     detailDefKitModule |-> Reads("defkit"), createDefKitModule |-> Changes({"defkit"}),
     updateDefKitModule |-> Changes({"defkit", "preview"}),
     deleteDefKitModule |-> Changes({"defkit"}),
     previewDefKitModule |-> Reads("preview"),
     applyDefKitPreview |-> Changes({"defkit", "preview"})]

envApi ==
    [getEnvs |-> Reads("env"), createEnv |-> Changes({"env"}),
     deleteEnv |-> Changes({"env"}), updateEnv |-> Changes({"env"})]

observationApi1 ==
    [listApplicationPods |-> Reads("resource"),
     listApplicationPodsDetails |-> Reads("resource"),
     listNamespaces |-> Reads("namespace"), listCloudResources |-> Reads("resource"),
     listCloudResourceSecrets |-> Reads("resource"),
     listApplicationService |-> Reads("resource"), listContainerLog |-> Reads("log"),
     listApplicationServiceEndpoints |-> Reads("resource"),
     listApplicationServiceAppliedResources |-> Reads("resource"),
     listApplicationResourceTree |-> Reads("resource"),
     listEnvResourceTree |-> Reads("resource")]

observationApi2 == [detailResource |-> Reads("resource")]

packageApi ==
    [listPackages |-> Reads("package"), detailPackage |-> Reads("package"),
     detailBuiltinPackage |-> Reads("package")]

payloadApi == [getPayloadType |-> Reads("payload")]

pipelineApi1 ==
    [listPipelines |-> Reads("pipeline"), createPipeline |-> Changes({"pipeline"}),
     updatePipeline |-> Changes({"pipeline"}), loadPipeline |-> Reads("pipeline"),
     deletePipeline |-> Changes({"pipeline"}), loadPipelineRuns |-> Reads("run"),
     deletePipelineRun |-> Changes({"run"}), stopPipelineRun |-> Changes({"run"}),
     loadPipelineRunBase |-> Reads("runBase"), loadPipelineRunStatus |-> Reads("run"),
     loadPipelineRunStepLogs |-> Reads("log"),
     listPipelineContexts |-> Reads("context"),
     deletePipelineContext |-> Changes({"context"}),
     updatePipelineContext |-> Changes({"context"}),
     loadPipelineRunStepOutputs |-> Reads("step"),
     loadPipelineRunStepInputs |-> Reads("step")]

pipelineApi2 ==
    [createPipelineContext |-> Changes({"context"}), runPipeline |-> Changes({"run"}),
     terminatePipelineRun |-> Changes({"run"}), resumePipelineRun |-> Changes({"run"})]

pluginApi ==
    [getPluginList |-> Reads("plugin"), detailPlugin |-> Reads("plugin"),
     enablePlugin |-> Changes({"plugin"}), disablePlugin |-> Changes({"plugin"}),
     setPlugin |-> Changes({"plugin"}), installPlugin |-> Changes({"plugin"}),
     uninstallPlugin |-> Changes({"plugin"})]

projectApi ==
    [getProjectList |-> Reads("project"), createProject |-> Changes({"project"}),
     updateProject |-> Changes({"project"}), deleteProject |-> Changes({"project"}),
     getProjectDetail |-> Reads("project"), getProjectTargetList |-> Reads("target"),
     getProjectPermissions |-> Reads("permission"), getProjectRoles |-> Reads("role"),
     createProjectRoles |-> Changes({"role"}), updateProjectRoles |-> Changes({"role"}),
     deleteProjectRoles |-> Changes({"role"}), getProjectUsers |-> Reads("member"),
     createProjectUsers |-> Changes({"member"}),
     updateProjectUser |-> Changes({"member"}),
     deleteProjectUser |-> Changes({"member"}),
     getCloudServiceProviderList |-> Reads("provider")]

rbacApi == [getPlatformPermissions |-> Reads("permission")]

reportApi == [listReports |-> Reads("report"), runReport |-> Reads("report")]

repositoryApi ==
    [getChartValues |-> Reads("chart"), getChartValueFiles |-> Reads("chart"),
     getCharts |-> Reads("chart"), getChartVersions |-> Reads("chart"),
     getChartRepos |-> Reads("chart"), getImageRepos |-> Reads("image"),
     getImageInfo |-> Reads("image")]

rolesApi ==
    [getRoleList |-> Reads("role"), createRole |-> Changes({"role"}),
     updateRole |-> Changes({"role"}), deleteRole |-> Changes({"role"})]

sharedWorkflowsApi ==
    [listSharedWorkflows |-> Reads("sharedWorkflow"),
     detailSharedWorkflow |-> Reads("sharedWorkflow"),
     createSharedWorkflow |-> Changes({"sharedWorkflow"}),
     updateSharedWorkflow |-> Changes({"sharedWorkflow"}),
     deleteSharedWorkflow |-> Changes({"sharedWorkflow"})]

systemConfigApi ==
    [loadSystemInfo |-> Reads("system"), updateSystemInfo |-> Changes({"system"})]

targetApi ==
    [getTarget |-> Reads("target"), createTarget |-> Changes({"target"}),
     deleteTarget |-> Changes({"target"}), updateTarget |-> Changes({"target"})]

usersApi ==
    [getUserList |-> Reads("user"), createUser |-> Changes({"user"}),
     updateUser |-> Changes({"user"}), deleteUser |-> Changes({"user"}),
     changeUserDisable |-> Changes({"user"}), changeUserEnable |-> Changes({"user"}),
     prepareCloudShell |-> Changes({"cloudShell"})]

workflowsApi ==
    [listWorkflow |-> Reads("workflow"), updateWorkflow |-> Changes({"workflow"}),
     listSharedWorkflows |-> Reads("sharedWorkflow"),
     createWorkflow |-> Changes({"workflow"}), getEnvWorkflowRecord |-> Reads("record"),
     detailWorkflow |-> Reads("workflow"), detailWorkflowRecord |-> Reads("record"),
     getWorkflowRecordLogs |-> Reads("log"),
     getWorkflowRecordInputs |-> Reads("step"),
     getWorkflowRecordOutputs |-> Reads("step"),
     deleteWorkflow |-> Changes({"workflow"}),
     getWorkflowDefinitions |-> Reads("definition"),
     detailWorkflowDefinition |-> Reads("definition")]

=============================================================================
