------------------------------ MODULE LivePages ------------------------------
(***************************************************************************)
(* The pages that watch the cluster: the status, instances and logs of an  *)
(* application, the records of its workflows, the runs of pipelines, addons, *)
(* plugins and modules, and the cloud shell.  They read again on timers.   *)
(***************************************************************************)
EXTENDS ApplicationConfigPage

-----------------------------------------------------------------------------
(* The header of the status, instances and workflows of an environment *)

\* The callback is called without an answer too.
store_getApplicationStatus(on, flags, callback, failed) ==
    Search(on, applicationApi1.getApplicationStatus, flags, Show \cup callback, failed)

Header_loadApplicationEndpoints ==
    Search("page", observationApi1.listApplicationServiceEndpoints, {"endpointsLoading"},
       Show \cup Clear("endpointsLoading"), Clear("endpointsLoading"))

Header_compareCurrentWithCluster ==
    Call("page", applicationApi2.compareApplication, {}, Show, Show)

Header_handleTargetChange(reads) == Act("page", Reload({"endpoints"} \cup reads))

Header_recycleEnv ==
    Call("page", applicationApi1.recycleApplicationEnvbinding, {}, Run({"status", "endpoints"}), {})

Header_setPaused ==
    Call("page", applicationApi1.pauseApplicationEnvbinding, {"pauseLoading"},
     Clear("pauseLoading") \cup Run({"status", "getAllStatus"}), Clear("pauseLoading"))

Header_updateEnvbindingList == Run({"getWorkflows", "getPolicies", "getEnvbinding"})

Header_deleteEnv ==
    Call("page", applicationApi1.deleteApplicationEnvbinding, {}, Header_updateEnvbindingList \cup Leave, {})

Header_refresh == Act("page", Run({"status", "compare"}))

Header_showApplicationDiff == Act("page", Open("ApplicationDiff"))

Header_offers ==
    Offer("page", {"changeTarget", "refresh", "showDiff", "deleteEnv", "recycleEnv"}, {})
    \cup Offer("page", {"setPaused"}, {"pauseLoading"})
    \cup Offer("ApplicationDiff", {"closeDiff"}, {})

\* What the header adds to the handlers of a page.
Header_handlers(reads) ==
    [endpoints |-> Header_loadApplicationEndpoints, compare |-> Header_compareCurrentWithCluster,
     changeTarget |-> Header_handleTargetChange(reads), recycleEnv |-> Header_recycleEnv,
     setPaused |-> Header_setPaused, deleteEnv |-> Header_deleteEnv, refresh |-> Header_refresh,
     showDiff |-> Header_showApplicationDiff,
     closeDiff |-> Act("ApplicationDiff", Close({"ApplicationDiff"})),
     getWorkflows |-> store_getApplicationWorkflows, getPolicies |-> store_getApplicationPolicies,
     getEnvbinding |-> store_getApplicationEnvbinding,
     getAllStatus |-> store_getApplicationAllStatus({}, {})]

\* The header alone.  When the environment changes it reads the endpoints with the
\* properties it is about to lose.
EnvironmentHeader ==
    Page(Header_handlers({})
         @@ [status |-> store_getApplicationStatus("page", {}, {}, {}),
             changeEnv |-> Act("page", Requery({"endpoints"}) \cup Run({"compare"}))],
     [page |-> {"endpoints", "compare"}, ApplicationDiff |-> {}],
     Offer("page", {"changeEnv"}, {}) \cup Header_offers, {})

-----------------------------------------------------------------------------
(* The status of an application in an environment *)

\* The resources are read if something is applied; without an answer the callback throws.
ApplicationStatus_loadApplicationStatus(applied) ==
    store_getApplicationStatus("page", {}, Run(applied), {})

\* Not while the tab of the browser is hidden.
ApplicationStatus_refreshSilently(applied) ==
    Unless("hidden", Call("page", applicationApi1.getApplicationStatus, {}, Fill({"status"}) \cup RunSilently(applied), {}))

\* Another environment, or one with another number of bindings.
ApplicationStatus_changeEnv ==
    Act("page", Requery({"resources"}) \cup Reload({"status"}))

ApplicationStatus_loadApplicationAppliedResources ==
    Search("page", observationApi1.listApplicationServiceAppliedResources, {"resourceLoading"},
       Show \cup Clear("resourceLoading"), Show \cup Clear("resourceLoading"))

ApplicationStatus_loadResourceTree ==
    Unless("resourceLoading",
    Search("page", observationApi1.listEnvResourceTree, {"resourceLoading"},
           Show \cup Clear("resourceLoading"), Show \cup Clear("resourceLoading")))

\* The target and the component are parameters of the resources too.
ApplicationStatus_updateQuery == {"resources"}

\* When it is refused because a workflow runs, it is offered again with force; any
\* other failure is only reported.
ApplicationStatus_onDeploy(failed) ==
    Call("page", applicationApi1.deployApplication, {"deployLoading"},
     Clear("deployLoading") \cup Run({"status"}) \cup Leave, failed)

\* The views of the status: the overview and the resource graph read resources.
ApplicationStatus_onChangeMode == Act("page", Run({"resources"}))

ApplicationStatus_render ==
    Offer("page", {"deploy", "deployOverRun"}, {"deployLoading"}) \cup Offer("page", {"changeMode"}, {})
    \cup Offer("ForceRestart", {"force", "cancelForce"}, {})

ApplicationStatus_tabs ==
    Offer("page", {"showResource"}, {}) \cup Offer("ShowResource", {"closeResource"}, {})

Reconciliation_done == Close({"IntervalDialog", "RestartDialog"}) \cup Run({"status"})

Reconciliation_IntervalDialog ==
    Offer("IntervalDialog", {"setInterval", "closeInterval"}, {})

Reconciliation_RestartDialog == Offer("RestartDialog", {"restart", "closeRestart"}, {})

Reconciliation ==
    [editInterval |-> Act("page", Open("IntervalDialog")),
     closeInterval |-> Act("IntervalDialog", Close({"IntervalDialog"})),
     setInterval |-> Call("IntervalDialog", applicationApi1.setReconcileInterval, {}, Reconciliation_done, {}),
     askRestart |-> Act("page", Open("RestartDialog")),
     closeRestart |-> Act("RestartDialog", Close({"RestartDialog"})),
     restart |-> Call("RestartDialog", applicationApi1.restartApplicationWorkflow, {}, Reconciliation_done, {}),
     cancelRestart |-> Call("page", applicationApi1.cancelWorkflowRestart, {}, Reconciliation_done, {})]

\* The time is shown anew every ten seconds.
SourceStatusList == Interval("page", {})

ApplicationStatus_handlers(reads, applied) ==
    [status |-> ApplicationStatus_loadApplicationStatus(applied), resources |-> reads,
     refreshStatus |-> ApplicationStatus_refreshSilently(applied), changeEnv |-> ApplicationStatus_changeEnv,
     hideTab |-> Act("page", Spin("hidden")), showTab |-> Act("page", Clear("hidden")),
     refreshTimer |-> Interval("page", {"refreshStatus"}), changeMode |-> ApplicationStatus_onChangeMode,
     deploy |-> ApplicationStatus_onDeploy({}),
     deployOverRun |-> ApplicationStatus_onDeploy(Open("ForceRestart")),
     force |-> Act("page", Close({"ForceRestart"}) \cup Run({"deployOverRun"})),
     cancelForce |-> Act("page", Close({"ForceRestart"}) \cup Clear("deployLoading"))]

\* How long ago the status was read is shown anew every five seconds.
RefreshedAt == Interval("page", {})

\* What the header reads when it appears is in EnvironmentHeader.
ApplicationStatus_of(applied) ==
    Page(ApplicationStatus_handlers(ApplicationStatus_loadApplicationAppliedResources, applied)
         @@ Header_handlers(ApplicationStatus_updateQuery) @@ Reconciliation
         @@ [clock |-> SourceStatusList],
     [page |-> {"status", "refreshTimer", "clock"},
      ForceRestart |-> {}, ApplicationDiff |-> {}, IntervalDialog |-> {}, RestartDialog |-> {}],
     Offer("page", {"deploy", "deployOverRun"}, {"deployLoading"})
         \cup Offer("ForceRestart", {"force", "cancelForce"}, {}) \cup Header_offers
         \cup Offer("page", {"editInterval", "askRestart", "cancelRestart", "changeEnv", "showTab"}, {})
         \cup Offer("page", {"hideTab"}, {"hidden"})
         \cup Reconciliation_IntervalDialog \cup Reconciliation_RestartDialog,
     {"refreshTimer", "clock"})

\* In an environment with something deployed, and in one with nothing.
ApplicationStatus == ApplicationStatus_of({"resources"})

ApplicationStatusUndeployed == ApplicationStatus_of({})

ApplicationGraph_loadFlows ==
    Call("page", applicationApi1.getApplicationDataFlows, {}, Show, {})

ApplicationGraph_onResourceDetailClick == Act("page", Open("ShowResource"))

ApplicationGraph_render ==
    Offer("page", {"showResource"}, {}) \cup Offer("ShowResource", {"closeResource"}, {})

ShowResource_loadResource ==
    Call("ShowResource", observationApi2.detailResource, {}, Show, Show)

ShowResource_render == Act("ShowResource", Close({"ShowResource"}))

\* The same page with the graph of resources.
ApplicationGraph ==
    Page(ApplicationStatus_handlers(ApplicationStatus_loadResourceTree, {"resources"})
         @@ Header_handlers(ApplicationStatus_updateQuery)
         @@ [flows |-> ApplicationGraph_loadFlows,
             showResource |-> ApplicationGraph_onResourceDetailClick,
             loadResource |-> ShowResource_loadResource, closeResource |-> ShowResource_render,
             clock |-> RefreshedAt],
     [page |-> {"status", "flows", "refreshTimer", "clock"}, ShowResource |-> {"loadResource"},
      ForceRestart |-> {}, ApplicationDiff |-> {}],
     Offer("page", {"changeTarget", "changeMode", "refresh", "setPaused", "changeEnv", "showTab"}, {})
         \cup Offer("page", {"hideTab"}, {"hidden"})
         \cup ApplicationGraph_render \cup ApplicationStatus_tabs,
     {"refreshTimer", "clock"})

-----------------------------------------------------------------------------
(* The instances of an application in an environment *)

ApplicationInstanceList_loadApplicationStatus ==
    store_getApplicationStatus("page", {}, Run({"loadAppInstances"}), Run({"loadAppInstances"}))

ApplicationInstanceList_listPods ==
    Search("page", observationApi1.listApplicationPods, {"loading"}, Show \cup Clear("loading"),
       Show \cup Clear("loading"))

ApplicationInstanceList_convertCloudInstance == Show

ApplicationInstanceList_listCloudResources ==
    Search("page", observationApi1.listCloudResources, {"loading"}, ApplicationInstanceList_convertCloudInstance
       \cup Clear("loading"), Clear("loading"))

\* Without the bindings in the store it is tried again every second.
ApplicationInstanceList_waitForStore == Interval("page", {})

ApplicationInstanceList_getColumns == Offer("page", {"openRow"}, {})

ApplicationInstanceList_updateQuery == {"listPods", "listCloudResources"}

ApplicationInstanceList_onRowOpen == Act("page", Open("PodDetail"))

ApplicationInstanceList_onDeploy(failed) == ApplicationStatus_onDeploy(failed)

ApplicationInstanceList_loadStatusDetail ==
    store_getApplicationStatus("page", {"loading"}, Clear("loading"), Clear("loading"))

ApplicationInstanceList_changeEnv ==
    Act("page", Requery(ApplicationInstanceList_updateQuery) \cup Reload({"status"}))

ApplicationInstanceList_render ==
    Offer("page", {"changeTarget", "changeEnv", "status"}, {}) \cup Offer("page", {"deploy", "deployOverRun"}, {"deployLoading"})
    \cup Offer("ForceRestart", {"force", "cancelForce"}, {})

PodDetail_loadPodDetail ==
    Call("PodDetail", observationApi1.listApplicationPodsDetails, {"loading"}, Show \cup Clear("loading"),
     Clear("loading"))

PodDetail_showContainerLog == Act("PodDetail", Open("ContainerLog"))

\* Without the addon the dialog leads to it; otherwise the shell is opened.
PodDetail_onOpenCloudShell == Act("PodDetail", Leave)

PodDetail_getContainerColumns == Offer("PodDetail", {"showLog", "openCloudShell"}, {})

PodDetail_render == Offer("ContainerLog", {"closeLog"}, {})

\* It refreshes itself, also when the dialog was closed while it was read.
ContainerLog_loadContainerLog ==
    Search("ContainerLog", observationApi1.listContainerLog, {}, Show \cup Tick("log"), Tick("log"))

ContainerLog_stops == {"log"}

\* The previous container's log is asked for with the next refresh.
ContainerLog_render == Act("ContainerLog", Requery({"log"}))

ApplicationInstances ==
    Page([status |-> ApplicationInstanceList_loadApplicationStatus,
      loadAppInstances |-> Act("page", Run(ApplicationInstanceList_updateQuery)),
      listPods |-> ApplicationInstanceList_listPods,
      listCloudResources |-> ApplicationInstanceList_listCloudResources,
      changeTarget |-> Act("page", Requery(ApplicationInstanceList_updateQuery)
                                       \cup Run({"loadAppInstances"})),
      changeEnv |-> ApplicationInstanceList_changeEnv,
      deploy |-> ApplicationInstanceList_onDeploy({}),
      deployOverRun |-> ApplicationInstanceList_onDeploy(Open("ForceRestart")),
      force |-> Act("page", Close({"ForceRestart"}) \cup Run({"deployOverRun"})),
      cancelForce |-> Act("page", Close({"ForceRestart"}) \cup Clear("deployLoading"))],
     [page |-> {"status"}, ForceRestart |-> {}],
     ApplicationInstanceList_render, {})

\* The same page when the bindings of the application never come.
ApplicationInstancesWithoutStore ==
    Page([status |-> ApplicationInstanceList_loadApplicationStatus,
      loadAppInstances |-> ApplicationInstanceList_waitForStore,
      statusDetail |-> ApplicationInstanceList_loadStatusDetail],
     [page |-> {"status"}], Offer("page", {"status", "statusDetail"}, {}), {})

\* A row that is opened, with the log of a container.
PodDetailPage ==
    Page([openRow |-> ApplicationInstanceList_onRowOpen, loadPodDetail |-> PodDetail_loadPodDetail,
      closeRow |-> Act("PodDetail", Close({"PodDetail", "ContainerLog"})),
      showLog |-> PodDetail_showContainerLog, openCloudShell |-> PodDetail_onOpenCloudShell,
      log |-> ContainerLog_loadContainerLog, previous |-> ContainerLog_render,
      closeLog |-> Act("ContainerLog", Close({"ContainerLog"}))],
     [page |-> {}, PodDetail |-> {"loadPodDetail"}, ContainerLog |-> {"log"}],
     ApplicationInstanceList_getColumns \cup Offer("PodDetail", {"closeRow"}, {})
         \cup PodDetail_getContainerColumns \cup PodDetail_render
         \cup Offer("ContainerLog", {"previous"}, {}), ContainerLog_stops)

-----------------------------------------------------------------------------
(* The log of an application *)

ApplicationLog_loadApplicationStatus ==
    store_getApplicationStatus("page", {}, Run({"pods"}), Run({"pods"}))

ApplicationLog_handlePodNameChange ==
    Reload({"podDetail"}) \cup Requery({"log"}) \cup Stop({"log"})

ApplicationLog_loadPodInstance ==
    Search("page", observationApi1.listApplicationPods, {}, Show \cup ApplicationLog_handlePodNameChange, Show)

\* The timer is cleared and the log is read, also while it is being read.
LogContainer_receiveProps == Stop({"log"}) \cup Spin("loading") \cup Reload({"log"})

ApplicationLog_loadPodDetail ==
    Search("page", observationApi1.listApplicationPodsDetails, {}, Show \cup LogContainer_receiveProps, {})

\* The container is forgotten, and with it the log.
ApplicationLog_handleComponentNameChange ==
    Act("page", Reload({"pods"}) \cup Stop({"log"}))

ApplicationLog_handleContainerNameChange == Act("page", LogContainer_receiveProps)

ApplicationLog_render ==
    Offer("page", {"changeComponent", "changePod", "changeContainer"}, {})

LogContainer_loadContainerLog ==
    Search("page", observationApi1.listContainerLog, {}, Show \cup Tick("log") \cup Clear("loading"),
       Tick("log") \cup Clear("loading"))

LogContainer_stops == {"log"}

ApplicationLog ==
    Page([status |-> ApplicationLog_loadApplicationStatus, pods |-> ApplicationLog_loadPodInstance,
      podDetail |-> ApplicationLog_loadPodDetail, log |-> LogContainer_loadContainerLog,
      changeComponent |-> ApplicationLog_handleComponentNameChange,
      changePod |-> Act("page", ApplicationLog_handlePodNameChange),
      changeContainer |-> ApplicationLog_handleContainerNameChange],
     [page |-> {"status"}], ApplicationLog_render, LogContainer_stops)

-----------------------------------------------------------------------------
(* The records of an environment's workflow *)

ApplicationWorkflowStatus_loadApplicationStatus ==
    store_getApplicationStatus("page", {}, {}, {})

ApplicationWorkflowStatus_loadWorkflow ==
    Call("page", workflowsApi.detailWorkflow, {}, Show, Show)

\* The record in the address is shown; without one the newest is put into the
\* address, and the records are read again.
ApplicationWorkflowStatus_loadWorkflowRecord ==
    Call("page", applicationApi2.getApplicationEnvRecords, {}, Show \cup Run({"workflow"}) \cup Open("WorkflowRecord"),
     {})

ApplicationWorkflowStatus_changeRecord ==
    Close({"WorkflowRecord"}) \cup Run({"records"})

ApplicationWorkflowStatus_render == Offer("page", {"changeRecord", "status"}, {})

\* Read again every three seconds until the record has finished; a failure ends it.
WorkflowRecord_loadWorkflowRecord ==
    Call("WorkflowRecord", workflowsApi.detailWorkflowRecord, {"statusLoading"},
     Show \cup PollOnce("record") \cup Clear("statusLoading"), Clear("statusLoading"))

\* The panel of a step opens at the tab that was open last.
WorkflowRecord_onStepClick ==
    Act("WorkflowRecord", Open("StepPanel") \cup Run({"stepLog"}))

WorkflowRecord_onTabChange ==
    Offer("StepPanel", {"stepOutput", "stepLog", "stepInput"}, {})

WorkflowRecord_onGetStepOutput ==
    Call("StepPanel", workflowsApi.getWorkflowRecordOutputs, {"outputLoading"}, Show \cup Clear("outputLoading"),
     Show \cup Clear("outputLoading"))

WorkflowRecord_onGetStepLog ==
    Call("StepPanel", workflowsApi.getWorkflowRecordLogs, {"logLoading"}, Show \cup Clear("logLoading"),
     Clear("logLoading"))

WorkflowRecord_onGetStepInput ==
    Call("StepPanel", workflowsApi.getWorkflowRecordInputs, {"inputLoading"}, Show \cup Clear("inputLoading"),
     Show \cup Clear("inputLoading"))

WorkflowRecord_onApproveStep ==
    Call("WorkflowRecord", applicationApi2.resumeApplicationWorkflowRecord, {"approvingStep"},
     Clear("approvingStep") \cup Run({"record"}), Clear("approvingStep"))

WorkflowRecord_renderStepActions ==
    Offer("WorkflowRecord", {"rollback"}, {"rollbackLoading"})
    \cup Offer("WorkflowRecord", {"terminate"}, {"terminateLoading"})
    \cup Offer("WorkflowRecord", {"approve"}, {"approvingStep"})

\* The record of the rollback is put into the address.
WorkflowRecord_onRollback ==
    Call("WorkflowRecord", applicationApi2.rollbackApplicationWorkflowRecord, {"rollbackLoading"},
     ApplicationWorkflowStatus_changeRecord \cup Clear("rollbackLoading"), Clear("rollbackLoading"))

WorkflowRecord_onTerminate ==
    Call("WorkflowRecord", applicationApi2.terminateApplicationWorkflowRecord, {"terminateLoading"},
     Run({"record"}) \cup Clear("terminateLoading"), Clear("terminateLoading"))

WorkflowRecord_header ==
    Offer("WorkflowRecord", {"record"}, {"statusLoading"})
    \cup Offer("WorkflowRecord", {"terminate"}, {"terminateLoading"})
    \cup Offer("WorkflowRecord", {"clickStep"}, {})

WorkflowRecord_panel ==
    Offer("StepPanel", {"closePanel"}, {}) \cup WorkflowRecord_onTabChange

ApplicationWorkflowStatus ==
    Page([status |-> ApplicationWorkflowStatus_loadApplicationStatus,
      records |-> ApplicationWorkflowStatus_loadWorkflowRecord,
      workflow |-> ApplicationWorkflowStatus_loadWorkflow,
      changeRecord |-> Act("page", ApplicationWorkflowStatus_changeRecord),
      record |-> WorkflowRecord_loadWorkflowRecord, clickStep |-> WorkflowRecord_onStepClick,
      closePanel |-> Act("StepPanel", Close({"StepPanel"})),
      stepOutput |-> WorkflowRecord_onGetStepOutput, stepLog |-> WorkflowRecord_onGetStepLog,
      stepInput |-> WorkflowRecord_onGetStepInput, approve |-> WorkflowRecord_onApproveStep,
      rollback |-> WorkflowRecord_onRollback, terminate |-> WorkflowRecord_onTerminate],
     [page |-> {"status", "records"}, WorkflowRecord |-> {"record"}, StepPanel |-> {}],
     ApplicationWorkflowStatus_render \cup WorkflowRecord_renderStepActions
         \cup WorkflowRecord_header \cup WorkflowRecord_panel, {})

-----------------------------------------------------------------------------
(* A run of a pipeline *)

PipelineRun_onGetPipeline == Call("page", pipelineApi1.loadPipeline, {}, Show, Show)

PipelineRun_onGetRunBase ==
    Search("page", pipelineApi1.loadPipelineRunBase, {}, Show, Show)

PipelineRun_onGetStepLogs ==
    Call("StepPanel", pipelineApi1.loadPipelineRunStepLogs, {"logLoading"}, Show \cup Clear("logLoading"),
     Show \cup Clear("logLoading"))

\* Read again every five seconds until the run has ended; a failure ends it.
PipelineRun_onGetRunStatus ==
    Search("page", pipelineApi1.loadPipelineRunStatus, {"loading"},
       Show \cup PollOnce("runStatus") \cup Clear("loading"), Clear("loading"))

PipelineRun_onGetStepOutput ==
    Call("StepPanel", pipelineApi1.loadPipelineRunStepOutputs, {"outputLoading"},
     Show \cup Clear("outputLoading"), Show \cup Clear("outputLoading"))

PipelineRun_onGetStepInput ==
    Call("StepPanel", pipelineApi1.loadPipelineRunStepInputs, {"inputLoading"},
     Show \cup Clear("inputLoading"), Show \cup Clear("inputLoading"))

PipelineRun_onStepClick == Act("page", Open("StepPanel") \cup Run({"stepLog"}))

PipelineRun_onTabChange ==
    Offer("StepPanel", {"stepOutput", "stepLog", "stepInput"}, {})

\* The run in the address changes: all is read again.
PipelineRun_changeRun == Run({"pipeline"}) \cup Reload({"runBase", "runStatus"})

PipelineRun_render ==
    Offer("page", {"clickStep"}, {}) \cup Offer("StepPanel", {"closePanel"}, {})
    \cup PipelineRun_onTabChange

PipelineRun_onRerun ==
    Call("page", pipelineApi2.runPipeline, {"reRunLoading"}, PipelineRun_changeRun \cup Clear("reRunLoading"),
     Clear("reRunLoading"))

\* The status is left to the next reading.
PipelineRun_onStop ==
    Call("page", pipelineApi1.stopPipelineRun, {"stopLoading"}, Clear("stopLoading"), Clear("stopLoading"))

PipelineRun_onTerminate ==
    Call("page", pipelineApi2.terminatePipelineRun, {"terminateLoading"},
     Clear("terminateLoading") \cup Run({"runStatus"}), Clear("terminateLoading"))

PipelineRun_onResume ==
    Call("page", pipelineApi2.resumePipelineRun, {"resumeLoading"},
     Clear("resumeLoading") \cup Run({"runStatus"}), Clear("resumeLoading"))

PipelineRun_header ==
    Offer("page", {"rerun"}, {"reRunLoading"}) \cup Offer("page", {"stop"}, {"stopLoading"})
    \cup Offer("page", {"runStatus"}, {"loading"})
    \cup Offer("page", {"terminate"}, {"terminateLoading"})
    \cup Offer("page", {"resume"}, {"resumeLoading"})

PipelineRun ==
    Page([pipeline |-> PipelineRun_onGetPipeline, runBase |-> PipelineRun_onGetRunBase,
      runStatus |-> PipelineRun_onGetRunStatus, clickStep |-> PipelineRun_onStepClick,
      closePanel |-> Act("StepPanel", Close({"StepPanel"})),
      stepLog |-> PipelineRun_onGetStepLogs, stepOutput |-> PipelineRun_onGetStepOutput,
      stepInput |-> PipelineRun_onGetStepInput, rerun |-> PipelineRun_onRerun,
      stop |-> PipelineRun_onStop, terminate |-> PipelineRun_onTerminate,
      resume |-> PipelineRun_onResume],
     [page |-> {"pipeline", "runBase", "runStatus"}, StepPanel |-> {}],
     PipelineRun_render \cup PipelineRun_header, {})

-----------------------------------------------------------------------------
(* Addons *)

store_getAddonsList(callback) ==
    Search("page", addonsApi.getAddonsList, {}, Show \cup callback, {})

store_getEnabledAddons == Call("page", addonsApi.getEnabledAddons, {}, Show, {})

store_getAddonRegistriesList ==
    Call("page", addonsApi.getAddonRegistriesList, {}, Show, Show)

\* With an addon in the address its detail is opened; the tags are counted again.
Addons_getAddonsList(named) == store_getAddonsList(named)

Addons_getEnabledAddon == store_getEnabledAddons

Addons_getAddonRegistriesList == store_getAddonRegistriesList

Addons_openAddonDetail == Act("page", Open("AddonDetail"))

Addons_closeAddonDetail == Act("AddonDetail", Close({"AddonDetail"}))

Addons_onShowAddon ==
    Act("AddonDetail", Close({"AddonDetail"}) \cup Run({"openDetail"}))

\* Closing the registries reads the list without the parameters of the search.
Addons_render ==
    Offer("page", {"openDetail", "manageRegistries", "search"}, {})
    \cup Offer("AddonDetail", {"closeDetail", "showAddon"}, {}) \cup Offer("RegistryManage", {"closeRegistries"}, {})

Addons_handleClickSearch == Act("page", Reload({"getAddonsList"}))

Addons_searchFields == Offer("page", {"search"}, {})

AddonDetail_loadAddonDetail ==
    Search("AddonDetail", addonsApi.getAddonsDetails, {"loading"}, Show \cup Clear("loading"), Clear("loading"))

\* Read again every four seconds while the addon is being enabled or disabled, also
\* when the drawer was closed while it was read.  A failed call leaves the spinner on.
AddonDetail_loadAddonStatus ==
    Call("AddonDetail", addonsApi.getAddonsStatus, {"statusLoading"},
     Show \cup Poll("addonStatus") \cup Clear("statusLoading"), {})

AddonDetail_loadAddonEndpoints ==
    Call("AddonDetail", observationApi1.listApplicationServiceEndpoints, {}, Show, Show)

\* The status is read again whether or not the call succeeded.
AddonDetail_onUpgrade ==
    Call("AddonDetail", addonsApi.upgradeAddon, {"upgradeLoading"}, Run({"addonStatus"}) \cup Clear("upgradeLoading"),
     Run({"addonStatus"}) \cup Clear("upgradeLoading"))

AddonDetail_enableAddon ==
    Call("AddonDetail", addonsApi.enableAddon, {"statusLoading", "enableLoading"},
     Run({"addonStatus"}) \cup Clear("enableLoading"), Run({"addonStatus"}) \cup Clear("enableLoading"))

AddonDetail_disableAddon ==
    Call("AddonDetail", addonsApi.disableAddon, {"statusLoading"}, Run({"addonStatus"}), Run({"addonStatus"}))

AddonDetail_changeVersion == Act("AddonDetail", Reload({"addonDetail"}))

AddonDetail_onEnable ==
    Offer("AddonDetail", {"enable"}, {"enableLoading"}) \cup Offer("AddonDetail", {"disable"}, {})

AddonDetail_buttons ==
    AddonDetail_onEnable \cup Offer("AddonDetail", {"upgrade"}, {"upgradeLoading"})

AddonDetail_body == Offer("AddonDetail", {"changeVersion"}, {})

AddonDetail_stops == {"addonStatus"}

\* A failed call is taken for a success too.
RegistryManage_onOk ==
    Call("RegistryManage", addonsApi.createAddonRegistry, {}, Run({"getRegistries"}), Run({"getRegistries"}))

RegistryManage_onDeleteRegistry ==
    Call("RegistryManage", addonsApi.deleteAddonRegistry, {}, Run({"getRegistries"}), {})

RegistryManage_addExperimental ==
    Call("RegistryManage", addonsApi.createAddonRegistry, {}, Run({"getRegistries"}), {})

RegistryManage_columns ==
    Offer("RegistryManage", {"deleteRegistry", "addExperimental"}, {})

RegistryManage_form == Offer("RegistryManage", {"addRegistry"}, {})

AddonApplications ==
    Call("page", applicationApi1.getApplicationList, {"loading"}, Show \cup Clear("loading"), Show \cup Clear("loading"))

Addons_cards == Offer("page", {"openDetail"}, {})

Addons_at(named) ==
    Page([getAddonsList |-> Addons_getAddonsList(named), getEnabledAddon |-> Addons_getEnabledAddon,
      getRegistries |-> Addons_getAddonRegistriesList, search |-> Addons_handleClickSearch,
      openDetail |-> Addons_openAddonDetail, closeDetail |-> Addons_closeAddonDetail,
      showAddon |-> Addons_onShowAddon, addonApplications |-> AddonApplications,
      manageRegistries |-> Act("page", Open("RegistryManage")),
      closeRegistries |-> Act("RegistryManage", Close({"RegistryManage"}) \cup RunPlain({"getAddonsList"})),
      addRegistry |-> RegistryManage_onOk, deleteRegistry |-> RegistryManage_onDeleteRegistry,
      addExperimental |-> RegistryManage_addExperimental,
      addonDetail |-> AddonDetail_loadAddonDetail, addonStatus |-> AddonDetail_loadAddonStatus,
      endpoints |-> AddonDetail_loadAddonEndpoints, upgrade |-> AddonDetail_onUpgrade,
      enable |-> AddonDetail_enableAddon, disable |-> AddonDetail_disableAddon,
      changeVersion |-> AddonDetail_changeVersion],
     [page |-> {"getAddonsList", "getRegistries", "getEnabledAddon"}, RegistryManage |-> {},
      AddonDetail |-> {"addonDetail", "addonStatus", "endpoints"}],
     Addons_render \cup Addons_searchFields \cup Addons_cards \cup AddonDetail_buttons
         \cup AddonDetail_body \cup RegistryManage_columns \cup RegistryManage_form
         \cup Offer("page", {"addonApplications"}, {}), AddonDetail_stops)

Addons == Addons_at({})

\* The same page with the name of an addon in its address.
AddonsOfAddress == Addons_at(Open("AddonDetail"))

-----------------------------------------------------------------------------
(* Plugins *)

\* What is read is merged into the list.
store_getPluginList == Call("page", pluginApi.getPluginList, {}, Show, {})

store_installPlugin ==
    Call("page", pluginApi.installPlugin, {}, Fill({"getPluginList"}), {})

\* Removed from the list whether or not the call succeeded.
store_uninstallPlugin ==
    Call("page", pluginApi.uninstallPlugin, {}, Fill({"meta"}) \cup Leave, Fill({"meta"}) \cup Leave)

store_detailPlugin == Call("page", pluginApi.detailPlugin, {}, Show, {})

\* Without an answer the effect throws.
store_enablePlugin == Call("page", pluginApi.enablePlugin, {}, Fill({"meta"}), {})

\* The callback is called after a failure too.
store_setPlugin == Call("page", pluginApi.setPlugin, {}, Fill({"meta"}), {})

\* The callback is called after a failure too.
store_disablePlugin ==
    Call("page", pluginApi.disablePlugin, {}, Fill({"meta"}), Fill({"meta"}))

Plugins_card == Offer("page", {"install", "goToConfig"}, {})

Plugins_offers == Offer("page", {"install"}, {}) \cup Plugins_card

Plugins ==
    Page([getPluginList |-> store_getPluginList, install |-> store_installPlugin,
      goToConfig |-> Act("page", Leave)],
     [page |-> {"getPluginList"}], Plugins_offers, {})

PluginConfig_meta == store_detailPlugin

PluginConfig_saveSetting == store_setPlugin

PluginConfig_saveAndEnable == store_enablePlugin

PluginConfig_disablePlugin == store_disablePlugin

PluginConfig_uninstallPlugin == store_uninstallPlugin

PluginConfig_buttons == Offer("page", {"uninstall", "save", "enable", "disable"}, {})

\* The page keeps a copy of the plugin that its own callbacks change.
PluginConfig ==
    Page([meta |-> PluginConfig_meta, save |-> PluginConfig_saveSetting,
      enable |-> PluginConfig_saveAndEnable, disable |-> PluginConfig_disablePlugin,
      uninstall |-> PluginConfig_uninstallPlugin],
     [page |-> {"meta"}], PluginConfig_buttons, {})

-----------------------------------------------------------------------------
(* The cloud shell *)

\* Asked again every two seconds while it is being prepared; the timer is never
\* cleared, and a failed call throws.
CloudShell_prepare ==
    Handler("page", "fetch", {"cloudShell"}, {}, Show \cup Poll("prepare"), {})

CloudShell_onClose == Act("page", Leave)

CloudShell_render == Offer("page", {"close"}, {})

CloudShell ==
    Page([prepare |-> CloudShell_prepare, close |-> CloudShell_onClose],
     [page |-> {"prepare"}], CloudShell_render, {})

-----------------------------------------------------------------------------
(* Modules of definitions *)

\* Read again every five seconds while a module is busy; a failure empties the list
\* and ends it.
DefKitModules_load ==
    Call("page", defkitApi.listDefKitModules, {"loading"}, Show \cup Clear("loading") \cup PollOnce("load"),
     Show \cup Clear("loading"))

DefKitModules_stops == {"load"}

ModuleDialog_repositories ==
    Call("ModuleDialog", defkitApi.listDefKitRepositories, {}, Show, Show)

ModuleDialog_submit(done) ==
    Call("ModuleDialog", defkitApi.updateDefKitModule, {"saving"}, done \cup Clear("saving"), Clear("saving"))

ModuleDialog_render ==
    Offer("ModuleDialog", {"submit"}, {"saving"}) \cup Offer("ModuleDialog", {"closeDialog"}, {})

DefKitModules ==
    Page([load |-> DefKitModules_load, add |-> Act("page", Open("ModuleDialog")),
      repositories |-> ModuleDialog_repositories, submit |-> ModuleDialog_submit(Leave),
      closeDialog |-> Act("ModuleDialog", Close({"ModuleDialog"}))],
     [page |-> {"load"}, ModuleDialog |-> {"repositories"}],
     Offer("page", {"add"}, {}) \cup ModuleDialog_render, DefKitModules_stops)

\* Both are read again every five seconds while one of them is busy.
DefKitModule_load == Act("page", Run({"detail", "preview"}))

DefKitModule_detail ==
    Call("page", defkitApi.detailDefKitModule, {}, Show \cup PollOnce("load"), PollOnce("load"))

DefKitModule_preview ==
    Call("page", defkitApi.previewDefKitModule, {}, Show \cup PollOnce("load"), PollOnce("load"))

DefKitModule_stops == {"load"}

DefKitModule_uninstall == Call("page", defkitApi.deleteDefKitModule, {}, Leave, {})

DefKitModule_setPolicy ==
    Call("page", defkitApi.updateDefKitModule, {}, Run({"load"}), {})

DefKitModule_Review ==
    Call("page", defkitApi.applyDefKitPreview, {"applying"}, Run({"load"}) \cup Clear("applying"),
     Clear("applying"))

DefKitModule_render ==
    Offer("page", {"uninstall", "update", "setPolicy"}, {}) \cup Offer("page", {"apply"}, {"applying"})

DefKitModule ==
    Page([load |-> DefKitModule_load, detail |-> DefKitModule_detail, preview |-> DefKitModule_preview,
      uninstall |-> DefKitModule_uninstall, setPolicy |-> DefKitModule_setPolicy,
      apply |-> DefKitModule_Review, update |-> Act("page", Open("ModuleDialog")),
      repositories |-> ModuleDialog_repositories,
      submit |-> ModuleDialog_submit(Close({"ModuleDialog"}) \cup Run({"load"})),
      closeDialog |-> Act("ModuleDialog", Close({"ModuleDialog"}))],
     [page |-> {"load"}, ModuleDialog |-> {"repositories"}],
     DefKitModule_render \cup ModuleDialog_render,
     DefKitModule_stops)

=============================================================================
