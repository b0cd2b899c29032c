-------------------------- MODULE ApplicationPages --------------------------
(***************************************************************************)
(* The pages of applications: their lists, and the layout, environments,   *)
(* workflows and revisions of one.  The pages of one application share the *)
(* store of model/application.js, which the layout fills.                  *)
(***************************************************************************)
EXTENDS AdminPages

-----------------------------------------------------------------------------
(* The store: an effect reads, puts the answer into the store and calls back *)

store_getApplicationList(flags, callback) ==
    Search("page", applicationApi1.getApplicationList, flags, Show \cup callback, Show \cup callback)

\* Without an application there is nothing to show but the spinner.
store_getApplicationDetail(callback) ==
    Call("page", applicationApi1.getApplicationDetails, {}, Show \cup Clear("applicationDetail") \cup callback,
     Spin("applicationDetail"))

\* The reducer takes the bindings from the answer and throws without one.
store_getApplicationEnvbinding ==
    Call("page", applicationApi1.getApplicationEnvbinding, {}, Show, {})

\* Without an answer the reducer throws before the callback.
store_getApplicationAllStatus(flags, callback) ==
    Call("page", applicationApi1.getApplicationAllStatus, flags, Show \cup callback, {})

store_getApplicationComponents ==
    Call("page", applicationApi1.getApplicationComponents, {}, Show, Show)

store_getApplicationPolicies ==
    Call("page", applicationApi1.getPolicyList, {}, Show, {})

store_getApplicationWorkflows == Call("page", workflowsApi.listWorkflow, {}, Show, {})

store_listEnvs == Search("page", envApi.getEnvs, {}, Show, Show)

-----------------------------------------------------------------------------
(* The list of applications *)

ApplicationList_getApplications ==
    Unless("unresolved", store_getApplicationList({"isLoading"}, Clear("isLoading")))

ApplicationList_getEnvs == Unless("unresolved", store_listEnvs)

\* The list is read again without the filters, which stay set.
ApplicationList_onDeleteApp ==
    Call("page", applicationApi1.deleteApplication, {}, RunPlain({"getApplications"}), {})

ApplicationList_closeAddApplication ==
    Act("NewServiceDialog", Close({"NewServiceDialog"}) \cup RunPlain({"getApplications"}))

ApplicationList_closeEditAppDialog ==
    Close({"EditAppDialog"}) \cup RunPlain({"getApplications"})

ApplicationList_editAppPlan == Act("page", Open("EditAppDialog"))

ApplicationList_clickLabelFilter == Act("page", Reload({"getApplications"}))

ApplicationList_render ==
    Offer("page", {"create", "search", "changeProject"}, {})
    \cup Offer("NewServiceDialog", {"closeAdd"}, {}) \cup Offer("EditAppDialog", {"closeEdit"}, {})

ApplicationList_search == Act("page", Reload({"getApplications"}))

CardContent_offers == Offer("page", {"edit", "delete", "clickLabel"}, {})

CardContent_getColumns == Offer("page", {"edit", "delete", "clickLabel"}, {})

CardContent_render == Offer("page", {"clickLabel"}, {})

EditAppDialog_onSubmit ==
    Call("EditAppDialog", applicationApi2.updateApplication, {}, ApplicationList_closeEditAppDialog, {})

EditAppDialog_render == Offer("EditAppDialog", {"submitEdit", "closeEdit"}, {})

NewServiceDialog_getEnvs == Search("NewServiceDialog", envApi.getEnvs, {}, Show, Show)

NewServiceDialog_submit ==
    Call("NewServiceDialog", applicationApi1.createApplication, {"saving"}, Clear("saving") \cup Leave,
     Clear("saving"))

NewServiceDialog_render ==
    Offer("NewServiceDialog", {"submitNew"}, {"saving"})
    \cup Offer("NewServiceDialog", {"chooseProject"}, {})

ApplicationList ==
    Page([getApplications |-> ApplicationList_getApplications, getEnvs |-> ApplicationList_getEnvs,
      pickProject |-> ProjectPicker({"getApplications", "getEnvs"}),
      changeProject |-> Act("page", Reload({"getApplications", "getEnvs"})),
      delete |-> ApplicationList_onDeleteApp, search |-> ApplicationList_search,
      clickLabel |-> ApplicationList_clickLabelFilter, edit |-> ApplicationList_editAppPlan,
      create |-> Act("page", Open("NewServiceDialog")),
      closeAdd |-> ApplicationList_closeAddApplication,
      closeEdit |-> Act("EditAppDialog", ApplicationList_closeEditAppDialog),
      submitEdit |-> EditAppDialog_onSubmit, submitNew |-> NewServiceDialog_submit,
      getEnvsOfProject |-> NewServiceDialog_getEnvs,
      chooseProject |-> Act("NewServiceDialog", Reload({"getEnvsOfProject"}))],
     [page |-> {"pickProject"}, EditAppDialog |-> {},
      NewServiceDialog |-> {"getEnvsOfProject"}],
     ApplicationList_render \cup CardContent_offers \cup CardContent_getColumns
         \cup CardContent_render \cup EditAppDialog_render \cup NewServiceDialog_render, {})

-----------------------------------------------------------------------------
(* The applications of a project *)

ProjectApplications_listApplication ==
    Search("page", applicationApi1.getApplicationList, {"isLoading"}, Show \cup Clear("isLoading"),
       Clear("isLoading"))

ProjectApplications_listProjectTargets ==
    Call("page", projectApi.getProjectTargetList, {}, Show, {})

ProjectApplications_listEnvs == Call("page", envApi.getEnvs, {}, Show, {})

\* The list is read again without the filters, which stay set.
ProjectApplications_onDelete ==
    Call("page", applicationApi1.deleteApplication, {}, RunPlain({"getApplications"}), {})

ProjectApplications_closeAddApplication ==
    Act("NewServiceDialog", Close({"NewServiceDialog"}) \cup RunPlain({"getApplications"}))

ProjectApplications_closeEditAppDialog ==
    Act("EditAppDialog", ApplicationList_closeEditAppDialog)

ProjectApplications_clickLabelFilter == Act("page", Reload({"getApplications"}))

ProjectApplications_render ==
    Offer("page", {"create", "search"}, {}) \cup Offer("NewServiceDialog", {"closeAdd"}, {})
    \cup Offer("EditAppDialog", {"closeEdit"}, {})

ProjectApplications_search == Act("page", Reload({"getApplications"}))

ProjectApplications_selects == Offer("page", {"search", "create"}, {})

ProjectApplications ==
    Page([getApplications |-> ProjectApplications_listApplication,
      listProjectTargets |-> ProjectApplications_listProjectTargets,
      listEnvs |-> ProjectApplications_listEnvs, delete |-> ProjectApplications_onDelete,
      search |-> ProjectApplications_search, clickLabel |-> ProjectApplications_clickLabelFilter,
      edit |-> ApplicationList_editAppPlan, create |-> Act("page", Open("NewServiceDialog")),
      closeAdd |-> ProjectApplications_closeAddApplication,
      closeEdit |-> ProjectApplications_closeEditAppDialog,
      submitEdit |-> EditAppDialog_onSubmit, submitNew |-> NewServiceDialog_submit,
      getEnvsOfProject |-> NewServiceDialog_getEnvs],
     [page |-> {"getApplications", "listProjectTargets", "listEnvs"}, EditAppDialog |-> {},
      NewServiceDialog |-> {"getEnvsOfProject"}],
     ProjectApplications_render \cup ProjectApplications_selects \cup CardContent_offers
         \cup EditAppDialog_render \cup Offer("NewServiceDialog", {"submitNew"}, {"saving"}), {})

-----------------------------------------------------------------------------
(* The layout of an application: its header deploys it *)

ApplicationLayout_onGetApplicationDetails ==
    store_getApplicationDetail(Run({"getComponents", "getEnvbinding", "getWorkflows",
                                "getPolicies", "getAllStatus"}))

\* A link leads to another application: render() loads it.
ApplicationLayout_render == Offer("page", {"changeApplication"}, {})

Header_onDeployConfig ==
    Act("page", Run({"loadApplicationStatus"}) \cup Open("DeployConfig"))

Header_loadApplicationStatus ==
    store_getApplicationAllStatus({"loading"}, Clear("loading"))

\* Refused while a workflow runs, the deploy is offered again with force.
Header_onDeploy ==
    Call("page", applicationApi1.deployApplication, {}, Run({"onGetApplicationDetails"}) \cup Leave,
     Open("ForceRestart"))

Header_render ==
    Offer("page", {"onDeployConfig"}, {}) \cup Offer("DeployConfig", {"closeDeploy"}, {})

DeployConfig_onSubmit ==
    Act("DeployConfig", Run({"onDeploy"}) \cup Close({"DeployConfig"}))

\* A failed dry run has no answer to read, which is an error of its own.
DeployConfig_onDryRun ==
    Search("DeployConfig", applicationApi2.dryRunApplication, {"dryRunLoading"}, Show \cup Clear("dryRunLoading"),
       Show \cup Clear("dryRunLoading"))

\* The same without a workflow: the spinner is on before that is noticed.
DeployConfig_onDryRunNothing == Act("DeployConfig", Spin("dryRunLoading"))

DeployConfig_onCreateCanary ==
    Call("DeployConfig", workflowsApi.createWorkflow, {}, Run({"getWorkflows"}) \cup Leave, {})

DeployConfig_render ==
    Offer("DeployConfig", {"onDryRun", "onDryRunNothing"}, {"dryRunLoading"})
    \cup Offer("DeployConfig", {"submitDeploy", "createCanary", "chooseWorkflow"}, {})

ApplicationLayout ==
    Page([onGetApplicationDetails |-> ApplicationLayout_onGetApplicationDetails,
      getComponents |-> store_getApplicationComponents,
      getEnvbinding |-> store_getApplicationEnvbinding,
      getWorkflows |-> store_getApplicationWorkflows,
      getPolicies |-> store_getApplicationPolicies,
      getAllStatus |-> store_getApplicationAllStatus({}, {}),
      changeApplication |-> Act("page", Run({"onGetApplicationDetails"})),
      loadApplicationStatus |-> Header_loadApplicationStatus,
      onDeployConfig |-> Header_onDeployConfig, onDeploy |-> Header_onDeploy,
      force |-> Act("ForceRestart", Run({"onDeploy"}) \cup Close({"ForceRestart"})),
      dropForce |-> Act("ForceRestart", Close({"ForceRestart"})),
      closeDeploy |-> Act("DeployConfig", Close({"DeployConfig"})),
      submitDeploy |-> DeployConfig_onSubmit, onDryRun |-> DeployConfig_onDryRun,
      onDryRunNothing |-> DeployConfig_onDryRunNothing,
      chooseWorkflow |-> Act("DeployConfig", {}), createCanary |-> DeployConfig_onCreateCanary],
     [page |-> {"onGetApplicationDetails"}, DeployConfig |-> {}, ForceRestart |-> {}],
     ApplicationLayout_render \cup Header_render \cup DeployConfig_render
         \cup Offer("ForceRestart", {"force", "dropForce"}, {}), {})

-----------------------------------------------------------------------------
(* The environments of an application *)

AddAndEditEnvBind_loadEnvs == Call("AddAndEditEnvBind", envApi.getEnvs, {}, Show, {})

AddAndEditEnvBind_onSubmit(done) ==
    Call("AddAndEditEnvBind", applicationApi1.createApplicationEnvbinding, {"loading"}, done \cup Clear("loading"),
     Clear("loading"))

AddAndEditEnvBind_onOKEnvDialog ==
    Close({"EnvDialog", "TargetDialog", "Namespace"}) \cup Run({"loadEnvs"})

AddAndEditEnvBind_render ==
    Offer("AddAndEditEnvBind", {"bind"}, {"loading"})
    \cup Offer("AddAndEditEnvBind", {"openEnvDialog", "closeBind"}, {})

ApplicationEnvironments_reload ==
    Run({"getEnvbinding", "getWorkflows", "getPolicies", "getAllStatus"})

ApplicationEnvironments ==
    Page([getEnvbinding |-> store_getApplicationEnvbinding,
      getWorkflows |-> store_getApplicationWorkflows,
      getPolicies |-> store_getApplicationPolicies,
      getAllStatus |-> store_getApplicationAllStatus({}, {}),
      add |-> Act("page", Open("AddAndEditEnvBind")),
      loadEnvs |-> AddAndEditEnvBind_loadEnvs,
      bind |-> AddAndEditEnvBind_onSubmit(ApplicationEnvironments_reload
                                              \cup Close({"AddAndEditEnvBind"})),
      closeBind |-> Act("AddAndEditEnvBind", Close({"AddAndEditEnvBind"})),
      openEnvDialog |-> Act("AddAndEditEnvBind", Open("EnvDialog")),
      loadClusters |-> EnvDialog_loadClusters, loadProjectTarget |-> EnvDialog_loadProjectTarget,
      submitEnv |-> EnvDialog_onOk(AddAndEditEnvBind_onOKEnvDialog),
      closeEnv |-> EnvDialog_onClose],
     [page |-> {"getEnvbinding"}, AddAndEditEnvBind |-> {"loadEnvs"},
      EnvDialog |-> {"loadClusters", "loadProjectTarget"}],
     AddAndEditEnvBind_render \cup Offer("page", {"add"}, {})
         \cup Offer("EnvDialog", {"submitEnv"}, {"submitLoading"})
         \cup Offer("EnvDialog", {"closeEnv"}, {}), {})

-----------------------------------------------------------------------------
(* The workflows of an application *)

ApplicationWorkflowList_onDeleteWorkflow ==
    Call("page", workflowsApi.deleteWorkflow, {}, Run({"getWorkflows"}), {})

ApplicationWorkflowList_render == Offer("page", {"delete", "edit"}, {})

ApplicationWorkflowList ==
    Page([getWorkflows |-> store_getApplicationWorkflows, edit |-> Act("page", Leave),
      delete |-> ApplicationWorkflowList_onDeleteWorkflow],
     [page |-> {"getWorkflows"}], ApplicationWorkflowList_render, {})

-----------------------------------------------------------------------------
(* The revisions of an application *)

Revisions_getRevisionList == Search("page", applicationApi2.listRevisions, {}, Show, {})

Revisions_updateQuery == Act("page", Reload({"getRevisionList"}))

Revisions_showAppModel == Act("page", Open("ShowRevision"))

Revisions_render ==
    Offer("page", {"updateQuery", "showAppModel"}, {}) \cup Offer("ShowRevision", {"closeRevision"}, {})

Revisions_loadRevisionDetail ==
    Call("ShowRevision", applicationApi2.detailRevision, {}, Show, Show)

Revisions_onRollback ==
    Call("page", applicationApi2.rollbackWithRevision, {}, Leave, {})

Revisions_loadChanges ==
    Call("page", applicationApi2.compareApplication, {}, Open("ApplicationDiff"), Open("ApplicationDiff"))

Revisions_getColumns == Offer("page", {"showAppModel", "loadChanges", "onRollback"}, {})

Revisions_list == Offer("ApplicationDiff", {"closeDiff", "onRollback"}, {})

ApplicationRevisionList ==
    Page([getRevisionList |-> Revisions_getRevisionList, updateQuery |-> Revisions_updateQuery,
      showAppModel |-> Revisions_showAppModel, detailRevision |-> Revisions_loadRevisionDetail,
      onRollback |-> Revisions_onRollback, loadChanges |-> Revisions_loadChanges,
      closeRevision |-> Act("ShowRevision", Close({"ShowRevision"})),
      closeDiff |-> Act("ApplicationDiff", Close({"ApplicationDiff"}))],
     [page |-> {"getRevisionList"}, ShowRevision |-> {"detailRevision"}, ApplicationDiff |-> {}],
     Revisions_render \cup Revisions_getColumns \cup Revisions_list, {})

=============================================================================
