----------------------------- MODULE AdminPages -----------------------------
(***************************************************************************)
(* The administration pages: users, roles, projects and their members, targets, *)
(* environments, clusters, configurations and the platform's settings.     *)
(***************************************************************************)
EXTENDS Api

-----------------------------------------------------------------------------
(* Users *)

Users_listUser ==
    Search("page", usersApi.getUserList, {"isLoading"}, Show \cup Clear("isLoading"), Clear("isLoading"))

Users_listRoles == Call("page", rolesApi.getRoleList, {}, Show, Show)

\* handleChangName, handleChangAlias and handleChangEmail
Users_search == Act("page", Reload({"listUser"}))

Users_onCreate == Close({"CreateUser"}) \cup Run({"listUser"})

Users_onResetPassWord == Close({"ResetPassword"}) \cup Run({"listUser"})

Users_onChangeStatus ==
    Call("page", usersApi.changeUserEnable, {}, Run({"listUser"}), {})

Users_onDelete == Call("page", usersApi.deleteUser, {}, Run({"listUser"}), {})

Users_onClose == Act("CreateUser", Close({"CreateUser"}))

Users_onResetPassWordClose == Act("ResetPassword", Close({"ResetPassword"}))

Users_onEditUser == Act("page", Open("CreateUser"))

Users_onEditResetPasswordUser == Act("page", Open("ResetPassword"))

Users_handleClickCreate == Act("page", Open("CreateUser"))

Users_handleChange == Act("page", Reload({"listUser"}))

Users_columns == Offer("page", {"resetPassword", "edit", "changeStatus", "delete"}, {})

Users_render ==
    Offer("page", {"create", "search", "turn"}, {})
    \cup Offer("CreateUser", {"close"}, {}) \cup Offer("ResetPassword", {"closeReset"}, {})

SelectSearch_render == Offer("page", {"search"}, {})

CreateUser_onCreate == Call("CreateUser", usersApi.createUser, {}, Users_onCreate, {})

CreateUser_showClickButtons == Offer("CreateUser", {"submit"}, {"loading"})

\* The dialog's fields and its close button.
CreateUser_render == Offer("CreateUser", {"close"}, {})

ResetPassword_onCreate ==
    Call("ResetPassword", usersApi.updateUser, {}, Users_onResetPassWord, {})

ResetPassword_showClickButtons == Offer("ResetPassword", {"reset"}, {"loading"})

Users ==
    Page([listUser |-> Users_listUser, listRoles |-> Users_listRoles,
      getLoginType |-> Call("page", authenticationApi.getLoginType, {}, Show, Show),
      search |-> Users_search, turn |-> Users_handleChange,
      changeStatus |-> Users_onChangeStatus, delete |-> Users_onDelete,
      edit |-> Users_onEditUser, resetPassword |-> Users_onEditResetPasswordUser,
      create |-> Users_handleClickCreate, close |-> Users_onClose,
      closeReset |-> Users_onResetPassWordClose,
      submit |-> CreateUser_onCreate, reset |-> ResetPassword_onCreate],
     [page |-> {"listUser", "listRoles", "getLoginType"},
      CreateUser |-> {}, ResetPassword |-> {}],
     Users_columns \cup Users_render \cup SelectSearch_render \cup CreateUser_render
         \cup CreateUser_showClickButtons \cup ResetPassword_showClickButtons, {})

-----------------------------------------------------------------------------
(* Roles *)

Roles_listRoles ==
    Search("page", rolesApi.getRoleList, {"isLoading"}, Show \cup Clear("isLoading"), Clear("isLoading"))

Roles_listPermissions == Call("page", rbacApi.getPlatformPermissions, {}, Show, Show)

Roles_onEdit == Act("page", Open("RolesDialog"))

Roles_onDelete == Call("page", rolesApi.deleteRole, {}, Run({"listRoles"}), {})

Roles_onCreate == Close({"RolesDialog"}) \cup Run({"listRoles"})

Roles_onCloseCreate == Act("RolesDialog", Close({"RolesDialog"}))

Roles_handleClickCreate == Act("page", Open("RolesDialog"))

Roles_handleChange == Act("page", Reload({"listRoles"}))

Roles_render == Offer("page", {"edit", "delete", "create", "turn"}, {})

RolesDialog_onCreate ==
    Call("RolesDialog", rolesApi.createRole, {"loading"}, Clear("loading") \cup Roles_onCreate,
     Clear("loading"))

RolesDialog_render ==
    Offer("RolesDialog", {"submit"}, {"loading"}) \cup Offer("RolesDialog", {"close"}, {})

Roles ==
    Page([listRoles |-> Roles_listRoles, listPermissions |-> Roles_listPermissions,
      edit |-> Roles_onEdit, delete |-> Roles_onDelete, create |-> Roles_handleClickCreate,
      turn |-> Roles_handleChange, submit |-> RolesDialog_onCreate,
      close |-> Roles_onCloseCreate],
     [page |-> {"listRoles", "listPermissions"}, RolesDialog |-> {}],
     Roles_render \cup RolesDialog_render, {})

-----------------------------------------------------------------------------
(* Projects *)

Projects_listProjects ==
    Search("page", projectApi.getProjectList, {"isLoading"}, Show \cup Clear("isLoading"),
       Clear("isLoading"))

Projects_listUser == Call("page", usersApi.getUserList, {}, Show, Show)

Projects_onEdit == Act("page", Open("CreateProjectDialog"))

\* The projects of the user, in the store.
Projects_onUpdateUserInfo == Run({"getLoginUserInfo"})

Projects_onDelete ==
    Call("page", projectApi.deleteProject, {}, Run({"listProjects"}) \cup Projects_onUpdateUserInfo, {})

Projects_onCreate ==
    Close({"CreateProjectDialog"}) \cup Run({"listProjects"}) \cup Projects_onUpdateUserInfo

Projects_onCloseCreate == Act("CreateProjectDialog", Close({"CreateProjectDialog"}))

Projects_handleClickCreate == Act("page", Open("CreateProjectDialog"))

Projects_handleChange == Act("page", Reload({"listProjects"}))

Projects_render == Offer("page", {"edit", "delete", "create", "turn"}, {})

CreateProjectDialog_onCreate ==
    Call("CreateProjectDialog", projectApi.createProject, {"loading"},
     Clear("loading") \cup Projects_onCreate, Clear("loading"))

CreateProjectDialog_render ==
    Offer("CreateProjectDialog", {"submit"}, {"loading"})
    \cup Offer("CreateProjectDialog", {"close"}, {})

Projects ==
    Page([listProjects |-> Projects_listProjects, listUser |-> Projects_listUser,
      getLoginUserInfo |-> Call("page", authenticationApi.getLoginUserInfo, {}, Show, {}),
      edit |-> Projects_onEdit, delete |-> Projects_onDelete,
      create |-> Projects_handleClickCreate, turn |-> Projects_handleChange,
      submit |-> CreateProjectDialog_onCreate, close |-> Projects_onCloseCreate],
     [page |-> {"listProjects", "listUser"}, CreateProjectDialog |-> {}],
     Projects_render \cup CreateProjectDialog_render, {})

-----------------------------------------------------------------------------
(* The members of a project *)

ProjectMembers_listMember ==
    Search("page", projectApi.getProjectUsers, {"isLoading"}, Show \cup Clear("isLoading"),
       Clear("isLoading"))

\* It shares its spinner with listMember.
ProjectMembers_listProjectRoles ==
    Call("page", projectApi.getProjectRoles, {"isLoading"}, Show \cup Clear("isLoading"),
     Clear("isLoading"))

ProjectMembers_onCreate == Close({"MemberDialog"}) \cup Run({"listMember"})

ProjectMembers_onDelete ==
    Call("page", projectApi.deleteProjectUser, {}, Run({"listMember"}), {})

ProjectMembers_onClose == Act("MemberDialog", Close({"MemberDialog"}))

ProjectMembers_onEditMember == Act("page", Open("MemberDialog"))

ProjectMembers_handleClickCreate == Act("page", Open("MemberDialog"))

ProjectMembers_handleChange == Act("page", Reload({"listMember"}))

ProjectMembers_render == Offer("page", {"edit", "delete", "create", "turn"}, {})

MemberDialog_onCreate ==
    Call("MemberDialog", projectApi.createProjectUsers, {}, ProjectMembers_onCreate, {})

MemberDialog_showClickButtons == Offer("MemberDialog", {"submit"}, {"loading"})

MemberDialog_render == Offer("MemberDialog", {"close"}, {})

ProjectMembers ==
    Page([listMember |-> ProjectMembers_listMember,
      listProjectRoles |-> ProjectMembers_listProjectRoles,
      edit |-> ProjectMembers_onEditMember, delete |-> ProjectMembers_onDelete,
      create |-> ProjectMembers_handleClickCreate, turn |-> ProjectMembers_handleChange,
      submit |-> MemberDialog_onCreate, close |-> ProjectMembers_onClose],
     [page |-> {"listMember", "listProjectRoles"}, MemberDialog |-> {}],
     ProjectMembers_render \cup MemberDialog_showClickButtons \cup MemberDialog_render, {})

-----------------------------------------------------------------------------
(* The roles of a project *)

ProjectRoles_listProjectRoles ==
    Call("page", projectApi.getProjectRoles, {"isLoading"}, Show \cup Clear("isLoading"),
     Clear("isLoading"))

ProjectRoles_listProjectPermPolicies ==
    Call("page", projectApi.getProjectPermissions, {}, Show, Show)

ProjectRoles_addRole == Act("page", {})

ProjectRoles_handleChangeRole == Act("page", {})

ProjectRoles_onCreate == Run({"listProjectRoles"})

ProjectRoles_onDeleteProjectRole ==
    Call("page", projectApi.deleteProjectRoles, {}, Run({"listProjectRoles"}), {})

ProjectRoles_render == Offer("page", {"addRole", "changeRole", "delete"}, {})

ProjectPermPoliciesDetail_onSubmit ==
    Call("page", projectApi.createProjectRoles, {"loading"}, Clear("loading") \cup ProjectRoles_onCreate,
     Clear("loading"))

\* The spinner covers the form, its button stays offered.
ProjectPermPoliciesDetail_render == Offer("page", {"submit"}, {})

Menu_render == Offer("page", {"changeRole", "addRole"}, {})

ProjectRoles ==
    Page([listProjectRoles |-> ProjectRoles_listProjectRoles,
      listProjectPermPolicies |-> ProjectRoles_listProjectPermPolicies,
      addRole |-> ProjectRoles_addRole, changeRole |-> ProjectRoles_handleChangeRole,
      delete |-> ProjectRoles_onDeleteProjectRole,
      submit |-> ProjectPermPoliciesDetail_onSubmit],
     [page |-> {"listProjectRoles", "listProjectPermPolicies"}],
     ProjectRoles_render \cup Menu_render \cup ProjectPermPoliciesDetail_render, {})

-----------------------------------------------------------------------------
(* Targets *)

\* The project is picked once the user is known; a page then lists what is in it, and
\* nothing before.  Where the user is known already this answer comes first.
ProjectPicker(lists) ==
    Call("page", authenticationApi.getLoginUserInfo, {"unresolved"}, Clear("unresolved") \cup Run(lists), {})

TargetList_getTargetList ==
    Unless("unresolved", Search("page", targetApi.getTarget, {}, Show, Show))

TargetList_getClusterList == Call("page", clusterApi.getClusterList, {}, Show, Show)

TargetList_updateTargetList == Reload({"getTargetList"})

\* Shared by List.onEdit; the dialog then loads what the target refers to.
TargetList_changeISEdit ==
    Act("page", Open("TargetDialog") \cup Run({"loadNamespaces", "getProviderList"}))

TargetList_onClose == Act("TargetDialog", Close({"TargetDialog", "Namespace"}))

TargetList_onOk == Run({"getTargetList"})

TargetList_handleChange == Act("page", Reload({"getTargetList"}))

TargetList_render ==
    Offer("page", {"create", "turn"}, {}) \cup Offer("TargetDialog", {"close"}, {})

TargetList_onDelete ==
    Call("page", targetApi.deleteTarget, {}, TargetList_updateTargetList, {})

TargetList_getColumns == Offer("page", {"edit", "delete"}, {})

\* Field.onChange: another cluster has other namespaces.
TargetDialog_changeCluster == Act("TargetDialog", Reload({"loadNamespaces"}))

TargetDialog_listProjects ==
    Call("TargetDialog", projectApi.getProjectList, {"isLoading"}, Show \cup Clear("isLoading"),
     Clear("isLoading"))

\* done: what the surface below does when the target is written.
TargetDialog_onOk(done) ==
    Call("TargetDialog", targetApi.createTarget, {}, done \cup Close({"TargetDialog", "Namespace"}), {})

TargetDialog_loadNamespaces ==
    Search("TargetDialog", observationApi1.listNamespaces, {}, Show, {})

TargetDialog_getProviderList ==
    Search("TargetDialog", projectApi.getCloudServiceProviderList, {}, Show, Show)

TargetDialog_render ==
    Offer("TargetDialog", {"changeCluster", "changeProject", "openNamespace"}, {})

TargetDialog_buttons == Offer("TargetDialog", {"submit"}, {})

TargetDialog_mount == {"listProjects"}

Namespace_openNamespaceInput == Act("TargetDialog", Open("Namespace"))

\* The namespace is chosen whatever was answered.
Namespace_createNamespace ==
    Call("Namespace", clusterApi.createClusterNamespace, {"loading"},
     Clear("loading") \cup Close({"Namespace"}) \cup Run({"loadNamespaces"}),
     Clear("loading") \cup Close({"Namespace"}))

Namespace_onClose == Act("Namespace", Close({"Namespace"}))

Namespace_render == Offer("Namespace", {"createNamespace", "closeNamespace"}, {})

TargetList ==
    Page([getTargetList |-> TargetList_getTargetList, getClusterList |-> TargetList_getClusterList,
      pickProject |-> ProjectPicker({"getTargetList"}),
      create |-> Act("page", Open("TargetDialog")), edit |-> TargetList_changeISEdit,
      changeProjectOfPage |-> Act("page", Reload({"getTargetList"})),
      delete |-> TargetList_onDelete, turn |-> TargetList_handleChange,
      close |-> TargetList_onClose, changeCluster |-> TargetDialog_changeCluster,
      changeProject |-> Act("TargetDialog", Reload({"getProviderList"})),
      listProjects |-> TargetDialog_listProjects, submit |-> TargetDialog_onOk(TargetList_onOk),
      loadNamespaces |-> TargetDialog_loadNamespaces,
      getProviderList |-> TargetDialog_getProviderList,
      openNamespace |-> Namespace_openNamespaceInput,
      createNamespace |-> Namespace_createNamespace, closeNamespace |-> Namespace_onClose],
     [page |-> {"pickProject", "getClusterList"}, TargetDialog |-> TargetDialog_mount,
      Namespace |-> {}],
     TargetList_render \cup TargetList_getColumns \cup TargetDialog_render
         \cup TargetDialog_buttons \cup Namespace_render
         \cup Offer("page", {"changeProjectOfPage"}, {}), {})

-----------------------------------------------------------------------------
(* Environments *)

EnvPage_getEnvList == Search("page", envApi.getEnvs, {}, Show, Show)

EnvPage_updateEnvList == Reload({"getEnvList"})

EnvPage_changeISEdit == Act("page", Open("EnvDialog"))

EnvPage_onClose == Close({"EnvDialog", "TargetDialog", "Namespace"})

EnvPage_onOk == Run({"getEnvList"})

EnvPage_handleChange == Act("page", Reload({"getEnvList"}))

EnvPage_render == Offer("page", {"edit", "turn", "changeProjectOfPage"}, {})

EnvPage_onDelete == Call("page", envApi.deleteEnv, {}, EnvPage_updateEnvList, {})

EnvPage_getColumns == Offer("page", {"edit", "delete"}, {})

EnvDialog_loadClusters == Call("EnvDialog", clusterApi.getClusterList, {}, Show, {})

EnvDialog_onClose == Act("EnvDialog", Close({"EnvDialog", "TargetDialog", "Namespace"}))

\* The spinner stays on when the call fails.
EnvDialog_loadProjectTarget ==
    Search("EnvDialog", projectApi.getProjectTargetList, {"targetLoading"},
       Show \cup Clear("targetLoading"), {})

EnvDialog_onOk(done) ==
    Call("EnvDialog", envApi.createEnv, {"submitLoading"}, Clear("submitLoading") \cup done,
     Clear("submitLoading"))

EnvDialog_showNewTarget == Act("EnvDialog", Open("TargetDialog"))

EnvDialog_render ==
    Offer("EnvDialog", {"submit"}, {"submitLoading"})
    \cup Offer("EnvDialog", {"close", "changeProjectOfEnv"}, {})

EnvDialog_targets ==
    Offer("EnvDialog", {"showNewTarget"}, {}) \cup Offer("TargetDialog", {"closeTarget"}, {})

\* The dialog for a new target is done.
EnvDialog_onTarget ==
    Run({"loadProjectTarget"}) \cup Close({"TargetDialog", "Namespace"})

EnvPage ==
    Page([getEnvList |-> EnvPage_getEnvList, edit |-> EnvPage_changeISEdit,
      delete |-> EnvPage_onDelete, turn |-> EnvPage_handleChange,
      changeProjectOfPage |-> Act("page", Reload({"getEnvList"})),
      close |-> EnvDialog_onClose, loadClusters |-> EnvDialog_loadClusters,
      loadProjectTarget |-> EnvDialog_loadProjectTarget, submit |-> EnvDialog_onOk(EnvPage_onOk \cup EnvPage_onClose),
      changeProjectOfEnv |-> Act("EnvDialog", Reload({"loadProjectTarget"})),
      showNewTarget |-> EnvDialog_showNewTarget, closeTarget |-> TargetList_onClose,
      listProjects |-> TargetDialog_listProjects,
      submitTarget |-> TargetDialog_onOk(EnvDialog_onTarget),
      loadNamespaces |-> TargetDialog_loadNamespaces,
      changeCluster |-> TargetDialog_changeCluster],
     [page |-> {"getEnvList"}, EnvDialog |-> {"loadClusters", "loadProjectTarget"},
      TargetDialog |-> TargetDialog_mount, Namespace |-> {}],
     EnvPage_render \cup EnvPage_getColumns \cup EnvDialog_render \cup EnvDialog_targets
         \cup Offer("TargetDialog", {"submitTarget", "changeCluster"}, {}), {})

-----------------------------------------------------------------------------
(* Clusters *)

Cluster_getClusterList == Search("page", clusterApi.getClusterList, {}, Show, {})

Cluster_query == Act("page", Reload({"getClusterList"}))

Cluster_onDeleteCluster ==
    Call("page", clusterApi.deleteCluster, {}, Run({"getClusterList"}), {})

\* A failed call has no enabledAddons to hand on: the promise is rejected.
Cluster_onGetEnabledAddon ==
    Call("page", addonsApi.getEnabledAddons, {}, Run({"onGetAddonsList"}), {})

Cluster_onGetAddonsList == Call("page", addonsApi.getAddonsList, {}, Show, {})

Cluster_render == Offer("page", {"addCluster", "addCloudCluster", "query"}, {})

Cluster_closeCloud == Run({"getClusterList"}) \cup Close({"CloudServiceDialog"})

Cluster_closeAdd == Run({"getClusterList"}) \cup Close({"AddClusterDialog"})

CloudServiceDialog_onClose == Act("CloudServiceDialog", Cluster_closeCloud)

CloudServiceDialog_onOk ==
    Search("CloudServiceDialog", clusterApi.getCloudClustersList, {"btnLoading"},
       Show \cup Clear("btnLoading") \cup Run({"onGetEnabledAddon"}), Clear("btnLoading"))

CloudServiceDialog_connectCloudCluster ==
    Call("CloudServiceDialog", clusterApi.connectcloudCluster, {}, {}, {})

CloudServiceDialog_handleChange ==
    Search("CloudServiceDialog", clusterApi.getCloudClustersList, {"tableLoading"},
       Show \cup Clear("tableLoading"), Clear("tableLoading"))

CloudServiceDialog_columns == Offer("CloudServiceDialog", {"connectCloudCluster"}, {})

CloudServiceDialog_render ==
    Offer("CloudServiceDialog", {"onOk"}, {"btnLoading"})
    \cup Offer("CloudServiceDialog", {"closeCloud", "handleChange"}, {})

AddClusterDialog_loadClusterDetail ==
    Call("AddClusterDialog", clusterApi.getClusterDetails, {}, FillForm, FillForm)

AddClusterDialog_onClose == Act("AddClusterDialog", Cluster_closeAdd)

AddClusterDialog_onOk ==
    Call("AddClusterDialog", clusterApi.createCluster, {}, Cluster_closeAdd \cup Run({"onGetEnabledAddon"}), {})

AddClusterDialog_render == Offer("AddClusterDialog", {"submit", "closeAdd"}, {})

CardContent_actions == Offer("page", {"editCluster", "deleteCluster"}, {})

ClusterSelectSearch_render == Offer("page", {"query"}, {})

Cluster ==
    Page([getClusterList |-> Cluster_getClusterList, query |-> Cluster_query,
      deleteCluster |-> Cluster_onDeleteCluster,
      onGetEnabledAddon |-> Cluster_onGetEnabledAddon,
      onGetAddonsList |-> Cluster_onGetAddonsList,
      addCluster |-> Act("page", Open("AddClusterDialog")),
      editCluster |-> Act("page", Open("AddClusterDialog") \cup Run({"loadClusterDetail"})),
      addCloudCluster |-> Act("page", Open("CloudServiceDialog")),
      closeCloud |-> CloudServiceDialog_onClose, onOk |-> CloudServiceDialog_onOk,
      handleChange |-> CloudServiceDialog_handleChange,
      connectCloudCluster |-> CloudServiceDialog_connectCloudCluster,
      loadClusterDetail |-> AddClusterDialog_loadClusterDetail,
      submit |-> AddClusterDialog_onOk, closeAdd |-> AddClusterDialog_onClose],
     [page |-> {"getClusterList"}, CloudServiceDialog |-> {}, AddClusterDialog |-> {}],
     Cluster_render \cup CardContent_actions \cup ClusterSelectSearch_render
         \cup CloudServiceDialog_columns \cup CloudServiceDialog_render
         \cup AddClusterDialog_render, {})

-----------------------------------------------------------------------------
(* Configurations *)

Configs_load == Run({"listConfigs", "listTemplates"})

Configs_listConfigs ==
    Search("page", configApi.getConfigs, {"isLoading"}, Show \cup Clear("isLoading"),
       Show \cup Clear("isLoading"))

Configs_onDelete == Call("page", configApi.deleteConfig, {}, Run({"listConfigs"}), {})

Configs_onSuccess == Close({"CreateConfigDialog"}) \cup Run({"listConfigs"})

Configs_columns == Offer("page", {"openConfig", "distribute", "delete"}, {})

Configs_render ==
    Offer("page", {"createConfig", "refresh"}, {}) \cup Offer("CreateConfigDialog", {"close"}, {})
    \cup Offer("DistributeConfigDialog", {"closeDistribution"}, {})

CreateConfigDialog_loadTemplates ==
    Call("CreateConfigDialog", configApi.listTemplates, {}, Show, Show)

CreateConfigDialog_onDetailConfig ==
    Call("CreateConfigDialog", configApi.detailConfig, {}, FillForm \cup Run({"onDetailTemplate"}), {})

CreateConfigDialog_onDetailTemplate ==
    Search("CreateConfigDialog", configApi.detailTemplate, {"templateLoading"},
       Show \cup Clear("templateLoading"), Clear("templateLoading"))

CreateConfigDialog_onCreate(done) ==
    Call("CreateConfigDialog", configApi.createConfig, {"createLoading"}, done \cup Clear("createLoading"),
     Clear("createLoading"))

CreateConfigDialog_onUpdate(done) ==
    Call("CreateConfigDialog", configApi.updateConfig, {"createLoading"}, done \cup Clear("createLoading"),
     Clear("createLoading"))

CreateConfigDialog_buttons ==
    Offer("CreateConfigDialog", {"create", "update"}, {"createLoading"})

CreateConfigDialog_render == Offer("CreateConfigDialog", {"chooseTemplate"}, {})

DistributeConfigDialog_loadTargets ==
    Call("DistributeConfigDialog", projectApi.getProjectTargetList, {}, Show, Show)

\* Done whatever was answered.
DistributeConfigDialog_onOk(done) ==
    Call("DistributeConfigDialog", configApi.applyProjectConfigDistribution, {}, done, done)

DistributeConfigDialog_render ==
    Offer("DistributeConfigDialog", {"distributeConfig"}, {})

Configs_onDistributed == Close({"DistributeConfigDialog"}) \cup Run({"listConfigs"})

Configs ==
    Page([listConfigs |-> Configs_listConfigs,
      listTemplates |-> Search("page", configApi.listTemplates, {}, Show, Show),
      changeProject |-> Act("page", Requery({"listConfigs", "listTemplates"}) \cup Configs_load),
      refresh |-> Act("page", Run({"listConfigs"})), delete |-> Configs_onDelete,
      createConfig |-> Act("page", Open("CreateConfigDialog") \cup Run({"loadTemplates"})),
      openConfig |-> Act("page", Open("CreateConfigDialog") \cup Run({"onDetailConfig"})),
      distribute |-> Act("page", Open("DistributeConfigDialog")),
      loadTemplates |-> CreateConfigDialog_loadTemplates,
      onDetailConfig |-> CreateConfigDialog_onDetailConfig,
      onDetailTemplate |-> CreateConfigDialog_onDetailTemplate,
      chooseTemplate |-> Act("CreateConfigDialog", Reload({"onDetailTemplate"})),
      create |-> CreateConfigDialog_onCreate(Configs_onSuccess),
      update |-> CreateConfigDialog_onUpdate(Configs_onSuccess),
      close |-> Act("CreateConfigDialog", Close({"CreateConfigDialog"})),
      loadTargets |-> DistributeConfigDialog_loadTargets,
      distributeConfig |-> DistributeConfigDialog_onOk(Configs_onDistributed),
      closeDistribution |-> Act("DistributeConfigDialog", Close({"DistributeConfigDialog"}))],
     [page |-> {"listConfigs", "listTemplates"}, CreateConfigDialog |-> {},
      DistributeConfigDialog |-> {"loadTargets"}],
     Configs_columns \cup Configs_render \cup CreateConfigDialog_buttons
         \cup CreateConfigDialog_render \cup DistributeConfigDialog_render
         \cup Offer("page", {"changeProject"}, {}), {})

-----------------------------------------------------------------------------
(* The settings of the platform *)

PlatformSetting_onGetDexConfig ==
    Call("page", authenticationApi.getDexConfig, {}, Show, {})

PlatformSetting_loadSystemInfo ==
    Call("page", systemConfigApi.loadSystemInfo, {}, Show \cup FillForm, {})

\* What the server refuses may open a guide to the page that mends it.
PlatformSetting_onUpdate ==
    Call("page", systemConfigApi.updateSystemInfo, {}, Run({"loadSystemInfo"}), Open("Guide"))

PlatformSetting_guides == Offer("Guide", {"onOKGuide", "closeGuide"}, {})

PlatformSetting_onOKGuide == Act("Guide", Close({"Guide"}) \cup Leave)

PlatformSetting_listProjects == Call("page", projectApi.getProjectList, {}, Show, {})

PlatformSetting_loadProjectRoles ==
    Search("page", projectApi.getProjectRoles, {}, Show, {})

PlatformSetting_render == Offer("page", {"onUpdate", "chooseProject"}, {})

Customisation_mount == Call("page", customisationApi.getCustomisation, {}, Show, {})

\* load, setTerm, save and onSave: what was saved is loaded into the form.
Customisation_save ==
    Call("page", customisationApi.updateCustomisation, {"saving"}, Clear("saving") \cup Fill({"getCustomisation"}),
     Clear("saving"))

Customisation_render == Offer("page", {"save"}, {"saving"})

PlatformSetting ==
    Page([getDexConfig |-> PlatformSetting_onGetDexConfig,
      loadSystemInfo |-> PlatformSetting_loadSystemInfo,
      listProjects |-> PlatformSetting_listProjects,
      loadProjectRoles |-> PlatformSetting_loadProjectRoles,
      chooseProject |-> Act("page", Reload({"loadProjectRoles"})),
      onUpdate |-> PlatformSetting_onUpdate, onOKGuide |-> PlatformSetting_onOKGuide,
      closeGuide |-> Act("Guide", Close({"Guide"})),
      getCustomisation |-> Customisation_mount, save |-> Customisation_save],
     [page |-> {"loadSystemInfo", "listProjects", "getDexConfig", "getCustomisation"},
      Guide |-> {}],
     PlatformSetting_render \cup PlatformSetting_guides \cup Customisation_render, {})

-----------------------------------------------------------------------------
(* The summary of a project *)

ConfigDistribution_list ==
    Search("page", configApi.getProjectConfigDistributions, {"distributionsLoading"},
       Show \cup Clear("distributionsLoading"), Show \cup Clear("distributionsLoading"))

ConfigDistribution_onDelete ==
    Call("page", configApi.deleteProjectConfigDistribution, {}, Run({"listConfigDistributions"}), {})

ConfigDistribution_render ==
    Offer("page", {"deleteDistribution", "refreshDistributions"}, {})

\* A failed call has no configs: the promise is rejected, after the spinner.
ProjectConfigs_listConfigs ==
    Search("page", configApi.getProjectConfigs, {"configsLoading"}, Show \cup Clear("configsLoading"),
       Clear("configsLoading"))

ProjectConfigs_onDelete ==
    Call("page", configApi.deleteConfig, {}, Run({"listConfigs"}), {})

ProjectConfigs_render ==
    Offer("page", {"openConfig", "delete", "distribute", "refresh"}, {})

ProjectConfigs_dialogs ==
    Offer("CreateConfigDialog", {"close"}, {}) \cup Offer("DistributeConfigDialog", {"closeDistribution"}, {})

ProjectConfigs_onSuccess == Close({"CreateConfigDialog"}) \cup Run({"listConfigs"})

ProjectTargets_loadTargets ==
    Search("page", projectApi.getProjectTargetList, {"targetsLoading"}, Show \cup Clear("targetsLoading"),
       Show \cup Clear("targetsLoading"))

General_onUpdateGeneral == Close({"GeneralDialog"}) \cup Run({"loadProjectDetail"})

General_render ==
    Offer("page", {"editGeneral"}, {}) \cup Offer("GeneralDialog", {"closeGeneral"}, {})

GeneralDialog_onUpdateGeneral ==
    Call("GeneralDialog", projectApi.updateProject, {"loading"}, Clear("loading") \cup General_onUpdateGeneral,
     Clear("loading"))

GeneralDialog_render == Offer("GeneralDialog", {"updateGeneral"}, {"loading"})

ProjectSummary ==
    Page([listConfigDistributions |-> ConfigDistribution_list,
      deleteDistribution |-> ConfigDistribution_onDelete,
      refreshDistributions |-> Act("page", Run({"listConfigDistributions"})),
      listConfigs |-> ProjectConfigs_listConfigs, delete |-> ProjectConfigs_onDelete,
      refresh |-> Act("page", Run({"listConfigs"})),
      openConfig |-> Act("page", Open("CreateConfigDialog") \cup Run({"onDetailConfig"})),
      distribute |-> Act("page", Open("DistributeConfigDialog")),
      onDetailConfig |-> CreateConfigDialog_onDetailConfig,
      onDetailTemplate |-> CreateConfigDialog_onDetailTemplate,
      create |-> CreateConfigDialog_onCreate(ProjectConfigs_onSuccess),
      update |-> CreateConfigDialog_onUpdate(ProjectConfigs_onSuccess),
      close |-> Act("CreateConfigDialog", Close({"CreateConfigDialog"})),
      loadTargetsOfProject |-> DistributeConfigDialog_loadTargets,
      distributeConfig |-> DistributeConfigDialog_onOk(Configs_onDistributed),
      closeDistribution |-> Act("DistributeConfigDialog", Close({"DistributeConfigDialog"})),
      loadTargets |-> ProjectTargets_loadTargets,
      loadProjectDetail |-> Call("page", projectApi.getProjectDetail, {}, Show, {}),
      editGeneral |-> Act("page", Open("GeneralDialog")),
      closeGeneral |-> Act("GeneralDialog", Close({"GeneralDialog"})),
      updateGeneral |-> GeneralDialog_onUpdateGeneral],
     [page |-> {"listConfigDistributions", "listConfigs", "loadTargets"},
      CreateConfigDialog |-> {}, DistributeConfigDialog |-> {"loadTargetsOfProject"},
      GeneralDialog |-> {}],
     ConfigDistribution_render \cup ProjectConfigs_render \cup ProjectConfigs_dialogs
         \cup CreateConfigDialog_buttons \cup DistributeConfigDialog_render \cup General_render
         \cup GeneralDialog_render, {})

=============================================================================
