------------------------------ MODULE MCConsole ------------------------------
(* The pages of the web interface, for TLC. *)
EXTENDS Console, PipelinePages

\* The pages that show what the user changes there.
EditPages ==
    [Users |-> Users, Roles |-> Roles, Projects |-> Projects, ProjectMembers |-> ProjectMembers,
     ProjectRoles |-> ProjectRoles, ProjectSummary |-> ProjectSummary,
     ProjectApplications |-> ProjectApplications, ProjectPipelines |-> ProjectPipelines,
     TargetList |-> TargetList, EnvPage |-> EnvPage, Cluster |-> Cluster, Configs |-> Configs,
     PlatformSetting |-> PlatformSetting, ApplicationList |-> ApplicationList,
     ApplicationLayout |-> ApplicationLayout, ApplicationEnvironments |-> ApplicationEnvironments,
     ApplicationWorkflowList |-> ApplicationWorkflowList,
     ApplicationRevisionList |-> ApplicationRevisionList, ApplicationOverview |-> ApplicationOverview,
     ApplicationComponents |-> ApplicationComponents, ApplicationPolicies |-> ApplicationPolicies,
     ApplicationSources |-> ApplicationSources, ApplicationTriggers |-> ApplicationTriggers,
     PipelineList |-> PipelineList, PipelineStudio |-> PipelineStudio]

\* The pages that watch the cluster.
WatchPages ==
    [EnvironmentHeader |-> EnvironmentHeader, ApplicationStatus |-> ApplicationStatus,
     ApplicationStatusUndeployed |-> ApplicationStatusUndeployed,
     ApplicationGraph |-> ApplicationGraph, ApplicationInstances |-> ApplicationInstances,
     ApplicationInstancesWithoutStore |-> ApplicationInstancesWithoutStore,
     PodDetailPage |-> PodDetailPage, ApplicationLog |-> ApplicationLog,
     ApplicationWorkflowStatus |-> ApplicationWorkflowStatus, PipelineRun |-> PipelineRun,
     Addons |-> Addons, AddonsOfAddress |-> AddonsOfAddress, Plugins |-> Plugins, PluginConfig |-> PluginConfig,
     CloudShell |-> CloudShell, DefKitModules |-> DefKitModules, DefKitModule |-> DefKitModule]

AllPages == EditPages @@ WatchPages

\* A dialog is opened, used and used again: three clicks; two on the long pages, and one on
\* those that have most under way, where answers in any order leave TLC no more.
LongPages ==
    {"ApplicationComponents", "ApplicationList", "ApplicationLog", "ApplicationStatusUndeployed", "Configs",
     "EnvironmentHeader", "PlatformSetting", "ProjectApplications", "ProjectSummary", "TargetList"}
BusyPages ==
    {"Addons", "AddonsOfAddress", "ApplicationGraph", "ApplicationInstances", "ApplicationLayout",
     "ApplicationStatus", "ApplicationWorkflowStatus", "DefKitModule", "PipelineRun"}
Clicks == [p \in DOMAIN AllPages |-> IF p \in BusyPages THEN 1 ELSE IF p \in LongPages THEN 2 ELSE 3]

\* For what must happen in the end one click is enough: it opens, changes or leaves.  The
\* address of an addon opens it without one.
OneClick == [p \in DOMAIN WatchPages |-> IF p = "AddonsOfAddress" THEN 0 ELSE 1]

\* Readers whose page does not read again although what they show has changed, or was
\* asked for anew:
Stale ==
    {<<"ProjectSummary", "listConfigDistributions">>,  \* distributing a config does not re-read
     <<"Cluster", "getClusterList">>,                  \* re-read without the words searched for
     <<"ApplicationList", "getApplications">>,
     <<"ProjectApplications", "getApplications">>,
     <<"PipelineList", "getPipelines">>,
     <<"ProjectPipelines", "getPipelines">>,
     <<"PipelineList", "contexts">>,                   \* nothing waits for a clone's contexts
     <<"ProjectPipelines", "contexts">>,
     <<"ApplicationComponents", "toggle">>,            \* an open row keeps what it showed
     <<"ApplicationGraph", "resources">>,              \* not asked while another answer is due
     <<"ApplicationStatus", "getAllStatus">>,          \* only a pause re-reads it
     <<"ApplicationGraph", "getAllStatus">>,
     <<"ApplicationGraph", "flows">>,                  \* read when the graph appears
     <<"EnvironmentHeader", "getAllStatus">>,
     <<"EnvironmentHeader", "endpoints">>,             \* asked with the properties that change
     <<"ApplicationWorkflowStatus", "records">>,       \* the list of runs keeps their old state
     <<"Addons", "getEnabledAddon">>,                  \* an addon that is enabled is not re-read
     <<"Addons", "getAddonsList">>,                    \* a registry answers after its dialog
     <<"Addons", "addonDetail">>,
     <<"ApplicationComponents", "newEnv">>,            \* one dialog opts in, another has read
     <<"ApplicationComponents", "editEnv">>,
     <<"ApplicationComponents", "traitEnv">>,
     <<"PipelineList", "runs">>,                       \* not asked while an older answer is due
     <<"ProjectPipelines", "runs">>,
     <<"PipelineStudio", "contexts">>,
     <<"ApplicationStatus", "status">>,                \* an older answer comes after what was
     <<"ApplicationGraph", "status">>,                 \* filled in from a newer one
     <<"PlatformSetting", "getCustomisation">>,
     <<"Plugins", "getPluginList">>,
     <<"PluginConfig", "meta">>,
     <<"ApplicationSources", "sourceEnv">>,            \* the dialog opts in and is opened again
     <<"ApplicationStatusUndeployed", "getAllStatus">>,
     <<"ApplicationStatusUndeployed", "status">>,
     <<"ApplicationStatusUndeployed", "resources">>,   \* nothing is deployed: not read again
     <<"AddonsOfAddress", "getAddonsList">>, <<"AddonsOfAddress", "getEnabledAddon">>,
     <<"AddonsOfAddress", "addonDetail">>}

\* Readers that are asked again while an older answer is due, and use the answers in
\* whatever order they come: nothing numbers the requests, as that of the components of an
\* application does.  Each of the first is on the screen with the older answer in some state;
\* the others take more clicks for that, or are asked while the page goes.
Races ==
    {<<"Users", "listUser">>, <<"Roles", "listRoles">>, <<"Projects", "listProjects">>,
     <<"ProjectMembers", "listMember">>, <<"ProjectRoles", "listProjectRoles">>,
     <<"ProjectSummary", "listConfigs">>, <<"TargetList", "getTargetList">>,
     <<"TargetList", "loadNamespaces">>, <<"TargetList", "getProviderList">>,
     <<"EnvPage", "loadProjectTarget">>, <<"EnvPage", "getEnvList">>,
     <<"Configs", "listTemplates">>, <<"Configs", "listConfigs">>,
     <<"Configs", "onDetailTemplate">>, <<"PlatformSetting", "loadSystemInfo">>,
     <<"PlatformSetting", "loadProjectRoles">>, <<"ApplicationList", "getEnvs">>,
     <<"ApplicationList", "getEnvsOfProject">>, <<"ApplicationEnvironments", "getEnvbinding">>,
     <<"ApplicationEnvironments", "loadEnvs">>, <<"ApplicationWorkflowList", "getWorkflows">>,
     <<"ApplicationRevisionList", "getRevisionList">>,
     <<"ApplicationOverview", "onGetApplicationDetails">>,
     <<"ApplicationComponents", "onLoadApplicationComponents">>,
     <<"ApplicationPolicies", "loadApplicationPolicies">>,
     <<"ApplicationSources", "loadSources">>,
     <<"ApplicationTriggers", "onGetApplicationTrigger">>, <<"PipelineStudio", "pipeline">>,
     <<"EnvironmentHeader", "status">>, <<"ApplicationStatus", "endpoints">>,
     <<"ApplicationStatus", "resources">>, <<"ApplicationStatusUndeployed", "endpoints">>,
     <<"ApplicationGraph", "endpoints">>, <<"ApplicationInstances", "status">>,
     <<"ApplicationInstances", "listCloudResources">>, <<"ApplicationInstances", "listPods">>,
     <<"ApplicationLog", "pods">>, <<"ApplicationLog", "podDetail">>,
     <<"PipelineRun", "runBase">>, <<"Addons", "getRegistries">>, <<"DefKitModule", "detail">>,
     <<"DefKitModule", "preview">>,
     <<"AddonsOfAddress", "getRegistries">>, <<"EnvPage", "loadNamespaces">>,
     <<"ProjectSummary", "loadProjectDetail">>, <<"ApplicationLayout", "getWorkflows">>,
     <<"EnvironmentHeader", "getEnvbinding">>, <<"ApplicationStatus", "getEnvbinding">>,
     <<"ApplicationStatusUndeployed", "getEnvbinding">>,
     <<"ApplicationGraph", "getEnvbinding">>}

\* Spinners that stay on when a call fails; and what only the user ends, or another call: no
\* project is chosen yet, and the tab of the browser is hidden.
Stuck ==
    {<<"EnvPage", "targetLoading">>, <<"ApplicationEnvironments", "targetLoading">>,
     <<"ApplicationLayout", "applicationDetail">>, <<"ApplicationLayout", "loading">>,
     <<"ApplicationLayout", "dryRunLoading">>, <<"ApplicationComponents", "loading">>,
     <<"ApplicationComponents", "definitionLoading">>,
     <<"ApplicationPolicies", "createPolicyLoading">>, <<"PipelineList", "cloneLoading">>,
     <<"ProjectPipelines", "cloneLoading">>, <<"ApplicationStatus", "deployLoading">>,
     <<"ApplicationGraph", "deployLoading">>, <<"ApplicationInstances", "deployLoading">>, <<"Addons", "statusLoading">>,
     <<"AddonsOfAddress", "statusLoading">>, <<"ApplicationStatusUndeployed", "deployLoading">>,
     <<"TargetList", "unresolved">>, <<"ApplicationList", "unresolved">>, <<"PipelineList", "unresolved">>,
     <<"ApplicationStatus", "hidden">>, <<"ApplicationStatusUndeployed", "hidden">>, <<"ApplicationGraph", "hidden">>}

\* Buttons whose spinner is declared and never switched on.
Twice == {<<"Users", "submit">>, <<"Users", "reset">>, <<"ProjectMembers", "submit">>}

\* Timers that are set again without the one before being cleared, or that outlive
\* their component.
Leak ==
    {<<"ApplicationInstancesWithoutStore", "loadAppInstances">>, <<"ApplicationLog", "log">>,
     <<"PodDetailPage", "log">>, <<"Addons", "addonStatus">>, <<"AddonsOfAddress", "addonStatus">>, <<"CloudShell", "prepare">>}

=============================================================================
